-------------------------------- MODULE Grid --------------------------------
(***************************************************************************)
(* The data grid of the single page application                            *)
(* (internal/web/spa/src/components/tabs/GridTab.tsx) over one table of    *)
(* the target database: paging and reloading, inline edits, deletes and    *)
(* inserts, committed one by one or queued and committed as a transaction. *)
(*                                                                         *)
(* Rows are shown, selected, edited and queued by their index on the page; *)
(* statements name them by primary key.  Responses arrive in any order,    *)
(* and others change the table meanwhile.                                  *)
(***************************************************************************)
EXTENDS Naturals, FiniteSets, Sequences

CONSTANTS
    Keys,       \* primary keys a row of the table can have
    Queries,    \* filters and sort orders: each lists the keys it shows, in order
    PageSize,   \* rows per page
    MaxPage,    \* bound: pages the user turns to
    MaxIns,     \* bound: inserts the user queues
    None        \* no value

Indices == 1..PageSize

Views == [page : 0..MaxPage, query : Queries]

\* What a commit captures: the rows it updates and deletes, the number of its
\* inserts and the view it was sent from.
Batches == [upd : SUBSET Keys, del : SUBSET Keys, ins : 0..MaxIns, view : Views]

\* The table's rows differ, so a query shows each of them once.
ASSUME GridAssumption ==
    /\ \A q \in Queries : q \in Seq(Keys) /\ \A i, j \in DOMAIN q : q[i] = q[j] => i = j
    /\ {PageSize, MaxPage, MaxIns} \subseteq Nat
    /\ None \notin Keys \cup Nat \cup Batches

VARIABLES
    table,      \* keys of the rows in the target table
    view,       \* page, where and order of the tab
    loads,      \* views whose load is in flight
    data,       \* keys of the rows of the page loaded last
    readOnly,   \* the response said so, or the request failed
    selRows,    \* indices of the selected rows
    edit,       \* index of the row whose cell is being edited, or None
    asked,      \* what an open delete dialog asks about, or None
    txMode,     \* "auto" or "manual"
    edits,      \* indices with a queued edit (pendingEdits)
    deletes,    \* indices queued for deletion (pendingDeletes)
    inserts,    \* number of queued inserts (pendingInserts)
    commit,     \* "idle", "sent", "ask" (needConfirm) or "applied"
    batch,      \* what the commit under way has captured, or None
    \* History, for the properties only:
    aim,        \* aim[i]: the key the user saw in row i when queueing a change of it
    picked,     \* picked[i]: the key the user saw in row i when selecting it
    opened,     \* the key the user saw when opening the editor, or None
    drafts,     \* inserts queued since the queue was last cleared
    made,       \* rows inserted by commits since then, until one is unheard
    unheard     \* a commit since then was applied but its response lost

vars == <<table, view, loads, data, readOnly, selRows, edit, asked, txMode, edits,
          deletes, inserts, commit, batch, aim, picked, opened, drafts, made,
          unheard>>

viewVars == <<view, loads>>
pageVars == <<data, readOnly, selRows, picked>>
editorVars == <<edit, opened>>
queueVars == <<edits, deletes, inserts, aim, drafts>>
commitVars == <<commit, batch, made, unheard>>

NoKeys == [i \in Indices |-> None]

RowKey(i) == IF i \in DOMAIN data THEN data[i] ELSE None

RowKeys(S) == {RowKey(i) : i \in S}

\* A click lands on the grid: no dialog is open, and no cell editor is shown (a
\* click outside takes its focus away, which commits it).
Free == edit \notin DOMAIN data /\ asked = None /\ commit # "ask"

Init ==
    /\ table \in SUBSET Keys
    /\ view \in {v \in Views : v.page = 0}
    /\ loads = {view}
    /\ data = <<>>
    /\ readOnly = FALSE
    /\ selRows = {}
    /\ edit = None
    /\ asked = None
    /\ txMode = "auto"
    /\ edits = {}
    /\ deletes = {}
    /\ inserts = 0
    /\ commit = "idle"
    /\ batch = None
    /\ aim = NoKeys
    /\ picked = NoKeys
    /\ opened = None
    /\ drafts = 0
    /\ made = 0
    /\ unheard = FALSE

-----------------------------------------------------------------------------
(* Loading pages.                                                          *)

\* apiGrid: one page of the rows that the query shows, in its order: row n of
\* the page is the one that has page * PageSize + n - 1 rows before it.
Fetch(v) ==
    LET q == v.query
        shown == {j \in DOMAIN q : q[j] \in table}
        from == v.page * PageSize
        rest == IF Cardinality(shown) <= from THEN 0 ELSE Cardinality(shown) - from
    IN [n \in 1..(IF rest < PageSize THEN rest ELSE PageSize)
          |-> q[CHOOSE j \in shown : Cardinality({i \in shown : i <= j}) = from + n]]

\* Typing in the WHERE and ORDER BY fields, not applied yet.
Type(q) ==
    /\ Free
    /\ view' = [view EXCEPT !.query = q]
    /\ UNCHANGED <<table, loads, pageVars, editorVars, asked, txMode, queueVars, commitVars>>

\* Refresh, the pager, sort, setFilter and apply: load without waiting for
\* loads under way and without looking at the queue.
Turn(v) ==
    /\ Free
    /\ v.page = 0 \/ v = view \/ (v.query = view.query /\ v.page = view.page - 1)
         \/ (v.query = view.query /\ v.page = view.page + 1 /\ Len(data) = PageSize)
    /\ view' = v
    /\ loads' = loads \cup {v}
    /\ UNCHANGED <<table, pageVars, editorVars, asked, txMode, queueVars, commitVars>>

\* The editor is kept by row and column index: it stays open over a new page that
\* has the row, is hidden by one that has not, and shows the new row after that.
KeepEditor ==
    /\ edit' = edit
    /\ opened' = IF edit \in DOMAIN data' \ DOMAIN data THEN data'[edit] ELSE opened

\* Fault: the selection survives a new page.
DeliverKeepsSelection(v) ==
    /\ v \in loads
    /\ loads' = loads \ {v}
    /\ data' = Fetch(v)
    /\ readOnly' \in BOOLEAN
    /\ KeepEditor
    /\ UNCHANGED <<table, view, selRows, picked, asked, txMode, queueVars, commitVars>>

\* A load succeeds: setData, and the effect on [data] drops the selection.
\* Loads are not numbered, so the last response to arrive wins.  readOnly is what
\* the user may do by now.
Deliver(v) ==
    /\ v \in loads
    /\ loads' = loads \ {v}
    /\ data' = Fetch(v)
    /\ readOnly' \in BOOLEAN
    /\ selRows' = {}
    /\ picked' = NoKeys
    /\ KeepEditor
    /\ UNCHANGED <<table, view, asked, txMode, queueVars, commitVars>>

\* A load fails: an error in place of the rows.
DeliverFails(v) ==
    /\ v \in loads
    /\ loads' = loads \ {v}
    /\ data' = <<>>
    /\ readOnly' \in BOOLEAN
    /\ selRows' = {}
    /\ picked' = NoKeys
    /\ KeepEditor
    /\ UNCHANGED <<table, view, asked, txMode, queueVars, commitVars>>

\* rowMouseDown, rowEnter, toggleAll: any rows of the page are selected.
Select(S) ==
    /\ Free
    /\ S \subseteq DOMAIN data
    /\ selRows' = S
    /\ picked' = [i \in Indices |-> IF i \in S THEN data[i] ELSE None]
    /\ UNCHANGED <<table, viewVars, data, readOnly, editorVars, asked, txMode, queueVars,
                   commitVars>>

-----------------------------------------------------------------------------
(* Editing a cell.                                                         *)

OpenEditor(i) ==
    /\ Free
    /\ ~readOnly
    /\ i \in DOMAIN data
    /\ edit' = i
    /\ opened' = data[i]
    /\ UNCHANGED <<table, viewVars, pageVars, asked, txMode, queueVars, commitVars>>

CancelEdit ==
    /\ edit \in DOMAIN data
    /\ edit' = None
    /\ opened' = None
    /\ UNCHANGED <<table, viewVars, pageVars, asked, txMode, queueVars, commitVars>>

\* commitEdit in manual mode: queued under the index, or taken back.
QueueEdit(keep) ==
    /\ edit \in DOMAIN data
    /\ txMode = "manual"
    /\ edits' = IF keep THEN edits \cup {edit} ELSE edits \ {edit}
    /\ aim' = [aim EXCEPT ![edit] = IF keep THEN opened ELSE IF edit \in deletes THEN @ ELSE None]
    /\ edit' = None
    /\ opened' = None
    /\ UNCHANGED <<table, viewVars, pageVars, asked, txMode, deletes, inserts, drafts,
                   commitVars>>

\* commitEdit in auto mode: an UPDATE of the row now at that index, then a
\* reload.  (If the value is unchanged or the UPDATE fails: CancelEdit.)
EditNow ==
    /\ edit \in DOMAIN data
    /\ txMode = "auto"
    /\ edit' = None
    /\ opened' = None
    /\ loads' = loads \cup {view}
    /\ UNCHANGED <<table, view, pageVars, asked, txMode, queueVars, commitVars>>

-----------------------------------------------------------------------------
(* Deleting and inserting rows.                                            *)

\* deleteRowOrSel and removeRows: the selection, or the row under the pointer.
Targets(S) ==
    \/ S = selRows /\ S # {}
    \/ \E i \in DOMAIN data : S = {i} /\ (i \notin selRows \/ Cardinality(selRows) = 1)

Meant(i) == IF i \in selRows THEN picked[i] ELSE RowKey(i)

\* deleteRows in manual mode: queued, in place of edits of the same rows.
QueueDeletes(S) ==
    /\ Free
    /\ ~readOnly
    /\ txMode = "manual"
    /\ Targets(S)
    /\ deletes' = deletes \cup S
    /\ edits' = edits \ S
    /\ aim' = [i \in Indices |-> IF i \in S THEN Meant(i) ELSE aim[i]]
    /\ UNCHANGED <<table, viewVars, pageVars, editorVars, asked, txMode, inserts, drafts,
                   commitVars>>

\* deleteRows in auto mode asks first; the rows are those of the page at the
\* time of the click (the closure's), whatever is loaded while the dialog is open.
AskDelete(S) ==
    /\ Free
    /\ ~readOnly
    /\ txMode = "auto"
    /\ Targets(S)
    /\ asked' = [idx |-> S, rows |-> RowKeys(S), meant |-> {Meant(i) : i \in S}]
    /\ UNCHANGED <<table, viewVars, pageVars, editorVars, txMode, queueVars, commitVars>>

\* deleteFiltered, in either mode: every row that the typed filter matches,
\* applied or not, so the user need not have seen any of them.
AskDeleteFiltered ==
    /\ Free
    /\ ~readOnly
    /\ selRows = {}
    /\ LET shown == {view.query[i] : i \in DOMAIN view.query} IN
       /\ shown # Keys
       /\ asked' = [idx |-> {}, rows |-> shown, meant |-> {}]
    /\ UNCHANGED <<table, viewVars, pageVars, editorVars, txMode, queueVars, commitVars>>

\* Fault: the rows are looked up again when the dialog is answered.
DeleteNowLate ==
    /\ asked # None
    /\ table' = table \ (IF asked.idx = {} THEN asked.rows ELSE RowKeys(asked.idx))
    /\ asked' = None
    /\ loads' = loads \cup {view}
    /\ UNCHANGED <<view, pageVars, editorVars, txMode, queueVars, commitVars>>

\* Confirmed: execDelete, and a reload.
DeleteNow ==
    /\ asked # None
    /\ table' = table \ asked.rows
    /\ asked' = None
    /\ loads' = loads \cup {view}
    /\ UNCHANGED <<view, pageVars, editorVars, txMode, queueVars, commitVars>>

\* Declined, or the DELETE fails.
DeleteNot ==
    /\ asked # None
    /\ asked' = None
    /\ UNCHANGED <<table, viewVars, pageVars, editorVars, txMode, queueVars, commitVars>>

\* submitDraft in manual mode.  A draft row stays when the tab turns read-only.
QueueInsert ==
    /\ Free
    /\ txMode = "manual"
    /\ drafts < MaxIns
    /\ inserts' = inserts + 1
    /\ drafts' = drafts + 1
    /\ UNCHANGED <<table, viewVars, pageVars, editorVars, asked, txMode, edits, deletes, aim,
                   commitVars>>

\* submitDraft in auto mode: an INSERT, and a reload.  (If the INSERT fails,
\* because the user may no longer write for instance: no change.)
InsertNow(k) ==
    /\ Free
    /\ txMode = "auto"
    /\ k \notin table
    /\ table' = table \cup {k}
    /\ loads' = loads \cup {view}
    /\ UNCHANGED <<view, pageVars, editorVars, asked, txMode, queueVars, commitVars>>

-----------------------------------------------------------------------------
(* Transactions.                                                           *)

\* Fault: rows queued for deletion are updated as well.
EditedRowsAll == edits

\* Rows with a surviving edit.
EditedRows == edits \ deletes

PendingCount == Cardinality(EditedRows) + Cardinality(deletes) + inserts

\* Fault: the mode can be left at any time.
toggleTxAnyway ==
    /\ Free
    /\ ~readOnly
    /\ txMode' = IF txMode = "auto" THEN "manual" ELSE "auto"
    /\ UNCHANGED <<table, viewVars, pageVars, editorVars, asked, queueVars, commitVars>>

toggleTx ==
    /\ Free
    /\ ~readOnly
    /\ txMode = "manual" => PendingCount = 0
    /\ txMode' = IF txMode = "auto" THEN "manual" ELSE "auto"
    /\ UNCHANGED <<table, viewVars, pageVars, editorVars, asked, queueVars, commitVars>>

\* commitTx: the statements are built from the queue and the rows shown now.
\* (An index past the end of the page yields no runnable statement.)
CommitSend ==
    /\ Free
    /\ txMode = "manual"
    /\ commit = "idle"
    /\ PendingCount > 0
    /\ EditedRows \cup deletes \subseteq DOMAIN data
    /\ commit' = "sent"
    /\ batch' = [upd |-> RowKeys(EditedRows), del |-> RowKeys(deletes), ins |-> inserts, view |-> view]
    /\ UNCHANGED <<table, viewVars, pageVars, editorVars, asked, txMode, queueVars,
                   made, unheard>>

\* apiExecTx: { needConfirm: true }; the dialog opens ...
CommitAsk ==
    /\ commit = "sent"
    /\ commit' = "ask"
    /\ UNCHANGED <<table, viewVars, pageVars, editorVars, asked, txMode, queueVars,
                   batch, made, unheard>>

\* ... and the same statements are sent again.
CommitConfirm ==
    /\ commit = "ask"
    /\ commit' = "sent"
    /\ UNCHANGED <<table, viewVars, pageVars, editorVars, asked, txMode, queueVars,
                   batch, made, unheard>>

\* ExecScript commits the whole batch.
CommitApply(new) ==
    /\ commit = "sent"
    /\ Cardinality(new) = batch.ins
    /\ new \cap table = {}
    /\ table' = (table \ batch.del) \cup new
    /\ made' = IF unheard THEN made ELSE made + batch.ins
    /\ commit' = "applied"
    /\ UNCHANGED <<viewVars, pageVars, editorVars, asked, txMode, queueVars,
                   batch, unheard>>

\* The dialog is declined, a statement fails (everything is rolled back), or
\* the response does not arrive: the queue stays as it is.
CommitFails ==
    /\ commit # "idle"
    /\ commit' = "idle"
    /\ batch' = None
    /\ unheard' = (unheard \/ commit = "applied")
    /\ UNCHANGED <<table, viewVars, pageVars, editorVars, asked, txMode, queueVars,
                   made>>

\* clearPending
ClearPending ==
    /\ edits' = {}
    /\ deletes' = {}
    /\ inserts' = 0
    /\ edit' = None
    /\ opened' = None
    /\ aim' = NoKeys
    /\ drafts' = 0
    /\ made' = 0
    /\ unheard' = FALSE

\* Fault: queued inserts survive the commit.
CommitDoneKeepsInserts ==
    /\ commit = "applied"
    /\ commit' = "idle"
    /\ batch' = None
    /\ edits' = {}
    /\ deletes' = {}
    /\ edit' = None
    /\ opened' = None
    /\ aim' = NoKeys
    /\ drafts' = 0
    /\ made' = 0
    /\ unheard' = FALSE
    /\ loads' = loads \cup {batch.view}
    /\ UNCHANGED <<table, view, pageVars, inserts, asked, txMode>>

\* The response arrives: the queue is cleared, the page of the click reloaded.
CommitDone ==
    /\ commit = "applied"
    /\ commit' = "idle"
    /\ batch' = None
    /\ ClearPending
    /\ loads' = loads \cup {batch.view}
    /\ UNCHANGED <<table, view, pageVars, asked, txMode>>

rollbackTx ==
    /\ Free
    /\ txMode = "manual"
    /\ commit = "idle"
    /\ PendingCount > 0
    /\ ClearPending
    /\ UNCHANGED <<table, viewVars, pageVars, asked, txMode, commit, batch>>

\* Somebody else inserts or deletes a row.
OtherWrite(k) ==
    /\ table' = IF k \in table THEN table \ {k} ELSE table \cup {k}
    /\ UNCHANGED <<viewVars, pageVars, editorVars, asked, txMode, queueVars, commitVars>>

-----------------------------------------------------------------------------

PageStep ==
    \/ \E q \in Queries : Type(q)
    \/ \E v \in Views : Turn(v) \/ Deliver(v) \/ DeliverFails(v)
    \/ \E S \in SUBSET Indices : Select(S)

WriteStep ==
    \/ \E i \in Indices : OpenEditor(i)
    \/ CancelEdit
    \/ \E keep \in BOOLEAN : QueueEdit(keep)
    \/ EditNow
    \/ \E S \in SUBSET Indices : QueueDeletes(S) \/ AskDelete(S)
    \/ AskDeleteFiltered \/ DeleteNow \/ DeleteNot
    \/ QueueInsert
    \/ \E k \in Keys : InsertNow(k)

TxStep ==
    \/ toggleTx \/ CommitSend \/ CommitAsk \/ CommitConfirm \/ CommitFails
    \/ CommitDone \/ rollbackTx
    \/ \E new \in SUBSET Keys : CommitApply(new)

Next ==
    \/ PageStep
    \/ WriteStep
    \/ TxStep
    \/ \E k \in Keys : OtherWrite(k)

Spec == Init /\ [][Next]_vars

-----------------------------------------------------------------------------
(* Properties                                                              *)

\* The types of the tab's state and of the requests under way.
TypeOK ==
    /\ table \subseteq Keys
    /\ view \in Views
    /\ loads \subseteq Views
    /\ Len(data) <= PageSize /\ \A i \in DOMAIN data : data[i] \in Keys
    /\ readOnly \in BOOLEAN
    /\ selRows \subseteq DOMAIN data
    /\ edit \in Indices \cup {None}
    /\ txMode \in {"auto", "manual"}
    /\ edits \subseteq Indices
    /\ deletes \subseteq Indices
    /\ inserts \in 0..MaxIns
    /\ commit \in {"idle", "sent", "ask", "applied"}
    /\ (batch = None) <=> (commit = "idle")

\* A confirmed delete of selected rows, or of the row under the pointer, removes
\* only rows the user saw when selecting or pointing, whatever pages arrived in
\* between or behind the dialog.  (Nothing of the kind holds of deleteFiltered.)
DeletesHitConfirmed ==
    [][asked # None /\ asked' = None /\ asked.idx # {}
         => table \ table' \subseteq asked.meant]_vars

\* No transaction both updates and deletes a row: the DELETE would look for what
\* the row was before (comment in deleteRows).
NeverUpdatedAndDeleted ==
    batch # None => batch.upd \cap batch.del = {}

\* Queued inserts are made once: committing again inserts them a second time
\* only if the response to a commit that was applied got lost.
InsertedOnce == made <= drafts \/ unheard

\* Manual mode is not left with changes still queued (comment in toggleTx).
AutoMeansEmpty ==
    txMode = "auto" => edits = {} /\ deletes = {} /\ inserts = 0

\* What the comment on the queue promises: rows are never reloaded while changes
\* are queued, so the indices stay valid.
QueuedIndicesValid ==
    \A i \in edits \cup deletes : RowKey(i) = aim[i]
====
