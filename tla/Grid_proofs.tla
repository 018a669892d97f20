----------------------------- MODULE Grid_proofs -----------------------------
(***************************************************************************)
(* Proofs of the safety properties of the data grid, for any table, any    *)
(* queries, pages of any size and any number of loads under way.           *)
(***************************************************************************)
EXTENDS Grid, FiniteSetTheorems, SequenceTheorems, TLAPS

-----------------------------------------------------------------------------
(* The inductive invariant.                                                *)

\* The page: each row on it once, and selected for what it shows.
PageInv ==
    /\ table \in SUBSET Keys
    /\ view \in Views
    /\ loads \in SUBSET Views
    /\ data \in Seq(Keys) /\ Len(data) <= PageSize
    /\ \A i, j \in DOMAIN data : data[i] = data[j] => i = j
    /\ readOnly \in BOOLEAN
    /\ selRows \in SUBSET (DOMAIN data)
    /\ \A i \in selRows : picked[i] = data[i]
    /\ edit \in Indices \cup {None}

\* A delete dialog about rows of the page is about the rows the user saw.
AskInv == asked # None /\ asked.idx # {} => asked.rows = asked.meant

\* The queue: it counts every insert, and is empty in auto mode.
QueueInv ==
    /\ edits \in SUBSET Indices
    /\ deletes \in SUBSET Indices
    /\ drafts \in 0..MaxIns
    /\ inserts = drafts
    /\ txMode \in {"auto", "manual"}
    /\ txMode = "auto" => edits = {} /\ deletes = {} /\ inserts = 0

\* The commit under way: what it captured, and what commits have inserted so
\* far, while all their responses have come in.
CommitInv ==
    /\ commit \in {"idle", "sent", "ask", "applied"}
    /\ commit = "idle" => batch = None
    /\ commit # "idle" => batch \in Batches /\ batch.upd \cap batch.del = {} /\ batch.ins <= drafts
    /\ unheard \in BOOLEAN
    /\ ~unheard => made = IF commit = "applied" THEN batch.ins ELSE 0

IInv == PageInv /\ AskInv /\ QueueInv /\ CommitInv

-----------------------------------------------------------------------------
(* Pages.                                                                  *)

\* The ranks of the numbers in a finite set run from one to its size.
LEMMA Ranks ==
  ASSUME NEW S, S \subseteq Nat, IsFiniteSet(S), NEW m \in 1 .. Cardinality(S)
  PROVE  \E j \in S : Cardinality({i \in S : i <= j}) = m
  <1> DEFINE Upto(j) == {i \in S : i <= j}
             f == [j \in S |-> Cardinality(Upto(j))]
             n == Cardinality(S)
  <1>1. n \in Nat
    BY FS_CardinalityType
  <1>2. ASSUME NEW j \in S PROVE IsFiniteSet(Upto(j)) /\ Cardinality(Upto(j)) \in 1 .. n
    <2>1. Upto(j) \in SUBSET S /\ j \in Upto(j)
      OBVIOUS
    <2> HIDE DEF Upto
    <2>2. IsFiniteSet(Upto(j)) /\ Cardinality(Upto(j)) <= n
      BY <2>1, FS_Subset
    <2>3. Cardinality(Upto(j)) \in Nat /\ Cardinality(Upto(j)) # 0
      BY <2>1, <2>2, FS_CardinalityType, FS_EmptySet
    <2> QED BY <1>1, <2>2, <2>3
  <1>3. ASSUME NEW j \in S, NEW k \in S, j < k PROVE Cardinality(Upto(j)) # Cardinality(Upto(k))
    <2>1. Upto(j) \in SUBSET Upto(k) /\ k \in Upto(k) /\ k \notin Upto(j)
      <3>1. \A i \in S : i <= j => i <= k
        BY <1>3
      <3>2. k <= k /\ ~(k <= j)
        BY <1>3
      <3> QED BY <3>1, <3>2
    <2> HIDE DEF Upto
    <2> QED BY <1>2, <2>1, FS_Subset
  <1>4. f \in [S -> 1 .. n]
    BY <1>2
  <1>5. \A j, k \in S : f[j] = f[k] => j = k
    <2> SUFFICES ASSUME NEW j \in S, NEW k \in S, j # k PROVE f[j] # f[k]
      OBVIOUS
    <2>1. j < k \/ k < j
      OBVIOUS
    <2> HIDE DEF Upto
    <2> QED BY <1>3, <2>1
  <1> HIDE DEF f, n
  <1>6. f \in Injection(S, 1 .. n)
    BY <1>4, <1>5 DEF Injection, IsInjective
  <1>7. IsFiniteSet(1 .. n) /\ Cardinality(1 .. n) = n
    BY <1>1, FS_Interval
  <1>8. f \in Surjection(S, 1 .. n)
    BY <1>6, <1>7, FS_Injection DEF n
  <1>9. PICK j \in S : f[j] = m
    BY <1>8 DEF Surjection, n
  <1> QED BY <1>9 DEF f

\* A page has rows of the table's kind, not more than fit, and each once.
LEMMA Pages ==
  ASSUME NEW v \in Views, NEW d, d = Fetch(v)
  PROVE  /\ d \in Seq(Keys) /\ Len(d) <= PageSize
         /\ \A i, j \in DOMAIN d : d[i] = d[j] => i = j
  <1> DEFINE q == v.query
             shown == {j \in DOMAIN q : q[j] \in table}
             from == v.page * PageSize
             rows == Cardinality(shown)
             rest == IF rows <= from THEN 0 ELSE rows - from
             n == IF rest < PageSize THEN rest ELSE PageSize
             at(i) == CHOOSE j \in shown : Cardinality({k \in shown : k <= j}) = from + i
  <1>1. /\ q \in Seq(Keys) /\ (\A i, j \in DOMAIN q : q[i] = q[j] => i = j)
        /\ v.page \in Nat /\ PageSize \in Nat
    BY GridAssumption DEF Views
  <1>2. Len(q) \in Nat /\ DOMAIN q = 1 .. Len(q) /\ \A j \in DOMAIN q : q[j] \in Keys
    BY <1>1, LenProperties
  <1>3. shown \subseteq DOMAIN q /\ shown \subseteq Nat
    BY <1>2
  <1>4. IsFiniteSet(shown) /\ rows \in Nat
    <2>1. IsFiniteSet(DOMAIN q)
      BY <1>2, FS_Interval
    <2>2. IsFiniteSet(shown)
      BY <1>3, <2>1, FS_Subset
    <2> QED BY <2>2, FS_CardinalityType
  <1>5. from \in Nat
    BY <1>1
  <1> HIDE DEF q, shown, from
  <1>6. n \in Nat /\ n <= PageSize /\ \A i \in 1 .. n : from + i \in 1 .. rows
    BY <1>1, <1>4, <1>5
  <1>7. d = [i \in 1 .. n |-> q[at(i)]]
    BY DEF Fetch, q, shown, from
  <1> HIDE DEF n, rows, rest
  <1>8. ASSUME NEW i \in 1 .. n
        PROVE  at(i) \in shown /\ Cardinality({k \in shown : k <= at(i)}) = from + i
    <2>1. \E j \in shown : Cardinality({k \in shown : k <= j}) = from + i
      BY <1>3, <1>4, <1>6, Ranks DEF rows
    <2> QED BY <2>1
  <1> HIDE DEF at
  <1>9. d \in [1 .. n -> Keys]
    BY <1>2, <1>3, <1>7, <1>8
  <1>10. d \in Seq(Keys)
    BY <1>6, <1>9, SeqDef
  <1>11. Len(d) = n /\ DOMAIN d = 1 .. n
    BY <1>6, <1>9, <1>10, LenProperties
  <1>12. ASSUME NEW i \in 1 .. n, NEW j \in 1 .. n, d[i] = d[j] PROVE i = j
    <2>1. at(i) = at(j)
      BY <1>1, <1>3, <1>7, <1>8, <1>12
    <2>2. from + i = from + j
      BY <1>8, <2>1
    <2> QED BY <1>5, <2>2
  <1> QED BY <1>6, <1>10, <1>11, <1>12

\* The rows at given places of a page.
LEMMA Rows ==
  ASSUME PageInv
  PROVE  /\ Len(data) \in Nat /\ DOMAIN data = 1 .. Len(data) /\ DOMAIN data \subseteq Indices
         /\ \A i \in DOMAIN data : data[i] \in Keys /\ RowKey(i) = data[i]
         /\ None \notin DOMAIN data
  <1>1. data \in Seq(Keys) /\ Len(data) <= PageSize /\ PageSize \in Nat /\ None \notin Nat
    BY GridAssumption DEF PageInv
  <1>2. Len(data) \in Nat /\ DOMAIN data = 1 .. Len(data) /\ \A i \in DOMAIN data : data[i] \in Keys
    BY <1>1, LenProperties
  <1>3. DOMAIN data \subseteq Indices /\ DOMAIN data \subseteq Nat
    BY <1>1, <1>2 DEF Indices
  <1> QED BY <1>1, <1>2, <1>3 DEF RowKey

\* Nothing is queued exactly when the count is zero.
LEMMA Counts == ASSUME QueueInv, PendingCount = 0 PROVE edits = {} /\ deletes = {} /\ inserts = 0
  <1>1. IsFiniteSet(Indices)
    <2>1. PageSize \in Int /\ 1 \in Int
      BY GridAssumption
    <2> QED BY <2>1, FS_Interval DEF Indices
  <1>2. IsFiniteSet(EditedRows) /\ IsFiniteSet(deletes)
    BY <1>1, FS_Subset DEF QueueInv, EditedRows
  <1>3. Cardinality(EditedRows) \in Nat /\ Cardinality(deletes) \in Nat /\ inserts \in Nat
    <2>1. MaxIns \in Nat
      BY GridAssumption
    <2> QED BY <1>2, <2>1, FS_CardinalityType DEF QueueInv
  <1>4. Cardinality(EditedRows) = 0 /\ Cardinality(deletes) = 0 /\ inserts = 0
    BY <1>3 DEF PendingCount
  <1>5. EditedRows = {} /\ deletes = {}
    BY <1>2, <1>4, FS_EmptySet
  <1> QED BY <1>4, <1>5 DEF EditedRows

-----------------------------------------------------------------------------
(* The invariant is inductive: page by page, queue and commit.             *)

\* The actions that leave a part of the state alone keep what is known of it.
LEMMA PageSame ==
  ASSUME PageInv, UNCHANGED pageVars, table' \in SUBSET Keys, view' \in Views, loads' \in SUBSET Views,
         edit' \in Indices \cup {None}
  PROVE  PageInv'
  BY DEF PageInv, pageVars

LEMMA QueueSame == ASSUME QueueInv, UNCHANGED <<queueVars, txMode>> PROVE QueueInv'
  BY DEF QueueInv, queueVars

LEMMA CommitSame == ASSUME CommitInv, UNCHANGED commitVars, drafts <= drafts', drafts \in Nat, drafts' \in Nat PROVE CommitInv'
  <1>1. commit # "idle" => batch.ins \in Nat
    <2>1. \A n \in 0 .. MaxIns : n \in Nat
      BY GridAssumption
    <2> QED BY <2>1 DEF CommitInv, Batches
  <1> QED BY <1>1 DEF CommitInv, commitVars

LEMMA AskSame == ASSUME AskInv, UNCHANGED asked PROVE AskInv'
  BY DEF AskInv

LEMMA Drafts == ASSUME QueueInv PROVE drafts \in Nat /\ inserts \in Nat /\ drafts <= drafts
  <1>1. MaxIns \in Nat
    BY GridAssumption
  <1> QED BY <1>1 DEF QueueInv

\* The actions that only ask for a page, use the editor or the dialog, or
\* write to the table.
LEMMA Quiet ==
  ASSUME IInv, UNCHANGED <<pageVars, txMode, queueVars, commitVars>>, table' \in SUBSET Keys,
         view' \in Views, loads' \in SUBSET Views, edit' \in Indices \cup {None}, AskInv'
  PROVE  IInv'
  <1>1. PageInv' /\ QueueInv'
    BY PageSame, QueueSame DEF IInv
  <1>2. CommitInv'
    BY Drafts, CommitSame DEF IInv, queueVars
  <1> QED BY <1>1, <1>2 DEF IInv

\* A response to a load.
LEMMA DeliverKeeps == ASSUME IInv, NEW v \in Views, Deliver(v) \/ DeliverFails(v) PROVE IInv'
  <1>1. UNCHANGED <<table, view, asked, txMode, queueVars, commitVars>> /\ loads' = loads \ {v}
        /\ readOnly' \in BOOLEAN /\ selRows' = {} /\ edit' = edit
    BY DEF Deliver, DeliverFails, KeepEditor
  <1>2. /\ data' \in Seq(Keys) /\ Len(data') <= PageSize
        /\ \A i, j \in DOMAIN data' : data'[i] = data'[j] => i = j
    <2>1. CASE Deliver(v)
      BY <2>1, Pages DEF Deliver
    <2>2. CASE DeliverFails(v)
      <3>1. data' = <<>> /\ PageSize \in Nat
        BY <2>2, GridAssumption DEF DeliverFails
      <3>2. <<>> \in Seq(Keys) /\ Len(<<>>) = 0 /\ \A i, j \in DOMAIN <<>> : <<>>[i] = <<>>[j] => i = j
        OBVIOUS
      <3> QED BY <3>1, <3>2
    <2> QED BY <2>1, <2>2
  <1>3. PageInv'
    BY <1>1, <1>2 DEF IInv, PageInv
  <1>4. QueueInv' /\ AskInv'
    BY <1>1, QueueSame, AskSame DEF IInv
  <1>5. CommitInv'
    BY <1>1, Drafts, CommitSame DEF IInv, queueVars
  <1> QED BY <1>3, <1>4, <1>5 DEF IInv

\* The user turns to a page, types, or uses the editor.
LEMMA TurnKeeps ==
  ASSUME IInv,
         \/ \E q \in Queries : Type(q)
         \/ \E v \in Views : Turn(v)
         \/ \E i \in Indices : OpenEditor(i)
         \/ CancelEdit
         \/ EditNow
  PROVE  IInv'
  <1>1. UNCHANGED <<table, pageVars, asked, txMode, queueVars, commitVars>>
    BY DEF Type, Turn, OpenEditor, CancelEdit, EditNow
  <1>2. table \in SUBSET Keys /\ view \in Views /\ loads \in SUBSET Views /\ edit \in Indices \cup {None}
    BY DEF IInv, PageInv
  <1>3. view' \in Views
    BY <1>2 DEF Type, Turn, OpenEditor, CancelEdit, EditNow, viewVars, Views
  <1>4. loads' \in SUBSET Views
    BY <1>2 DEF Type, Turn, OpenEditor, CancelEdit, EditNow, viewVars
  <1>5. edit' \in Indices \cup {None}
    BY <1>2 DEF Type, Turn, OpenEditor, CancelEdit, EditNow, editorVars
  <1> QED BY <1>1, <1>2, <1>3, <1>4, <1>5, Quiet, AskSame DEF IInv

\* Rows are written one by one, by the user or by others.
LEMMA WriteKeeps ==
  ASSUME IInv, \/ \E k \in Keys : InsertNow(k) \/ OtherWrite(k)
               \/ DeleteNow \/ DeleteNot
  PROVE  IInv'
  <1>1. UNCHANGED <<pageVars, editorVars, txMode, queueVars, commitVars>> /\ view' = view
    BY DEF InsertNow, OtherWrite, DeleteNow, DeleteNot, viewVars
  <1>2. table \in SUBSET Keys /\ view \in Views /\ loads \in SUBSET Views /\ edit \in Indices \cup {None}
    BY DEF IInv, PageInv
  <1>3. table' \in SUBSET Keys
    BY <1>2 DEF InsertNow, OtherWrite, DeleteNow, DeleteNot
  <1>4. loads' \in SUBSET Views
    BY <1>2 DEF InsertNow, OtherWrite, DeleteNow, DeleteNot, viewVars
  <1>5. AskInv'
    BY DEF IInv, AskInv, InsertNow, OtherWrite, DeleteNow, DeleteNot
  <1> QED BY <1>1, <1>2, <1>3, <1>4, <1>5, Quiet DEF editorVars

\* What the user means by rows of the page, or by selected rows, is what is
\* there.
LEMMA TargetsAreMeant ==
  ASSUME PageInv, NEW S, Targets(S)
  PROVE  S \subseteq DOMAIN data /\ \A i \in S : Meant(i) = RowKey(i)
  <1>1. S \subseteq DOMAIN data
    BY DEF Targets, PageInv
  <1>2. ASSUME NEW i \in S PROVE Meant(i) = RowKey(i)
    <2>1. i \in DOMAIN data
      BY <1>1
    <2>2. RowKey(i) = data[i]
      BY <2>1, Rows
    <2> QED BY <2>2 DEF Meant, PageInv
  <1> QED BY <1>1, <1>2

LEMMA AskKeeps == ASSUME IInv, AskDeleteFiltered \/ \E S \in SUBSET Indices : AskDelete(S) PROVE IInv'
  <1>1. UNCHANGED <<table, viewVars, pageVars, editorVars, txMode, queueVars, commitVars>>
    BY DEF AskDeleteFiltered, AskDelete
  <1>2. asked'.idx = {} \/ asked'.rows = asked'.meant
    <2>1. CASE AskDeleteFiltered
      BY <2>1 DEF AskDeleteFiltered
    <2>2. ASSUME NEW S \in SUBSET Indices, AskDelete(S) PROVE asked'.rows = asked'.meant
      <3>1. asked' = [idx |-> S, rows |-> RowKeys(S), meant |-> {Meant(i) : i \in S}]
        BY <2>2 DEF AskDelete
      <3>2. \A i \in S : Meant(i) = RowKey(i)
        BY <2>2, TargetsAreMeant DEF AskDelete, IInv
      <3>3. RowKeys(S) = {Meant(i) : i \in S}
        BY <3>2 DEF RowKeys
      <3> QED BY <3>1, <3>3
    <2> QED BY <2>1, <2>2
  <1> QED BY <1>1, <1>2, Quiet DEF IInv, PageInv, AskInv, viewVars, editorVars

\* Rows are selected.
LEMMA SelectKeeps == ASSUME IInv, NEW S \in SUBSET Indices, Select(S) PROVE IInv'
  <1>1. /\ UNCHANGED <<table, viewVars, data, readOnly, editorVars, asked, txMode, queueVars, commitVars>>
        /\ S \subseteq DOMAIN data /\ selRows' = S
        /\ picked' = [i \in Indices |-> IF i \in S THEN data[i] ELSE None]
    BY DEF Select
  <1>2. PageInv'
    BY <1>1 DEF IInv, PageInv, viewVars, editorVars
  <1>3. QueueInv' /\ AskInv' /\ CommitInv'
    BY <1>1, QueueSame, AskSame, Drafts, CommitSame DEF IInv, queueVars
  <1> QED BY <1>2, <1>3 DEF IInv

\* Changes are queued.
LEMMA QueueKeeps ==
  ASSUME IInv, \/ \E keep \in BOOLEAN : QueueEdit(keep)
               \/ \E S \in SUBSET Indices : QueueDeletes(S)
               \/ QueueInsert
  PROVE  IInv'
  <1>1. UNCHANGED <<table, viewVars, pageVars, asked, txMode, commitVars>> /\ txMode = "manual"
    BY DEF QueueEdit, QueueDeletes, QueueInsert
  <1>2. edit' \in Indices \cup {None}
    BY DEF IInv, PageInv, QueueEdit, QueueDeletes, QueueInsert, editorVars
  <1>3. PageInv' /\ AskInv'
    BY <1>1, <1>2, PageSame, AskSame DEF IInv, PageInv, viewVars
  <1>4. edits' \in SUBSET Indices /\ deletes' \in SUBSET Indices
    BY Rows DEF IInv, QueueInv, QueueEdit, QueueDeletes, QueueInsert
  <1>5. MaxIns \in Nat /\ drafts \in Nat /\ drafts <= MaxIns /\ inserts = drafts
    BY GridAssumption, Drafts DEF IInv, QueueInv
  <1>6. drafts' \in 0 .. MaxIns /\ inserts' = drafts' /\ drafts <= drafts' /\ drafts' \in Nat
    <2>1. CASE QueueInsert
      BY <1>5, <2>1 DEF QueueInsert
    <2>2. CASE ~QueueInsert
      BY <1>5, <2>2 DEF QueueEdit, QueueDeletes
    <2> QED BY <2>1, <2>2
  <1>7. QueueInv'
    BY <1>1, <1>4, <1>6 DEF IInv, QueueInv
  <1>8. CommitInv'
    BY <1>1, <1>5, <1>6, CommitSame DEF IInv
  <1> QED BY <1>3, <1>7, <1>8 DEF IInv

\* The mode is left only with an empty queue.
LEMMA toggleTxKeeps == ASSUME IInv, toggleTx PROVE IInv'
  <1>1. UNCHANGED <<table, viewVars, pageVars, editorVars, asked, queueVars, commitVars>>
        /\ txMode' = IF txMode = "auto" THEN "manual" ELSE "auto"
    BY DEF toggleTx
  <1>2. PageInv' /\ AskInv' /\ CommitInv'
    BY <1>1, PageSame, AskSame, Drafts, CommitSame DEF IInv, PageInv, viewVars, editorVars, queueVars
  <1>3. txMode = "manual" => edits = {} /\ deletes = {} /\ inserts = 0
    BY Counts DEF toggleTx, IInv
  <1>4. QueueInv'
    BY <1>1, <1>3 DEF IInv, QueueInv, queueVars
  <1> QED BY <1>2, <1>4 DEF IInv

\* A commit captures the queue against the page shown.
LEMMA CommitSendKeeps == ASSUME IInv, CommitSend PROVE IInv'
  <1>1. /\ UNCHANGED <<table, viewVars, pageVars, editorVars, asked, txMode, queueVars, made, unheard>>
        /\ EditedRows \cup deletes \subseteq DOMAIN data /\ commit = "idle" /\ commit' = "sent"
        /\ batch' = [upd |-> RowKeys(EditedRows), del |-> RowKeys(deletes), ins |-> inserts, view |-> view]
    BY DEF CommitSend
  <1>2. PageInv' /\ AskInv' /\ QueueInv'
    BY <1>1, PageSame, AskSame, QueueSame DEF IInv, PageInv, viewVars, editorVars
  <1>3. \A i \in DOMAIN data : data[i] \in Keys /\ RowKey(i) = data[i]
    BY Rows DEF IInv
  <1>4. RowKeys(EditedRows) \in SUBSET Keys /\ RowKeys(deletes) \in SUBSET Keys
    BY <1>1, <1>3 DEF RowKeys
  <1>5. RowKeys(EditedRows) \cap RowKeys(deletes) = {}
    <2> SUFFICES ASSUME NEW i \in EditedRows, NEW j \in deletes, RowKey(i) = RowKey(j) PROVE FALSE
      BY DEF RowKeys
    <2>1. i \in DOMAIN data /\ j \in DOMAIN data /\ data[i] = data[j]
      BY <1>1, <1>3
    <2>2. i = j
      BY <2>1 DEF IInv, PageInv
    <2> QED BY <2>2 DEF EditedRows
  <1>6. batch' \in Batches /\ batch'.upd \cap batch'.del = {} /\ batch'.ins = inserts
    BY <1>1, <1>4, <1>5 DEF Batches, IInv, PageInv, QueueInv
  <1>7. inserts <= drafts' /\ drafts' = drafts
    BY <1>1, Drafts DEF IInv, QueueInv, queueVars
  <1>8. CommitInv'
    BY <1>1, <1>6, <1>7 DEF IInv, CommitInv
  <1> QED BY <1>2, <1>8 DEF IInv

\* It is confirmed, applied or fails.
LEMMA CommitKeeps ==
  ASSUME IInv, \/ CommitAsk \/ CommitConfirm \/ CommitFails
               \/ \E new \in SUBSET Keys : CommitApply(new)
  PROVE  IInv'
  <1>1. UNCHANGED <<viewVars, pageVars, editorVars, asked, txMode, queueVars>>
    BY DEF CommitAsk, CommitConfirm, CommitFails, CommitApply
  <1>2. table' \in SUBSET Keys
    BY DEF IInv, PageInv, CommitAsk, CommitConfirm, CommitFails, CommitApply
  <1>3. PageInv' /\ AskInv' /\ QueueInv'
    BY <1>1, <1>2, PageSame, AskSame, QueueSame DEF IInv, PageInv, viewVars, editorVars
  <1>4. drafts' = drafts
    BY <1>1 DEF queueVars
  <1>5. ASSUME CommitAsk \/ CommitConfirm PROVE CommitInv'
    BY <1>4, <1>5 DEF IInv, CommitInv, CommitAsk, CommitConfirm
  <1>6. ASSUME CommitFails PROVE CommitInv'
    BY <1>4, <1>6 DEF IInv, CommitInv, CommitFails
  <1>7. ASSUME NEW new \in SUBSET Keys, CommitApply(new) PROVE CommitInv'
    <2>1. /\ commit = "sent" /\ commit' = "applied" /\ batch' = batch /\ unheard' = unheard
          /\ made' = IF unheard THEN made ELSE made + batch.ins
      BY <1>7 DEF CommitApply
    <2>2. batch \in Batches /\ batch.upd \cap batch.del = {} /\ batch.ins <= drafts /\ unheard \in BOOLEAN
          /\ (~unheard => made = 0)
      BY <2>1 DEF IInv, CommitInv
    <2>3. batch.ins \in Nat
      <3>1. MaxIns \in Nat /\ batch.ins \in 0 .. MaxIns
        BY <2>2, GridAssumption DEF Batches
      <3> QED BY <3>1
    <2>4. ~unheard => made' = batch.ins
      BY <2>1, <2>2, <2>3
    <2> QED BY <1>4, <2>1, <2>2, <2>4 DEF CommitInv
  <1>8. CommitInv'
    BY <1>5, <1>6, <1>7
  <1> QED BY <1>3, <1>8 DEF IInv

\* The queue is cleared, after a commit or by rolling it back.
LEMMA ClearKeeps == ASSUME IInv, CommitDone \/ rollbackTx PROVE IInv'
  <1>1. /\ UNCHANGED <<table, view, pageVars, asked, txMode>> /\ ClearPending
        /\ commit' = "idle" /\ batch' = None
    BY DEF CommitDone, rollbackTx, viewVars, IInv, CommitInv
  <1>2. edit' = None /\ edits' = {} /\ deletes' = {} /\ inserts' = 0 /\ drafts' = 0 /\ made' = 0 /\ unheard' = FALSE
    BY <1>1 DEF ClearPending
  <1>3. loads' \in SUBSET Views
    <2>1. CASE CommitDone
      <3>1. batch \in Batches /\ loads' = loads \cup {batch.view}
        BY <2>1 DEF CommitDone, IInv, CommitInv
      <3> QED BY <3>1 DEF Batches, IInv, PageInv
    <2>2. CASE rollbackTx
      BY <2>2 DEF rollbackTx, IInv, PageInv, viewVars
    <2> QED BY <2>1, <2>2
  <1>4. PageInv' /\ AskInv'
    BY <1>1, <1>2, <1>3, PageSame, AskSame DEF IInv, PageInv
  <1>5. QueueInv'
    <2>1. 0 \in 0 .. MaxIns
      BY GridAssumption
    <2> QED BY <1>1, <1>2, <2>1 DEF IInv, QueueInv
  <1>6. CommitInv'
    BY <1>1, <1>2 DEF CommitInv
  <1> QED BY <1>4, <1>5, <1>6 DEF IInv

LEMMA Start == ASSUME Init PROVE IInv
  <1>1. PageInv
    <2>1. <<>> \in Seq(Keys) /\ Len(<<>>) = 0 /\ (\A i, j \in DOMAIN <<>> : <<>>[i] = <<>>[j] => i = j)
          /\ PageSize \in Nat
      BY GridAssumption
    <2>2. data = <<>> /\ selRows = {} /\ readOnly = FALSE /\ edit = None /\ table \in SUBSET Keys /\ view \in Views
      BY DEF Init
    <2>3. loads \in SUBSET Views
      BY <2>2 DEF Init
    <2>4. data \in Seq(Keys) /\ Len(data) <= PageSize /\ \A i, j \in DOMAIN data : data[i] = data[j] => i = j
      BY <2>1, <2>2
    <2> QED BY <2>2, <2>3, <2>4 DEF PageInv
  <1>2. AskInv /\ CommitInv
    BY DEF Init, AskInv, CommitInv
  <1>3. QueueInv
    <2>1. 0 \in 0 .. MaxIns
      BY GridAssumption
    <2> QED BY <2>1 DEF Init, QueueInv
  <1> QED BY <1>1, <1>2, <1>3 DEF IInv

LEMMA Keeps == ASSUME IInv, [Next]_vars PROVE IInv'
  <1>1. CASE PageStep
    BY <1>1, TurnKeeps, DeliverKeeps, SelectKeeps DEF PageStep
  <1>2. CASE WriteStep
    BY <1>2, TurnKeeps, QueueKeeps, AskKeeps, WriteKeeps DEF WriteStep
  <1>3. CASE TxStep
    BY <1>3, toggleTxKeeps, CommitSendKeeps, CommitKeeps, ClearKeeps DEF TxStep
  <1>4. CASE \E k \in Keys : OtherWrite(k)
    BY <1>4, WriteKeeps
  <1>5. CASE UNCHANGED vars
    <2>1. /\ UNCHANGED <<pageVars, txMode, queueVars, commitVars>>
          /\ table' = table /\ view' = view /\ loads' = loads /\ edit' = edit /\ asked' = asked
      BY <1>5 DEF vars, pageVars, queueVars, commitVars
    <2>2. table \in SUBSET Keys /\ view \in Views /\ loads \in SUBSET Views /\ edit \in Indices \cup {None}
      BY DEF IInv, PageInv
    <2> QED BY <2>1, <2>2, Quiet, AskSame DEF IInv
  <1> QED BY <1>1, <1>2, <1>3, <1>4, <1>5 DEF Next

\* The parts of the invariant hold in every reachable state.
THEOREM Inductive == Spec => []IInv
  <1>1. Init => IInv
    BY Start
  <1>2. IInv /\ [Next]_vars => IInv'
    BY Keeps
  <1> QED BY <1>1, <1>2, PTL DEF Spec

-----------------------------------------------------------------------------
(* What follows.                                                           *)

\* TypeOK: the state of the tab keeps its shape, and a commit is under way
\* exactly when something is captured for it.
THEOREM TypeCorrect == Spec => []TypeOK
  <1>1. IInv => TypeOK
    <2> SUFFICES ASSUME IInv PROVE TypeOK
      OBVIOUS
    <2>1. commit # "idle" => batch # None
      BY GridAssumption DEF IInv, CommitInv
    <2>2. \A i \in DOMAIN data : data[i] \in Keys
      BY Rows DEF IInv
    <2> QED BY <2>1, <2>2 DEF IInv, PageInv, QueueInv, CommitInv, TypeOK
  <1> QED BY <1>1, Inductive, PTL

\* InsertedOnce: queued inserts are made once, unless the response to a commit
\* that was applied got lost.
THEOREM InsertsAreMadeOnce == Spec => []InsertedOnce
  <1>1. IInv => InsertedOnce
    <2> SUFFICES ASSUME IInv, ~unheard PROVE made <= drafts
      BY DEF InsertedOnce
    <2>1. CASE commit = "applied"
      BY <2>1 DEF IInv, CommitInv
    <2>2. CASE commit # "applied"
      <3>1. made = 0 /\ drafts \in Nat
        BY <2>2, Drafts DEF IInv, CommitInv
      <3> QED BY <3>1
    <2> QED BY <2>1, <2>2
  <1> QED BY <1>1, Inductive, PTL

\* AutoMeansEmpty: manual mode is not left with changes still queued.
THEOREM AutoIsEmpty == Spec => []AutoMeansEmpty
  <1>1. IInv => AutoMeansEmpty
    BY DEF IInv, QueueInv, AutoMeansEmpty
  <1> QED BY <1>1, Inductive, PTL

\* NeverUpdatedAndDeleted: no transaction both updates and deletes a row.
THEOREM UpdatesAvoidDeletes == Spec => []NeverUpdatedAndDeleted
  <1>1. IInv => NeverUpdatedAndDeleted
    BY DEF IInv, CommitInv, NeverUpdatedAndDeleted
  <1> QED BY <1>1, Inductive, PTL

\* DeletesHitConfirmed: a confirmed delete of selected or pointed-at rows removes
\* only rows that the user saw when doing so, whatever arrived behind the dialog.
THEOREM DeletesAreConfirmed == Spec => DeletesHitConfirmed
  <1>1. ASSUME IInv, Next, asked # None, asked' = None, asked.idx # {} PROVE table \ table' \subseteq asked.meant
    <2>1. asked.rows = asked.meant
      BY <1>1 DEF IInv, AskInv
    <2>2. CASE DeleteNow
      BY <2>1, <2>2 DEF DeleteNow
    <2>3. CASE DeleteNot
      BY <2>3 DEF DeleteNot
    <2>4. CASE PageStep
      BY <1>1, <2>4 DEF PageStep, Type, Turn, Deliver, DeliverFails, Select
    <2>5. CASE TxStep
      BY <1>1, <2>5 DEF TxStep, toggleTx, CommitSend, CommitAsk, CommitConfirm, CommitFails, CommitDone, rollbackTx,
                        CommitApply
    <2>6. CASE WriteStep
      BY <1>1, <2>2, <2>3, <2>6 DEF WriteStep, OpenEditor, CancelEdit, QueueEdit, EditNow, QueueDeletes, AskDelete,
                                    AskDeleteFiltered, QueueInsert, InsertNow, Free
    <2>7. CASE \E k \in Keys : OtherWrite(k)
      BY <1>1, <2>7 DEF OtherWrite
    <2> QED BY <1>1, <2>4, <2>5, <2>6, <2>7 DEF Next
  <1>2. IInv /\ [Next]_vars => [asked # None /\ asked' = None /\ asked.idx # {}
                                     => table \ table' \subseteq asked.meant]_vars
    BY <1>1
  <1> QED BY <1>2, Inductive, PTL DEF Spec, DeletesHitConfirmed
====
