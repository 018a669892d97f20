--------------------------- MODULE EngineSessions ---------------------------
(***************************************************************************)
(* Statements and scripts of the three SQL engines on pooled connections.  *)
(* A pooled connection keeps its session settings from one request to the  *)
(* next: the read-only default, the schema path and, where the pool does   *)
(* not look, an open transaction.  Each engine has its own way to give a   *)
(* request the mode it asked for and to clean up after it; statements      *)
(* typed in a console may change the settings too.  Statements fail, are   *)
(* cut off with their effect unknown, and connections break.               *)
(***************************************************************************)
EXTENDS Naturals, Sequences, FiniteSets

CONSTANTS Req,      \* slots for requests, reused
          Conns,    \* the connections the pool may open (pgMaxConns)
          Schemas,  \* schemas a Postgres console can be opened on
          Families, \* the engines to look at
          MaxBatch  \* bound: statements in one call

ASSUME FamiliesAssumption == Families \subseteq {"postgres", "mysql", "sqlite"}
ASSUME ConnsAssumption == Conns # {}
ASSUME BatchAssumption == MaxBatch \in Nat \ {0}

Default == "default"
Paths == Schemas \cup {Default}

(* The calls of an engine: Query with its mode and schema, which Exec and  *)
(* BrowseWhere are cases of, and ExecScript.  A statement reads, changes   *)
(* rows or the schema, or changes the session it runs in.                  *)
Call(kind, ro, schema, stmts) == [kind |-> kind, ro |-> ro, schema |-> schema, stmts |-> stmts]
Lists(S) == UNION {[1 .. n -> S] : n \in 1 .. MaxBatch}

Query(fam) == {Call("query", ro, schema, <<s>>) : ro \in BOOLEAN,
                 schema \in IF fam = "postgres" THEN Paths ELSE {Default},
                 s \in {"read", "dml", "ddl", "session"}}
Exec == {Call("query", FALSE, Default, <<s>>) : s \in {"dml", "ddl"}}
BrowseWhere == {Call("query", TRUE, Default, <<"read">>)}

(* Several statements typed as one string: Postgres and SQLite take it, as *)
(* does MySQL when the connection's options ask for multiStatements.       *)
MultiCommand == {Call("query", ro, Default, s) : ro \in BOOLEAN,
                   s \in {l \in Lists({"dml", "ddl", "session"}) : Len(l) > 1}}
ExecScript == {Call("script", FALSE, Default, s) : s \in Lists({"dml", "ddl"})}

Calls(fam) == Query(fam) \cup Exec \cup BrowseWhere \cup MultiCommand \cup ExecScript

VARIABLES family, \* the kind of the server behind the pool
          conn,   \* the session of every connection
          req     \* the locals of the request in every slot

vars == <<family, conn, req>>

(* A new session.  tx: a transaction is open, of mode txro; touched: a     *)
(* console statement has changed the session.                              *)
Fresh == [ro |-> FALSE, path |-> Default, tx |-> FALSE, txro |-> FALSE, touched |-> FALSE]

(* pend and kept: the statements whose effect is in an open transaction,   *)
(* and is durable; ran: the paths they resolved names by; dirty: the       *)
(* session had been touched when the request got it.                       *)
Idle == [pc |-> "idle", call |-> Call("query", TRUE, Default, <<"read">>), i |-> 1, on |-> {},
         pend |-> {}, kept |-> {}, ran |-> {}, dirty |-> FALSE, err |-> ""]

Init == /\ family \in Families
        /\ conn = [c \in Conns |-> Fresh]
        /\ req = [r \in Req |-> Idle]

At(r, pc) == req[r].pc = pc
On(r) == CHOOSE c \in req[r].on : TRUE
Session(r) == conn[On(r)]
Free(c) == \A r \in Req : c \notin req[r].on
IsScript(r) == req[r].call.kind = "script"
IsPG == family = "postgres"
Writes(r) == {i \in DOMAIN req[r].call.stmts : req[r].call.stmts[i] \in {"dml", "ddl"}}

-----------------------------------------------------------------------------
Ask(r) ==
  /\ At(r, "idle")
  /\ req' = [req EXCEPT ![r].pc = "wait"]
  /\ UNCHANGED <<family, conn>>

(* Bugs planted for the properties to catch stand before the definition    *)
(* they replace: this pool hands out connections that are in use.          *)
AcquireAny(r) ==
  /\ At(r, "wait")
  /\ \E c \in Conns, call \in Calls(family) :
       req' = [req EXCEPT ![r].pc = "set", ![r].call = call, ![r].on = {c},
                          ![r].dirty = conn[c].touched]
  /\ UNCHANGED <<family, conn>>

(* The pool hands out any free connection.  What is called matters only    *)
(* from here on.                                                           *)
Acquire(r) ==
  /\ At(r, "wait")
  /\ \E c \in Conns, call \in Calls(family) :
       /\ Free(c)
       /\ req' = [req EXCEPT ![r].pc = "set", ![r].call = call, ![r].on = {c},
                             ![r].dirty = conn[c].touched]
  /\ UNCHANGED <<family, conn>>

GiveUp(r) ==
  /\ At(r, "wait")
  /\ req' = [req EXCEPT ![r] = Idle]
  /\ UNCHANGED <<family, conn>>

(* What a call does to its session before its first statement.  MySQL's    *)
(* own transaction ends one that was open; SQLite cannot begin a second.   *)
Begin(s, ro) == [s EXCEPT !.tx = TRUE, !.txro = ro]

(* Planted bugs: the mode is not set; a script takes over the mode of the  *)
(* session; the path is not set back to the default.                       *)
PostgresSetupPathOnly(r, s) ==
  IF IsScript(r) THEN Begin(s, FALSE) ELSE [s EXCEPT !.path = req[r].call.schema]
PostgresSetupInherits(r, s) ==
  IF IsScript(r) THEN Begin(s, s.ro)
  ELSE [s EXCEPT !.path = req[r].call.schema, !.ro = req[r].call.ro]
PostgresSetupKeepsPath(r, s) ==
  IF IsScript(r) THEN Begin(s, FALSE)
  ELSE [s EXCEPT !.path = IF req[r].call.schema = Default THEN @ ELSE req[r].call.schema,
                 !.ro = req[r].call.ro]

PostgresSetup(r, s) ==
  IF IsScript(r) THEN Begin(s, FALSE)
  ELSE [s EXCEPT !.path = req[r].call.schema, !.ro = req[r].call.ro]
MySQLSetup(r, s) ==
  IF IsScript(r) THEN Begin(s, s.ro) ELSE IF req[r].call.ro THEN Begin(s, TRUE) ELSE s

(* A planted bug: a script runs its statements without a transaction.      *)
SQLiteSetupPlain(r, s) == IF ~IsScript(r) /\ req[r].call.ro THEN [s EXCEPT !.ro = TRUE] ELSE s

SQLiteSetup(r, s) ==
  IF IsScript(r) THEN Begin(s, s.ro) ELSE IF req[r].call.ro THEN [s EXCEPT !.ro = TRUE] ELSE s
Setup(r, s) == CASE IsPG -> PostgresSetup(r, s)
                 [] family = "mysql" -> MySQLSetup(r, s)
                 [] family = "sqlite" -> SQLiteSetup(r, s)
Nested(r) == family = "sqlite" /\ IsScript(r) /\ Session(r).tx

Prepare(r) ==
  /\ At(r, "set")
  /\ ~Nested(r)
  /\ conn' = [conn EXCEPT ![On(r)] = Setup(r, @)]
  /\ req' = [req EXCEPT ![r].pc = "run"]
  /\ UNCHANGED family

(* A planted bug: the flag is reset with the context of the request, so    *)
(* not after a failure.                                                    *)
CleanUpUnlessFailed(r, s) ==
  LET ro == req[r].call.ro
  IN  CASE IsScript(r) \/ (family = "mysql" /\ ro) -> [s EXCEPT !.tx = FALSE]
        [] ~IsScript(r) /\ family = "sqlite" /\ ro /\ req[r].err = "" -> [s EXCEPT !.ro = FALSE]
        [] OTHER -> s

(* What is undone before the connection goes back: an own transaction, or  *)
(* the read-only flag of SQLite, whatever became of the request.           *)
CleanUp(r, s) ==
  LET ro == req[r].call.ro
  IN  CASE IsScript(r) \/ (family = "mysql" /\ ro) -> [s EXCEPT !.tx = FALSE]
        [] ~IsScript(r) /\ family = "sqlite" /\ ro -> [s EXCEPT !.ro = FALSE]
        [] OTHER -> s

(* Setting up fails: the session is as it was, has got only the path of    *)
(* the Postgres settings, or is lost with its connection.                  *)
PrepareFails(r) ==
  LET s == Session(r)
      half == IF IsPG THEN [s EXCEPT !.path = Setup(r, s).path] ELSE s
  IN  /\ At(r, "set")
      /\ \E t \in {IF IsScript(r) THEN s ELSE CleanUp(r, s), half, Fresh} :
           conn' = [conn EXCEPT ![On(r)] = t]
      /\ req' = [req EXCEPT ![r].pc = "back", ![r].err = "failed"]
      /\ UNCHANGED family

-----------------------------------------------------------------------------
(* The server's side: whether it takes the session to be read-only, and    *)
(* what a console statement can make of the session: set or clear the mode *)
(* (PRAGMA query_only, SET TRANSACTION), open a transaction, move the path.*)
ReadOnly(s) == IF s.tx /\ family # "sqlite" THEN s.txro ELSE s.ro
Touch(s) == {[t EXCEPT !.touched = TRUE] :
               t \in {[s EXCEPT !.ro = b] : b \in BOOLEAN} \cup {Begin(s, b) : b \in BOOLEAN}
                     \cup IF family = "sqlite" THEN {} ELSE {[s EXCEPT !.path = p] : p \in Schemas}}
Closed(s) == {[t EXCEPT !.touched = TRUE] :
                t \in {[s EXCEPT !.tx = FALSE]} \cup {Begin(s, b) : b \in BOOLEAN}}

Stmt(r) == req[r].call.stmts[req[r].i]
IsMulti(r) == req[r].call.kind = "query" /\ Len(req[r].call.stmts) > 1
Simple(r) == IsPG /\ IsMulti(r)
Refused(r) == Stmt(r) \in {"dml", "ddl"} /\ ReadOnly(Session(r))

(* Query refuses several commands on the read-only path of Postgres, where *)
(* the server has only parsed them.  Everything else runs.                 *)
Refuses(r) == Simple(r) /\ req[r].call.ro
RefuseMulti(r) ==
  /\ At(r, "run") /\ Refuses(r)
  /\ req' = [req EXCEPT ![r].pc = "end", ![r].err = "multi"]
  /\ UNCHANGED <<family, conn>>

(* querySimple: Postgres runs the string as one implicit transaction, that *)
(* is committed after its last statement and rolled back by an error.  One *)
(* the string has opened itself outlives it.                               *)
querySimple(q, tx) ==
  IF tx THEN q
  ELSE [q EXCEPT !.pend = {}, !.kept = IF q.i = Len(q.call.stmts) THEN @ \cup q.pend ELSE @]

(* A statement took effect, which made q of the request and left the       *)
(* session with or without a transaction.  The next one follows, unless    *)
(* the answer is lost.                                                     *)
Answered(r, q, tx) ==
  \/ /\ q.i < Len(q.call.stmts)
     /\ req' = [req EXCEPT ![r] = [q EXCEPT !.i = @ + 1]]
  \/ \E err \in IF q.i = Len(q.call.stmts) THEN {"", "failed"} ELSE {"failed"} :
       req' = [req EXCEPT ![r] = [(IF Simple(r) THEN querySimple(q, tx) ELSE q)
                                    EXCEPT !.pc = "end", !.err = err]]

(* A statement that reads or writes.  Outside a transaction it commits by  *)
(* itself.  DDL commits the transaction it is in on MySQL.  A default mode *)
(* set inside a Postgres string may hold from its next transaction only.   *)
Execute(r) ==
  LET s == Session(r)
      q == req[r]
      write == Stmt(r) \in {"dml", "ddl"}
      ends == family = "mysql" /\ Stmt(r) = "ddl"
      commits == write /\ ((~s.tx /\ ~Simple(r)) \/ ends)
      effect == IF write THEN {q.i} ELSE {}
      t == [s EXCEPT !.tx = @ /\ ~ends]
  IN  /\ At(r, "run") /\ ~Refuses(r) /\ Stmt(r) # "session"
      /\ ~Refused(r) \/ (Simple(r) /\ ~s.tx)
      /\ conn' = [conn EXCEPT ![On(r)] = t]
      /\ Answered(r, [q EXCEPT !.ran = @ \cup {s.path},
                               !.kept = IF commits THEN @ \cup effect \cup q.pend ELSE @,
                               !.pend = IF commits THEN {} ELSE @ \cup effect], t.tx)
      /\ UNCHANGED family

(* A statement that changes its session, or one that commits or rolls back *)
(* the transaction of those before it and may open the next (a BEGIN does  *)
(* so on MySQL, AND CHAIN elsewhere).                                      *)
ChangeSession(r) ==
  /\ At(r, "run") /\ ~Refuses(r) /\ Stmt(r) = "session"
  /\ \/ \E t \in Touch(Session(r)) :
          /\ conn' = [conn EXCEPT ![On(r)] = t]
          /\ Answered(r, req[r], t.tx)
     \/ \E t \in Closed(Session(r)), kept \in {{}, req[r].pend} :
          /\ conn' = [conn EXCEPT ![On(r)] = t]
          /\ Answered(r, [req[r] EXCEPT !.kept = @ \cup kept, !.pend = {}], t.tx)
  /\ UNCHANGED family

(* The statement is refused by a read-only session or fails by itself,     *)
(* which rolls the transaction of a Postgres string back.                  *)
StatementFails(r) ==
  /\ At(r, "run") /\ ~Refuses(r)
  /\ req' = [req EXCEPT ![r].pc = "end", ![r].pend = IF Simple(r) THEN {} ELSE @,
                        ![r].err = IF Refused(r) THEN "read-only" ELSE "failed"]
  /\ UNCHANGED <<family, conn>>

(* The connection breaks, or is closed because the context was cancelled   *)
(* under a statement: the server rolls back what was not committed.        *)
ConnectionLost(r) ==
  /\ req[r].pc \in {"run", "end"}
  /\ req' = [req EXCEPT ![r].pc = "back", ![r].pend = {}, ![r].err = "failed"]
  /\ conn' = [conn EXCEPT ![On(r)] = Fresh]
  /\ UNCHANGED family

(* A planted bug: the error of the commit is dropped.                      *)
CommitUnchecked(r) ==
  /\ At(r, "end") /\ IsScript(r) /\ req[r].err = ""
  /\ \E done \in BOOLEAN :
       req' = [req EXCEPT ![r].pc = "back", ![r].pend = {},
                          ![r].kept = @ \cup IF done THEN req[r].pend ELSE {}]
  /\ conn' = [conn EXCEPT ![On(r)] = CleanUp(r, @)]
  /\ UNCHANGED family

(* The commit takes effect or not; when its answer is lost nobody knows.   *)
Commit(r) ==
  /\ At(r, "end") /\ IsScript(r) /\ req[r].err = ""
  /\ \E done \in BOOLEAN, err \in {"", "failed"} :
       /\ err = "" => done
       /\ req' = [req EXCEPT ![r].pc = "back", ![r].err = err, ![r].pend = {},
                             ![r].kept = @ \cup IF done THEN req[r].pend ELSE {}]
  /\ conn' = [conn EXCEPT ![On(r)] = CleanUp(r, @)]
  /\ UNCHANGED family

(* A planted bug: a script that fails is not rolled back, so its           *)
(* connection does not go back.                                            *)
FinishQueries(r) ==
  /\ At(r, "end") /\ ~IsScript(r)
  /\ conn' = [conn EXCEPT ![On(r)] = CleanUp(r, @)]
  /\ req' = [req EXCEPT ![r].pc = "back"]
  /\ UNCHANGED family

(* The deferred roll-back or reset; pend outlives it only in a transaction *)
(* a console statement had opened.                                         *)
Finish(r) ==
  /\ At(r, "end") /\ ~(IsScript(r) /\ req[r].err = "")
  /\ conn' = [conn EXCEPT ![On(r)] = CleanUp(r, @)]
  /\ req' = [req EXCEPT ![r].pc = "back", ![r].pend = IF IsScript(r) THEN {} ELSE @]
  /\ UNCHANGED family

(* The connection goes back and the call returns.  pgxpool destroys a      *)
(* connection given back inside a transaction.                             *)
Release(r) ==
  /\ At(r, "back")
  /\ conn' = [conn EXCEPT ![On(r)] = IF IsPG /\ @.tx THEN Fresh ELSE @]
  /\ req' = [req EXCEPT ![r] = Idle]
  /\ UNCHANGED family

(* The pool closes a connection that has been idle for idleTTL.            *)
IdleClose(c) ==
  /\ Free(c)
  /\ conn' = [conn EXCEPT ![c] = Fresh]
  /\ UNCHANGED <<family, req>>

Work(r) == \/ Prepare(r) \/ PrepareFails(r)
           \/ RefuseMulti(r) \/ Execute(r) \/ ChangeSession(r) \/ StatementFails(r)
           \/ Commit(r) \/ Finish(r) \/ Release(r)
Next == \/ \E r \in Req : Ask(r) \/ Acquire(r) \/ GiveUp(r) \/ Work(r) \/ ConnectionLost(r)
        \/ \E c \in Conns : IdleClose(c)

(* Statements end by statement_timeout at the latest, and a connection     *)
(* that comes free goes to the request that has waited longest.  Nobody is *)
(* assumed to give up, nor a connection to break.                          *)
Fairness == \A r \in Req : WF_vars(Work(r)) /\ SF_vars(Acquire(r))

Spec == Init /\ [][Next]_vars
FairSpec == Spec /\ Fairness

-----------------------------------------------------------------------------
(* The types, and that no connection is in two hands.                      *)
TypeOK ==
  /\ family \in Families
  /\ conn \in [Conns -> [ro : BOOLEAN, path : Paths, tx : BOOLEAN, txro : BOOLEAN, touched : BOOLEAN]]
  /\ \A r \in Req :
       /\ req[r].pc \in {"idle", "wait", "set", "run", "end", "back"}
       /\ req[r].call \in Calls(family) \cup {Idle.call}
       /\ req[r].i \in DOMAIN req[r].call.stmts
       /\ req[r].on \in SUBSET Conns
       /\ Cardinality(req[r].on) = IF req[r].pc \in {"set", "run", "end", "back"} THEN 1 ELSE 0
       /\ req[r].pend \cup req[r].kept \subseteq Writes(r)
  /\ \A r, q \in Req : r # q => req[r].on \cap req[q].on = {}

(* Whether a statement of the request's own text among its first n is one  *)
(* that changes the session.                                               *)
Changes(r, n) == \E i \in 1 .. n : req[r].call.stmts[i] = "session"

(* A request in read-only mode changes nothing, whatever the session it    *)
(* got had been used for and however it ends.  The one way round, outside  *)
(* Postgres, is a string that changes its own session before it writes     *)
(* (clears query_only, ends the read-only transaction): the server runs    *)
(* every statement of it.                                                  *)
ReadOnlyNeverWrites ==
  \A r \in Req : req[r].call.ro =>
    \A i \in req[r].kept \cup req[r].pend : ~IsPG /\ Changes(r, i - 1)

(* A write is refused as read-only only because the request itself is, or  *)
(* its own string has made the session so before or, outside Postgres, an  *)
(* earlier console statement had: no mode of another request is left       *)
(* behind on a pooled connection.                                          *)
RefusedByOwnMode ==
  \A r \in Req : req[r].err = "read-only" =>
    req[r].call.ro \/ Changes(r, req[r].i - 1) \/ (~IsPG /\ req[r].dirty)

(* Names resolve by the schema of the request, unless its own string has   *)
(* moved the path before.  Two ways round this are there: ExecScript on    *)
(* Postgres does not set the path, and on MySQL a USE typed in a console   *)
(* stays on the connection.                                                *)
RunsUnderOwnPath ==
  \A r \in Req : \/ req[r].ran \subseteq {req[r].call.schema}
                 \/ Changes(r, req[r].i - 1)
                 \/ IsPG /\ IsScript(r)
                 \/ family = "mysql" /\ req[r].dirty

(* A script, and a Postgres string that does not end transactions itself,  *)
(* takes effect as a whole or not at all, also when its answer is lost or  *)
(* its connection breaks; except on MySQL, where DDL commits half way.     *)
(* Nothing is said of strings elsewhere: they run in autocommit.           *)
AllOrNothing ==
  \A r \in Req : At(r, "back") /\ (IsScript(r) \/ (Simple(r) /\ ~Changes(r, Len(req[r].call.stmts)))) =>
    \/ req[r].kept \in {{}, Writes(r)}
    \/ family = "mysql" /\ \E i \in Writes(r) : req[r].call.stmts[i] = "ddl"

(* What was answered with success is durable, unless its own string opened *)
(* or rolled back a transaction.  Outside Postgres a statement can end up  *)
(* in a transaction an earlier console statement left open on the          *)
(* connection; then it is lost when the pool closes that connection.       *)
AckMeansDurable ==
  \A r \in Req : At(r, "back") /\ req[r].err = "" /\ ~Changes(r, Len(req[r].call.stmts)) =>
    req[r].kept = Writes(r) \/ (~IsPG /\ req[r].dirty)

(* Nothing of a request is left on the connections in the pool: an open    *)
(* transaction or, where nobody resets it, a read-only mode was put there  *)
(* by a console statement.                                                 *)
PoolClean ==
  \A c \in Conns : Free(c) => /\ conn[c].tx => ~IsPG /\ conn[c].touched
                              /\ conn[c].ro => IsPG \/ conn[c].touched

(* Every request gets a connection and ends, although there are fewer      *)
(* connections than requests.                                              *)
RequestsServed == \A r \in Req : ~At(r, "idle") ~> At(r, "idle")
=============================================================================
