------------------------ MODULE EngineSessions_proofs ------------------------
(***************************************************************************)
(* Proofs of the safety invariants of the SQL engines' sessions, for all   *)
(* three engines, any number of requests, connections and schemas, and     *)
(* scripts of any length.                                                  *)
(***************************************************************************)
EXTENDS EngineSessions, FiniteSetTheorems, SequenceTheorems, TLAPS

-----------------------------------------------------------------------------
(* The inductive invariant.  A request is seen with the session it has.    *)

Sessions == [ro : BOOLEAN, path : Paths, tx : BOOLEAN, txro : BOOLEAN, touched : BOOLEAN]
Locals == [pc : {"idle", "wait", "set", "run", "end", "back"},
           call : Calls(family) \cup {Idle.call}, i : Nat, on : SUBSET Conns,
           pend : SUBSET Nat, kept : SUBSET Nat, ran : SUBSET Paths,
           dirty : BOOLEAN, err : {"", "failed", "read-only", "multi"}]
Busy == {"set", "run", "end", "back"}

WritesOf(call) == {i \in DOMAIN call.stmts : call.stmts[i] \in {"dml", "ddl"}}
HasDDL(call) == \E i \in WritesOf(call) : call.stmts[i] = "ddl"
Scripted(q) == q.call.kind = "script"
InOneString(q) == IsPG /\ q.call.kind = "query" /\ Len(q.call.stmts) > 1

\* Whether one of its first n statements changed the session; its writes among
\* them.
Changed(q, n) == \E j \in 1 .. n : q.call.stmts[j] = "session"
Done(q, n) == {j \in WritesOf(q.call) : j <= n}

\* What every call has: a script writes with every statement and is never
\* read-only, and only Postgres is given a schema.
WellFormed(call) ==
  /\ call.kind \in {"query", "script"} /\ call.ro \in BOOLEAN /\ call.schema \in Paths
  /\ Len(call.stmts) \in Nat \ {0} /\ DOMAIN call.stmts = 1 .. Len(call.stmts)
  /\ ~IsPG => call.schema = Default
  /\ call.kind = "script" => ~call.ro /\ WritesOf(call) = DOMAIN call.stmts

\* A session that nothing but a console statement has left its mark on:
\* what a request may leave behind, and with the transaction that pgxpool
\* destroys gone, what it may find.
Settled(s) == ~IsPG => /\ s.tx => s.touched
                       /\ s.ro => s.touched
                       /\ s.path = Default \/ (family = "mysql" /\ s.touched)
Resting(s) == Settled(s) /\ (IsPG => ~s.tx)

\* A request that has run nothing.
Blank(q) == q.i = 1 /\ q.pend = {} /\ q.kept = {} /\ q.ran = {} /\ q.err = ""

\* The marks a request may leave on its session while it runs: an own
\* transaction, or the flag of SQLite.
Marked(q, s) ==
  ~IsPG => /\ s.tx => s.touched \/ Scripted(q) \/ (family = "mysql" /\ q.call.ro)
           /\ s.ro => s.touched \/ (family = "sqlite" /\ ~Scripted(q) /\ q.call.ro)
           /\ s.path = Default \/ (family = "mysql" /\ s.touched)

\* After n statements that left the session alone: it is in the mode and on the
\* path of the request, and what has run is in the transaction of a script or
\* of a Postgres string, or else kept.
Orderly(q, s, n) ==
  /\ s.touched => q.dirty
  /\ IsPG /\ s.tx => Scripted(q)
  /\ q.call.ro => ReadOnly(s)
  /\ ReadOnly(s) => q.call.ro \/ (~IsPG /\ q.dirty)
  /\ s.path = q.call.schema \/ (IsPG /\ Scripted(q)) \/ (family = "mysql" /\ q.dirty)
  /\ q.kept \cup q.pend = Done(q, n)
  /\ Scripted(q) => /\ q.kept # {} => family = "mysql" /\ HasDDL(q.call)
                    /\ ~s.tx => q.pend = {} /\ family = "mysql" /\ HasDDL(q.call)
  /\ InOneString(q) => q.kept = {}
  /\ ~Scripted(q) /\ ~InOneString(q) /\ q.pend # {} => ~IsPG /\ q.dirty

\* After n statements, whatever they did.
After(q, s, n) == q.err = "" /\ Marked(q, s) /\ (Changed(q, n) \/ Orderly(q, s, n))

\* Between two statements.
Running(q, s) == After(q, s, q.i - 1)

\* After the last statement.
Ended(q) ==
  \/ Changed(q, Len(q.call.stmts))
  \/ /\ Scripted(q) => /\ q.kept # {} => family = "mysql" /\ HasDDL(q.call)
                       /\ q.err = "" => q.kept \cup q.pend = WritesOf(q.call)
     /\ InOneString(q) => q.kept \in {{}, WritesOf(q.call)}
     /\ ~Scripted(q) /\ q.err = "" => q.kept = WritesOf(q.call) \/ (~IsPG /\ q.dirty)

\* When the call returns.
Returned(q) ==
  \/ Changed(q, Len(q.call.stmts))
  \/ /\ Scripted(q) \/ InOneString(q) =>
          q.kept \in {{}, WritesOf(q.call)} \/ (family = "mysql" /\ HasDDL(q.call))
     /\ q.err = "" => q.kept = WritesOf(q.call) \/ (~IsPG /\ q.dirty)

\* The session of a request, phase by phase.
Fits(q, s) ==
  /\ q.pc = "set" => Resting(s) /\ Blank(q) /\ (q.dirty <=> s.touched)
  /\ q.pc = "run" => Running(q, s)
  /\ q.pc = "end" => Ended(q) /\ Marked(q, s)
  /\ q.pc = "back" => Returned(q) /\ Settled(s)

\* What holds of a request in every phase.
Lawful(q) ==
  /\ q.i \in DOMAIN q.call.stmts
  /\ q.pend \cup q.kept \subseteq WritesOf(q.call)
  /\ q.call.ro => \A j \in q.kept \cup q.pend : ~IsPG /\ Changed(q, j - 1)
  /\ q.err = "read-only" => q.call.ro \/ Changed(q, q.i - 1) \/ (~IsPG /\ q.dirty)
  /\ \/ q.ran \subseteq {q.call.schema} \/ Changed(q, q.i - 1)
     \/ (IsPG /\ Scripted(q)) \/ (family = "mysql" /\ q.dirty)

InPhase(r) ==
  /\ req[r].pc \notin Busy => req[r].on = {} /\ Blank(req[r])
  /\ req[r].pc \in Busy => \E c \in Conns : req[r].on = {c} /\ Fits(req[r], conn[c])
  /\ Lawful(req[r])

IInv == /\ family \in Families
        /\ conn \in [Conns -> Sessions]
        /\ req \in [Req -> Locals]
        /\ \A r, q \in Req : r # q => req[r].on \cap req[q].on = {}
        /\ \A r \in Req : InPhase(r)
        /\ \A c \in Conns : Free(c) => Resting(conn[c])

-----------------------------------------------------------------------------
(* The calls.                                                              *)

\* A list of statements is a sequence of at least one.
LEMMA ListsAre ==
  ASSUME NEW S, NEW l \in Lists(S)
  PROVE  l \in Seq(S) /\ Len(l) \in Nat \ {0} /\ DOMAIN l = 1 .. Len(l) /\ \A i \in DOMAIN l : l[i] \in S
  <1>1. PICK n \in 1 .. MaxBatch : l \in [1 .. n -> S]
    BY DEF Lists
  <1>2. n \in Nat \ {0}
    BY <1>1, BatchAssumption
  <1>3. l \in Seq(S)
    BY <1>1, <1>2, SeqDef
  <1>4. Len(l) = n
    BY <1>1, <1>2, <1>3, LenProperties
  <1> QED BY <1>1, <1>2, <1>3, <1>4

\* The calls the engines get are well formed.
LEMMA CallsAre == ASSUME NEW call \in Calls(family) \cup {Idle.call} PROVE WellFormed(call)
  <1>1. ASSUME NEW ro \in BOOLEAN, NEW schema \in IF family = "postgres" THEN Paths ELSE {Default}, NEW s,
               call = Call("query", ro, schema, <<s>>)
        PROVE  WellFormed(call)
    BY <1>1 DEF WellFormed, Call, IsPG, Paths
  <1>2. CASE call \in Query(family)
    BY <1>1, <1>2 DEF Query
  <1>3. CASE call \in Exec \cup BrowseWhere \cup {Idle.call}
    BY <1>1, <1>3 DEF Exec, BrowseWhere, Idle, Paths
  <1>4. CASE call \in MultiCommand
    <2>1. PICK ro \in BOOLEAN, l \in Lists({"dml", "ddl", "session"}) : call = Call("query", ro, Default, l)
      BY <1>4 DEF MultiCommand
    <2> QED BY <2>1, ListsAre DEF WellFormed, Call, Paths
  <1>5. CASE call \in ExecScript
    <2>1. PICK l \in Lists({"dml", "ddl"}) : call = Call("script", FALSE, Default, l)
      BY <1>5 DEF ExecScript
    <2>2. WritesOf(call) = DOMAIN call.stmts
      BY <2>1, ListsAre DEF WritesOf, Call
    <2> QED BY <2>1, <2>2, ListsAre DEF WellFormed, Call, Paths
  <1> QED BY <1>2, <1>3, <1>4, <1>5 DEF Calls

-----------------------------------------------------------------------------
(* Steps of one request.                                                   *)

\* The connection of a request.
LEMMA OnIs ==
  ASSUME IInv, NEW r \in Req, req[r].pc \in Busy
  PROVE  \E c \in Conns : /\ req[r].on = {c} /\ On(r) = c /\ Session(r) = conn[c]
                          /\ Fits(req[r], conn[c]) /\ conn[c] \in Sessions
                          /\ \A q \in Req : q # r => c \notin req[q].on
  <1>1. PICK c \in Conns : req[r].on = {c} /\ Fits(req[r], conn[c])
    BY DEF IInv, InPhase
  <1>2. On(r) = c
    BY <1>1 DEF On
  <1>3. \A q \in Req : q # r => c \notin req[q].on
    BY <1>1 DEF IInv
  <1> QED BY <1>1, <1>2, <1>3 DEF IInv, Session

\* A step that leaves a request and its connection alone keeps what is known
\* of it.
LEMMA Others ==
  ASSUME NEW r \in Req, InPhase(r), family' = family, req'[r] = req[r],
         \A c \in req[r].on : conn'[c] = conn[c]
  PROVE  InPhase(r)'
  <1>1. Lawful(req[r])' /\ (Blank(req[r])' <=> Blank(req[r]))
    BY DEF InPhase, Lawful, Blank, IsPG, Scripted
  <1>2. ASSUME NEW c \in Conns, req[r].on = {c}, Fits(req[r], conn[c]) PROVE Fits(req[r], conn[c])'
    <2>1. req'[r] = req[r] /\ conn'[c] = conn[c]
      BY <1>2
    <2>2. (ReadOnly(conn[c])' <=> ReadOnly(conn[c])) /\ (InOneString(req[r])' <=> InOneString(req[r]))
      BY <2>1 DEF ReadOnly, InOneString, IsPG
    <2>3. Orderly(req[r], conn[c], req[r].i - 1)' <=> Orderly(req[r], conn[c], req[r].i - 1)
      BY <2>1, <2>2 DEF Orderly, IsPG
    <2>4. Marked(req[r], conn[c])' <=> Marked(req[r], conn[c])
      BY <2>1 DEF Marked, IsPG
    <2>5. Running(req[r], conn[c])' <=> Running(req[r], conn[c])
      BY <2>1, <2>3, <2>4 DEF Running, After
    <2>6. (Ended(req[r])' <=> Ended(req[r])) /\ (Returned(req[r])' <=> Returned(req[r]))
      BY <2>1, <2>2 DEF Ended, Returned, IsPG
    <2>7. /\ (Resting(conn[c])' <=> Resting(conn[c])) /\ (Settled(conn[c])' <=> Settled(conn[c]))
          /\ (Blank(req[r])' <=> Blank(req[r]))
      BY <2>1 DEF Resting, Settled, Blank, IsPG
    <2> QED BY <1>2, <2>1, <2>4, <2>5, <2>6, <2>7 DEF Fits
  <1> QED BY <1>1, <1>2 DEF InPhase

\* A step of a request on its own connection, which it keeps.
LEMMA StepOn ==
  ASSUME IInv, NEW r \in Req, NEW c \in Conns, req[r].on = {c}, family' = family,
         NEW q \in Locals, req' = [req EXCEPT ![r] = q], q.on = {c}, q.pc \in Busy,
         NEW s \in Sessions, conn' = [conn EXCEPT ![c] = s],
         Fits(q, s), Lawful(q)
  PROVE  IInv'
  <1>1. req'[r] = q /\ conn'[c] = s /\ (\A p \in Req : p # r => req'[p] = req[p])
        /\ (\A d \in Conns : d # c => conn'[d] = conn[d]) /\ conn' \in [Conns -> Sessions]
    BY DEF IInv
  <1>2. req' \in [Req -> Locals'] /\ Locals' = Locals
    BY DEF IInv, Locals
  <1>3. \A p \in Req : p # r => c \notin req[p].on
    BY DEF IInv
  <1>4. \A p \in Req : p # r => \A d \in req[p].on : conn'[d] = conn[d]
    BY <1>1, <1>3 DEF IInv, Locals
  <1>5. \A p \in Req : p # r => InPhase(p)'
    BY <1>1, <1>4, Others DEF IInv
  <1>6. InPhase(r)'
    <2>1. Lawful(req[r])'
      BY <1>1 DEF Lawful, IsPG, Scripted
    <2>2. Fits(req[r], conn[c])'
      <3>1. (ReadOnly(conn[c])' <=> ReadOnly(s)) /\ (InOneString(req[r])' <=> InOneString(q))
        BY <1>1 DEF ReadOnly, InOneString, IsPG
      <3>2. Orderly(req[r], conn[c], req[r].i - 1)' <=> Orderly(q, s, q.i - 1)
        BY <1>1, <3>1 DEF Orderly, IsPG
      <3>3. Marked(req[r], conn[c])' <=> Marked(q, s)
        BY <1>1 DEF Marked, IsPG
      <3>4. Running(req[r], conn[c])' <=> Running(q, s)
        BY <1>1, <3>2, <3>3 DEF Running, After
      <3>5. (Ended(req[r])' <=> Ended(q)) /\ (Returned(req[r])' <=> Returned(q))
        BY <1>1, <3>1 DEF Ended, Returned, IsPG
      <3>6. /\ (Resting(conn[c])' <=> Resting(s)) /\ (Settled(conn[c])' <=> Settled(s))
            /\ (Blank(req[r])' <=> Blank(q))
        BY <1>1 DEF Resting, Settled, Blank, IsPG
      <3> QED BY <1>1, <3>3, <3>4, <3>5, <3>6 DEF Fits
    <2> QED BY <1>1, <2>1, <2>2 DEF InPhase
  <1>7. \A d \in Conns : Free(d)' => Resting(conn[d])'
    <2> SUFFICES ASSUME NEW d \in Conns, Free(d)' PROVE Resting(conn[d])'
      OBVIOUS
    <2>1. d # c /\ Free(d)
      BY <1>1 DEF Free
    <2> QED BY <1>1, <2>1 DEF IInv, Resting, Settled, IsPG
  <1>8. \A p, t \in Req : p # t => req'[p].on \cap req'[t].on = {}
    BY <1>1 DEF IInv
  <1> QED BY <1>1, <1>2, <1>5, <1>6, <1>7, <1>8 DEF IInv

\* A step of a request that has no connection before it or none after it.
LEMMA StepOff ==
  ASSUME IInv, NEW r \in Req, family' = family,
         NEW q \in Locals, req' = [req EXCEPT ![r] = q], q.pc \notin Busy, q.on = {}, Blank(q), Lawful(q),
         conn' \in [Conns -> Sessions],
         \A d \in Conns : conn'[d] = conn[d] \/ (d \in req[r].on /\ Resting(conn'[d])),
         \A d \in req[r].on : Resting(conn'[d])
  PROVE  IInv'
  <1>1. req'[r] = q /\ \A p \in Req : p # r => req'[p] = req[p]
    BY DEF IInv
  <1>2. req' \in [Req -> Locals'] /\ Locals' = Locals
    BY DEF IInv, Locals
  <1>3. \A p \in Req : p # r => \A d \in req[p].on : conn'[d] = conn[d]
    BY DEF IInv, Locals
  <1>4. \A p \in Req : p # r => InPhase(p)'
    BY <1>1, <1>3, Others DEF IInv
  <1>5. InPhase(r)'
    BY <1>1 DEF InPhase, Lawful, Blank, IsPG
  <1>6. \A d \in Conns : Free(d)' => Resting(conn[d])'
    <2> SUFFICES ASSUME NEW d \in Conns, Free(d)' PROVE Resting(conn'[d])
      BY DEF Resting, Settled, IsPG
    <2>1. CASE d \in req[r].on
      BY <2>1
    <2>2. CASE d \notin req[r].on
      <3>1. Free(d) /\ conn'[d] = conn[d]
        BY <1>1, <2>2 DEF Free
      <3> QED BY <3>1 DEF IInv
    <2> QED BY <2>1, <2>2
  <1>7. \A p, t \in Req : p # t => req'[p].on \cap req'[t].on = {}
    BY <1>1 DEF IInv
  <1> QED BY <1>1, <1>2, <1>4, <1>5, <1>6, <1>7 DEF IInv

-----------------------------------------------------------------------------
(* The actions.                                                            *)

\* An idle slot.
LEMMA IdleIs == Idle \in Locals /\ Idle.pc = "idle" /\ Idle.on = {} /\ Blank(Idle) /\ Lawful(Idle)
  <1>1. /\ Idle.call.stmts = <<"read">> /\ Idle.i = 1 /\ Idle.pend = {} /\ Idle.kept = {} /\ Idle.ran = {}
        /\ Idle.err = "" /\ Idle.pc = "idle" /\ Idle.on = {}
    BY DEF Idle, Call
  <1>2. Idle \in Locals
    BY <1>1 DEF Idle, Locals
  <1>3. 1 \in DOMAIN <<"read">>
    OBVIOUS
  <1> QED BY <1>1, <1>2, <1>3 DEF Blank, Lawful

\* A request comes in and waits for a connection, or gives up.
LEMMA AskKeeps == ASSUME IInv, NEW r \in Req, Ask(r) \/ GiveUp(r) PROVE IInv'
  <1>1. UNCHANGED <<family, conn>> /\ req[r].pc \in {"idle", "wait"} /\ req[r] \in Locals
    BY DEF Ask, GiveUp, At, IInv
  <1>2. req[r].on = {} /\ Blank(req[r]) /\ Lawful(req[r])
    BY <1>1 DEF IInv, InPhase, Busy
  <1>3. CASE Ask(r)
    <2> DEFINE q == [req[r] EXCEPT !.pc = "wait"]
    <2>1. q \in Locals /\ q.pc = "wait" /\ q.on = {} /\ Blank(q) /\ Lawful(q)
      BY <1>1, <1>2 DEF Locals, Blank, Lawful, Scripted
    <2>2. req' = [req EXCEPT ![r] = q]
      BY <1>3 DEF Ask
    <2> QED BY <1>1, <1>2, <2>1, <2>2, StepOff DEF IInv, Busy
  <1>4. CASE GiveUp(r)
    BY <1>1, <1>2, <1>4, IdleIs, StepOff DEF IInv, Busy, GiveUp
  <1> QED BY <1>3, <1>4

\* The pool hands out a connection nobody has.
LEMMA AcquireKeeps == ASSUME IInv, NEW r \in Req, Acquire(r) PROVE IInv'
  <1>1. PICK c \in Conns, call \in Calls(family) :
          /\ Free(c)
          /\ req' = [req EXCEPT ![r].pc = "set", ![r].call = call, ![r].on = {c},
                                ![r].dirty = conn[c].touched]
    BY DEF Acquire
  <1>2. UNCHANGED <<family, conn>> /\ req[r].pc = "wait" /\ req[r] \in Locals /\ conn[c] \in Sessions
    BY DEF Acquire, At, IInv
  <1>3. req[r].on = {} /\ Blank(req[r])
    BY <1>2 DEF IInv, InPhase, Busy
  <1> DEFINE q == [req[r] EXCEPT !.pc = "set", !.call = call, !.on = {c}, !.dirty = conn[c].touched]
  <1>4. /\ q \in Locals /\ q.pc = "set" /\ q.on = {c} /\ Blank(q) /\ q.call = call
        /\ q.dirty = conn[c].touched
    <2>1. conn[c].touched \in BOOLEAN
      BY <1>2 DEF Sessions
    <2>2. ASSUME NEW l \in Locals, NEW b \in BOOLEAN
          PROVE  [l EXCEPT !.pc = "set", !.call = call, !.on = {c}, !.dirty = b] \in Locals
      BY DEF Locals
    <2>3. q \in Locals
      BY <1>2, <2>1, <2>2
    <2>4. q.pc = "set" /\ q.on = {c} /\ q.call = call /\ q.dirty = conn[c].touched
      BY <1>2 DEF Locals
    <2>5. q.i = req[r].i /\ q.pend = req[r].pend /\ q.kept = req[r].kept /\ q.ran = req[r].ran /\ q.err = req[r].err
      BY <1>2 DEF Locals
    <2> QED BY <1>3, <2>3, <2>4, <2>5 DEF Blank
  <1>5. req' = [req EXCEPT ![r] = q]
    BY <1>1
  <1> HIDE DEF q
  <1>6. Resting(conn[c])
    BY <1>1 DEF IInv
  <1>7. Fits(q, conn[c])
    BY <1>4, <1>6 DEF Fits
  <1>8. Lawful(q)
    <2>1. WellFormed(call)
      BY CallsAre
    <2>2. q.i = 1 /\ q.call = call /\ 1 \in DOMAIN call.stmts
      <3>1. 1 \in DOMAIN call.stmts
        BY <2>1 DEF WellFormed
      <3> QED BY <1>4, <3>1, Zenon DEF Blank
    <2> QED BY <1>4, <2>2, Zenon DEF Lawful, Blank
  <1>9. req'[r] = q /\ (\A p \in Req : p # r => req'[p] = req[p]) /\ req' \in [Req -> Locals'] /\ conn' = conn
    BY <1>2, <1>4, <1>5 DEF IInv, Locals
  <1>10. \A p \in Req : p # r => InPhase(p)'
    BY <1>2, <1>9, Others DEF IInv
  <1>11. InPhase(r)'
    <2>1. Lawful(req[r])'
      BY <1>2, <1>8, <1>9 DEF Lawful, IsPG, Scripted
    <2>2. Fits(req[r], conn[c])'
      BY <1>2, <1>7, <1>9 DEF Fits, Resting, Settled, Blank, Running, After, Orderly, Marked, ReadOnly, Ended, Returned, InOneString, IsPG
    <2> QED BY <1>4, <1>9, <2>1, <2>2 DEF InPhase, Busy
  <1>12. \A d \in Conns : Free(d)' => Resting(conn[d])'
    <2> SUFFICES ASSUME NEW d \in Conns, Free(d)' PROVE Resting(conn[d])'
      OBVIOUS
    <2>1. Free(d)
      BY <1>3, <1>9 DEF Free
    <2> QED BY <1>2, <2>1 DEF IInv, Resting, Settled, IsPG
  <1>13. \A p, t \in Req : p # t => req'[p].on \cap req'[t].on = {}
    BY <1>1, <1>4, <1>9 DEF IInv, Free
  <1> QED BY <1>2, <1>9, <1>10, <1>11, <1>12, <1>13 DEF IInv

\* The ways in which a session changes.
LEMMA BeginIs ==
  ASSUME NEW s \in Sessions, NEW b \in BOOLEAN
  PROVE  /\ Begin(s, b) \in Sessions /\ Begin(s, b).tx /\ (Begin(s, b).txro <=> b)
         /\ (Begin(s, b).ro <=> s.ro) /\ (Begin(s, b).touched <=> s.touched) /\ Begin(s, b).path = s.path
  BY DEF Begin, Sessions

SetRo(s, b) == [s EXCEPT !.ro = b]
LEMMA SetRoIs ==
  ASSUME NEW s \in Sessions, NEW b \in BOOLEAN
  PROVE  /\ SetRo(s, b) \in Sessions /\ (SetRo(s, b).ro <=> b)
         /\ (SetRo(s, b).tx <=> s.tx) /\ (SetRo(s, b).txro <=> s.txro)
         /\ (SetRo(s, b).touched <=> s.touched) /\ SetRo(s, b).path = s.path
  BY DEF SetRo, Sessions

SetTx(s, b) == [s EXCEPT !.tx = b]

SetTouched(s) == [s EXCEPT !.touched = TRUE]
LEMMA SetTouchedIs ==
  ASSUME NEW s \in Sessions
  PROVE  /\ SetTouched(s) \in Sessions /\ SetTouched(s).touched
         /\ (SetTouched(s).ro <=> s.ro) /\ (SetTouched(s).txro <=> s.txro)
         /\ (SetTouched(s).tx <=> s.tx) /\ SetTouched(s).path = s.path
  BY DEF SetTouched, Sessions

LEMMA SetPathIs ==
  ASSUME NEW s \in Sessions, NEW p \in Paths
  PROVE  /\ [s EXCEPT !.path = p] \in Sessions /\ [s EXCEPT !.path = p].path = p
         /\ ([s EXCEPT !.path = p].ro <=> s.ro) /\ ([s EXCEPT !.path = p].txro <=> s.txro)
         /\ ([s EXCEPT !.path = p].touched <=> s.touched) /\ ([s EXCEPT !.path = p].tx <=> s.tx)
  BY DEF Sessions

\* A request about to run its first statement, its session in order.
LEMMA FirstRuns ==
  ASSUME NEW q, NEW t, WellFormed(q.call), Blank(q), q.dirty <=> t.touched, Marked(q, t),
         IsPG /\ t.tx => Scripted(q),
         q.call.ro => ReadOnly(t), ReadOnly(t) => q.call.ro \/ (~IsPG /\ t.touched),
         t.path = q.call.schema \/ (IsPG /\ Scripted(q)) \/ (family = "mysql" /\ t.touched),
         Scripted(q) => t.tx
  PROVE  Running(q, t)
  <1>1. q.i - 1 = 0
    <2>1. 1 - 1 = 0
      OBVIOUS
    <2> QED BY <2>1, Zenon DEF Blank
  <1>2. Done(q, 0) = {}
    BY DEF Done, WritesOf, WellFormed
  <1>3. q.kept = {} /\ q.pend = {} /\ q.err = ""
    BY Zenon DEF Blank
  <1>4. Orderly(q, t, 0)
    BY <1>2, <1>3 DEF Orderly
  <1> QED BY <1>1, <1>3, <1>4 DEF Running, After

\* Setting up gives the session the mode, the path and the transaction of the
\* request, whatever it had been used for.
LEMMA SetupIs ==
  ASSUME NEW r \in Req, NEW q \in Locals, NEW s \in Sessions, q.call = req[r].call, family \in Families,
         Resting(s), Blank(q), q.dirty <=> s.touched, ~(family = "sqlite" /\ Scripted(q) /\ s.tx)
  PROVE  Setup(r, s) \in Sessions /\ Running(q, Setup(r, s))
  <1>1. WellFormed(q.call)
    BY CallsAre DEF Locals
  <1>2. /\ s.ro \in BOOLEAN /\ q.call.ro \in BOOLEAN /\ q.call.schema \in Paths
        /\ (~IsPG => q.call.schema = Default) /\ (Scripted(q) => ~q.call.ro)
    BY <1>1 DEF Sessions, WellFormed, Scripted
  <1>3. CASE family = "postgres"
    <2>1. CASE Scripted(q)
      <3>1. Setup(r, s) = Begin(s, FALSE)
        BY <1>3, <2>1 DEF Setup, PostgresSetup, IsPG, IsScript, Scripted
      <3>2. /\ Setup(r, s) \in Sessions /\ Setup(r, s).tx /\ ~Setup(r, s).txro
            /\ (Setup(r, s).touched <=> s.touched)
        BY <3>1, BeginIs
      <3>3. ~ReadOnly(Setup(r, s))
        BY <1>3, <3>2 DEF ReadOnly
      <3> QED BY <1>1, <1>2, <1>3, <2>1, <3>2, <3>3, FirstRuns DEF IsPG, Marked
    <2>2. CASE ~Scripted(q)
      <3> DEFINE u == [s EXCEPT !.path = q.call.schema]
      <3>1. Setup(r, s) = SetRo(u, q.call.ro)
        BY <1>3, <2>2 DEF SetRo, Setup, PostgresSetup, IsPG, IsScript, Scripted, Sessions
      <3>2. /\ u \in Sessions /\ u.path = q.call.schema /\ (u.tx <=> s.tx) /\ (u.touched <=> s.touched)
        BY <1>2, SetPathIs
      <3> HIDE DEF u
      <3>3. /\ Setup(r, s) \in Sessions /\ (Setup(r, s).ro <=> q.call.ro) /\ Setup(r, s).path = q.call.schema
            /\ (Setup(r, s).tx <=> s.tx) /\ (Setup(r, s).touched <=> s.touched)
        BY <1>2, <3>1, <3>2, SetRoIs
      <3>4. ~Setup(r, s).tx
        BY <1>3, <3>3 DEF Resting, IsPG
      <3>5. ReadOnly(Setup(r, s)) <=> q.call.ro
        BY <3>3, <3>4 DEF ReadOnly
      <3> QED BY <1>1, <1>3, <2>2, <3>3, <3>4, <3>5, FirstRuns DEF IsPG, Marked
    <2> QED BY <2>1, <2>2
  <1>4. ASSUME family \in {"mysql", "sqlite"}
        PROVE  /\ s.tx => s.touched
               /\ s.ro => s.touched
               /\ s.path = Default \/ (family = "mysql" /\ s.touched)
    BY <1>4 DEF Resting, Settled, IsPG
  <1>5. CASE family \in {"mysql", "sqlite"} /\ Scripted(q)
    <2>1. Setup(r, s) = Begin(s, s.ro)
      BY <1>5 DEF Setup, MySQLSetup, SQLiteSetup, IsPG, IsScript, Scripted
    <2>2. /\ Setup(r, s) \in Sessions /\ Setup(r, s).tx /\ (Setup(r, s).txro <=> s.ro)
          /\ (Setup(r, s).touched <=> s.touched) /\ (Setup(r, s).ro <=> s.ro) /\ Setup(r, s).path = s.path
      BY <1>2, <2>1, BeginIs
    <2>3. ReadOnly(Setup(r, s)) => s.touched
      BY <1>4, <1>5, <2>2 DEF ReadOnly
    <2>4. Marked(q, Setup(r, s))
      BY <1>4, <1>5, <2>2 DEF Marked
    <2> QED BY <1>1, <1>2, <1>4, <1>5, <2>2, <2>3, <2>4, FirstRuns DEF IsPG
  <1>6. CASE family = "mysql" /\ ~Scripted(q) /\ q.call.ro
    <2>1. Setup(r, s) = Begin(s, TRUE)
      BY <1>6 DEF Setup, MySQLSetup, IsPG, IsScript, Scripted
    <2>2. /\ Setup(r, s) \in Sessions /\ Setup(r, s).tx /\ Setup(r, s).txro
          /\ (Setup(r, s).touched <=> s.touched) /\ (Setup(r, s).ro <=> s.ro) /\ Setup(r, s).path = s.path
      BY <2>1, BeginIs
    <2>3. ReadOnly(Setup(r, s))
      BY <1>6, <2>2 DEF ReadOnly
    <2>4. Marked(q, Setup(r, s))
      BY <1>4, <1>6, <2>2 DEF Marked
    <2> QED BY <1>1, <1>2, <1>4, <1>6, <2>2, <2>3, <2>4, FirstRuns DEF IsPG
  <1>7. CASE family = "sqlite" /\ ~Scripted(q) /\ q.call.ro
    <2>1. Setup(r, s) = SetRo(s, TRUE)
      BY <1>7 DEF SetRo, Setup, SQLiteSetup, IsPG, IsScript, Scripted
    <2>2. /\ Setup(r, s) \in Sessions /\ (Setup(r, s).tx <=> s.tx) /\ Setup(r, s).ro
          /\ (Setup(r, s).touched <=> s.touched) /\ Setup(r, s).path = s.path
      <3>1. /\ SetRo(s, TRUE) \in Sessions /\ (SetRo(s, TRUE).tx <=> s.tx) /\ SetRo(s, TRUE).ro
            /\ (SetRo(s, TRUE).touched <=> s.touched) /\ SetRo(s, TRUE).path = s.path
        BY DEF SetRo, Sessions
      <3> QED BY <2>1, <3>1, Zenon
    <2>3. ReadOnly(Setup(r, s))
      BY <1>7, <2>2 DEF ReadOnly
    <2>4. Marked(q, Setup(r, s))
      BY <1>4, <1>7, <2>2 DEF Marked
    <2> QED BY <1>1, <1>2, <1>4, <1>7, <2>2, <2>3, <2>4, FirstRuns DEF IsPG
  <1>8. CASE family \in {"mysql", "sqlite"} /\ ~Scripted(q) /\ ~q.call.ro
    <2>1. Setup(r, s) = s
      BY <1>8 DEF Setup, MySQLSetup, SQLiteSetup, IsPG, IsScript, Scripted
    <2>2. ReadOnly(s) => s.touched
      <3>1. CASE s.tx
        BY <1>4, <1>8, <3>1
      <3>2. CASE ~s.tx
        BY <1>4, <1>8, <3>2 DEF ReadOnly
      <3> QED BY <3>1, <3>2
    <2>3. Marked(q, s)
      BY <1>4, <1>8 DEF Marked
    <2> QED BY <1>1, <1>2, <1>4, <1>8, <2>1, <2>2, <2>3, FirstRuns DEF IsPG
  <1> QED BY <1>3, <1>5, <1>6, <1>7, <1>8, FamiliesAssumption

\* The ways in which the locals of a request change while it has its
\* connection.
Becomes(l, pc, i, err, ran, kept, pend) ==
  [l EXCEPT !.pc = pc, !.i = i, !.err = err, !.ran = ran, !.kept = kept, !.pend = pend]
LEMMA BecomesIs ==
  ASSUME NEW l \in Locals, NEW pc, NEW i, NEW err, NEW ran, NEW kept, NEW pend
  PROVE  LET q == Becomes(l, pc, i, err, ran, kept, pend)
         IN  /\ q.pc = pc /\ q.i = i /\ q.err = err /\ q.ran = ran /\ q.kept = kept
             /\ q.pend = pend /\ q.call = l.call /\ q.on = l.on /\ (q.dirty <=> l.dirty)
  BY DEF Becomes, Locals

Moves(r, q) == req' = [req EXCEPT ![r] = q]

\* A new session has no marks.
LEMMA FreshIs == Fresh \in Sessions /\ ~Fresh.tx /\ ~Fresh.ro /\ Fresh.path = Default /\ Resting(Fresh)
  BY DEF Fresh, Sessions, Paths, Resting, Settled

\* Cleaning up takes back the marks of the request.
LEMMA CleanUpIs ==
  ASSUME NEW r \in Req, NEW q \in Locals, NEW s \in Sessions, q.call = req[r].call, family \in Families,
         Marked(q, s)
  PROVE  CleanUp(r, s) \in Sessions /\ Settled(CleanUp(r, s))
  <1>1. IsScript(r) <=> Scripted(q)
    BY DEF IsScript, Scripted
  <1>2. CASE Scripted(q) \/ (family = "mysql" /\ q.call.ro)
    <2>1. CleanUp(r, s) = SetTx(s, FALSE)
      BY <1>1, <1>2 DEF CleanUp, SetTx
    <2>2. /\ SetTx(s, FALSE) \in Sessions /\ ~SetTx(s, FALSE).tx /\ (SetTx(s, FALSE).ro <=> s.ro)
          /\ (SetTx(s, FALSE).touched <=> s.touched) /\ SetTx(s, FALSE).path = s.path
      BY DEF SetTx, Sessions
    <2>3. Settled(SetTx(s, FALSE))
      BY <1>2, <2>2 DEF Marked, Settled
    <2> QED BY <2>1, <2>2, <2>3
  <1>3. CASE ~Scripted(q) /\ family = "sqlite" /\ q.call.ro
    <2>1. CleanUp(r, s) = SetRo(s, FALSE)
      BY <1>1, <1>3 DEF CleanUp, SetRo
    <2>2. /\ SetRo(s, FALSE) \in Sessions /\ ~SetRo(s, FALSE).ro /\ (SetRo(s, FALSE).tx <=> s.tx)
          /\ (SetRo(s, FALSE).touched <=> s.touched) /\ SetRo(s, FALSE).path = s.path
      BY DEF SetRo, Sessions
    <2>3. Settled(SetRo(s, FALSE))
      BY <1>3, <2>2 DEF Marked, Settled
    <2> QED BY <2>1, <2>2, <2>3
  <1>4. CASE ~Scripted(q) /\ ~(family \in {"mysql", "sqlite"} /\ q.call.ro)
    <2>1. CleanUp(r, s) = s
      BY <1>1, <1>4 DEF CleanUp
    <2>2. Settled(s)
      BY <1>4 DEF Marked, Settled, IsPG
    <2> QED BY <2>1, <2>2
  <1> QED BY <1>2, <1>3, <1>4

\* The session is set up.
LEMMA PrepareKeeps == ASSUME IInv, NEW r \in Req, Prepare(r) PROVE IInv'
  <1>1. req[r].pc = "set" /\ req[r] \in Locals /\ family' = family /\ family \in Families
    BY DEF Prepare, At, IInv
  <1>2. PICK c \in Conns : /\ req[r].on = {c} /\ On(r) = c /\ Session(r) = conn[c]
                           /\ Fits(req[r], conn[c]) /\ conn[c] \in Sessions
    BY <1>1, OnIs DEF Busy
  <1>3. Resting(conn[c]) /\ Blank(req[r]) /\ (req[r].dirty <=> conn[c].touched)
    BY <1>1, <1>2 DEF Fits
  <1> DEFINE q == Becomes(req[r], "run", req[r].i, req[r].err, req[r].ran, req[r].kept, req[r].pend)
  <1>4. req' = [req EXCEPT ![r] = q]
    <2>1. [req[r] EXCEPT !.pc = "run"] = q
      BY <1>1 DEF Becomes, Locals
    <2> QED BY <2>1 DEF Prepare
  <1>5. /\ q \in Locals /\ q.pc = "run" /\ q.i = req[r].i /\ q.err = req[r].err /\ q.ran = req[r].ran
        /\ q.kept = req[r].kept /\ q.pend = req[r].pend /\ q.call = req[r].call /\ q.on = {c}
        /\ (q.dirty <=> req[r].dirty)
    <2>1. q \in Locals
      BY <1>1 DEF Becomes, Locals
    <2> QED BY <1>1, <1>2, <2>1, BecomesIs
  <1> HIDE DEF q
  <1>6. Blank(q) /\ (q.dirty <=> conn[c].touched)
    BY <1>3, <1>5 DEF Blank
  <1>7. ~(family = "sqlite" /\ Scripted(q) /\ conn[c].tx)
    BY <1>2, <1>5 DEF Prepare, Nested, IsScript, Scripted
  <1>8. Setup(r, conn[c]) \in Sessions /\ Running(q, Setup(r, conn[c]))
    BY <1>1, <1>2, <1>3, <1>5, <1>6, <1>7, SetupIs
  <1>9. conn' = [conn EXCEPT ![c] = Setup(r, conn[c])]
    BY <1>2 DEF Prepare
  <1>10. Fits(q, Setup(r, conn[c]))
    BY <1>5, <1>8 DEF Fits
  <1>11. Lawful(q)
    <2>1. Lawful(req[r])
      BY DEF IInv, InPhase
    <2> QED BY <1>5, <2>1, Zenon DEF Lawful, Scripted, Changed
  <1> QED BY <1>1, <1>2, <1>4, <1>5, <1>8, <1>9, <1>10, <1>11, StepOn DEF Busy

\* Setting up fails.
LEMMA PrepareFailsKeeps == ASSUME IInv, NEW r \in Req, PrepareFails(r) PROVE IInv'
  <1>1. req[r].pc = "set" /\ req[r] \in Locals /\ family' = family /\ family \in Families
    BY DEF PrepareFails, At, IInv
  <1>2. PICK c \in Conns : /\ req[r].on = {c} /\ On(r) = c /\ Session(r) = conn[c]
                           /\ Fits(req[r], conn[c]) /\ conn[c] \in Sessions
    BY <1>1, OnIs DEF Busy
  <1>3. Resting(conn[c]) /\ Blank(req[r]) /\ (req[r].dirty <=> conn[c].touched)
    BY <1>1, <1>2 DEF Fits
  <1> DEFINE q == Becomes(req[r], "back", req[r].i, "failed", req[r].ran, req[r].kept, req[r].pend)
             half == IF IsPG THEN [conn[c] EXCEPT !.path = Setup(r, conn[c]).path] ELSE conn[c]
  <1>4. req' = [req EXCEPT ![r] = q]
    <2>1. [req[r] EXCEPT !.pc = "back", !.err = "failed"] = q
      BY <1>1 DEF Becomes, Locals
    <2> QED BY <2>1 DEF PrepareFails
  <1>5. /\ q \in Locals /\ q.pc = "back" /\ q.i = req[r].i /\ q.err = "failed" /\ q.ran = req[r].ran
        /\ q.kept = req[r].kept /\ q.pend = req[r].pend /\ q.call = req[r].call /\ q.on = {c}
        /\ (q.dirty <=> req[r].dirty)
    <2>1. q \in Locals
      BY <1>1 DEF Becomes, Locals
    <2> QED BY <1>1, <1>2, <2>1, BecomesIs
  <1>6. PICK t \in {IF IsScript(r) THEN conn[c] ELSE CleanUp(r, conn[c]), half, Fresh} :
          conn' = [conn EXCEPT ![c] = t]
    BY <1>2 DEF PrepareFails
  <1> HIDE DEF q
  <1>7. t \in Sessions /\ Settled(t)
    <2>1. Settled(conn[c]) /\ Marked(req[r], conn[c])
      BY <1>3 DEF Resting, Settled, Marked
    <2>2. CleanUp(r, conn[c]) \in Sessions /\ Settled(CleanUp(r, conn[c]))
      BY <1>1, <1>2, <2>1, CleanUpIs
    <2>3. CASE IsPG
      <3>1. Setup(r, conn[c]) \in Sessions
        BY <1>1, <1>2, <1>3, <2>3, SetupIs DEF IsPG
      <3>2. half \in Sessions
        BY <1>2, <2>3, <3>1 DEF Sessions
      <3> QED BY <1>2, <1>6, <2>2, <2>3, <3>2, FreshIs DEF Settled
    <2>4. CASE ~IsPG
      BY <1>2, <1>6, <2>1, <2>2, <2>4, FreshIs DEF Resting
    <2> QED BY <2>3, <2>4
  <1>8. Fits(q, t)
    <2>1. Returned(q)
      BY <1>3, <1>5 DEF Returned, Blank
    <2> QED BY <1>5, <1>7, <2>1 DEF Fits
  <1>9. Lawful(q)
    <2>1. Lawful(req[r])
      BY DEF IInv, InPhase
    <2> QED BY <1>5, <2>1 DEF Lawful, Scripted, Changed
  <1> HIDE DEF half
  <1> QED BY <1>1, <1>2, <1>4, <1>5, <1>6, <1>7, <1>8, <1>9, StepOn DEF Busy

\* What a request is known to have, at a step on its connection.
LEMMA Holding ==
  ASSUME IInv, NEW r \in Req, req[r].pc \in Busy
  PROVE  /\ req[r] \in Locals /\ Lawful(req[r]) /\ WellFormed(req[r].call) /\ family \in Families
         /\ \E c \in Conns : /\ req[r].on = {c} /\ On(r) = c /\ Session(r) = conn[c]
                             /\ Fits(req[r], conn[c]) /\ conn[c] \in Sessions
  <1>1. req[r] \in Locals /\ Lawful(req[r]) /\ family \in Families
    BY DEF IInv, InPhase
  <1>2. WellFormed(req[r].call)
    BY <1>1, CallsAre DEF Locals
  <1> QED BY <1>1, <1>2, OnIs

\* What a statement has changed stays changed.
LEMMA ChangedMore ==
  ASSUME NEW q, NEW n \in Nat, NEW m \in Nat, n <= m, Changed(q, n)
  PROVE  Changed(q, m)
  BY DEF Changed

\* Where a request is among its statements.
LEMMA Place ==
  ASSUME NEW q \in Locals, WellFormed(q.call), Lawful(q)
  PROVE  /\ Len(q.call.stmts) \in Nat \ {0} /\ DOMAIN q.call.stmts = 1 .. Len(q.call.stmts)
         /\ q.i \in 1 .. Len(q.call.stmts) /\ q.i \in Nat \ {0}
         /\ q.i - 1 \in Nat /\ q.i - 1 <= q.i /\ q.i <= Len(q.call.stmts) /\ q.i - 1 <= Len(q.call.stmts)
  <1>1. Len(q.call.stmts) \in Nat \ {0} /\ DOMAIN q.call.stmts = 1 .. Len(q.call.stmts)
    BY DEF WellFormed
  <1>2. q.i \in DOMAIN q.call.stmts
    BY DEF Lawful
  <1> QED BY <1>1, <1>2

\* A request that ends in an error before its transaction was committed.
LEMMA Breaks ==
  ASSUME NEW l \in Locals, NEW q, NEW s, NEW n \in Nat, WellFormed(l.call), n <= Len(l.call.stmts),
         After(l, s, n), q.call = l.call, q.kept = l.kept, q.err # "", q.dirty <=> l.dirty
  PROVE  Ended(q) /\ Returned(q)
  <1>1. CASE Changed(l, n)
    <2>1. Changed(l, Len(l.call.stmts))
      BY <1>1, ChangedMore DEF WellFormed
    <2>2. Changed(q, Len(q.call.stmts))
      BY <2>1 DEF Changed
    <2> QED BY <2>2 DEF Ended, Returned
  <1>2. CASE Orderly(l, s, n)
    <2>1. (Scripted(q) <=> Scripted(l)) /\ (InOneString(q) <=> InOneString(l))
      BY DEF Scripted, InOneString
    <2>2. /\ Scripted(q) => (q.kept # {} => family = "mysql" /\ HasDDL(q.call))
          /\ InOneString(q) => q.kept = {}
      BY <1>2, <2>1 DEF Orderly
    <2> QED BY <2>2 DEF Ended, Returned
  <1> QED BY <1>1, <1>2 DEF After

\* A statement is refused or fails, or Query refuses the string.
LEMMA StatementFailsKeeps == ASSUME IInv, NEW r \in Req, StatementFails(r) \/ RefuseMulti(r) PROVE IInv'
  <1> DEFINE l == req[r]
  <1>1. l.pc = "run" /\ l.pc \in Busy /\ family' = family /\ conn' = conn
    BY DEF StatementFails, RefuseMulti, At, Busy
  <1>2. l \in Locals /\ Lawful(l) /\ WellFormed(l.call)
    BY <1>1, Holding
  <1>3. PICK c \in Conns : l.on = {c} /\ Session(r) = conn[c] /\ Fits(l, conn[c]) /\ conn[c] \in Sessions
    BY <1>1, Holding
  <1>4. After(l, conn[c], l.i - 1)
    BY <1>1, <1>3 DEF Fits, Running
  <1>5. PICK e \in {"read-only", "failed", "multi"}, pend \in {{}, l.pend} :
          /\ req' = [req EXCEPT ![r].pc = "end", ![r].pend = pend, ![r].err = e]
          /\ e = "read-only" => ReadOnly(conn[c])
    <2>1. CASE StatementFails(r)
      <3> DEFINE e == IF Refused(r) THEN "read-only" ELSE "failed"
                 pend == IF Simple(r) THEN {} ELSE l.pend
      <3>1. req' = [req EXCEPT ![r].pc = "end", ![r].pend = pend, ![r].err = e]
        BY <2>1 DEF StatementFails
      <3>2. e \in {"read-only", "failed", "multi"} /\ pend \in {{}, l.pend}
        OBVIOUS
      <3>3. e = "read-only" => ReadOnly(conn[c])
        BY <1>3 DEF Refused
      <3> QED BY <3>1, <3>2, <3>3
    <2>2. CASE RefuseMulti(r)
      <3>1. [l EXCEPT !.pc = "end", !.pend = l.pend, !.err = "multi"] = [l EXCEPT !.pc = "end", !.err = "multi"]
        BY <1>2 DEF Locals
      <3>2. req' = [req EXCEPT ![r].pc = "end", ![r].pend = l.pend, ![r].err = "multi"]
        BY <2>2, <3>1 DEF RefuseMulti
      <3> QED BY <3>2
    <2> QED BY <2>1, <2>2
  <1> DEFINE q == Becomes(l, "end", l.i, e, l.ran, l.kept, pend)
  <1>6. req' = [req EXCEPT ![r] = q]
    <2>1. [l EXCEPT !.pc = "end", !.pend = pend, !.err = e] = q
      BY <1>2 DEF Becomes, Locals
    <2> QED BY <1>5, <2>1
  <1>7. q \in Locals
    BY <1>2 DEF Becomes, Locals
  <1>8. /\ q.pc = "end" /\ q.i = l.i /\ q.err = e /\ q.ran = l.ran /\ q.kept = l.kept /\ q.pend \subseteq l.pend
        /\ q.call = l.call /\ q.on = {c} /\ (q.dirty <=> l.dirty)
    BY <1>2, <1>3, BecomesIs
  <1> HIDE DEF q, l
  <1>9. Marked(q, conn[c]) /\ (Scripted(q) <=> Scripted(l))
    BY <1>4, <1>8 DEF After, Marked, Scripted
  <1>10. Ended(q)
    BY <1>2, <1>4, <1>8, Place, Breaks
  <1>11. Lawful(q)
    <2>1. q.err = "read-only" => q.call.ro \/ Changed(q, q.i - 1) \/ (~IsPG /\ q.dirty)
      BY <1>4, <1>5, <1>8 DEF After, Orderly, Changed
    <2>2. q.call.ro => \A j \in q.kept \cup q.pend : ~IsPG /\ Changed(q, j - 1)
      BY <1>2, <1>8 DEF Lawful, Changed
    <2>3. \/ q.ran \subseteq {q.call.schema} \/ Changed(q, q.i - 1)
          \/ (IsPG /\ Scripted(q)) \/ (family = "mysql" /\ q.dirty)
      BY <1>2, <1>8, <1>9 DEF Lawful, Changed
    <2>4. q.i \in DOMAIN q.call.stmts /\ q.pend \cup q.kept \subseteq WritesOf(q.call)
      BY <1>2, <1>8 DEF Lawful
    <2> QED BY <2>1, <2>2, <2>3, <2>4 DEF Lawful
  <1>12. Fits(q, conn[c])
    BY <1>8, <1>9, <1>10 DEF Fits
  <1>13. conn' = [conn EXCEPT ![c] = conn[c]]
    BY <1>1 DEF IInv
  <1> QED BY <1>1, <1>3, <1>6, <1>7, <1>8, <1>11, <1>12, <1>13, StepOn DEF Busy, l

\* The connection breaks under a statement or after the last one.
LEMMA ConnectionLostKeeps == ASSUME IInv, NEW r \in Req, ConnectionLost(r) PROVE IInv'
  <1> DEFINE l == req[r]
             q == [l EXCEPT !.pc = "back", !.pend = {}, !.err = "failed"]
  <1>1. l.pc \in {"run", "end"} /\ l.pc \in Busy /\ family' = family
    BY DEF ConnectionLost, Busy
  <1>2. l \in Locals /\ Lawful(l) /\ WellFormed(l.call)
    BY <1>1, Holding
  <1>3. PICK c \in Conns : l.on = {c} /\ On(r) = c /\ Fits(l, conn[c])
    BY <1>1, Holding
  <1>4. q \in Locals /\ Moves(r, q)
    BY <1>2 DEF Locals, Moves, ConnectionLost
  <1>5. /\ q.pc = "back" /\ q.i = l.i /\ q.pend = {} /\ q.call = l.call /\ q.on = l.on
        /\ (q.dirty <=> l.dirty) /\ q.err = "failed" /\ q.kept = l.kept /\ q.ran = l.ran
    BY <1>2 DEF Locals
  <1>6. conn' = [conn EXCEPT ![c] = Fresh]
    BY <1>3 DEF ConnectionLost
  <1> HIDE DEF l, q
  <1>7. Returned(q)
    <2>1. CASE l.pc = "run"
      <3>1. After(l, conn[c], l.i - 1)
        BY <1>3, <2>1 DEF Fits, Running
      <3> QED BY <1>2, <1>5, <3>1, Place, Breaks
    <2>2. CASE l.pc = "end"
      <3>1. Ended(l)
        BY <1>3, <2>2 DEF Fits
      <3> QED BY <1>5, <3>1 DEF Ended, Returned, Changed, Scripted, InOneString
    <2> QED BY <1>1, <2>1, <2>2
  <1>8. Fits(q, Fresh)
    BY <1>5, <1>7, FreshIs DEF Fits, Resting
  <1>9. Lawful(q)
    BY <1>2, <1>5 DEF Lawful, Scripted, Changed
  <1> QED BY <1>1, <1>3, <1>4, <1>5, <1>6, <1>8, <1>9, FreshIs, StepOn DEF Busy, l, Moves

\* The request is over: it commits its script, or cleans up.
LEMMA CommitKeeps == ASSUME IInv, NEW r \in Req, Commit(r) PROVE IInv'
  <1> DEFINE l == req[r]
  <1>1. l.pc = "end" /\ l.pc \in Busy /\ family' = family /\ Scripted(l) /\ l.err = ""
    BY DEF Commit, At, Busy, IsScript, Scripted
  <1>2. l \in Locals /\ Lawful(l) /\ family \in Families /\ WellFormed(l.call)
    BY <1>1, Holding
  <1>3. PICK c \in Conns : l.on = {c} /\ On(r) = c /\ Fits(l, conn[c]) /\ conn[c] \in Sessions
    BY <1>1, Holding
  <1>4. PICK e, kept : /\ e \in {"", "failed"} /\ kept \in {l.kept, l.kept \cup l.pend}
                       /\ e = "" => kept = l.kept \cup l.pend
                       /\ req' = [req EXCEPT ![r].pc = "back", ![r].err = e, ![r].pend = {}, ![r].kept = kept]
    <2>1. PICK done \in BOOLEAN, e \in {"", "failed"} :
            /\ e = "" => done
            /\ req' = [req EXCEPT ![r].pc = "back", ![r].err = e, ![r].pend = {},
                                  ![r].kept = @ \cup IF done THEN req[r].pend ELSE {}]
      BY DEF Commit
    <2>2. CASE done
      <3>1. req' = [req EXCEPT ![r].pc = "back", ![r].err = e, ![r].pend = {}, ![r].kept = l.kept \cup l.pend]
        BY <2>1, <2>2
      <3> QED BY <3>1
    <2>3. CASE ~done
      <3>1. req' = [req EXCEPT ![r].pc = "back", ![r].err = e, ![r].pend = {}, ![r].kept = l.kept]
        BY <2>1, <2>3
      <3> QED BY <2>1, <2>3, <3>1
    <2> QED BY <2>2, <2>3
  <1> DEFINE q == [l EXCEPT !.pc = "back", !.err = e, !.pend = {}, !.kept = kept]
  <1>5. q \in Locals /\ Moves(r, q)
    BY <1>2, <1>4 DEF Locals, Moves
  <1>6. /\ q.pc = "back" /\ q.i = l.i /\ q.pend = {} /\ q.call = l.call /\ q.on = l.on
        /\ (q.dirty <=> l.dirty) /\ q.err = e /\ q.kept = kept /\ q.ran = l.ran
    BY <1>2 DEF Locals
  <1>7. conn' = [conn EXCEPT ![c] = CleanUp(r, conn[c])]
    BY <1>3 DEF Commit
  <1>8. CleanUp(r, conn[c]) \in Sessions /\ Settled(CleanUp(r, conn[c]))
    BY <1>1, <1>2, <1>3, CleanUpIs DEF Fits
  <1> HIDE DEF l, q
  <1>9. \/ Changed(l, Len(l.call.stmts))
        \/ /\ l.kept \cup l.pend = WritesOf(l.call)
           /\ l.kept = {} \/ (family = "mysql" /\ HasDDL(l.call))
    BY <1>1, <1>3 DEF Fits, Ended
  <1>10. Returned(q)
    BY <1>4, <1>6, <1>9 DEF Returned, Changed
  <1>11. Fits(q, CleanUp(r, conn[c]))
    BY <1>6, <1>8, <1>10 DEF Fits
  <1>12. Lawful(q)
    BY <1>2, <1>4, <1>6 DEF Lawful, Scripted, Changed
  <1> QED BY <1>1, <1>3, <1>5, <1>6, <1>7, <1>8, <1>11, <1>12, StepOn DEF Busy, l, Moves

LEMMA FinishKeeps == ASSUME IInv, NEW r \in Req, Finish(r) PROVE IInv'
  <1> DEFINE l == req[r]
             q == [l EXCEPT !.pc = "back", !.pend = IF Scripted(l) THEN {} ELSE @]
  <1>1. l.pc = "end" /\ l.pc \in Busy /\ family' = family /\ (Scripted(l) => l.err # "")
    BY DEF Finish, At, Busy, IsScript, Scripted
  <1>2. l \in Locals /\ Lawful(l) /\ family \in Families
    BY <1>1, Holding
  <1>3. PICK c \in Conns : l.on = {c} /\ On(r) = c /\ Fits(l, conn[c]) /\ conn[c] \in Sessions
    BY <1>1, Holding
  <1>4. q \in Locals
    BY <1>2 DEF Locals
  <1>5. Moves(r, q)
    BY DEF Finish, Moves, IsScript, Scripted
  <1>6. /\ q.pc = "back" /\ q.i = l.i /\ (q.pend = l.pend \/ q.pend = {}) /\ q.call = l.call /\ q.on = l.on
        /\ (q.dirty <=> l.dirty) /\ q.err = l.err /\ q.kept = l.kept /\ q.ran = l.ran
    BY <1>2 DEF Locals
  <1>7. conn' = [conn EXCEPT ![c] = CleanUp(r, conn[c])]
    BY <1>3 DEF Finish
  <1>8. CleanUp(r, conn[c]) \in Sessions /\ Settled(CleanUp(r, conn[c]))
    BY <1>1, <1>2, <1>3, CleanUpIs DEF Fits
  <1> HIDE DEF l, q
  <1>9. Ended(l)
    BY <1>1, <1>3 DEF Fits
  <1>10. Returned(q)
    BY <1>1, <1>6, <1>9 DEF Returned, Ended, Changed, Scripted, InOneString
  <1>11. Fits(q, CleanUp(r, conn[c]))
    BY <1>6, <1>8, <1>10 DEF Fits
  <1>12. Lawful(q)
    BY <1>2, <1>6 DEF Lawful, Scripted, Changed
  <1> QED BY <1>1, <1>3, <1>4, <1>5, <1>6, <1>7, <1>8, <1>11, <1>12, StepOn DEF Busy, l, Moves

\* The connection goes back as the pool wants it.
LEMMA ReleaseKeeps == ASSUME IInv, NEW r \in Req, Release(r) PROVE IInv'
  <1> DEFINE t(c) == IF IsPG /\ conn[c].tx THEN Fresh ELSE conn[c]
  <1>1. req[r].pc = "back" /\ req[r].pc \in Busy /\ family' = family /\ req' = [req EXCEPT ![r] = Idle]
    BY DEF Release, At, Busy
  <1>2. PICK c \in Conns : req[r].on = {c} /\ On(r) = c /\ Fits(req[r], conn[c]) /\ conn[c] \in Sessions
    BY <1>1, Holding
  <1>3. conn' = [conn EXCEPT ![c] = t(c)]
    BY <1>2 DEF Release
  <1>4. t(c) \in Sessions /\ Resting(t(c))
    <2>1. CASE IsPG /\ conn[c].tx
      BY <2>1, FreshIs
    <2>2. CASE ~(IsPG /\ conn[c].tx)
      BY <1>1, <1>2, <2>2 DEF Fits, Resting
    <2> QED BY <2>1, <2>2
  <1> HIDE DEF t
  <1>5. conn' \in [Conns -> Sessions] /\ conn'[c] = t(c) /\ \A d \in Conns : d # c => conn'[d] = conn[d]
    BY <1>3, <1>4 DEF IInv
  <1> QED BY <1>1, <1>2, <1>4, <1>5, IdleIs, StepOff DEF Busy

\* The pool closes a connection nobody has.
LEMMA IdleCloseKeeps == ASSUME IInv, NEW c \in Conns, IdleClose(c) PROVE IInv'
  <1>1. Free(c) /\ family' = family /\ req' = req /\ conn' = [conn EXCEPT ![c] = Fresh]
    BY DEF IdleClose
  <1>2. /\ conn' \in [Conns -> Sessions] /\ conn'[c] = Fresh /\ (\A d \in Conns : d # c => conn'[d] = conn[d])
        /\ req' \in [Req -> Locals'] /\ Locals' = Locals
    BY <1>1, FreshIs DEF IInv, Locals
  <1>3. \A r \in Req : InPhase(r)'
    <2> SUFFICES ASSUME NEW r \in Req PROVE InPhase(r)'
      OBVIOUS
    <2>1. \A d \in req[r].on : conn'[d] = conn[d]
      BY <1>1, <1>2 DEF IInv, Free, Locals
    <2> QED BY <1>1, <2>1, Others DEF IInv
  <1>4. \A d \in Conns : Free(d)' => Resting(conn[d])'
    <2> SUFFICES ASSUME NEW d \in Conns, Free(d) PROVE Resting(conn'[d])
      BY <1>1 DEF Free, Resting, Settled, IsPG
    <2> QED BY <1>2, FreshIs DEF IInv
  <1> QED BY <1>1, <1>2, <1>3, <1>4 DEF IInv

\* A console statement changes the session, and leaves a mark that it did.
LEMMA TouchIs ==
  ASSUME NEW s \in Sessions, NEW t \in Touch(s) \cup Closed(s), NEW q, Marked(q, s), family \in Families
  PROVE  t \in Sessions /\ Marked(q, t)
  <1>1. PICK u : /\ \/ \E b \in BOOLEAN : u = SetRo(s, b) \/ u = Begin(s, b)
                    \/ u = SetTx(s, FALSE)
                    \/ family # "sqlite" /\ \E p \in Schemas : u = [s EXCEPT !.path = p]
                 /\ t = SetTouched(u)
    BY DEF Touch, Closed, SetRo, SetTx, SetTouched
  <1>2. u \in Sessions /\ (u.path = s.path \/ family # "sqlite")
    <2>1. ASSUME NEW b \in BOOLEAN, u = SetRo(s, b) \/ u = Begin(s, b)
          PROVE  u \in Sessions /\ u.path = s.path
      BY <2>1, SetRoIs, BeginIs
    <2>2. CASE u = SetTx(s, FALSE)
      <3>1. SetTx(s, FALSE) \in Sessions /\ SetTx(s, FALSE).path = s.path
        BY DEF SetTx, Sessions
      <3> QED BY <2>2, <3>1
    <2>3. CASE family # "sqlite" /\ \E p \in Schemas : u = [s EXCEPT !.path = p]
      <3>1. PICK p \in Schemas : u = [s EXCEPT !.path = p]
        BY <2>3
      <3>2. p \in Paths
        BY DEF Paths
      <3> QED BY <2>3, <3>1, <3>2, SetPathIs
    <2> QED BY <1>1, <2>1, <2>2, <2>3
  <1>3. t \in Sessions /\ t.touched /\ t.path = u.path
    BY <1>1, <1>2, SetTouchedIs
  <1>4. ~IsPG => t.path = Default \/ family = "mysql"
    BY <1>2, <1>3, FamiliesAssumption DEF Marked, IsPG
  <1> QED BY <1>3, <1>4 DEF Marked

\* After the last statement every write is done.
LEMMA DoneAll == ASSUME NEW q, WellFormed(q.call) PROVE Done(q, Len(q.call.stmts)) = WritesOf(q.call)
  <1>1. Len(q.call.stmts) \in Nat /\ DOMAIN q.call.stmts = 1 .. Len(q.call.stmts)
    BY DEF WellFormed
  <1>2. \A j \in DOMAIN q.call.stmts : j <= Len(q.call.stmts)
    BY <1>1
  <1> QED BY <1>2, Zenon DEF Done, WritesOf

\* Two requests alike in what a phase is about.
LEMMA SameAfter ==
  ASSUME NEW q, NEW p, NEW s, NEW n, After(q, s, n), p.call = q.call, p.dirty <=> q.dirty,
         p.kept = q.kept, p.pend = q.pend, p.err = q.err
  PROVE  After(p, s, n)
  <1>1. /\ (Scripted(p) <=> Scripted(q)) /\ (InOneString(p) <=> InOneString(q))
        /\ (Changed(p, n) <=> Changed(q, n)) /\ Done(p, n) = Done(q, n)
    BY DEF Scripted, InOneString, Changed, Done
  <1>2. Marked(p, s)
    BY <1>1 DEF After, Marked
  <1>3. Orderly(q, s, n) => Orderly(p, s, n)
    BY <1>1 DEF Orderly
  <1> QED BY <1>1, <1>2, <1>3 DEF After

\* The request goes on after a statement that took effect, or is over.
LEMMA AnsweredKeeps ==
  ASSUME IInv, NEW r \in Req, NEW c \in Conns, req[r].on = {c}, family' = family,
         NEW q \in Locals, q.on = {c}, q.pc = "run", q.call = req[r].call, WellFormed(q.call), Lawful(q),
         NEW t \in Sessions, conn' = [conn EXCEPT ![c] = t], After(q, t, q.i), Answered(r, q, t.tx)
  PROVE  IInv'
  <1> DEFINE n == Len(q.call.stmts)
  <1>1. /\ n \in Nat \ {0} /\ DOMAIN q.call.stmts = 1 .. n /\ q.i \in 1 .. n /\ q.i \in Nat \ {0}
        /\ q.i - 1 \in Nat /\ q.i - 1 <= q.i /\ q.i <= n
    BY Place
  <1>2. q.err = "" /\ Marked(q, t)
    BY DEF After
  <1>3. CASE q.i < n /\ req' = [req EXCEPT ![r] = [q EXCEPT !.i = @ + 1]]
    <2> DEFINE p == [q EXCEPT !.i = q.i + 1]
    <2>1. q.i + 1 \in 1 .. n /\ q.i + 1 \in Nat /\ (q.i + 1) - 1 = q.i
      BY <1>1, <1>3
    <2>2. p \in Locals
      BY <2>1 DEF Locals
    <2>3. /\ p.pc = "run" /\ p.i = q.i + 1 /\ p.call = q.call /\ p.on = {c} /\ (p.dirty <=> q.dirty)
          /\ p.kept = q.kept /\ p.pend = q.pend /\ p.ran = q.ran /\ p.err = q.err
      BY DEF Locals
    <2>4. req' = [req EXCEPT ![r] = p]
      BY <1>3
    <2> HIDE DEF p
    <2>5. After(p, t, q.i)
      BY <2>3, SameAfter
    <2>6. Fits(p, t)
      BY <2>1, <2>3, <2>5 DEF Fits, Running
    <2>7. Lawful(p)
      <3>1. Changed(q, q.i - 1) => Changed(p, p.i - 1)
        <4>1. Changed(q, q.i - 1) => Changed(q, q.i)
          BY <1>1, ChangedMore
        <4> QED BY <2>1, <2>3, <4>1 DEF Changed
      <3>2. p.call.ro => \A j \in p.kept \cup p.pend : ~IsPG /\ Changed(p, j - 1)
        BY <2>3 DEF Lawful, Changed
      <3>3. \/ p.ran \subseteq {p.call.schema} \/ Changed(p, p.i - 1)
            \/ (IsPG /\ Scripted(p)) \/ (family = "mysql" /\ p.dirty)
        BY <2>3, <3>1 DEF Lawful, Scripted
      <3>4. p.i \in DOMAIN p.call.stmts /\ p.pend \cup p.kept \subseteq WritesOf(p.call)
        BY <1>1, <2>1, <2>3 DEF Lawful
      <3>5. p.err # "read-only"
        BY <1>2, <2>3
      <3> QED BY <3>2, <3>3, <3>4, <3>5 DEF Lawful
    <2> QED BY <2>2, <2>3, <2>4, <2>6, <2>7, StepOn DEF Busy
  <1>4. ASSUME NEW err \in {"", "failed"}, err = "" => q.i = n,
               req' = [req EXCEPT ![r] = [(IF Simple(r) THEN querySimple(q, t.tx) ELSE q)
                                            EXCEPT !.pc = "end", !.err = err]]
        PROVE  IInv'
    <2> DEFINE ends == Simple(r) /\ ~t.tx
               pend == IF ends THEN {} ELSE q.pend
               kept == IF ends /\ q.i = n THEN q.kept \cup q.pend ELSE q.kept
               p == Becomes(q, "end", q.i, err, q.ran, kept, pend)
    <2>1. Simple(r) <=> InOneString(q)
      BY DEF Simple, InOneString, IsMulti
    <2>2. [(IF Simple(r) THEN querySimple(q, t.tx) ELSE q) EXCEPT !.pc = "end", !.err = err] = p
      <3>1. CASE ends /\ q.i = n
        BY <3>1 DEF querySimple, Becomes, Locals
      <3>2. CASE ends /\ q.i # n
        BY <3>2 DEF querySimple, Becomes, Locals
      <3>3. CASE ~ends
        BY <3>3 DEF querySimple, Becomes, Locals
      <3> QED BY <3>1, <3>2, <3>3
    <2>3. req' = [req EXCEPT ![r] = p]
      BY <1>4, <2>2
    <2>4. pend \in SUBSET Nat /\ kept \in SUBSET Nat
      BY DEF Locals
    <2>5. kept \cup pend \subseteq q.kept \cup q.pend
      OBVIOUS
    <2>6. ends /\ q.i = n => kept = q.kept \cup q.pend
      OBVIOUS
    <2>7. ~(ends /\ q.i = n) => kept = q.kept
      OBVIOUS
    <2>8. ~ends => pend = q.pend
      OBVIOUS
    <2> HIDE DEF kept, pend
    <2>9. p \in Locals
      BY <2>4 DEF Becomes, Locals
    <2>10. /\ p.pc = "end" /\ p.i = q.i /\ p.err = err /\ p.ran = q.ran /\ p.kept = kept /\ p.pend = pend
           /\ p.call = q.call /\ p.on = {c} /\ (p.dirty <=> q.dirty)
      BY DEF Becomes, Locals
    <2> HIDE DEF p
    <2>11. (Scripted(p) <=> Scripted(q)) /\ (InOneString(p) <=> InOneString(q)) /\ Marked(p, t)
      BY <1>2, <2>10 DEF Scripted, InOneString, Marked
    <2>12. Ended(p)
      <3>1. CASE Changed(q, q.i)
        <4>1. Changed(q, n)
          BY <1>1, <3>1, ChangedMore
        <4> QED BY <2>10, <4>1 DEF Ended, Changed
      <3>2. CASE Orderly(q, t, q.i)
        <4>1. q.i = n => q.kept \cup q.pend = WritesOf(q.call)
          <5>1. Done(q, n) = WritesOf(q.call)
            BY DoneAll
          <5> QED BY <3>2, <5>1 DEF Orderly
        <4>2. CASE Scripted(q)
          <5>1. ~InOneString(q)
            BY <4>2 DEF InOneString, Scripted
          <5>2. kept = q.kept /\ pend = q.pend
            BY <2>1, <2>7, <2>8, <5>1
          <5>3. q.kept # {} => family = "mysql" /\ HasDDL(q.call)
            BY <3>2, <4>2 DEF Orderly
          <5> QED BY <1>4, <2>10, <2>11, <4>1, <4>2, <5>1, <5>2, <5>3 DEF Ended
        <4>3. CASE InOneString(q)
          <5>1. ~Scripted(q) /\ ~t.tx /\ q.kept = {}
            BY <3>2, <4>3 DEF Orderly, InOneString, Scripted
          <5>2. ends
            BY <2>1, <4>3, <5>1
          <5>3. kept \in {{}, WritesOf(q.call)} /\ (q.i = n => kept = WritesOf(q.call))
            BY <2>6, <2>7, <4>1, <5>1, <5>2
          <5> QED BY <1>4, <2>10, <2>11, <5>1, <5>3 DEF Ended
        <4>4. CASE ~Scripted(q) /\ ~InOneString(q)
          <5>1. kept = q.kept /\ pend = q.pend
            BY <2>1, <2>7, <2>8, <4>4
          <5>2. q.pend # {} => ~IsPG /\ q.dirty
            BY <3>2, <4>4 DEF Orderly
          <5> QED BY <1>4, <2>10, <2>11, <4>1, <4>4, <5>1, <5>2 DEF Ended
        <4> QED BY <4>2, <4>3, <4>4
      <3> QED BY <3>1, <3>2 DEF After
    <2>13. Lawful(p)
      <3>1. p.call.ro => \A j \in p.kept \cup p.pend : ~IsPG /\ Changed(p, j - 1)
        BY <2>5, <2>10 DEF Lawful, Changed
      <3>2. \/ p.ran \subseteq {p.call.schema} \/ Changed(p, p.i - 1)
            \/ (IsPG /\ Scripted(p)) \/ (family = "mysql" /\ p.dirty)
        BY <2>10, <2>11 DEF Lawful, Changed
      <3>3. p.i \in DOMAIN p.call.stmts /\ p.pend \cup p.kept \subseteq WritesOf(p.call)
        BY <2>5, <2>10 DEF Lawful
      <3>4. p.err # "read-only"
        BY <1>4, <2>10
      <3> QED BY <3>1, <3>2, <3>3, <3>4 DEF Lawful
    <2>14. Fits(p, t)
      BY <2>10, <2>11, <2>12 DEF Fits
    <2> QED BY <2>3, <2>9, <2>10, <2>13, <2>14, StepOn DEF Busy
  <1>5. CASE \E err \in IF q.i = n THEN {"", "failed"} ELSE {"failed"} :
               req' = [req EXCEPT ![r] = [(IF Simple(r) THEN querySimple(q, t.tx) ELSE q)
                                            EXCEPT !.pc = "end", !.err = err]]
    BY <1>4, <1>5
  <1> QED BY <1>3, <1>5 DEF Answered

\* A statement that changes the session.
LEMMA ChangeSessionKeeps == ASSUME IInv, NEW r \in Req, ChangeSession(r) PROVE IInv'
  <1> DEFINE l == req[r]
  <1>1. l.pc = "run" /\ l.pc \in Busy /\ family' = family /\ l.call.stmts[l.i] = "session"
    BY DEF ChangeSession, At, Busy, Stmt
  <1>2. l \in Locals /\ Lawful(l) /\ family \in Families /\ WellFormed(l.call)
    BY <1>1, Holding
  <1>3. PICK c \in Conns : /\ l.on = {c} /\ On(r) = c /\ Session(r) = conn[c] /\ Fits(l, conn[c])
                           /\ conn[c] \in Sessions
    BY <1>1, Holding
  <1>4. l.err = "" /\ Marked(l, conn[c])
    BY <1>1, <1>3 DEF Fits, Running, After
  <1>5. Changed(l, l.i)
    <2>1. l.i \in 1 .. l.i
      BY <1>2, Place
    <2> QED BY <1>1, <2>1 DEF Changed
  <1>6. CASE \E t \in Touch(Session(r)) :
               conn' = [conn EXCEPT ![On(r)] = t] /\ Answered(r, req[r], t.tx)
    <2>1. PICK t \in Touch(conn[c]) : conn' = [conn EXCEPT ![c] = t] /\ Answered(r, l, t.tx)
      BY <1>3, <1>6
    <2>2. t \in Sessions /\ Marked(l, t)
      BY <1>2, <1>3, <1>4, TouchIs
    <2>3. After(l, t, l.i)
      BY <1>4, <1>5, <2>2 DEF After
    <2> QED BY <1>1, <1>2, <1>3, <2>1, <2>2, <2>3, AnsweredKeeps
  <1>7. CASE \E t \in Closed(Session(r)), kept \in {{}, req[r].pend} :
               /\ conn' = [conn EXCEPT ![On(r)] = t]
               /\ Answered(r, [req[r] EXCEPT !.kept = @ \cup kept, !.pend = {}], t.tx)
    <2>1. PICK t \in Closed(conn[c]), kept \in {{}, l.pend} :
            /\ conn' = [conn EXCEPT ![c] = t]
            /\ Answered(r, [l EXCEPT !.kept = l.kept \cup kept, !.pend = {}], t.tx)
      BY <1>3, <1>7
    <2> DEFINE q == [l EXCEPT !.kept = l.kept \cup kept, !.pend = {}]
    <2>2. t \in Sessions /\ Marked(l, t)
      BY <1>2, <1>3, <1>4, TouchIs
    <2>3. q \in Locals
      BY <1>2 DEF Locals
    <2>4. /\ q.pc = "run" /\ q.i = l.i /\ q.err = "" /\ q.ran = l.ran /\ q.kept \cup q.pend \subseteq l.kept \cup l.pend
          /\ q.call = l.call /\ q.on = {c} /\ (q.dirty <=> l.dirty)
      BY <1>1, <1>2, <1>3, <1>4 DEF Locals
    <2>5. Answered(r, q, t.tx)
      BY <2>1
    <2> HIDE DEF q
    <2>6. After(q, t, q.i)
      <3>1. Changed(q, q.i)
        BY <1>5, <2>4 DEF Changed
      <3>2. Marked(q, t)
        BY <2>2, <2>4 DEF Marked, Scripted
      <3> QED BY <2>4, <3>1, <3>2 DEF After
    <2>7. Lawful(q)
      <3>1. q.call.ro => \A j \in q.kept \cup q.pend : ~IsPG /\ Changed(q, j - 1)
        BY <1>2, <2>4 DEF Lawful, Changed
      <3>2. \/ q.ran \subseteq {q.call.schema} \/ Changed(q, q.i - 1)
            \/ (IsPG /\ Scripted(q)) \/ (family = "mysql" /\ q.dirty)
        BY <1>2, <2>4 DEF Lawful, Changed, Scripted
      <3>3. q.i \in DOMAIN q.call.stmts /\ q.pend \cup q.kept \subseteq WritesOf(q.call)
        BY <1>2, <2>4 DEF Lawful
      <3> QED BY <2>4, <3>1, <3>2, <3>3 DEF Lawful
    <2> QED BY <1>1, <1>2, <1>3, <2>1, <2>2, <2>3, <2>4, <2>5, <2>6, <2>7, AnsweredKeeps
  <1> QED BY <1>6, <1>7 DEF ChangeSession

\* What Execute does to the request and the session, with one name for each of
\* its changes.
Executed(l, q, s, t) ==
  LET stmt == l.call.stmts[l.i]
      write == stmt \in {"dml", "ddl"}
      ends == family = "mysql" /\ stmt = "ddl"
      commits == (~s.tx /\ ~InOneString(l)) \/ ends
  IN  /\ stmt # "session"
      /\ write /\ ReadOnly(s) => InOneString(l)
      /\ InOneString(l) => ~l.call.ro
      /\ q.pc = l.pc /\ q.i = l.i /\ q.err = l.err /\ q.call = l.call /\ q.on = l.on /\ (q.dirty <=> l.dirty)
      /\ q.ran = l.ran \cup {s.path}
      /\ write /\ commits => q.kept = l.kept \cup {l.i} \cup l.pend /\ q.pend = {}
      /\ write /\ ~commits => q.kept = l.kept /\ q.pend = l.pend \cup {l.i}
      /\ ~write => q.kept = l.kept /\ q.pend = l.pend
      /\ (t.tx <=> s.tx /\ ~ends) /\ (t.txro <=> s.txro) /\ (t.ro <=> s.ro)
      /\ (t.touched <=> s.touched) /\ t.path = s.path

LEMMA ExecuteIs ==
  ASSUME IInv, NEW r \in Req, Execute(r), NEW c \in Conns, On(r) = c, Session(r) = conn[c],
         conn[c] \in Sessions, req[r] \in Locals
  PROVE  \E q \in Locals : \E t \in Sessions :
           conn' = [conn EXCEPT ![c] = t] /\ Answered(r, q, t.tx) /\ Executed(req[r], q, conn[c], t)
  <1> DEFINE l == req[r]
             s == conn[c]
             stmt == l.call.stmts[l.i]
             write == stmt \in {"dml", "ddl"}
             ends == family = "mysql" /\ stmt = "ddl"
             once == write /\ ((~s.tx /\ ~Simple(r)) \/ ends)
             effect == IF write THEN {l.i} ELSE {}
             ran == l.ran \cup {s.path}
             kept == IF once THEN l.kept \cup effect \cup l.pend ELSE l.kept
             pend == IF once THEN {} ELSE l.pend \cup effect
             q == [l EXCEPT !.ran = ran, !.kept = kept, !.pend = pend]
             t == [s EXCEPT !.tx = s.tx /\ ~ends]
  <1>1. /\ ~Refuses(r) /\ stmt # "session" /\ (~Refused(r) \/ (Simple(r) /\ ~s.tx))
        /\ conn' = [conn EXCEPT ![c] = t] /\ Answered(r, q, t.tx)
    BY DEF Execute, Stmt
  <1>2. t \in Sessions
    BY DEF Sessions
  <1>3. /\ (t.tx <=> s.tx /\ ~ends) /\ (t.txro <=> s.txro) /\ (t.ro <=> s.ro)
        /\ (t.touched <=> s.touched) /\ t.path = s.path
    BY DEF Sessions
  <1>4. l.i \in Nat /\ l.ran \in SUBSET Paths /\ l.kept \in SUBSET Nat /\ l.pend \in SUBSET Nat /\ s.path \in Paths
    BY DEF Locals, Sessions
  <1>5. effect \in SUBSET Nat /\ (write => effect = {l.i}) /\ (~write => effect = {})
    BY <1>4
  <1>6. Simple(r) <=> InOneString(l)
    BY DEF Simple, InOneString, IsMulti
  <1>7. /\ write /\ once => kept = l.kept \cup {l.i} \cup l.pend /\ pend = {}
        /\ write /\ ~once => kept = l.kept /\ pend = l.pend \cup {l.i}
        /\ ~write => kept = l.kept /\ pend = l.pend
    <2>1. CASE once
      BY <1>5, <2>1
    <2>2. CASE ~once /\ write
      BY <1>5, <2>2
    <2>3. CASE ~write
      <3>1. ~once
        BY <2>3
      <3> QED BY <1>5, <2>3, <3>1
    <2> QED BY <2>1, <2>2, <2>3
  <1>8. ran \in SUBSET Paths /\ kept \in SUBSET Nat /\ pend \in SUBSET Nat
    <2> HIDE DEF once, effect
    <2> QED BY <1>4, <1>5
  <1>9. ReadOnly(s) /\ write => InOneString(l)
    BY <1>1, <1>6 DEF Refused, Stmt
  <1>10. InOneString(l) => ~l.call.ro
    BY <1>1, <1>6 DEF Refuses
  <1>11. write => (once <=> (~s.tx /\ ~InOneString(l)) \/ ends)
    BY <1>6
  <1> HIDE DEF ran, kept, pend
  <1>12. q \in Locals
    BY <1>8 DEF Locals
  <1>13. /\ q.pc = l.pc /\ q.i = l.i /\ q.err = l.err /\ q.call = l.call /\ q.on = l.on
         /\ (q.dirty <=> l.dirty) /\ q.ran = ran /\ q.kept = kept /\ q.pend = pend
    BY DEF Locals
  <1>14. ran = l.ran \cup {s.path}
    BY DEF ran
  <1> HIDE DEF q, t, once
  <1>15. Executed(l, q, s, t)
    BY <1>1, <1>3, <1>7, <1>9, <1>10, <1>11, <1>13, <1>14 DEF Executed
  <1> QED BY <1>1, <1>2, <1>12, <1>15

\* One statement more among the writes.
LEMMA DoneMore ==
  ASSUME NEW q \in Locals, WellFormed(q.call), Lawful(q)
  PROVE  Done(q, q.i) = Done(q, q.i - 1) \cup IF q.call.stmts[q.i] \in {"dml", "ddl"} THEN {q.i} ELSE {}
  <1>1. q.i \in Nat \ {0} /\ q.i \in DOMAIN q.call.stmts
    BY Place DEF Lawful
  <1>2. DOMAIN q.call.stmts \subseteq Nat
    BY Place
  <1>3. \A j \in Nat : j <= q.i <=> j <= q.i - 1 \/ j = q.i
    BY <1>1
  <1> QED BY <1>1, <1>2, <1>3 DEF Done, WritesOf

\* What a statement that reads or writes leaves behind.
LEMMA ExecutedIs ==
  ASSUME NEW l \in Locals, NEW q \in Locals, NEW s \in Sessions, NEW t \in Sessions,
         family \in Families, WellFormed(l.call), Lawful(l), Running(l, s), Executed(l, q, s, t)
  PROVE  After(q, t, q.i) /\ Lawful(q)
  <1> DEFINE stmt == l.call.stmts[l.i]
             write == stmt \in {"dml", "ddl"}
             ends == family = "mysql" /\ stmt = "ddl"
             commits == (~s.tx /\ ~InOneString(l)) \/ ends
  <1>1. /\ q.i = l.i /\ q.call = l.call /\ (q.dirty <=> l.dirty) /\ q.err = "" /\ Marked(l, s)
        /\ q.ran = l.ran \cup {s.path}
        /\ (t.tx <=> s.tx /\ ~ends) /\ (t.txro <=> s.txro) /\ (t.ro <=> s.ro)
        /\ (t.touched <=> s.touched) /\ t.path = s.path
    BY DEF Executed, Running, After
  <1>2. /\ write /\ ReadOnly(s) => InOneString(l)
        /\ InOneString(l) => ~l.call.ro
        /\ write /\ commits => q.kept = l.kept \cup {l.i} \cup l.pend /\ q.pend = {}
        /\ write /\ ~commits => q.kept = l.kept /\ q.pend = l.pend \cup {l.i}
        /\ ~write => q.kept = l.kept /\ q.pend = l.pend
    BY DEF Executed
  <1>3. /\ l.i \in Nat \ {0} /\ l.i - 1 \in Nat /\ l.i - 1 <= l.i /\ l.i \in DOMAIN l.call.stmts
    BY Place DEF Lawful
  <1>4. write => l.i \in WritesOf(l.call) /\ (ends => HasDDL(l.call))
    BY <1>3 DEF WritesOf, HasDDL
  <1>5. /\ write => q.kept \cup q.pend = l.kept \cup l.pend \cup {l.i}
        /\ ~write => q.kept \cup q.pend = l.kept \cup l.pend
    <2> HIDE DEF write, commits
    <2> QED BY <1>2
  <1>6. (Scripted(q) <=> Scripted(l)) /\ (InOneString(q) <=> InOneString(l))
    BY <1>1 DEF Scripted, InOneString
  <1>7. Marked(q, t)
    BY <1>1, <1>6 DEF Marked
  <1>8. ends => ~IsPG /\ write /\ ~InOneString(l)
    BY DEF IsPG, InOneString
  <1>9. ~ends => (ReadOnly(t) <=> ReadOnly(s))
    BY <1>1 DEF ReadOnly
  <1>10. ends => (ReadOnly(t) <=> s.ro)
    BY <1>1 DEF ReadOnly
  <1>11. Changed(l, l.i - 1) => Changed(q, q.i)
    <2>1. Changed(l, l.i - 1) => Changed(l, l.i)
      BY <1>3, ChangedMore
    <2> QED BY <1>1, <2>1 DEF Changed
  <1>12. ASSUME Orderly(l, s, l.i - 1) PROVE Orderly(q, t, q.i)
    <2> HIDE DEF write, ends, commits
    <2>1. /\ s.touched => l.dirty
          /\ IsPG /\ s.tx => Scripted(l)
          /\ l.call.ro => ReadOnly(s)
          /\ ReadOnly(s) => l.call.ro \/ (~IsPG /\ l.dirty)
          /\ s.path = l.call.schema \/ (IsPG /\ Scripted(l)) \/ (family = "mysql" /\ l.dirty)
          /\ l.kept \cup l.pend = Done(l, l.i - 1)
      BY <1>12 DEF Orderly
    <2>2. /\ Scripted(l) => /\ l.kept # {} => family = "mysql" /\ HasDDL(l.call)
                            /\ ~s.tx => l.pend = {} /\ family = "mysql" /\ HasDDL(l.call)
          /\ InOneString(l) => l.kept = {}
          /\ ~Scripted(l) /\ ~InOneString(l) /\ l.pend # {} => ~IsPG /\ l.dirty
      BY <1>12 DEF Orderly
    <2>3. write => ~l.call.ro
      BY <1>2, <2>1
    <2>4. (q.call.ro => ReadOnly(t)) /\ (ReadOnly(t) => q.call.ro \/ (~IsPG /\ q.dirty))
      <3>1. CASE ~ends
        BY <1>1, <1>9, <2>1, <3>1
      <3>2. CASE ends
        <4>1. s.ro => s.touched
          BY <1>1, <1>8, <3>2 DEF Marked, ends
        <4> QED BY <1>1, <1>8, <1>10, <2>1, <2>3, <3>2, <4>1
      <3> QED BY <3>1, <3>2
    <2>5. q.kept \cup q.pend = Done(q, q.i)
      <3>1. Done(q, q.i) = Done(l, l.i)
        BY <1>1 DEF Done
      <3>2. Done(l, l.i) = Done(l, l.i - 1) \cup IF write THEN {l.i} ELSE {}
        BY DoneMore DEF write
      <3> QED BY <1>5, <2>1, <3>1, <3>2
    <2>6. Scripted(q) => /\ q.kept # {} => family = "mysql" /\ HasDDL(q.call)
                         /\ ~t.tx => q.pend = {} /\ family = "mysql" /\ HasDDL(q.call)
      <3> SUFFICES ASSUME Scripted(l)
                   PROVE  /\ q.kept # {} => family = "mysql" /\ HasDDL(q.call)
                          /\ ~t.tx => q.pend = {} /\ family = "mysql" /\ HasDDL(q.call)
        BY <1>6
      <3>1. write
        BY <1>3 DEF WellFormed, Scripted, WritesOf, write
      <3>2. ~InOneString(l)
        BY DEF InOneString, Scripted
      <3>3. commits <=> ~s.tx \/ ends
        BY <3>2 DEF commits
      <3>4. commits => family = "mysql" /\ HasDDL(l.call)
        BY <1>4, <2>2, <3>1, <3>3 DEF ends
      <3> QED BY <1>1, <1>2, <2>2, <3>1, <3>3, <3>4
    <2>7. InOneString(q) => q.kept = {}
      <3>1. InOneString(l) => ~commits
        BY <1>8 DEF commits
      <3> QED BY <1>2, <1>6, <2>2, <3>1
    <2>8. ~Scripted(q) /\ ~InOneString(q) /\ q.pend # {} => ~IsPG /\ q.dirty
      <3> SUFFICES ASSUME ~Scripted(l), ~InOneString(l), q.pend # {} PROVE ~IsPG /\ l.dirty
        BY <1>1, <1>6
      <3>1. CASE l.pend # {}
        BY <2>2, <3>1
      <3>2. CASE l.pend = {}
        <4>1. write /\ ~commits
          BY <1>2, <3>2
        <4>2. s.tx
          BY <4>1 DEF commits
        <4>3. ~IsPG /\ ~l.call.ro
          BY <2>1, <2>3, <4>1, <4>2
        <4>4. s.touched
          BY <1>1, <4>2, <4>3 DEF Marked
        <4> QED BY <2>1, <4>3, <4>4
      <3> QED BY <3>1, <3>2
    <2>9. /\ t.touched => q.dirty
          /\ IsPG /\ t.tx => Scripted(q)
          /\ t.path = q.call.schema \/ (IsPG /\ Scripted(q)) \/ (family = "mysql" /\ q.dirty)
      BY <1>1, <1>6, <2>1
    <2> QED BY <2>4, <2>5, <2>6, <2>7, <2>8, <2>9 DEF Orderly
  <1>13. Changed(l, l.i - 1) \/ Orderly(l, s, l.i - 1)
    BY DEF Running, After
  <1>14. After(q, t, q.i)
    BY <1>1, <1>7, <1>11, <1>12, <1>13 DEF After
  <1>15. l.call.ro /\ write => ~IsPG /\ Changed(l, l.i - 1)
    <2> SUFFICES ASSUME l.call.ro, write PROVE ~IsPG /\ Changed(l, l.i - 1)
      OBVIOUS
    <2>1. ~ReadOnly(s) /\ ~InOneString(l)
      BY <1>2
    <2>2. Changed(l, l.i - 1)
      BY <1>13, <2>1 DEF Orderly
    <2>3. ASSUME IsPG PROVE FALSE
      <3>1. l.call.kind = "query"
        BY DEF WellFormed
      <3>2. ~(Len(l.call.stmts) > 1)
        BY <2>1, <2>3, <3>1 DEF InOneString
      <3>3. l.i = 1
        BY <3>2, Place
      <3> QED BY <2>2, <3>3 DEF Changed
    <2> QED BY <2>2, <2>3
  <1>16. Lawful(q)
    <2>1. q.call.ro => \A j \in q.kept \cup q.pend : ~IsPG /\ Changed(q, j - 1)
      <3> SUFFICES ASSUME l.call.ro, NEW j \in q.kept \cup q.pend PROVE ~IsPG /\ Changed(l, j - 1)
        BY <1>1 DEF Changed
      <3>1. CASE j \in l.kept \cup l.pend
        BY <3>1 DEF Lawful
      <3>2. CASE j \notin l.kept \cup l.pend
        <4>1. write /\ j = l.i
          BY <1>5, <3>2
        <4> QED BY <1>15, <4>1
      <3> QED BY <3>1, <3>2
    <2>2. \/ q.ran \subseteq {q.call.schema} \/ Changed(q, q.i - 1)
          \/ (IsPG /\ Scripted(q)) \/ (family = "mysql" /\ q.dirty)
      <3>1. CASE Changed(l, l.i - 1)
        BY <1>1, <3>1 DEF Changed
      <3>2. CASE ~Changed(l, l.i - 1)
        <4>1. s.path = l.call.schema \/ (IsPG /\ Scripted(l)) \/ (family = "mysql" /\ l.dirty)
          BY <1>13, <3>2 DEF Orderly
        <4>2. l.ran \subseteq {l.call.schema} \/ (IsPG /\ Scripted(l)) \/ (family = "mysql" /\ l.dirty)
          BY <3>2 DEF Lawful
        <4> QED BY <1>1, <1>6, <4>1, <4>2
      <3> QED BY <3>1, <3>2
    <2>3. q.i \in DOMAIN q.call.stmts /\ q.pend \cup q.kept \subseteq WritesOf(q.call)
      BY <1>1, <1>3, <1>4, <1>5 DEF Lawful
    <2> QED BY <1>1, <2>1, <2>2, <2>3 DEF Lawful
  <1> QED BY <1>14, <1>16

\* A statement takes effect.
LEMMA ExecuteKeeps == ASSUME IInv, NEW r \in Req, Execute(r) PROVE IInv'
  <1> DEFINE l == req[r]
  <1>1. l.pc = "run" /\ l.pc \in Busy /\ family' = family
    BY DEF Execute, At, Busy
  <1>2. l \in Locals /\ Lawful(l) /\ family \in Families /\ WellFormed(l.call)
    BY <1>1, Holding
  <1>3. PICK c \in Conns : /\ l.on = {c} /\ On(r) = c /\ Session(r) = conn[c] /\ Fits(l, conn[c])
                           /\ conn[c] \in Sessions
    BY <1>1, Holding
  <1>4. PICK q \in Locals, t \in Sessions :
          conn' = [conn EXCEPT ![c] = t] /\ Answered(r, q, t.tx) /\ Executed(l, q, conn[c], t)
    BY <1>2, <1>3, ExecuteIs
  <1>5. Running(l, conn[c])
    BY <1>1, <1>3 DEF Fits
  <1>6. After(q, t, q.i) /\ Lawful(q)
    BY <1>2, <1>3, <1>4, <1>5, ExecutedIs
  <1>7. q.on = {c} /\ q.pc = "run" /\ q.call = l.call
    BY <1>1, <1>3, <1>4 DEF Executed
  <1> QED BY <1>1, <1>2, <1>3, <1>4, <1>6, <1>7, AnsweredKeeps

-----------------------------------------------------------------------------
(* The invariant is inductive.                                             *)

LEMMA Start == ASSUME Init PROVE IInv
  <1>1. family \in Families /\ conn = [c \in Conns |-> Fresh] /\ req = [r \in Req |-> Idle]
    BY DEF Init
  <1>2. \A r \in Req : InPhase(r)
    <2> SUFFICES ASSUME NEW r \in Req PROVE InPhase(r)
      OBVIOUS
    <2>1. req[r] = Idle
      BY <1>1
    <2> QED BY <2>1, IdleIs DEF InPhase, Busy
  <1>3. \A c \in Conns : Resting(conn[c])
    BY <1>1, FreshIs
  <1>4. \A r, q \in Req : req[r].on \cap req[q].on = {}
    BY <1>1, IdleIs
  <1> QED BY <1>1, <1>2, <1>3, <1>4, IdleIs, FreshIs DEF IInv

LEMMA Keeps == ASSUME IInv, Next PROVE IInv'
  <1>1. CASE \E c \in Conns : IdleClose(c)
    BY <1>1, IdleCloseKeeps
  <1>2. ASSUME NEW r \in Req, Ask(r) \/ Acquire(r) \/ GiveUp(r) \/ ConnectionLost(r) PROVE IInv'
    BY <1>2, AskKeeps, AcquireKeeps, ConnectionLostKeeps
  <1>3. ASSUME NEW r \in Req, Work(r) PROVE IInv'
    BY <1>3, PrepareKeeps, PrepareFailsKeeps, StatementFailsKeeps, ExecuteKeeps, ChangeSessionKeeps, CommitKeeps,
       FinishKeeps, ReleaseKeeps DEF Work
  <1> QED BY <1>1, <1>2, <1>3 DEF Next

LEMMA Stutter == ASSUME IInv, UNCHANGED vars PROVE IInv'
  <1>1. family' = family /\ conn' = conn /\ req' = req
    BY DEF vars
  <1>2. Locals' = Locals
    BY <1>1 DEF Locals
  <1>3. \A r \in Req : InPhase(r)'
    BY <1>1, Others DEF IInv
  <1>4. \A c \in Conns : Free(c)' => Resting(conn[c])'
    BY <1>1 DEF IInv, Free, Resting, Settled, IsPG
  <1> QED BY <1>1, <1>2, <1>3, <1>4 DEF IInv

\* In every reachable state a request fits the session it has, and the free
\* connections are at rest.
THEOREM Inductive == Spec => []IInv
  <1>1. Init => IInv
    BY Start
  <1>2. IInv /\ [Next]_vars => IInv'
    BY Keeps, Stutter
  <1> QED BY <1>1, <1>2, PTL DEF Spec

-----------------------------------------------------------------------------
(* What follows.                                                           *)

\* TypeOK: the state of the requests and connections keeps its shape, and no
\* connection is ever in two hands.
THEOREM TypeCorrect == Spec => []TypeOK
  <1>1. IInv => TypeOK
    <2> SUFFICES ASSUME IInv PROVE TypeOK
      OBVIOUS
    <2>1. ASSUME NEW r \in Req
          PROVE  /\ req[r].pc \in {"idle", "wait", "set", "run", "end", "back"}
                 /\ req[r].call \in Calls(family) \cup {Idle.call}
                 /\ req[r].on \in SUBSET Conns
      BY DEF IInv, Locals
    <2>2. ASSUME NEW r \in Req PROVE Cardinality(req[r].on) = IF req[r].pc \in Busy THEN 1 ELSE 0
      <3>1. CASE req[r].pc \in Busy
        <4>1. PICK c \in Conns : req[r].on = {c}
          BY <3>1 DEF IInv, InPhase
        <4> QED BY <3>1, <4>1, FS_Singleton
      <3>2. CASE req[r].pc \notin Busy
        <4>1. req[r].on = {}
          BY <3>2 DEF IInv, InPhase
        <4> QED BY <3>2, <4>1, FS_EmptySet
      <3> QED BY <3>1, <3>2
    <2>3. ASSUME NEW r \in Req
          PROVE  req[r].i \in DOMAIN req[r].call.stmts /\ req[r].pend \cup req[r].kept \subseteq Writes(r)
      <3>1. Writes(r) = WritesOf(req[r].call)
        BY DEF Writes, WritesOf
      <3> QED BY <3>1 DEF IInv, InPhase, Lawful
    <2>4. /\ family \in Families
          /\ conn \in [Conns -> [ro : BOOLEAN, path : Paths, tx : BOOLEAN, txro : BOOLEAN, touched : BOOLEAN]]
          /\ \A r, q \in Req : r # q => req[r].on \cap req[q].on = {}
      BY Zenon DEF IInv, Sessions
    <2> QED BY <2>1, <2>2, <2>3, <2>4 DEF TypeOK, Busy
  <1> QED BY <1>1, Inductive, PTL

\* ReadOnlyNeverWrites: on every engine a request in read-only mode changes
\* nothing, whatever its session had been used for, but outside Postgres after a
\* statement of its own that changes the session.
THEOREM ReadOnlyHolds == Spec => []ReadOnlyNeverWrites
  <1>1. IInv => ReadOnlyNeverWrites
    BY DEF IInv, InPhase, Lawful, ReadOnlyNeverWrites, Changes, Changed
  <1> QED BY <1>1, Inductive, PTL

\* RefusedByOwnMode: no request is refused for the mode of another.
THEOREM RefusalsAreOwn == Spec => []RefusedByOwnMode
  <1>1. IInv => RefusedByOwnMode
    BY DEF IInv, InPhase, Lawful, RefusedByOwnMode, Changes, Changed
  <1> QED BY <1>1, Inductive, PTL

\* RunsUnderOwnPath: names resolve by the schema of the request, but for the
\* ways round that the property names.
THEOREM PathsAreOwn == Spec => []RunsUnderOwnPath
  <1>1. IInv => RunsUnderOwnPath
    BY DEF IInv, InPhase, Lawful, RunsUnderOwnPath, IsScript, Scripted, Changes, Changed
  <1> QED BY <1>1, Inductive, PTL

\* AllOrNothing: a script, or a Postgres string that does not end transactions
\* itself, is applied as a whole or not at all, but for DDL on MySQL.
THEOREM ScriptsAreAtomic == Spec => []AllOrNothing
  <1>1. IInv => AllOrNothing
    <2> SUFFICES ASSUME IInv, NEW r \in Req, At(r, "back"),
                        IsScript(r) \/ (Simple(r) /\ ~Changes(r, Len(req[r].call.stmts)))
                 PROVE  \/ req[r].kept \in {{}, Writes(r)}
                        \/ family = "mysql" /\ \E i \in Writes(r) : req[r].call.stmts[i] = "ddl"
      BY DEF AllOrNothing
    <2>1. Returned(req[r]) /\ WellFormed(req[r].call)
      <3>1. req[r].pc = "back" /\ req[r].pc \in Busy
        BY DEF At, Busy
      <3> QED BY <3>1, Holding DEF Fits
    <2>2. Scripted(req[r]) \/ InOneString(req[r])
      BY DEF IsScript, Scripted, Simple, IsMulti, InOneString
    <2>3. ~Changed(req[r], Len(req[r].call.stmts))
      <3>1. CASE Scripted(req[r])
        BY <2>1, <3>1 DEF WellFormed, Scripted, WritesOf, Changed
      <3>2. CASE ~Scripted(req[r])
        BY <3>2 DEF IsScript, Scripted, Changes, Changed
      <3> QED BY <3>1, <3>2
    <2> QED BY <2>1, <2>2, <2>3 DEF Returned, Writes, WritesOf, HasDDL
  <1> QED BY <1>1, Inductive, PTL

\* AckMeansDurable: what was answered with success is durable, but for the
\* request's own transaction statements and for a transaction a console had left
\* open outside Postgres.
THEOREM AcksAreDurable == Spec => []AckMeansDurable
  <1>1. IInv => AckMeansDurable
    <2> SUFFICES ASSUME IInv, NEW r \in Req, At(r, "back"), req[r].err = "",
                        ~Changes(r, Len(req[r].call.stmts))
                 PROVE  req[r].kept = Writes(r) \/ (~IsPG /\ req[r].dirty)
      BY DEF AckMeansDurable
    <2>1. Returned(req[r])
      BY DEF IInv, InPhase, At, Busy, Fits
    <2>2. ~Changed(req[r], Len(req[r].call.stmts))
      BY DEF Changes, Changed
    <2> QED BY <2>1, <2>2 DEF Returned, Writes, WritesOf
  <1> QED BY <1>1, Inductive, PTL

\* PoolClean: a request leaves neither its transaction nor its read-only mode
\* on a connection that goes back to the pool.
THEOREM PoolStaysClean == Spec => []PoolClean
  <1>1. IInv => PoolClean
    BY DEF IInv, Resting, Settled, PoolClean
  <1> QED BY <1>1, Inductive, PTL
====
