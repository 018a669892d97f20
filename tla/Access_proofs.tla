---------------------------- MODULE Access_proofs ----------------------------
(***************************************************************************)
(* Proofs that the gates of the API keep their safety invariants and       *)
(* implement AccessPolicy, for any number of requests, users, connections  *)
(* and subjects, any session capabilities and any size of the store's      *)
(* connection pool.                                                        *)
(***************************************************************************)
EXTENDS Access, TLAPS

-----------------------------------------------------------------------------
(* The endpoints.                                                          *)

\* What the proofs use of the table of handlers: an effect never goes without
\* its gate, nor a write or an administrative act without its audit event.
LEMMA GatedEndpoints ==
  ASSUME NEW op \in Endpoints
  PROVE  /\ op.does = "write" => op.gate = "write" /\ op.audit = "always"
         /\ op.does = "mode" => op.gate = "console" /\ op.audit = "always"
         /\ op.does = "read" => op.gate \in {"read", "prefill"}
         /\ op.does \in {"setGrant", "deleteGrant", "setRow", "deleteRow"} => op.admin /\ op.audit = "success"
         /\ op.does = "export" => op.admin
         /\ op.does \in {"read", "list", "mode", "write", "consult", "export", "setGrant", "deleteGrant", "setRow", "deleteRow"}
         /\ op.gate \in {"none", "exists", "read", "write", "prefill", "console"}
  BY DEF Endpoints, Endpoint, Introspection, CommandConsole, WriteEndpoint, apiDDLMutate,
     apiExplorer, apiColumns, apiIndexes, apiKeys, apiGenerate, apiDoc, apiUsages,
     apiRedisKeys, apiRedisValue, apiMongoIndexes, apiMongoDocs, apiGrid, exportTable,
     apiRoles, apiGetConnection, apiDDLFormPrefill, apiListConnections,
     apiQuery, apiRedisCmd, apiMongoCmd, apiExecTx, apiRunForm, apiApplyTable,
     apiAlterSchema, apiDropTable, apiTruncate, apiDropColumn, apiDropIndex,
     apiDropSchema, apiDropRole, apiAlterRole, apiListGrants, apiAudit,
     apiAuditExport, apiTestConnection, apiSetGrant, apiDeleteGrant,
     apiUpdateConnection, apiDeleteConnection

-----------------------------------------------------------------------------
(* The policy and the code that computes it.                               *)

\* A capability of the session, within the grants when access is scoped.
May(u, c, cap, levels) ==
  cap \in Caps[u] /\ (~Scoped \/ IsAdmin(u) \/ \E s \in Member[u] : grants[<<c, s>>] \in levels)

\* The rights of the policy, one by one.
Has(u, c, x) ==
  \/ x = "session" /\ u \in live
  \/ x = "admin" /\ u \in live /\ IsAdmin(u)
  \/ x = "row" /\ rows[c] # "none"
  \/ x = "open" /\ rows[c] = "rw"
  \/ x = "read" /\ May(u, c, "read", {"read", "write"})
  \/ x = "write" /\ May(u, c, "write", {"write"})

\* Rights is the set of the rights a user has.
LEMMA RightsAre == \A u \in Users, c \in Conns : \A x : x \in Rights(u, c) <=> Has(u, c, x)
  <1> TAKE u \in Users, c \in Conns
  <1> TAKE x
  <1> QED BY DEF Rights, Has, May

\* The same after a step.
LEMMA RightsAreNext == \A u \in Users, c \in Conns : \A x : x \in Rights(u, c)' <=> Has(u, c, x)'
  BY DEF Rights, Has, May

\* What a look-up of the grants answers is what the policy says, but for a
\* look-up that fails, which grants nothing the policy does not.
LEMMA AccessIsRights ==
  ASSUME TypeOK, NEW r \in Req, NEW cap \in {"read", "write"}
  PROVE  LET right == Has(UserOf[r], req[r].conn, cap)
         IN  /\ cap \in access(r) => right
             /\ r \notin gone /\ right => cap \in access(r)
  <1> DEFINE u == UserOf[r]
             c == req[r].conn
  <1>1. u \in Users /\ c \in Conns /\ Member[u] \subseteq Subjects
    BY SlotsAssumption, MemberAssumption DEF TypeOK
  <1>2. \A s \in Member[u] : grants[<<c, s>>] \in Levels
    BY <1>1 DEF TypeOK
  <1>3. GrantForSubjects(u, c) \in Levels
    BY DEF GrantForSubjects, Levels
  <1>4. /\ GrantForSubjects(u, c) = "write" <=> \E s \in Member[u] : grants[<<c, s>>] = "write"
        /\ GrantForSubjects(u, c) # "none" <=> \E s \in Member[u] : grants[<<c, s>>] \in {"read", "write"}
    BY <1>2 DEF GrantForSubjects, Levels
  <1>5. \A g \in Levels :
          /\ "read" \in ResolveConnAccess(u, g) <=> "read" \in Caps[u] /\ (~Scoped \/ IsAdmin(u) \/ g # "none")
          /\ "write" \in ResolveConnAccess(u, g) <=> "write" \in Caps[u] /\ (~Scoped \/ IsAdmin(u) \/ g = "write")
    BY DEF ResolveConnAccess, Levels
  <1> QED BY <1>3, <1>4, <1>5 DEF access, Has, May, Levels

-----------------------------------------------------------------------------
(* The inductive invariant, one idea per conjunct.                         *)

\* The locals of a request.
Locals == [pc : Phases, op : Endpoints, conn : Conns, ro : BOOLEAN, act : Policy!Acts,
           why : {"", "csrf", "input"} \cup Policy!Rights, trail : SUBSET {"row", "log"}]

\* What a request has been through its user was entitled to while the request
\* was under way: its history holds the right of every gate it has passed.
Entitled(r) ==
  LET q == req[r]
      gate == q.op.gate
  IN  q.pc \in Checking =>
        /\ q.act = "none"
        /\ "read" \in Caps[UserOf[r]]
        /\ \A x \in Policy!Rights : Has(UserOf[r], q.conn, x) => x \in held[r]
        /\ "session" \in held[r]
        /\ IsAdmin(UserOf[r]) => "admin" \in held[r]
        /\ q.op.admin /\ q.pc # "gates" => IsAdmin(UserOf[r])
        /\ q.pc = "row" => gate # "none"
        /\ q.pc \in {"read", "write"} => gate \notin {"none", "exists"}
        /\ q.pc = "write" => gate # "read"
        /\ q.pc \in {"read", "write"} \/ (q.pc = "run" /\ gate # "none") => "row" \in held[r]
        /\ q.pc = "write" \/ (q.pc = "run" /\ gate \notin {"none", "exists"}) => "read" \in held[r]
        /\ q.pc \in {"read", "write"} /\ ~q.ro => "open" \in held[r]
        /\ q.pc = "run" /\ (gate = "write" \/ (gate = "console" /\ ~q.ro)) => {"write", "open"} \subseteq held[r]

\* A flag that was read as read-only was not there all along, and a refusal
\* names a right that was not.
Caused(r) ==
  /\ req[r].pc \in {"read", "write"} /\ req[r].ro => "open" \notin kept[r]
  /\ req[r].pc = "refused" /\ r \notin gone => req[r].why \notin kept[r]

\* A request that has not begun or was refused has done nothing; one that
\* has finished is audited.
Accounted(r) ==
  /\ req[r].pc \in {"idle", "refused"} => req[r].act = "none"
  /\ req[r].pc = "done" /\ req[r].act \in {"write", "administer"}
       => /\ "row" \in req[r].trail \/ r \in gone
          /\ "log" \in req[r].trail \/ (r \in gone /\ req[r].act = "administer")

Sound(r) == Entitled(r) /\ Caused(r) /\ Accounted(r)

IInv == /\ TypeOK
        /\ req \in [Req -> Locals]
        /\ \A r \in Req : Sound(r)
        /\ NoOrphanGrants

-----------------------------------------------------------------------------
(* The histories.                                                          *)

\* What Observe adds to the histories of a request.
LEMMA ObserveAt ==
  ASSUME Observe, NEW r \in Req, req'[r].conn \in Conns
  PROVE  /\ req'[r].pc \in Checking =>
              \A x : x \in held'[r] <=> x \in held[r] \/ Has(UserOf[r], req[r].conn, x)'
         /\ req'[r].pc \in Checking \cup {"refused"} =>
              \A x : x \in kept'[r] <=> x \in kept[r] /\ Has(UserOf[r], req[r].conn, x)'
  BY SlotsAssumption DEF Observe, Rights, Has, May

\* The histories hold rights.
LEMMA ObserveTypes ==
  ASSUME Observe,
         held \in [Req -> SUBSET Policy!Rights], kept \in [Req -> SUBSET Policy!Rights]
  PROVE  held' \in [Req -> SUBSET Policy!Rights] /\ kept' \in [Req -> SUBSET Policy!Rights]
  <1>1. \A r \in Req : Rights(UserOf[r], req[r].conn)' \subseteq Policy!Rights
    BY DEF Rights, Policy!Rights
  <1> QED BY <1>1 DEF Observe

\* A step of another keeps what is known of a request.
LEMMA Others ==
  ASSUME IInv, Observe, NEW r \in Req, req'[r] = req[r], r \in gone => r \in gone'
  PROVE  Sound(r)'
  <1>1. Sound(r) /\ req[r].conn \in Conns
    BY DEF IInv, TypeOK
  <1>2. /\ req'[r].pc \in Checking =>
              \A x : x \in held'[r] <=> x \in held[r] \/ Has(UserOf[r], req[r].conn, x)'
        /\ req'[r].pc \in Checking \cup {"refused"} =>
              \A x : x \in kept'[r] <=> x \in kept[r] /\ Has(UserOf[r], req[r].conn, x)'
    BY <1>1, ObserveAt
  <1>3. Entitled(r)'
    BY <1>1, <1>2 DEF Sound, Entitled
  <1>4. Caused(r)'
    BY <1>1, <1>2 DEF Sound, Caused, Checking
  <1>5. Accounted(r)'
    BY <1>1 DEF Sound, Accounted
  <1> QED BY <1>3, <1>4, <1>5 DEF Sound

-----------------------------------------------------------------------------
(* The steps of one request.                                               *)

\* A step that leaves the policy and the store's connections alone.
LEMMA LocalStep ==
  ASSUME IInv, NEW r \in Req, NEW s \in Locals, req' = [req EXCEPT ![r] = s],
         Observe, PolicySame, UNCHANGED <<gone, busy>>,
         req[r].pc # "stream", s.pc # "stream", Sound(r)'
  PROVE  IInv'
  <1>1. req \in [Req -> Locals] /\ req' \in [Req -> Locals]
    BY DEF IInv
  <1>2. req'[r] = s /\ \A q \in Req : q # r => req'[q] = req[q]
    BY <1>1
  <1>3. \A q \in Req : Sound(q)'
    BY <1>2, Others
  <1>4. TypeOK'
    <2>1. held' \in [Req -> SUBSET Policy!Rights] /\ kept' \in [Req -> SUBSET Policy!Rights]
      BY ObserveTypes DEF IInv, TypeOK
    <2>2. busy' = {q \in Req : At(q, "stream")'}
      BY <1>2 DEF IInv, TypeOK, At
    <2>3. \A q \in Req : /\ req'[q].pc \in Phases
                          /\ req'[q].op \in Endpoints
                          /\ req'[q].conn \in Conns
                          /\ req'[q].act \in Policy!Acts
                          /\ req'[q].trail \subseteq {"row", "log"}
      BY <1>1 DEF Locals
    <2> QED BY <2>1, <2>2, <2>3 DEF IInv, TypeOK, PolicySame
  <1>5. NoOrphanGrants'
    BY DEF IInv, NoOrphanGrants, PolicySame
  <1> QED BY <1>1, <1>3, <1>4, <1>5 DEF IInv

\* An idle slot.
LEMMA IdleIsLocals == Idle \in Locals
  <1>1. Introspection \in Endpoints
    BY DEF Endpoints, apiExplorer
  <1>2. (CHOOSE c \in Conns : TRUE) \in Conns
    BY ConnsAssumption
  <1> QED BY <1>1, <1>2 DEF Idle, Locals, Phases, Policy!Acts

\* A refusal for a right the user does not have now, or after the client has
\* gone, or for what the request carries.
LEMMA Refusal ==
  ASSUME IInv, NEW r \in Req, NEW why \in {"csrf", "input"} \cup Policy!Rights, Refuse(r, why),
         Observe, PolicySame, UNCHANGED <<gone, busy>>, req[r].pc # "stream",
         r \in gone \/ ~Has(UserOf[r], req[r].conn, why)
  PROVE  IInv'
  <1> DEFINE s == [Idle EXCEPT !.pc = "refused", !.conn = req[r].conn, !.why = why]
  <1>1. req[r].conn \in Conns /\ req \in [Req -> Locals]
    BY DEF IInv, TypeOK
  <1>2. /\ s \in Locals
        /\ s.pc = "refused" /\ s.conn = req[r].conn /\ s.why = why /\ s.act = "none"
    BY <1>1, IdleIsLocals DEF Locals, Idle, Phases
  <1>3. req' = [req EXCEPT ![r] = s]
    BY DEF Refuse
  <1> HIDE DEF s
  <1>4. req'[r] = s
    BY <1>1, <1>3
  <1>5. \A x : x \in kept'[r] <=> x \in kept[r] /\ Has(UserOf[r], req[r].conn, x)'
    BY <1>1, <1>2, <1>4, ObserveAt
  <1>6. Has(UserOf[r], req[r].conn, why)' <=> Has(UserOf[r], req[r].conn, why)
    BY <1>2, <1>4 DEF Has, May, PolicySame
  <1>7. Sound(r)'
    BY <1>2, <1>4, <1>5, <1>6 DEF Sound, Entitled, Caused, Accounted, Checking
  <1> QED BY <1>2, <1>3, <1>7, LocalStep

\* A request passes a gate: it is as before but for its phase and the flag,
\* and its histories see the rights of this moment.
LEMMA Advance ==
  ASSUME IInv, NEW r \in Req, NEW s \in Locals, req' = [req EXCEPT ![r] = s],
         s.pc \in Checking, s.conn = req[r].conn, Observe, PolicySame
  PROVE  /\ req'[r] = s
         /\ \A x : Has(UserOf[r], req[r].conn, x)' <=> Has(UserOf[r], s.conn, x)
         /\ \A x : x \in held'[r] <=> x \in held[r] \/ Has(UserOf[r], s.conn, x)
         /\ \A x : x \in kept'[r] <=> x \in kept[r] /\ Has(UserOf[r], s.conn, x)
  <1>1. req'[r] = s /\ s.conn \in Conns
    BY DEF IInv, TypeOK
  <1>2. \A x : Has(UserOf[r], req[r].conn, x)' <=> Has(UserOf[r], s.conn, x)
    BY <1>1 DEF Has, May, PolicySame
  <1>3. /\ \A x : x \in held'[r] <=> x \in held[r] \/ Has(UserOf[r], req[r].conn, x)'
        /\ \A x : x \in kept'[r] <=> x \in kept[r] /\ Has(UserOf[r], req[r].conn, x)'
    BY <1>1, ObserveAt
  <1> QED BY <1>1, <1>2, <1>3

\* The end of the work, as far as the request itself is concerned: what
\* must be audited goes on to the audit.
LEMMA Finishing ==
  ASSUME IInv, NEW r \in Req, NEW act \in Policy!Acts, NEW err \in BOOLEAN, Finish(r, act, err),
         act = "write" => req[r].op.audit = "always",
         act = "administer" => req[r].op.audit = "success" /\ (err => r \in gone),
         UNCHANGED gone
  PROVE  /\ \E s \in Locals : s.pc \in {"audit", "done"} /\ s.act = act /\ req' = [req EXCEPT ![r] = s]
         /\ Sound(r)'
  <1> DEFINE audited == req[r].op.audit = "always" \/ (req[r].op.audit = "success" /\ ~err)
             s == [Idle EXCEPT !.conn = req[r].conn, !.act = act,
                               !.pc = IF audited THEN "audit" ELSE "done"]
  <1>1. req' = [req EXCEPT ![r] = s] /\ req \in [Req -> Locals] /\ req[r].conn \in Conns
    BY DEF Finish, IInv, TypeOK
  <1>2. /\ s \in Locals /\ s.act = act
        /\ s.pc = IF audited THEN "audit" ELSE "done"
    <2> HIDE DEF audited
    <2> QED BY <1>1, IdleIsLocals DEF Locals, Idle, Phases
  <1> HIDE DEF s
  <1>3. req'[r] = s
    BY <1>1
  <1>4. Entitled(r)' /\ Caused(r)'
    BY <1>2, <1>3 DEF Entitled, Caused, Checking
  <1>5. Accounted(r)'
    BY <1>2, <1>3 DEF Accounted, Policy!Acts
  <1> QED BY <1>1, <1>2, <1>4, <1>5 DEF Sound

-----------------------------------------------------------------------------
(* The gates.                                                              *)

\* A request comes in.
LEMMA MiddlewareKeeps == ASSUME IInv, NEW r \in Req, Middleware(r) PROVE IInv'
  <1>1. PICK op \in Sends[r], c \in Conns :
          req' = [req EXCEPT ![r] = [Idle EXCEPT !.pc = "gates", !.op = op, !.conn = c]]
    BY DEF Middleware
  <1>2. /\ UserOf[r] \in live /\ "read" \in Caps[UserOf[r]] /\ req[r].pc = "idle"
        /\ PolicySame /\ UNCHANGED <<gone, busy>> /\ Observe
    BY DEF Middleware, At
  <1> DEFINE s == [Idle EXCEPT !.pc = "gates", !.op = op, !.conn = c]
  <1>3. op \in Endpoints
    BY SendsAssumption
  <1>4. s \in Locals /\ s.pc = "gates" /\ s.conn = c /\ s.op = op /\ s.act = "none"
    BY <1>3, IdleIsLocals DEF Locals, Idle, Phases, Checking
  <1> HIDE DEF s
  <1>5. req'[r] = s /\ req' = [req EXCEPT ![r] = s]
    BY <1>1 DEF IInv, s
  <1>6. \A x : x \in held'[r] <=> x \in held[r] \/ Has(UserOf[r], req[r].conn, x)'
    BY <1>2, <1>4, <1>5, ObserveAt DEF Checking
  <1>7. UserOf[r] \in live'
    BY <1>2 DEF PolicySame
  <1>8. Has(UserOf[r], req[r].conn, "session")' /\ (IsAdmin(UserOf[r]) => Has(UserOf[r], req[r].conn, "admin")')
    BY <1>7 DEF Has
  <1>9. Sound(r)'
    BY <1>2, <1>4, <1>5, <1>6, <1>8 DEF Sound, Entitled, Caused, Accounted
  <1> QED BY <1>2, <1>4, <1>5, <1>9, LocalStep

\* The CSRF check and the admin capability.
LEMMA RequireAdminKeeps == ASSUME IInv, NEW r \in Req, RequireAdmin(r) PROVE IInv'
  <1> DEFINE op == req[r].op
  <1>1. /\ req[r].pc = "gates"
        /\ PolicySame /\ UNCHANGED <<gone, busy>> /\ Observe
    BY DEF RequireAdmin, At
  <1>2. CASE Refuse(r, "csrf")
    <2>1. ~Has(UserOf[r], req[r].conn, "csrf")
      BY DEF Has
    <2> QED BY <1>1, <1>2, <2>1, Refusal
  <1>3. CASE ~IsAdmin(UserOf[r]) /\ Refuse(r, "admin")
    <2>1. ~Has(UserOf[r], req[r].conn, "admin")
      BY <1>3 DEF Has
    <2> QED BY <1>1, <1>3, <2>1, Refusal DEF Policy!Rights
  <1>4. CASE /\ op.admin => IsAdmin(UserOf[r])
             /\ Go(r, IF op.gate = "none" THEN "run" ELSE "row")
    <2> DEFINE p == IF op.gate = "none" THEN "run" ELSE "row"
               s == [req[r] EXCEPT !.pc = p]
    <2>1. p \in {"row", "run"} /\ (p = "run" <=> op.gate = "none")
      OBVIOUS
    <2>2. req' = [req EXCEPT ![r] = s]
      BY <1>4 DEF Go
    <2> HIDE DEF p
    <2>3. /\ s \in Locals /\ s.pc = p
          /\ s.op = req[r].op /\ s.conn = req[r].conn /\ s.act = req[r].act
      BY <2>1 DEF IInv, Locals, Phases, Checking
    <2> HIDE DEF s
    <2>4. /\ req'[r] = s
          /\ \A x : Has(UserOf[r], req[r].conn, x)' <=> Has(UserOf[r], s.conn, x)
          /\ \A x : x \in held'[r] <=> x \in held[r] \/ Has(UserOf[r], s.conn, x)
      BY <1>1, <2>1, <2>2, <2>3, Advance DEF Checking
    <2>5. Entitled(r)'
      BY <1>1, <1>4, <2>1, <2>3, <2>4 DEF IInv, Sound, Entitled, Checking
    <2>6. Sound(r)'
      BY <2>1, <2>3, <2>4, <2>5 DEF Sound, Caused, Accounted
    <2> QED BY <1>1, <2>1, <2>2, <2>3, <2>6, LocalStep
  <1> QED BY <1>2, <1>3, <1>4 DEF RequireAdmin

\* The row of the connection.
LEMMA GetConnectionKeeps == ASSUME IInv, NEW r \in Req, GetConnection(r) PROVE IInv'
  <1> DEFINE c == req[r].conn
  <1>1. /\ req[r].pc = "row"
        /\ PolicySame /\ UNCHANGED <<gone, busy>> /\ Observe
    BY DEF GetConnection, At
  <1>2. CASE (r \in gone \/ rows[c] = "none") /\ Refuse(r, "row")
    <2>1. r \in gone \/ ~Has(UserOf[r], req[r].conn, "row")
      BY <1>2 DEF Has
    <2> QED BY <1>1, <1>2, <2>1, Refusal DEF Policy!Rights
  <1>3. CASE /\ rows[c] # "none"
             /\ req' = [req EXCEPT ![r].pc = IF req[r].op.gate = "exists" THEN "run" ELSE "read",
                                   ![r].ro = (req[r].op.gate # "exists" /\ rows[c] = "ro")]
    <2> DEFINE p == IF req[r].op.gate = "exists" THEN "run" ELSE "read"
               f == req[r].op.gate # "exists" /\ rows[c] = "ro"
               s == [req[r] EXCEPT !.pc = p, !.ro = f]
    <2>1. /\ p \in {"run", "read"} /\ (p = "run" <=> req[r].op.gate = "exists")
          /\ f \in BOOLEAN
      OBVIOUS
    <2>2. req' = [req EXCEPT ![r] = s]
      BY <1>3
    <2>3. s.ro <=> req[r].op.gate # "exists" /\ rows[c] = "ro"
      BY DEF IInv, Locals
    <2> HIDE DEF p, f
    <2>4. /\ s \in Locals /\ s.pc = p
          /\ s.op = req[r].op /\ s.conn = req[r].conn /\ s.act = req[r].act
      BY <2>1 DEF IInv, Locals, Phases, Checking
    <2> HIDE DEF s
    <2>5. /\ req'[r] = s
          /\ \A x : Has(UserOf[r], req[r].conn, x)' <=> Has(UserOf[r], s.conn, x)
          /\ \A x : x \in held'[r] <=> x \in held[r] \/ Has(UserOf[r], s.conn, x)
          /\ \A x : x \in kept'[r] <=> x \in kept[r] /\ Has(UserOf[r], s.conn, x)
      BY <1>1, <2>1, <2>2, <2>4, Advance DEF Checking
    <2>6. rows[c] \in {"rw", "ro", "none"}
      BY DEF IInv, TypeOK
    <2>7. /\ Has(UserOf[r], req[r].conn, "row")
          /\ rows[c] # "ro" => Has(UserOf[r], req[r].conn, "open")
          /\ rows[c] = "ro" => ~Has(UserOf[r], req[r].conn, "open")
      BY <1>3, <2>6 DEF Has
    <2>8. Entitled(r)'
      BY <1>1, <2>1, <2>3, <2>4, <2>5, <2>7 DEF IInv, Sound, Entitled, Checking
    <2>9. Caused(r)' /\ Accounted(r)'
      BY <2>1, <2>3, <2>4, <2>5, <2>7 DEF Caused, Accounted
    <2> QED BY <1>1, <2>1, <2>2, <2>4, <2>8, <2>9, LocalStep DEF Sound
  <1> QED BY <1>2, <1>3 DEF GetConnection

\* Read access, by the grants of this moment.
LEMMA connForKeeps == ASSUME IInv, NEW r \in Req, connFor(r) PROVE IInv'
  <1>1. /\ req[r].pc = "read"
        /\ PolicySame /\ UNCHANGED <<gone, busy>> /\ Observe
    BY DEF connFor, At
  <1>2. /\ "read" \in access(r) => Has(UserOf[r], req[r].conn, "read")
        /\ r \notin gone /\ Has(UserOf[r], req[r].conn, "read") => "read" \in access(r)
    BY AccessIsRights DEF IInv
  <1>3. CASE "read" \notin access(r) /\ Refuse(r, "read")
    BY <1>1, <1>2, <1>3, Refusal DEF Policy!Rights
  <1>4. CASE "read" \in access(r) /\ Go(r, IF req[r].op.gate = "read" THEN "run" ELSE "write")
    <2> DEFINE p == IF req[r].op.gate = "read" THEN "run" ELSE "write"
               s == [req[r] EXCEPT !.pc = p]
    <2>1. p \in {"run", "write"} /\ (p = "run" <=> req[r].op.gate = "read")
      OBVIOUS
    <2>2. req' = [req EXCEPT ![r] = s]
      BY <1>4 DEF Go
    <2> HIDE DEF p
    <2>3. /\ s \in Locals /\ s.pc = p /\ s.ro = req[r].ro
          /\ s.op = req[r].op /\ s.conn = req[r].conn /\ s.act = req[r].act
      BY <2>1 DEF IInv, Locals, Phases, Checking
    <2> HIDE DEF s
    <2>4. /\ req'[r] = s
          /\ \A x : Has(UserOf[r], req[r].conn, x)' <=> Has(UserOf[r], s.conn, x)
          /\ \A x : x \in held'[r] <=> x \in held[r] \/ Has(UserOf[r], s.conn, x)
          /\ \A x : x \in kept'[r] <=> x \in kept[r] /\ Has(UserOf[r], s.conn, x)
      BY <1>1, <2>1, <2>2, <2>3, Advance DEF Checking
    <2>5. Entitled(r)'
      BY <1>1, <1>2, <1>4, <2>1, <2>3, <2>4 DEF IInv, Sound, Entitled, Checking
    <2>6. Caused(r)' /\ Accounted(r)'
      BY <1>1, <2>1, <2>3, <2>4 DEF IInv, Sound, Caused, Accounted
    <2> QED BY <1>1, <2>1, <2>2, <2>3, <2>5, <2>6, LocalStep DEF Sound
  <1> QED BY <1>3, <1>4 DEF connFor

\* Write access, by the grants of another moment, and the flag read earlier.
LEMMA RequireWriteKeeps == ASSUME IInv, NEW r \in Req, RequireWrite(r) PROVE IInv'
  <1> DEFINE write == "write" \in access(r)
             gate == req[r].op.gate
  <1>1. /\ req[r].pc = "write"
        /\ PolicySame /\ UNCHANGED <<gone, busy>> /\ Observe
    BY DEF RequireWrite, At
  <1>2. /\ write => Has(UserOf[r], req[r].conn, "write")
        /\ r \notin gone /\ Has(UserOf[r], req[r].conn, "write") => write
    BY AccessIsRights DEF IInv
  <1>3. CASE ~write /\ Refuse(r, "write")
    BY <1>1, <1>2, <1>3, Refusal DEF Policy!Rights
  <1>4. CASE gate = "write" /\ write /\ req[r].ro /\ Refuse(r, "open")
    <2> DEFINE s == [Idle EXCEPT !.pc = "refused", !.conn = req[r].conn, !.why = "open"]
    <2>1. req[r].conn \in Conns /\ req \in [Req -> Locals]
      BY DEF IInv, TypeOK
    <2>2. s \in Locals /\ s.pc = "refused" /\ s.conn = req[r].conn /\ s.why = "open" /\ s.act = "none"
      BY <2>1, IdleIsLocals DEF Locals, Idle, Phases, Policy!Rights
    <2>3. req' = [req EXCEPT ![r] = s]
      BY <1>4 DEF Refuse
    <2> HIDE DEF s
    <2>4. req'[r] = s
      BY <2>1, <2>3
    <2>5. \A x : x \in kept'[r] => x \in kept[r]
      BY <1>1, <2>1, <2>2, <2>4, ObserveAt
    <2>6. "open" \notin kept[r]
      BY <1>1, <1>4 DEF IInv, Sound, Caused
    <2>7. Sound(r)'
      BY <2>2, <2>4, <2>5, <2>6 DEF Sound, Entitled, Caused, Accounted, Checking
    <2> QED BY <1>1, <2>2, <2>3, <2>7, LocalStep
  <1>5. ASSUME NEW s \in Locals, req' = [req EXCEPT ![r] = s], s.pc = "run",
               s.op = req[r].op, s.conn = req[r].conn, s.act = req[r].act,
               gate = "write" => write /\ ~req[r].ro,
               gate = "console" /\ ~s.ro => write /\ ~req[r].ro
        PROVE  IInv'
    <2>1. /\ req'[r] = s
          /\ \A x : Has(UserOf[r], req[r].conn, x)' <=> Has(UserOf[r], s.conn, x)
          /\ \A x : x \in held'[r] <=> x \in held[r] \/ Has(UserOf[r], s.conn, x)
      BY <1>1, <1>5, Advance DEF Checking
    <2>2. Entitled(r)'
      BY <1>1, <1>2, <1>5, <2>1 DEF IInv, Sound, Entitled, Checking
    <2>3. Sound(r)'
      BY <1>5, <2>1, <2>2 DEF Sound, Caused, Accounted
    <2> QED BY <1>1, <1>5, <2>3, LocalStep
  <1>6. CASE gate = "console" /\ req' = [req EXCEPT ![r].pc = "run", ![r].ro = @ \/ ~write]
    <2> DEFINE f == req[r].ro \/ ~write
               s == [req[r] EXCEPT !.pc = "run", !.ro = f]
    <2>1. f \in BOOLEAN
      OBVIOUS
    <2>2. req' = [req EXCEPT ![r] = s]
      BY <1>6
    <2>3. s.ro <=> req[r].ro \/ ~write
      BY DEF IInv, Locals
    <2> HIDE DEF f
    <2>4. s \in Locals /\ s.pc = "run" /\ s.op = req[r].op /\ s.conn = req[r].conn /\ s.act = req[r].act
      BY <2>1 DEF IInv, Locals, Phases, Checking
    <2> QED BY <1>5, <1>6, <2>2, <2>3, <2>4
  <1>7. CASE gate # "console" /\ (gate = "write" => write /\ ~req[r].ro) /\ Go(r, "run")
    <2> DEFINE s == [req[r] EXCEPT !.pc = "run"]
    <2>1. req' = [req EXCEPT ![r] = s]
      BY <1>7 DEF Go
    <2>2. s \in Locals /\ s.pc = "run" /\ s.op = req[r].op /\ s.conn = req[r].conn /\ s.act = req[r].act
      BY DEF IInv, Locals, Phases, Checking
    <2> QED BY <1>5, <1>7, <2>1, <2>2
  <1> QED BY <1>3, <1>4, <1>6, <1>7 DEF RequireWrite

\* A request turned away for what it carries.
LEMMA TurnedKeeps == ASSUME IInv, NEW r \in Req, Turned(r) PROVE IInv'
  <1>1. /\ req[r].pc = "run" /\ Refuse(r, "input")
        /\ PolicySame /\ UNCHANGED <<gone, busy>> /\ Observe
    BY DEF Turned, At
  <1>2. ~Has(UserOf[r], req[r].conn, "input")
    BY DEF Has
  <1> QED BY <1>1, <1>2, Refusal

-----------------------------------------------------------------------------
(* The work and what follows it.                                           *)

\* A statement does nothing, reads or writes, within the rights its user has
\* had since the request began, and a write goes on to the audit.
LEMMA StatementDoes ==
  ASSUME IInv, NEW r \in Req, Statement(r)
  PROVE  \E act \in Policy!Acts, err \in BOOLEAN :
           /\ Finish(r, act, err) /\ act # "administer"
           /\ Policy!Needs(act) \subseteq held[r]
           /\ act = "write" => req[r].op.audit = "always"
  <1> DEFINE op == req[r].op
             writes(stmt) == op.does = "write" \/ (op.does = "mode" /\ stmt # "read" /\ ~req[r].ro)
             denied(stmt) == op.does = "mode" /\ stmt # "read" /\ req[r].ro
             effect(stmt) == IF writes(stmt) THEN "write" ELSE "read"
  <1>1. PICK stmt \in Passing(r), err \in BOOLEAN :
          \E act \in IF denied(stmt) THEN {"none"} ELSE IF err THEN {"none", effect(stmt)} ELSE {effect(stmt)} :
            Finish(r, act, err)
    BY DEF Statement
  <1>2. PICK act : act \in {"none", effect(stmt)} /\ Finish(r, act, err)
    BY <1>1
  <1>3. /\ req[r].pc = "run" /\ op \in Endpoints /\ op.does \in {"read", "mode", "write"}
        /\ Entitled(r)
    BY DEF Statement, At, IInv, TypeOK, Sound
  <1>4. /\ op.does = "write" => op.gate = "write" /\ op.audit = "always"
        /\ op.does = "mode" => op.gate = "console" /\ op.audit = "always"
        /\ op.does = "read" => op.gate \in {"read", "prefill"}
    BY <1>3, GatedEndpoints
  <1>5. {"session", "row", "read"} \subseteq held[r]
    BY <1>3, <1>4 DEF Entitled, Checking
  <1>6. writes(stmt) => {"write", "open"} \subseteq held[r] /\ op.audit = "always"
    BY <1>3, <1>4 DEF Entitled, Checking
  <1>7. act = "write" => writes(stmt)
    BY <1>2
  <1>8. act \in {"none", "read", "write"}
    BY <1>2
  <1> HIDE DEF writes, effect
  <1>9. Policy!Needs(act) \subseteq held[r]
    <2>1. CASE act = "none"
      BY <2>1 DEF Policy!Needs
    <2>2. CASE act = "read"
      BY <1>5, <2>2 DEF Policy!Needs
    <2>3. CASE act = "write"
      BY <1>5, <1>6, <1>7, <2>3 DEF Policy!Needs
    <2> QED BY <1>8, <2>1, <2>2, <2>3
  <1> QED BY <1>2, <1>6, <1>7, <1>8, <1>9 DEF Policy!Acts

\* The listing shows a connection its user may read at that moment.
LEMMA ListDoes ==
  ASSUME IInv, NEW r \in Req, List(r)
  PROVE  \E act \in Policy!Acts, err \in BOOLEAN :
           /\ Finish(r, act, err) /\ act \in {"none", "read"}
           /\ Policy!Needs(act) \subseteq held[r]
  <1> DEFINE u == UserOf[r]
             c == req[r].conn
             listed == rows[c] # "none" /\ (~Scoped \/ IsAdmin(u) \/ GrantForSubjects(u, c) # "none")
             act == IF listed /\ r \notin gone THEN "read" ELSE "none"
             err == r \in gone
  <1>1. /\ req[r].pc = "run" /\ Entitled(r) /\ Finish(r, act, err) /\ err \in BOOLEAN
    BY DEF List, At, IInv, Sound
  <1>2. u \in Users /\ c \in Conns /\ \A s \in Member[u] : grants[<<c, s>>] \in Levels
    BY SlotsAssumption, MemberAssumption DEF IInv, TypeOK
  <1>3. GrantForSubjects(u, c) # "none" => \E s \in Member[u] : grants[<<c, s>>] \in {"read", "write"}
    BY <1>2 DEF GrantForSubjects, Levels
  <1>4. "read" \in Caps[u] /\ "session" \in held[r]
    BY <1>1 DEF Entitled, Checking
  <1>5. listed => Has(u, c, "row") /\ Has(u, c, "read")
    BY <1>3, <1>4 DEF Has, May
  <1>6. \A x \in Policy!Rights : Has(u, c, x) => x \in held[r]
    BY <1>1 DEF Entitled, Checking
  <1>7. "row" \in Policy!Rights /\ "read" \in Policy!Rights
    BY DEF Policy!Rights
  <1>8. act = "read" => {"session", "row", "read"} \subseteq held[r]
    BY <1>4, <1>5, <1>6, <1>7
  <1>9. act \in {"none", "read"}
    OBVIOUS
  <1> HIDE DEF act, err
  <1>10. Policy!Needs(act) \subseteq held[r]
    <2>1. CASE act = "none"
      BY <2>1 DEF Policy!Needs
    <2>2. CASE act = "read"
      BY <1>8, <2>2 DEF Policy!Needs
    <2> QED BY <1>9, <2>1, <2>2
  <1> QED BY <1>1, <1>9, <1>10 DEF Policy!Acts

\* An administrative handler does nothing and leaves the policy as it is, or
\* acts for a user who has been an administrator with a session.
LEMMA AdministerDoes ==
  ASSUME IInv, NEW r \in Req, Administer(r)
  PROVE  \E act \in Policy!Acts, err \in BOOLEAN :
           /\ Finish(r, act, err)
           /\ \/ act = "none" /\ UNCHANGED <<rows, grants>>
              \/ /\ act = "administer" /\ {"session", "admin"} \subseteq held[r]
                 /\ req[r].op.audit = "success" /\ (err => r \in gone)
  <1> DEFINE op == req[r].op
             changes == {"setGrant", "deleteGrant", "setRow", "deleteRow"}
  <1>1. /\ req[r].pc = "run" /\ op \in Endpoints /\ Entitled(r)
        /\ grants \in [Conns \X Subjects -> Levels]
    BY DEF Administer, At, IInv, TypeOK, Sound
  <1>2. op.does \in changes => op.admin /\ op.audit = "success"
    BY <1>1, GatedEndpoints
  <1>3. op.does \in changes => {"session", "admin"} \subseteq held[r]
    BY <1>1, <1>2 DEF Entitled, Checking
  <1>4. "none" \in Policy!Acts /\ "administer" \in Policy!Acts
    BY DEF Policy!Acts
  <1>5. (r \in gone) \in BOOLEAN /\ TRUE \in BOOLEAN
    OBVIOUS
  <1>6. CASE SetGrant(r)
    <2>1. CASE rows[req[r].conn] = "none"
      <3>1. /\ Finish(r, "none", TRUE) /\ UNCHANGED rows
            /\ \E s \in Subjects : grants' = [grants EXCEPT ![<<req[r].conn, s>>] = @]
        BY <1>6, <2>1 DEF SetGrant
      <3>2. grants' = grants
        BY <1>1, <3>1
      <3> QED BY <1>4, <3>1, <3>2
    <2>2. CASE rows[req[r].conn] # "none"
      <3>1. Finish(r, "administer", r \in gone) /\ op.does \in changes
        BY <1>6, <2>2 DEF SetGrant
      <3> QED BY <1>2, <1>3, <1>4, <1>5, <3>1
    <2> QED BY <2>1, <2>2
  <1>7. CASE DeleteGrant(r) \/ UpdateConnection(r) \/ DeleteConnection(r)
    <2>1. Finish(r, "administer", r \in gone) /\ op.does \in changes
      BY <1>7 DEF DeleteGrant, UpdateConnection, DeleteConnection
    <2> QED BY <1>2, <1>3, <1>4, <1>5, <2>1
  <1>8. CASE Finish(r, "none", r \in gone) /\ UNCHANGED <<rows, grants>>
    BY <1>4, <1>5, <1>8
  <1> QED BY <1>6, <1>7, <1>8 DEF Administer

\* A statement or the listing keeps the invariant.
LEMMA WorkKeeps == ASSUME IInv, NEW r \in Req, Statement(r) \/ List(r) PROVE IInv'
  <1>1. /\ req[r].pc = "run" /\ PolicySame /\ UNCHANGED <<gone, busy>> /\ Observe
    BY DEF Statement, List, At
  <1>2. PICK act \in Policy!Acts, err \in BOOLEAN :
          /\ Finish(r, act, err) /\ act # "administer"
          /\ act = "write" => req[r].op.audit = "always"
    BY StatementDoes, ListDoes
  <1>3. /\ \E s \in Locals : s.pc \in {"audit", "done"} /\ s.act = act /\ req' = [req EXCEPT ![r] = s]
        /\ Sound(r)'
    BY <1>1, <1>2, Finishing
  <1> QED BY <1>1, <1>3, LocalStep

\* So does a change of the policy: a grant needs its connection and goes with it.
LEMMA AdministerKeeps == ASSUME IInv, NEW r \in Req, Administer(r) PROVE IInv'
  <1>1. /\ req[r].pc = "run" /\ UNCHANGED <<live, gone, busy>> /\ Observe
        /\ req \in [Req -> Locals]
    BY DEF Administer, At, IInv
  <1>2. PICK act \in Policy!Acts, err \in BOOLEAN :
          /\ Finish(r, act, err) /\ act \in {"none", "administer"}
          /\ act = "administer" => req[r].op.audit = "success" /\ (err => r \in gone)
    BY AdministerDoes
  <1>3. /\ \E s \in Locals : s.pc \in {"audit", "done"} /\ s.act = act /\ req' = [req EXCEPT ![r] = s]
        /\ Sound(r)'
    BY <1>1, <1>2, Finishing
  <1>4. /\ req' \in [Req -> Locals] /\ req'[r].pc \in {"audit", "done"}
        /\ \A q \in Req : q # r => req'[q] = req[q]
    BY <1>1, <1>3
  <1>5. \A q \in Req : Sound(q)'
    BY <1>1, <1>3, <1>4, Others
  <1>6. /\ rows \in [Conns -> {"rw", "ro", "none"}] /\ grants \in [Conns \X Subjects -> Levels]
        /\ req[r].conn \in Conns /\ NoOrphanGrants
    BY DEF IInv, TypeOK
  <1>7. /\ rows' \in [Conns -> {"rw", "ro", "none"}] /\ grants' \in [Conns \X Subjects -> Levels]
        /\ NoOrphanGrants'
    <2>1. CASE SetGrant(r)
      <3>1. PICK s \in Subjects, l \in Levels \ {"none"} :
              grants' = [grants EXCEPT ![<<req[r].conn, s>>] = IF rows[req[r].conn] = "none" THEN @ ELSE l]
        BY <2>1 DEF SetGrant
      <3>2. UNCHANGED rows
        BY <2>1 DEF SetGrant
      <3> QED BY <1>6, <3>1, <3>2 DEF NoOrphanGrants, Levels
    <2>2. CASE DeleteGrant(r)
      BY <1>6, <2>2 DEF DeleteGrant, NoOrphanGrants, Levels
    <2>3. CASE UpdateConnection(r)
      <3>1. PICK v \in {"rw", "ro"} : rows' = [rows EXCEPT ![req[r].conn] = IF @ = "none" THEN @ ELSE v]
        BY <2>3 DEF UpdateConnection
      <3>2. UNCHANGED grants
        BY <2>3 DEF UpdateConnection
      <3> QED BY <1>6, <3>1, <3>2 DEF NoOrphanGrants
    <2>4. CASE DeleteConnection(r)
      BY <1>6, <2>4 DEF DeleteConnection, NoOrphanGrants, Levels
    <2>5. CASE UNCHANGED <<rows, grants>>
      BY <1>6, <2>5 DEF NoOrphanGrants
    <2> QED BY <2>1, <2>2, <2>3, <2>4, <2>5 DEF Administer
  <1>8. TypeOK'
    <2>1. held' \in [Req -> SUBSET Policy!Rights] /\ kept' \in [Req -> SUBSET Policy!Rights]
      BY <1>1, ObserveTypes DEF IInv, TypeOK
    <2>2. busy' = {q \in Req : At(q, "stream")'}
      BY <1>1, <1>4 DEF IInv, TypeOK, At
    <2>3. \A q \in Req : /\ req'[q].pc \in Phases
                          /\ req'[q].op \in Endpoints
                          /\ req'[q].conn \in Conns
                          /\ req'[q].act \in Policy!Acts
                          /\ req'[q].trail \subseteq {"row", "log"}
      BY <1>4 DEF Locals
    <2> QED BY <1>1, <1>7, <2>1, <2>2, <2>3 DEF IInv, TypeOK
  <1> QED BY <1>4, <1>5, <1>7, <1>8 DEF IInv

\* A request that ends leaves an idle slot behind.
LEMMA SlotFreed ==
  ASSUME IInv, NEW r \in Req, req' = [req EXCEPT ![r] = Idle], gone' = gone \ {r}, busy' = busy \ {r},
         Observe, PolicySame
  PROVE  IInv'
  <1>1. req \in [Req -> Locals] /\ req' \in [Req -> Locals]
    BY IdleIsLocals DEF IInv
  <1>2. req'[r] = Idle /\ \A q \in Req : q # r => req'[q] = req[q]
    BY <1>1
  <1>3. Sound(r)'
    <2>1. Idle.pc = "idle" /\ Idle.act = "none"
      BY DEF Idle
    <2> QED BY <1>2, <2>1 DEF Sound, Entitled, Caused, Accounted, Checking
  <1>4. \A q \in Req : Sound(q)'
    BY <1>2, <1>3, Others
  <1>5. TypeOK'
    <2>1. held' \in [Req -> SUBSET Policy!Rights] /\ kept' \in [Req -> SUBSET Policy!Rights]
      BY ObserveTypes DEF IInv, TypeOK
    <2>2. busy' = {q \in Req : At(q, "stream")'}
      BY <1>2 DEF IInv, TypeOK, At, Idle
    <2>3. \A q \in Req : /\ req'[q].pc \in Phases
                          /\ req'[q].op \in Endpoints
                          /\ req'[q].conn \in Conns
                          /\ req'[q].act \in Policy!Acts
                          /\ req'[q].trail \subseteq {"row", "log"}
      BY <1>1 DEF Locals
    <2> QED BY <2>1, <2>2, <2>3 DEF IInv, TypeOK, PolicySame
  <1>6. NoOrphanGrants'
    BY DEF IInv, NoOrphanGrants, PolicySame
  <1> QED BY <1>1, <1>4, <1>5, <1>6 DEF IInv

\* The export of the audit table begins, or fails because the client has gone.
LEMMA ExportKeeps == ASSUME IInv, NEW r \in Req, apiAuditExportBegin(r) PROVE IInv'
  <1>1. /\ req[r].pc = "run" /\ PolicySame /\ UNCHANGED gone /\ Observe /\ req \in [Req -> Locals]
    BY DEF apiAuditExportBegin, At, IInv
  <1>2. CASE Finish(r, "none", TRUE) /\ UNCHANGED busy
    <2>1. /\ \E s \in Locals : s.pc \in {"audit", "done"} /\ s.act = "none" /\ req' = [req EXCEPT ![r] = s]
          /\ Sound(r)'
      BY <1>1, <1>2, Finishing DEF Policy!Acts
    <2> QED BY <1>1, <1>2, <2>1, LocalStep
  <1>3. CASE /\ req' = [req EXCEPT ![r] = [Idle EXCEPT !.pc = "stream", !.conn = req[r].conn, !.act = "administer"]]
             /\ busy' = busy \cup {r}
    <2> DEFINE s == [Idle EXCEPT !.pc = "stream", !.conn = req[r].conn, !.act = "administer"]
    <2>1. s \in Locals /\ s.pc = "stream"
      BY IdleIsLocals DEF Locals, Idle, Phases, Policy!Acts, IInv
    <2>2. req' = [req EXCEPT ![r] = s]
      BY <1>3
    <2> HIDE DEF s
    <2>3. req'[r] = s /\ (\A q \in Req : q # r => req'[q] = req[q]) /\ req' \in [Req -> Locals]
      BY <1>1, <2>1, <2>2
    <2>4. Sound(r)'
      BY <2>1, <2>3 DEF Sound, Entitled, Caused, Accounted, Checking
    <2>5. \A q \in Req : Sound(q)'
      BY <1>1, <2>3, <2>4, Others
    <2>6. TypeOK'
      <3>1. held' \in [Req -> SUBSET Policy!Rights] /\ kept' \in [Req -> SUBSET Policy!Rights]
        BY <1>1, ObserveTypes DEF IInv, TypeOK
      <3>2. busy' = {q \in Req : At(q, "stream")'}
        BY <1>3, <2>1, <2>3 DEF IInv, TypeOK, At
      <3>3. \A q \in Req : /\ req'[q].pc \in Phases
                            /\ req'[q].op \in Endpoints
                            /\ req'[q].conn \in Conns
                            /\ req'[q].act \in Policy!Acts
                            /\ req'[q].trail \subseteq {"row", "log"}
        BY <2>3 DEF Locals
      <3> QED BY <1>1, <3>1, <3>2, <3>3 DEF IInv, TypeOK, PolicySame
    <2>7. NoOrphanGrants'
      BY <1>1 DEF IInv, NoOrphanGrants, PolicySame
    <2> QED BY <2>3, <2>5, <2>6, <2>7 DEF IInv
  <1> QED BY <1>2, <1>3 DEF apiAuditExportBegin

\* The audit event of a request that has worked.
LEMMA AddAuditKeeps == ASSUME IInv, NEW r \in Req, AddAudit(r) PROVE IInv'
  <1> DEFINE trail == {"log"} \cup (IF r \in gone THEN {} ELSE {"row"})
             s == [req[r] EXCEPT !.pc = "done", !.trail = trail]
  <1>1. /\ req[r].pc = "audit" /\ PolicySame /\ UNCHANGED <<gone, busy>> /\ Observe
        /\ req' = [req EXCEPT ![r] = s] /\ req \in [Req -> Locals]
    BY DEF AddAudit, At, IInv
  <1>2. trail \subseteq {"row", "log"} /\ "log" \in trail /\ (r \notin gone => "row" \in trail)
    OBVIOUS
  <1> HIDE DEF trail
  <1>3. s \in Locals /\ s.pc = "done" /\ s.trail = trail
    BY <1>1, <1>2 DEF Locals, Phases
  <1> HIDE DEF s
  <1>4. req'[r] = s
    BY <1>1
  <1>5. Sound(r)'
    BY <1>1, <1>2, <1>3, <1>4 DEF Sound, Entitled, Caused, Accounted, Checking
  <1> QED BY <1>1, <1>3, <1>5, LocalStep

\* A client that goes away, a session that ends.
LEMMA AwayKeeps ==
  ASSUME IInv, (\E r \in Req : Disconnect(r)) \/ (\E u \in Users : Logout(u))
  PROVE  IInv'
  <1>1. CASE \E r \in Req : Disconnect(r)
    <2>1. PICK r \in Req : Disconnect(r)
      BY <1>1
    <2>2. gone' = gone \cup {r} /\ UNCHANGED <<rows, grants, live, req, busy, held, kept>>
      BY <2>1 DEF Disconnect
    <2>3. \A q \in Req : Sound(q)'
      <3> TAKE q \in Req
      <3>1. Sound(q) /\ \A x : Has(UserOf[q], req[q].conn, x)' <=> Has(UserOf[q], req[q].conn, x)
        BY <2>2 DEF IInv, Has, May
      <3>2. Entitled(q)'
        BY <2>2, <3>1 DEF Sound, Entitled
      <3>3. Caused(q)' /\ Accounted(q)'
        BY <2>2, <3>1 DEF Sound, Caused, Accounted
      <3> QED BY <3>2, <3>3 DEF Sound
    <2>4. TypeOK' /\ NoOrphanGrants'
      BY <2>2 DEF IInv, TypeOK, NoOrphanGrants, At
    <2> QED BY <2>2, <2>3, <2>4 DEF IInv
  <1>2. CASE \E u \in Users : Logout(u)
    <2>1. PICK u \in Users : Logout(u)
      BY <1>2
    <2>2. live' = live \ {u} /\ UNCHANGED <<rows, grants, req, gone, busy>> /\ Observe
      BY <2>1 DEF Logout
    <2>3. \A q \in Req : Sound(q)'
      BY <2>2, Others
    <2>4. held' \in [Req -> SUBSET Policy!Rights] /\ kept' \in [Req -> SUBSET Policy!Rights]
      BY <2>2, ObserveTypes DEF IInv, TypeOK
    <2>5. TypeOK' /\ NoOrphanGrants'
      BY <2>2, <2>4 DEF IInv, TypeOK, NoOrphanGrants, At
    <2> QED BY <2>2, <2>3, <2>5 DEF IInv
  <1> QED BY <1>1, <1>2

\* A crash.
LEMMA CrashKeeps == ASSUME IInv, Crash PROVE IInv'
  <1>1. /\ live' \subseteq live /\ req' = [r \in Req |-> Idle] /\ gone' = {} /\ busy' = {}
        /\ UNCHANGED <<rows, grants>> /\ Observe
    BY DEF Crash
  <1>2. req' \in [Req -> Locals] /\ \A r \in Req : req'[r] = Idle
    BY <1>1, IdleIsLocals
  <1>3. \A r \in Req : Sound(r)'
    <2>1. Idle.pc = "idle" /\ Idle.act = "none"
      BY DEF Idle
    <2> QED BY <1>2, <2>1 DEF Sound, Entitled, Caused, Accounted, Checking
  <1>4. held' \in [Req -> SUBSET Policy!Rights] /\ kept' \in [Req -> SUBSET Policy!Rights]
    BY <1>1, ObserveTypes DEF IInv, TypeOK
  <1>5. \A r \in Req : /\ req'[r].pc \in Phases
                        /\ req'[r].op \in Endpoints
                        /\ req'[r].conn \in Conns
                        /\ req'[r].act \in Policy!Acts
                        /\ req'[r].trail \subseteq {"row", "log"}
    BY <1>2 DEF Locals
  <1>6. busy' = {r \in Req : At(r, "stream")'}
    BY <1>1, <1>2 DEF At, Idle
  <1>7. TypeOK' /\ NoOrphanGrants'
    BY <1>1, <1>4, <1>5, <1>6 DEF IInv, TypeOK, NoOrphanGrants
  <1> QED BY <1>2, <1>3, <1>7 DEF IInv

-----------------------------------------------------------------------------
(* The invariant.                                                          *)

\* A server that has just started satisfies it.
LEMMA Start == Init => IInv
  <1> SUFFICES ASSUME Init PROVE IInv
    OBVIOUS
  <1>1. req \in [Req -> Locals] /\ (\A r \in Req : req[r] = Idle) /\ Idle.pc = "idle" /\ Idle.act = "none"
    BY IdleIsLocals DEF Init, Idle
  <1>2. \A r \in Req : Sound(r)
    BY <1>1 DEF Sound, Entitled, Caused, Accounted, Checking
  <1>3. \A r \in Req : /\ req[r].pc \in Phases
                        /\ req[r].op \in Endpoints
                        /\ req[r].conn \in Conns
                        /\ req[r].act \in Policy!Acts
                        /\ req[r].trail \subseteq {"row", "log"}
    BY <1>1 DEF Locals
  <1>4. TypeOK /\ NoOrphanGrants
    BY <1>1, <1>3 DEF Init, TypeOK, NoOrphanGrants, At
  <1> QED BY <1>1, <1>2, <1>4 DEF IInv

\* Every step keeps it.
LEMMA Keeps == ASSUME IInv, Next PROVE IInv'
  <1>1. ASSUME NEW r \in Req, Handle(r) PROVE IInv'
    <2>1. CASE IterAuditEnd(r)
      BY <2>1, SlotFreed DEF IterAuditEnd
    <2>2. CASE Respond(r)
      <3>1. busy' = busy \ {r}
        BY <2>2 DEF Respond, IInv, TypeOK, At
      <3> QED BY <2>2, <3>1, SlotFreed DEF Respond
    <2> QED BY <1>1, <2>1, <2>2, GetConnectionKeeps, connForKeeps, RequireWriteKeeps, WorkKeeps,
               AdministerKeeps, ExportKeeps, AddAuditKeeps, RequireAdminKeeps, TurnedKeeps
            DEF Handle, StoreStep
  <1> QED BY <1>1, MiddlewareKeeps, AwayKeeps, CrashKeeps DEF Next

\* It depends on the variables of the specification only.
LEMMA Stutter == IInv /\ UNCHANGED vars => IInv'
  <1> SUFFICES ASSUME IInv, UNCHANGED vars PROVE IInv'
    OBVIOUS
  <1>1. UNCHANGED <<rows, grants, live, req, gone, busy, held, kept>>
    BY DEF vars
  <1>2. \A r \in Req : Sound(r)'
    <2> TAKE r \in Req
    <2>1. Sound(r) /\ \A x : Has(UserOf[r], req[r].conn, x)' <=> Has(UserOf[r], req[r].conn, x)
      BY <1>1 DEF IInv, Has, May
    <2> QED BY <1>1, <2>1 DEF Sound, Entitled, Caused, Accounted
  <1>3. TypeOK' /\ NoOrphanGrants'
    BY <1>1 DEF IInv, TypeOK, NoOrphanGrants, At
  <1> QED BY <1>1, <1>2, <1>3 DEF IInv

\* It holds in every reachable state.
LEMMA Inductive == Spec => []IInv
  <1>1. IInv /\ [Next]_vars => IInv'
    BY Keeps, Stutter
  <1> QED BY <1>1, Start, PTL DEF Spec

\* The policy, the requests' locals and the histories keep their types, and a
\* store connection is held exactly by the exports under way.
THEOREM TypeCorrect == Spec => []TypeOK
  BY Inductive, PTL DEF IInv

\* No grant outlives its connection, although apiSetGrant looks for the
\* connection in a query before the one that writes the grant.
THEOREM GrantsHaveConnections == Spec => []NoOrphanGrants
  BY Inductive, PTL DEF IInv

\* A refusal names a right that its user lacked at some instant of the
\* request, unless the client had gone.
THEOREM RefusalsHaveCause == Spec => []RefusedWithCause
  <1>1. IInv => RefusedWithCause
    BY DEF IInv, Sound, Caused, RefusedWithCause, At
  <1> QED BY <1>1, Inductive, PTL

\* What was written or administered is audited, but for a client that had
\* gone; a write is in the log even then.
THEOREM EffectsAreAudited == Spec => []UnauditedOnlyIfGone
  <1>1. IInv => UnauditedOnlyIfGone
    BY DEF IInv, Sound, Accounted, UnauditedOnlyIfGone, At
  <1> QED BY <1>1, Inductive, PTL

-----------------------------------------------------------------------------
(* The refinement of AccessPolicy, step by step.                           *)

\* The connection of a request that may yet act, as the policy sees it.
OpenOf(r) == IF req[r].pc \in Checking THEN {req[r].conn} ELSE {}

\* Nobody gains a right.
NoGain == \A u \in Users, c \in Conns : \A x : Has(u, c, x)' => Has(u, c, x)

\* What Observe does to the history is what the policy asks of its witness.
LEMMA ObserveWitnesses == ASSUME IInv', Observe PROVE Policy!Witness
  <1>1. ASSUME NEW r \in Req
        PROVE  /\ req'[r].conn \in Conns /\ UserOf[r] \in Users
               /\ RightsNow'[<<UserOf[r], req'[r].conn>>] = Rights(UserOf[r], req[r].conn)'
    <2>1. req'[r].conn \in Conns /\ UserOf[r] \in Users
      BY SlotsAssumption DEF IInv, TypeOK
    <2> QED BY <2>1 DEF RightsNow, Rights
  <1>2. \A r \in Req : (IF req'[r].pc \in Checking THEN held[r] \cup Rights(UserOf[r], req[r].conn)' ELSE {})
                        = (IF OpenOf(r)' = {} THEN {}
                           ELSE held[r] \cup UNION {RightsNow'[<<UserOf[r], c>>] : c \in OpenOf(r)'})
    BY <1>1 DEF OpenOf
  <1> QED BY <1>2 DEF Observe, Policy!Witness, OpenOf

\* A step by which nobody gains a right and requests at most end.
LEMMA Ceases ==
  ASSUME IInv, IInv', Observe, NoGain, NEW R \in SUBSET Req,
         \A r \in R : req'[r].pc \notin Checking /\ req'[r].act = "none",
         \A r \in Req \ R : OpenOf(r)' = OpenOf(r) /\ req'[r].act = req[r].act
  PROVE  Policy!Next
  <1>1. Policy!Witness
    BY ObserveWitnesses
  <1>2. /\ DOMAIN RightsNow' = DOMAIN RightsNow
        /\ \A k \in DOMAIN RightsNow : RightsNow'[k] \subseteq RightsNow[k]
    BY RightsAre, RightsAreNext DEF NoGain, RightsNow
  <1>3. [r \in Req |-> OpenOf(r)'] = [r \in Req |-> IF r \in R THEN {} ELSE [q \in Req |-> OpenOf(q)][r]]
    BY DEF OpenOf
  <1>4. [r \in Req |-> req'[r].act] = [r \in Req |-> IF r \in R THEN "none" ELSE [q \in Req |-> req[q].act][r]]
    OBVIOUS
  <1>5. Policy!Cease(R)
    BY <1>1, <1>2, <1>3, <1>4 DEF Policy!Cease, OpenOf
  <1> QED BY <1>5 DEF Policy!Next

\* A request acts with the rights its user has had.
LEMMA Acts ==
  ASSUME IInv, IInv', Observe, NEW r \in Req, NEW act \in Policy!Acts \ {"none"},
         req[r].pc \in Checking, req'[r].pc \notin Checking, req'[r].act = act,
         \A q \in Req \ {r} : req'[q] = req[q],
         Policy!Needs(act) \subseteq held[r],
         act # "administer" => PolicySame
  PROVE  Policy!Next
  <1>1. Policy!Witness
    BY ObserveWitnesses
  <1>2. act # "administer" => RightsNow' = RightsNow
    BY DEF RightsNow, Rights, PolicySame
  <1>3. [q \in Req |-> OpenOf(q)'] = [[q \in Req |-> OpenOf(q)] EXCEPT ![r] = {}]
    <2>1. \A q \in Req : OpenOf(q)' = IF q = r THEN {} ELSE OpenOf(q)
      BY DEF OpenOf
    <2> QED BY <2>1
  <1>4. [q \in Req |-> req'[q].act] = [[q \in Req |-> req[q].act] EXCEPT ![r] = act]
    <2>1. \A q \in Req : req'[q].act = IF q = r THEN act ELSE req[q].act
      OBVIOUS
    <2> QED BY <2>1
  <1>5. [q \in Req |-> OpenOf(q)][r] # {}
    BY DEF OpenOf
  <1>6. Policy!Act(r, act)
    BY <1>1, <1>2, <1>3, <1>4, <1>5 DEF Policy!Act, OpenOf
  <1> QED BY <1>6 DEF Policy!Next

\* A step that changes no right and one request at most.
LEMMA LocalCeases ==
  ASSUME IInv, IInv', Observe, PolicySame, NEW r \in Req,
         \A q \in Req \ {r} : req'[q] = req[q],
         \/ req'[r].pc \notin Checking /\ req'[r].act = "none"
         \/ OpenOf(r)' = OpenOf(r) /\ req'[r].act = req[r].act
  PROVE  Policy!Next
  <1>1. NoGain
    BY DEF NoGain, Has, May, PolicySame
  <1>2. \A q \in Req \ {r} : OpenOf(q)' = OpenOf(q) /\ req'[q].act = req[q].act
    BY DEF OpenOf
  <1>3. CASE req'[r].pc \notin Checking /\ req'[r].act = "none"
    <2>1. {r} \in SUBSET Req
      OBVIOUS
    <2> QED BY <1>1, <1>2, <1>3, <2>1, Ceases
  <1>4. CASE OpenOf(r)' = OpenOf(r) /\ req'[r].act = req[r].act
    <2>1. {} \in SUBSET Req
      OBVIOUS
    <2>2. \A q \in Req \ {} : OpenOf(q)' = OpenOf(q) /\ req'[q].act = req[q].act
      BY <1>2, <1>4
    <2> QED BY <1>1, <2>1, <2>2, Ceases
  <1> QED BY <1>3, <1>4

\* A request comes in.
LEMMA MiddlewareAsks == ASSUME IInv, IInv', NEW r \in Req, Middleware(r) PROVE Policy!Next
  <1>1. PICK op \in Sends[r], c \in Conns :
          req' = [req EXCEPT ![r] = [Idle EXCEPT !.pc = "gates", !.op = op, !.conn = c]]
    BY DEF Middleware
  <1>2. /\ UserOf[r] \in live /\ req[r].pc = "idle" /\ req[r].act = "none" /\ PolicySame /\ Observe
        /\ req \in [Req -> Locals] /\ UserOf[r] \in Users
    BY SlotsAssumption DEF Middleware, At, IInv, Sound, Accounted
  <1>3. /\ [Idle EXCEPT !.pc = "gates", !.op = op, !.conn = c].pc = "gates"
        /\ [Idle EXCEPT !.pc = "gates", !.op = op, !.conn = c].conn = c
        /\ [Idle EXCEPT !.pc = "gates", !.op = op, !.conn = c].act = "none"
    BY DEF Idle
  <1>4. /\ req'[r].pc = "gates" /\ req'[r].conn = c /\ req'[r].act = "none"
        /\ \A q \in Req \ {r} : req'[q] = req[q]
    BY <1>1, <1>2, <1>3
  <1>5. Policy!Witness
    BY <1>2, ObserveWitnesses
  <1>6. RightsNow' = RightsNow
    BY <1>2 DEF RightsNow, Rights, PolicySame
  <1>7. "session" \in RightsNow[<<UserOf[r], c>>]
    BY <1>2 DEF RightsNow, Rights
  <1>8. [q \in Req |-> OpenOf(q)'] = [[q \in Req |-> OpenOf(q)] EXCEPT ![r] = {c}]
    <2>1. \A q \in Req : OpenOf(q)' = IF q = r THEN {c} ELSE OpenOf(q)
      BY <1>4 DEF OpenOf, Checking
    <2> QED BY <2>1
  <1>9. [q \in Req |-> req'[q].act] = [q \in Req |-> req[q].act]
    BY <1>2, <1>4
  <1>10. [q \in Req |-> OpenOf(q)][r] = {} /\ [q \in Req |-> req[q].act][r] = "none"
    BY <1>2 DEF OpenOf, Checking
  <1>11. Policy!Ask(r)
    BY <1>5, <1>6, <1>7, <1>8, <1>9, <1>10 DEF Policy!Ask, OpenOf
  <1> QED BY <1>11 DEF Policy!Next

\* A refusal is the end of a request that has not acted.
LEMMA RefusalCeases ==
  ASSUME IInv, IInv', Observe, PolicySame, NEW r \in Req, NEW why, Refuse(r, why)
  PROVE  Policy!Next
  <1>1. req \in [Req -> Locals]
    BY DEF IInv
  <1>2. /\ [Idle EXCEPT !.pc = "refused", !.conn = req[r].conn, !.why = why].pc = "refused"
        /\ [Idle EXCEPT !.pc = "refused", !.conn = req[r].conn, !.why = why].act = "none"
    BY DEF Idle
  <1>3. /\ req'[r].pc \notin Checking /\ req'[r].act = "none"
        /\ \A q \in Req \ {r} : req'[q] = req[q]
    BY <1>1, <1>2 DEF Refuse, Checking
  <1> QED BY <1>3, LocalCeases

\* Passing a gate is no step of the policy but a look at it.
LEMMA AdvanceCeases ==
  ASSUME IInv, IInv', Observe, PolicySame, NEW r \in Req, NEW s, req' = [req EXCEPT ![r] = s],
         req[r].pc \in Checking, s.pc \in Checking, s.conn = req[r].conn, s.act = req[r].act
  PROVE  Policy!Next
  <1>1. req \in [Req -> Locals]
    BY DEF IInv
  <1>2. /\ req'[r] = s
        /\ \A q \in Req \ {r} : req'[q] = req[q]
    BY <1>1
  <1>3. OpenOf(r)' = OpenOf(r) /\ req'[r].act = req[r].act
    BY <1>2 DEF OpenOf
  <1> QED BY <1>2, <1>3, LocalCeases

\* The gates of a request.
LEMMA GatesRefine ==
  ASSUME IInv, IInv', NEW r \in Req,
         RequireAdmin(r) \/ GetConnection(r) \/ connFor(r) \/ RequireWrite(r) \/ Turned(r)
  PROVE  Policy!Next
  <1>1. PolicySame /\ Observe /\ req[r] \in Locals /\ req[r].pc \in Checking
    BY DEF RequireAdmin, GetConnection, connFor, RequireWrite, Turned, IInv, At, Checking
  <1>2. ASSUME NEW p \in Checking, Go(r, p) PROVE Policy!Next
    <2> DEFINE s == [req[r] EXCEPT !.pc = p]
    <2>1. s.pc = p /\ s.conn = req[r].conn /\ s.act = req[r].act
      BY <1>1 DEF Locals
    <2>2. req' = [req EXCEPT ![r] = s]
      BY <1>2 DEF Go
    <2> HIDE DEF s
    <2> QED BY <1>1, <2>1, <2>2, AdvanceCeases
  <1>3. ASSUME NEW p \in Checking, NEW f, req' = [req EXCEPT ![r].pc = p, ![r].ro = f] PROVE Policy!Next
    <2> DEFINE s == [req[r] EXCEPT !.pc = p, !.ro = f]
    <2>1. s.pc = p /\ s.conn = req[r].conn /\ s.act = req[r].act
      BY <1>1 DEF Locals
    <2>2. req' = [req EXCEPT ![r] = s]
      BY <1>3
    <2> HIDE DEF s
    <2> QED BY <1>1, <2>1, <2>2, AdvanceCeases
  <1>4. ASSUME NEW why, Refuse(r, why) PROVE Policy!Next
    BY <1>1, <1>4, RefusalCeases
  <1>5. CASE RequireAdmin(r)
    <2>1. (IF req[r].op.gate = "none" THEN "run" ELSE "row") \in Checking
      BY DEF Checking
    <2> QED BY <1>2, <1>4, <1>5, <2>1 DEF RequireAdmin
  <1>6. CASE GetConnection(r)
    <2>1. (IF req[r].op.gate = "exists" THEN "run" ELSE "read") \in Checking
      BY DEF Checking
    <2> QED BY <1>3, <1>4, <1>6, <2>1 DEF GetConnection
  <1>7. CASE connFor(r)
    <2>1. (IF req[r].op.gate = "read" THEN "run" ELSE "write") \in Checking
      BY DEF Checking
    <2> QED BY <1>2, <1>4, <1>7, <2>1 DEF connFor
  <1>8. CASE RequireWrite(r)
    <2>1. "run" \in Checking
      BY DEF Checking
    <2> QED BY <1>2, <1>3, <1>4, <1>8, <2>1 DEF RequireWrite
  <1>9. CASE Turned(r)
    BY <1>4, <1>9 DEF Turned
  <1> QED BY <1>5, <1>6, <1>7, <1>8, <1>9

\* The end of the work is the act, or an end without one.
LEMMA FinishRefines ==
  ASSUME IInv, IInv', Observe, NEW r \in Req, NEW act \in Policy!Acts, NEW err, Finish(r, act, err),
         req[r].pc \in Checking, Policy!Needs(act) \subseteq held[r],
         act # "administer" => PolicySame
  PROVE  Policy!Next
  <1> DEFINE audited == req[r].op.audit = "always" \/ (req[r].op.audit = "success" /\ ~err)
             p == IF audited THEN "audit" ELSE "done"
             s == [Idle EXCEPT !.conn = req[r].conn, !.act = act, !.pc = p]
  <1>1. req \in [Req -> Locals] /\ req' = [req EXCEPT ![r] = s]
    BY DEF IInv, Finish
  <1>2. p \in {"audit", "done"}
    OBVIOUS
  <1> HIDE DEF p
  <1>3. s.pc = p /\ s.act = act
    BY DEF Idle
  <1> HIDE DEF s
  <1>4. /\ req'[r].pc \notin Checking /\ req'[r].act = act
        /\ \A q \in Req \ {r} : req'[q] = req[q]
    BY <1>1, <1>2, <1>3 DEF Checking
  <1>5. CASE act = "none"
    BY <1>4, <1>5, LocalCeases
  <1>6. CASE act # "none"
    BY <1>4, <1>6, Acts
  <1> QED BY <1>5, <1>6

\* A statement, the listing, an administrative handler.
LEMMA WorkRefines ==
  ASSUME IInv, IInv', NEW r \in Req, Statement(r) \/ List(r) \/ Administer(r)
  PROVE  Policy!Next
  <1>1. Observe /\ req[r].pc \in Checking
    BY DEF Statement, List, Administer, At, Checking
  <1>2. CASE Statement(r) \/ List(r)
    <2>1. PolicySame
      BY <1>2 DEF Statement, List
    <2>2. \E act \in Policy!Acts, err \in BOOLEAN : Finish(r, act, err) /\ Policy!Needs(act) \subseteq held[r]
      BY <1>2, StatementDoes, ListDoes
    <2> QED BY <1>1, <2>1, <2>2, FinishRefines
  <1>3. CASE Administer(r)
    <2>1. PICK act \in Policy!Acts, err \in BOOLEAN :
            /\ Finish(r, act, err)
            /\ \/ act = "none" /\ UNCHANGED <<rows, grants>>
               \/ act = "administer" /\ {"session", "admin"} \subseteq held[r]
      BY <1>3, AdministerDoes
    <2>2. UNCHANGED live
      BY <1>3 DEF Administer
    <2>3. act # "administer" => PolicySame
      BY <2>1, <2>2 DEF PolicySame
    <2>4. Policy!Needs(act) \subseteq held[r]
      BY <2>1 DEF Policy!Needs
    <2> QED BY <1>1, <2>1, <2>3, <2>4, FinishRefines
  <1> QED BY <1>2, <1>3

\* The export acts when it begins; its end, the audit and the answer only
\* end requests.
LEMMA TailRefines ==
  ASSUME IInv, IInv', NEW r \in Req,
         apiAuditExportBegin(r) \/ IterAuditEnd(r) \/ AddAudit(r) \/ Respond(r)
  PROVE  Policy!Next
  <1>1. Observe /\ PolicySame /\ req \in [Req -> Locals]
    BY DEF apiAuditExportBegin, IterAuditEnd, AddAudit, Respond, IInv
  <1>2. CASE apiAuditExportBegin(r)
    <2>1. /\ req[r].pc = "run" /\ req[r].op \in Endpoints /\ req[r].op.does = "export" /\ Entitled(r)
      BY <1>2 DEF apiAuditExportBegin, At, IInv, TypeOK, Sound
    <2>2. req[r].op.admin
      BY <2>1, GatedEndpoints
    <2>3. {"session", "admin"} \subseteq held[r] /\ req[r].pc \in Checking
      BY <2>1, <2>2 DEF Entitled, Checking
    <2>4. CASE Finish(r, "none", TRUE)
      <3>1. "none" \in Policy!Acts /\ Policy!Needs("none") \subseteq held[r]
        BY DEF Policy!Acts, Policy!Needs
      <3> QED BY <1>1, <2>3, <2>4, <3>1, FinishRefines
    <2>5. CASE req' = [req EXCEPT ![r] = [Idle EXCEPT !.pc = "stream", !.conn = req[r].conn, !.act = "administer"]]
      <3>1. /\ [Idle EXCEPT !.pc = "stream", !.conn = req[r].conn, !.act = "administer"].pc = "stream"
            /\ [Idle EXCEPT !.pc = "stream", !.conn = req[r].conn, !.act = "administer"].act = "administer"
        BY DEF Idle
      <3>2. /\ req'[r].pc \notin Checking /\ req'[r].act = "administer"
            /\ \A q \in Req \ {r} : req'[q] = req[q]
        BY <1>1, <2>5, <3>1 DEF Checking
      <3>3. "administer" \in Policy!Acts \ {"none"} /\ Policy!Needs("administer") \subseteq held[r]
        BY <2>3 DEF Policy!Acts, Policy!Needs
      <3> QED BY <1>1, <2>3, <3>2, <3>3, Acts
    <2> QED BY <1>2, <2>4, <2>5 DEF apiAuditExportBegin
  <1>3. CASE IterAuditEnd(r) \/ Respond(r)
    <2>1. Idle.pc = "idle" /\ Idle.act = "none" /\ req' = [req EXCEPT ![r] = Idle]
      BY <1>3 DEF Idle, IterAuditEnd, Respond
    <2>2. /\ req'[r].pc \notin Checking /\ req'[r].act = "none"
          /\ \A q \in Req \ {r} : req'[q] = req[q]
      BY <1>1, <2>1 DEF Checking
    <2> QED BY <1>1, <2>2, LocalCeases
  <1>4. CASE AddAudit(r)
    <2> DEFINE s == [req[r] EXCEPT !.pc = "done", !.trail = {"log"} \cup (IF r \in gone THEN {} ELSE {"row"})]
    <2>1. s.pc = "done" /\ s.act = req[r].act
      BY <1>1 DEF Locals
    <2>2. req' = [req EXCEPT ![r] = s] /\ req[r].pc = "audit"
      BY <1>4 DEF AddAudit, At
    <2> HIDE DEF s
    <2>3. req'[r] = s /\ \A q \in Req \ {r} : req'[q] = req[q]
      BY <1>1, <2>2
    <2>4. OpenOf(r)' = OpenOf(r) /\ req'[r].act = req[r].act
      BY <2>1, <2>2, <2>3 DEF OpenOf, Checking
    <2> QED BY <1>1, <2>3, <2>4, LocalCeases
  <1> QED BY <1>2, <1>3, <1>4

\* Clients that go away are no step of the policy; sessions that end and
\* crashes take rights and requests away.
LEMMA AwayRefines ==
  ASSUME IInv, IInv', (\E r \in Req : Disconnect(r)) \/ (\E u \in Users : Logout(u)) \/ Crash
  PROVE  Policy!Next \/ UNCHANGED Policy!vars
  <1>1. CASE \E r \in Req : Disconnect(r)
    <2>1. UNCHANGED <<rows, grants, live, req, held>>
      BY <1>1 DEF Disconnect
    <2>2. RightsNow' = RightsNow
      BY <2>1 DEF RightsNow, Rights
    <2> QED BY <2>1, <2>2 DEF Policy!vars
  <1>2. CASE \E u \in Users : Logout(u)
    <2>1. live' \subseteq live /\ UNCHANGED <<rows, grants, req>> /\ Observe
      BY <1>2 DEF Logout
    <2>2. NoGain
      BY <2>1 DEF NoGain, Has, May
    <2>3. \A q \in Req \ {} : OpenOf(q)' = OpenOf(q) /\ req'[q].act = req[q].act
      BY <2>1 DEF OpenOf
    <2>4. {} \in SUBSET Req
      OBVIOUS
    <2> QED BY <2>1, <2>2, <2>3, <2>4, Ceases
  <1>3. CASE Crash
    <2>1. live' \subseteq live /\ req' = [r \in Req |-> Idle] /\ UNCHANGED <<rows, grants>> /\ Observe
      BY <1>3 DEF Crash
    <2>2. NoGain
      BY <2>1 DEF NoGain, Has, May
    <2>3. Idle.pc = "idle" /\ Idle.act = "none"
      BY DEF Idle
    <2>4. \A q \in Req : req'[q].pc \notin Checking /\ req'[q].act = "none"
      BY <2>1, <2>3 DEF Checking
    <2>5. Req \in SUBSET Req /\ \A q \in Req \ Req : OpenOf(q)' = OpenOf(q) /\ req'[q].act = req[q].act
      OBVIOUS
    <2> QED BY <2>1, <2>2, <2>4, <2>5, Ceases
  <1> QED BY <1>1, <1>2, <1>3

\* The handlers implement the policy: every behaviour of the API, with its
\* look-ups in separate queries, is one in which requests act only within
\* the rights their users had while the request was under way.
THEOREM PolicyImplemented == Spec => ImplementsPolicy
  <1>1. Init => Policy!Init
    <2> SUFFICES ASSUME Init PROVE Policy!Init
      OBVIOUS
    <2>1. RightsNow \in [Users \X Conns -> SUBSET Policy!Rights]
      BY DEF RightsNow, Rights, Policy!Rights
    <2>2. Idle.pc = "idle" /\ Idle.act = "none"
      BY DEF Idle
    <2>3. \A r \in Req : req[r] = Idle
      BY DEF Init
    <2> QED BY <2>1, <2>2, <2>3 DEF Init, Policy!Init, Checking
  <1>2. ASSUME IInv, IInv', [Next]_vars PROVE [Policy!Next]_Policy!vars
    <2>1. CASE Next
      BY <1>2, <2>1, MiddlewareAsks, GatesRefine, WorkRefines, TailRefines, AwayRefines DEF Next, Handle, StoreStep
    <2>2. CASE UNCHANGED vars
      <3>1. UNCHANGED <<rows, grants, live, req, held>>
        BY <2>2 DEF vars
      <3>2. RightsNow' = RightsNow
        BY <3>1 DEF RightsNow, Rights
      <3> QED BY <3>1, <3>2 DEF Policy!vars
    <2> QED BY <1>2, <2>1, <2>2
  <1> QED BY <1>1, <1>2, Inductive, PTL DEF Spec, Policy!Spec, ImplementsPolicy
=============================================================================
