------------------------------- MODULE Access -------------------------------
(***************************************************************************)
(* The gates of the JSON API: a request of a logged-in user passes the     *)
(* middleware, the CSRF check, the load of the connection, one or two      *)
(* look-ups of the user's grants and the guards of its handler; then it    *)
(* runs and is audited.  Every look-up is a query of its own, so grants,   *)
(* the read-only flag and the connection itself may change between two of  *)
(* them.  The client may go away at any time, which cancels the context    *)
(* every later store call and statement uses, and the process may crash.   *)
(***************************************************************************)
EXTENDS Naturals, FiniteSets

CONSTANTS Req,       \* slots for requests, reused
          Users, Conns, Subjects,
          UserOf,    \* the user whose browser sends the requests of a slot
          Sends,     \* the endpoints those requests are for
          Caps,      \* the capabilities in each user's session
          Member,    \* the subjects (roles and groups) in each user's session
          Scoped,    \* DBM_SCOPED_ACCESS
          StoreConns \* connections of the metadata store: 1 for SQLite

ASSUME ConnsAssumption == Conns # {}
ASSUME SlotsAssumption == UserOf \in [Req -> Users]
ASSUME CapsAssumption == /\ Caps \in [Users -> SUBSET {"read", "write", "admin"}]
                         /\ \A u \in Users : /\ "admin" \in Caps[u] => "write" \in Caps[u]
                                             /\ "write" \in Caps[u] => "read" \in Caps[u]
ASSUME MemberAssumption == Member \in [Users -> SUBSET Subjects]
ASSUME ScopedAssumption == Scoped \in BOOLEAN
ASSUME StoreAssumption == StoreConns \in Nat \ {0}

-----------------------------------------------------------------------------
(* The handlers.  An endpoint is what its handler checks and does:         *)
(*   csrf    the CSRF token is checked first                               *)
(*   admin   the admin capability is required before the connection is     *)
(*           loaded                                                        *)
(*   gate    what is looked up: nothing, the row alone ("exists"), read    *)
(*           access, read access and then write access with or without     *)
(*           the read-only flag ("write", "prefill"), or both to choose    *)
(*           the mode of a console                                         *)
(*   screen  statements that reach the server's host, or server-side       *)
(*           JavaScript, are refused to all but admins                     *)
(*   confirm whether a destructive statement must be confirmed ("sql"),    *)
(*           confirmed by an admin ("command"), or come from an admin      *)
(*           ("form", for the form that creates a role)                    *)
(*   does    the effect                                                    *)
(*   audit   an audit event always, only on success, or never              *)
Endpoint(csrf, admin, gate, screen, confirm, does, audit) ==
  [csrf |-> csrf, admin |-> admin, gate |-> gate, screen |-> screen,
   confirm |-> confirm, does |-> does, audit |-> audit]

Introspection == Endpoint(FALSE, FALSE, "read", FALSE, "no", "read", "never")
apiExplorer == Introspection
apiColumns == Introspection
apiIndexes == Introspection
apiKeys == Introspection
apiGenerate == Introspection
apiDoc == Introspection
apiUsages == Introspection
apiRedisKeys == Introspection
apiRedisValue == Introspection
apiMongoIndexes == Introspection
apiMongoDocs == Endpoint(FALSE, FALSE, "read", TRUE, "no", "read", "never")
apiGrid == Endpoint(FALSE, FALSE, "read", TRUE, "no", "read", "always")
exportTable == Endpoint(TRUE, FALSE, "read", TRUE, "no", "read", "success")
apiRoles == Endpoint(FALSE, TRUE, "read", FALSE, "no", "read", "never")
apiGetConnection == Endpoint(FALSE, TRUE, "read", FALSE, "no", "read", "never")
apiDDLFormPrefill == Endpoint(FALSE, FALSE, "prefill", FALSE, "no", "read", "never")
apiListConnections == Endpoint(FALSE, FALSE, "none", FALSE, "no", "list", "never")

apiQuery == Endpoint(TRUE, FALSE, "console", TRUE, "sql", "mode", "always")
CommandConsole == Endpoint(TRUE, FALSE, "console", FALSE, "command", "mode", "always")
apiRedisCmd == CommandConsole
apiMongoCmd == CommandConsole

WriteEndpoint == Endpoint(TRUE, FALSE, "write", FALSE, "no", "write", "always")
apiExecTx == Endpoint(TRUE, FALSE, "write", TRUE, "sql", "write", "always")
apiRunForm == Endpoint(TRUE, FALSE, "write", FALSE, "form", "write", "always")
apiApplyTable == WriteEndpoint
apiAlterSchema == WriteEndpoint
apiDDLMutate == Endpoint(TRUE, TRUE, "write", FALSE, "no", "write", "always")
apiDropTable == apiDDLMutate
apiTruncate == apiDDLMutate
apiDropColumn == apiDDLMutate
apiDropIndex == apiDDLMutate
apiDropSchema == apiDDLMutate
apiDropRole == apiDDLMutate
apiAlterRole == apiDDLMutate

apiListGrants == Endpoint(FALSE, TRUE, "none", FALSE, "no", "consult", "never")
apiAudit == Endpoint(FALSE, TRUE, "none", FALSE, "no", "consult", "never")
apiAuditExport == Endpoint(FALSE, TRUE, "none", FALSE, "no", "export", "never")
apiTestConnection == Endpoint(TRUE, TRUE, "none", FALSE, "no", "consult", "never")
apiSetGrant == Endpoint(TRUE, TRUE, "exists", FALSE, "no", "setGrant", "success")
apiDeleteGrant == Endpoint(TRUE, TRUE, "none", FALSE, "no", "deleteGrant", "success")
apiUpdateConnection == Endpoint(TRUE, TRUE, "read", FALSE, "no", "setRow", "success")
apiDeleteConnection == Endpoint(TRUE, TRUE, "none", FALSE, "no", "deleteRow", "success")

Endpoints ==
  {apiExplorer, apiColumns, apiIndexes, apiKeys, apiGenerate, apiDoc, apiUsages,
   apiRedisKeys, apiRedisValue, apiMongoIndexes, apiMongoDocs, apiGrid, exportTable,
   apiRoles, apiGetConnection, apiDDLFormPrefill, apiListConnections,
   apiQuery, apiRedisCmd, apiMongoCmd, apiExecTx, apiRunForm, apiApplyTable,
   apiAlterSchema, apiDropTable, apiTruncate, apiDropColumn, apiDropIndex,
   apiDropSchema, apiDropRole, apiAlterRole, apiListGrants, apiAudit,
   apiAuditExport, apiTestConnection, apiSetGrant, apiDeleteGrant,
   apiUpdateConnection, apiDeleteConnection}

ASSUME SendsAssumption == Sends \in [Req -> SUBSET Endpoints]

-----------------------------------------------------------------------------
VARIABLES rows,   \* connections: open for writes, read-only, or not there
          grants, \* connection_grants: the level of a subject on a connection
          live,   \* the users whose session is valid
          req,    \* the locals of the request in every slot
          gone,   \* the requests whose context is cancelled
          busy,   \* the requests holding a store connection across a stream
          held,   \* the rights the user has had since the request began
          kept    \* the rights the user has had at every instant since

vars == <<rows, grants, live, req, gone, busy, held, kept>>
-----------------------------------------------------------------------------
(* The policy.                                                             *)
IsAdmin(u) == "admin" \in Caps[u]
Levels == {"none", "read", "write"}

(* GrantForSubjects: the highest grant any of the user's subjects has.     *)
GrantForSubjects(u, c) ==
  LET ls == {grants[<<c, s>>] : s \in Member[u]}
  IN  IF "write" \in ls THEN "write" ELSE IF "read" \in ls THEN "read" ELSE "none"

(* Bugs planted for the properties to catch stand before the definition    *)
(* they replace: in this one a grant to write lets its holder only read.   *)
ResolveConnAccessRead(u, grant) ==
  IF ~Scoped \/ IsAdmin(u) THEN Caps[u] \cap {"read", "write"}
  ELSE IF grant = "none" THEN {} ELSE Caps[u] \cap {"read"}

ResolveConnAccess(u, grant) ==
  IF ~Scoped \/ IsAdmin(u) THEN Caps[u] \cap {"read", "write"}
  ELSE CASE grant = "none" -> {}
         [] grant = "read" -> Caps[u] \cap {"read"}
         [] grant = "write" -> Caps[u] \cap {"read", "write"}

(* What a user may do on a connection now, by the policy docs/security.md  *)
(* states and not by the code that computes it.                            *)
Rights(u, c) ==
  LET if(p, x) == IF p THEN {x} ELSE {}
      may(cap, levels) ==
        if(cap \in Caps[u] /\ (~Scoped \/ IsAdmin(u) \/ \E s \in Member[u] : grants[<<c, s>>] \in levels), cap)
  IN  if(u \in live, "session") \cup if(u \in live /\ IsAdmin(u), "admin")
      \cup if(rows[c] # "none", "row") \cup if(rows[c] = "rw", "open")
      \cup may("read", {"read", "write"}) \cup may("write", {"write"})
RightsNow == [k \in Users \X Conns |-> Rights(k[1], k[2])]

(* The phases of a request before it has acted or been refused.            *)
Checking == {"gates", "row", "read", "write", "run"}

Policy == INSTANCE AccessPolicy WITH
            rights <- RightsNow,
            open <- [r \in Req |-> IF req[r].pc \in Checking THEN {req[r].conn} ELSE {}],
            acted <- [r \in Req |-> req[r].act]

(* The histories: what every request under way sees of the policy.         *)
Observe ==
  LET now(r) == Rights(UserOf[r], req[r].conn)'
  IN  /\ held' = [r \in Req |-> IF req'[r].pc \in Checking THEN held[r] \cup now(r) ELSE {}]
      /\ kept' = [r \in Req |-> IF req'[r].pc \in Checking \cup {"refused"}
                                THEN kept[r] \cap now(r) ELSE Policy!Rights]

-----------------------------------------------------------------------------
Idle == [pc |-> "idle", op |-> Introspection, conn |-> CHOOSE c \in Conns : TRUE,
         ro |-> FALSE, act |-> "none", why |-> "", trail |-> {}]

Init == /\ rows \in [Conns -> {"rw", "ro"}]
        /\ grants \in [Conns \X Subjects -> Levels]
        /\ live = Users
        /\ req = [r \in Req |-> Idle]
        /\ gone = {}
        /\ busy = {}
        /\ held = [r \in Req |-> {}]
        /\ kept = [r \in Req |-> Policy!Rights]

At(r, pc) == req[r].pc = pc
Go(r, pc) == req' = [req EXCEPT ![r].pc = pc]
Refuse(r, why) == req' = [req EXCEPT ![r] = [Idle EXCEPT !.pc = "refused", !.conn = req[r].conn, !.why = why]]

(* A store call waits for a connection; a cancelled context ends the wait. *)
StoreReady(r) == r \in gone \/ Cardinality(busy) < StoreConns
PolicySame == UNCHANGED <<rows, grants, live>>

(* Middleware: a valid session with read access; its user is a local.      *)
Middleware(r) ==
  /\ At(r, "idle")
  /\ UserOf[r] \in live
  /\ "read" \in Caps[UserOf[r]]
  /\ \E op \in Sends[r], c \in Conns :
        req' = [req EXCEPT ![r] = [Idle EXCEPT !.pc = "gates", !.op = op, !.conn = c]]
  /\ PolicySame /\ UNCHANGED <<gone, busy>>
  /\ Observe

(* The CSRF check looks the session up again; then the admin capability of *)
(* the user the middleware found.                                          *)
RequireAdmin(r) ==
  LET op == req[r].op
  IN  /\ At(r, "gates")
      /\ \/ /\ op.csrf
            /\ Refuse(r, "csrf")
         \/ /\ op.csrf => UserOf[r] \in live
            /\ op.admin /\ ~IsAdmin(UserOf[r])
            /\ Refuse(r, "admin")
         \/ /\ op.csrf => UserOf[r] \in live
            /\ op.admin => IsAdmin(UserOf[r])
            /\ Go(r, IF op.gate = "none" THEN "run" ELSE "row")
      /\ PolicySame /\ UNCHANGED <<gone, busy>>
      /\ Observe

GetConnection(r) ==
  LET c == req[r].conn
  IN  /\ At(r, "row")
      /\ StoreReady(r)
      /\ IF r \in gone \/ rows[c] = "none" THEN Refuse(r, "row")
         ELSE req' = [req EXCEPT ![r].pc = IF req[r].op.gate = "exists" THEN "run" ELSE "read",
                                 ![r].ro = (req[r].op.gate # "exists" /\ rows[c] = "ro")]
      /\ PolicySame /\ UNCHANGED <<gone, busy>>
      /\ Observe

(* access: a failed look-up of the grants counts as no grant.              *)
access(r) ==
  LET u == UserOf[r]
  IN  ResolveConnAccess(u, IF r \in gone THEN "none" ELSE GrantForSubjects(u, req[r].conn))

connFor(r) ==
  /\ At(r, "read")
  /\ StoreReady(r)
  /\ IF "read" \notin access(r) THEN Refuse(r, "read")
     ELSE Go(r, IF req[r].op.gate = "read" THEN "run" ELSE "write")
  /\ PolicySame /\ UNCHANGED <<gone, busy>>
  /\ Observe

(* A planted bug: the read-only flag is not looked at.                     *)
RequireWriteOnly(r) ==
  /\ At(r, "write")
  /\ StoreReady(r)
  /\ IF "write" \in access(r) THEN Go(r, "run") ELSE Refuse(r, "write")
  /\ PolicySame /\ UNCHANGED <<gone, busy>>
  /\ Observe

(* The second look-up: apiRequireWrite refuses, a console turns read-only. *)
RequireWrite(r) ==
  LET write == "write" \in access(r)
      gate == req[r].op.gate
  IN  /\ At(r, "write")
      /\ StoreReady(r)
      /\ CASE gate = "console" -> req' = [req EXCEPT ![r].pc = "run", ![r].ro = @ \/ ~write]
           [] gate # "console" /\ ~write -> Refuse(r, "write")
           [] gate = "write" /\ write /\ req[r].ro -> Refuse(r, "open")
           [] OTHER -> Go(r, "run")
      /\ PolicySame /\ UNCHANGED <<gone, busy>>
      /\ Observe

-----------------------------------------------------------------------------
(* The guards on what the request carries: host is a statement that        *)
(* reaches the server's host, stmt its class by the allow-lists and        *)
(* NeedsConfirm.                                                           *)
Statements == {"read", "write", "destructive"}
Admitted(r, stmt, host, confirmed) ==
  LET op == req[r].op
  IN  /\ op.screen /\ host => IsAdmin(UserOf[r])
      /\ stmt = "destructive" =>
           /\ op.confirm = "sql" /\ ~req[r].ro => confirmed
           /\ op.confirm = "command" => IsAdmin(UserOf[r]) /\ confirmed
           /\ op.confirm = "form" => IsAdmin(UserOf[r])
      /\ op.confirm = "command" /\ req[r].ro => stmt = "read"

(* The classes of statement the request may carry past those guards.       *)
Passing(r) == {s \in Statements : \E host, confirmed \in BOOLEAN : Admitted(r, s, host, confirmed)}

(* A planted bug: nothing that failed is audited.                          *)
FinishIfDone(r, act, err) ==
  req' = [req EXCEPT ![r] = [Idle EXCEPT !.conn = req[r].conn, !.act = act,
                                         !.pc = IF err \/ req[r].op.audit = "never"
                                                THEN "done" ELSE "audit"]]

(* After the work: the audit call, or straight to the response.            *)
Finish(r, act, err) ==
  LET audited == req[r].op.audit = "always" \/ (req[r].op.audit = "success" /\ ~err)
  IN  req' = [req EXCEPT ![r] = [Idle EXCEPT !.conn = req[r].conn, !.act = act,
                                             !.pc = IF audited THEN "audit" ELSE "done"]]

(* Bad input, a guard on the statement, or no connection to the engine.    *)
Turned(r) == /\ At(r, "run")
             /\ Refuse(r, "input")
             /\ PolicySame /\ UNCHANGED <<gone, busy>>
             /\ Observe

(* A statement or command on the target.  A read-only session denies a     *)
(* write (EngineSessions names the console strings it does not stop).  The *)
(* handler gets an error when the statement fails or its context is        *)
(* cancelled, and a write may have been applied all the same.              *)
Statement(r) ==
  LET op == req[r].op
  IN  /\ At(r, "run")
      /\ op.does \in {"read", "mode", "write"}
      /\ \E stmt \in Passing(r), err \in BOOLEAN :
           LET writes == op.does = "write" \/ (op.does = "mode" /\ stmt # "read" /\ ~req[r].ro)
               denied == op.does = "mode" /\ stmt # "read" /\ req[r].ro
               effect == IF writes THEN "write" ELSE "read"
           IN  /\ r \in gone \/ denied => err
               /\ \E act \in IF denied THEN {"none"} ELSE IF err THEN {"none", effect} ELSE {effect} :
                     Finish(r, act, err)
      /\ PolicySame /\ UNCHANGED <<gone, busy>>
      /\ Observe

(* The listing is one query over the grants the user has then.             *)
List(r) ==
  LET u == UserOf[r]
      c == req[r].conn
      listed == rows[c] # "none" /\ (~Scoped \/ IsAdmin(u) \/ GrantForSubjects(u, c) # "none")
  IN  /\ At(r, "run")
      /\ req[r].op.does = "list"
      /\ StoreReady(r)
      /\ Finish(r, IF listed /\ r \notin gone THEN "read" ELSE "none", r \in gone)
      /\ PolicySame /\ UNCHANGED <<gone, busy>>
      /\ Observe

(* A planted bug: the look-up of an earlier query is trusted.              *)
SetGrantAnyway(r) ==
  /\ req[r].op.does = "setGrant"
  /\ \E s \in Subjects, l \in Levels \ {"none"} : grants' = [grants EXCEPT ![<<req[r].conn, s>>] = l]
  /\ Finish(r, "administer", r \in gone)
  /\ UNCHANGED rows

(* What the administrative handlers write, and what the store keeps of it: *)
(* a grant needs its connection (foreign key) and goes with it (cascade).  *)
SetGrant(r) ==
  /\ req[r].op.does = "setGrant"
  /\ \E s \in Subjects, l \in Levels \ {"none"} :
        grants' = [grants EXCEPT ![<<req[r].conn, s>>] = IF rows[req[r].conn] = "none" THEN @ ELSE l]
  /\ IF rows[req[r].conn] = "none" THEN Finish(r, "none", TRUE) ELSE Finish(r, "administer", r \in gone)
  /\ UNCHANGED rows

DeleteGrant(r) ==
  /\ req[r].op.does = "deleteGrant"
  /\ \E s \in Subjects : grants' = [grants EXCEPT ![<<req[r].conn, s>>] = "none"]
  /\ Finish(r, "administer", r \in gone)
  /\ UNCHANGED rows

UpdateConnection(r) ==
  /\ req[r].op.does = "setRow"
  /\ \E v \in {"rw", "ro"} :
        rows' = [rows EXCEPT ![req[r].conn] = IF @ = "none" THEN @ ELSE v]
  /\ Finish(r, "administer", r \in gone)
  /\ UNCHANGED grants

DeleteConnection(r) ==
  /\ req[r].op.does = "deleteRow"
  /\ rows' = [rows EXCEPT ![req[r].conn] = "none"]
  /\ grants' = [k \in DOMAIN grants |-> IF k[1] = req[r].conn THEN "none" ELSE grants[k]]
  /\ Finish(r, "administer", r \in gone)

Administer(r) ==
  /\ At(r, "run")
  /\ StoreReady(r)
  /\ \/ SetGrant(r) \/ DeleteGrant(r) \/ UpdateConnection(r) \/ DeleteConnection(r)
     \/ /\ \/ req[r].op.does = "consult"
           \/ req[r].op.does \in {"setGrant", "deleteGrant", "setRow", "deleteRow"} /\ r \in gone
        /\ Finish(r, "none", r \in gone)
        /\ UNCHANGED <<rows, grants>>
  /\ UNCHANGED <<live, gone, busy>>
  /\ Observe

(* IterAudit keeps its store connection until the client has read it all   *)
(* or has gone.                                                            *)
apiAuditExportBegin(r) ==
  /\ At(r, "run")
  /\ req[r].op.does = "export"
  /\ StoreReady(r)
  /\ IF r \in gone THEN /\ Finish(r, "none", TRUE)
                       /\ UNCHANGED busy
     ELSE /\ req' = [req EXCEPT ![r] = [Idle EXCEPT !.pc = "stream", !.conn = req[r].conn,
                                                    !.act = "administer"]]
          /\ busy' = busy \cup {r}
  /\ PolicySame /\ UNCHANGED gone
  /\ Observe

(* A planted bug: the rows are not closed when the client has gone.        *)
IterAuditEndOpen(r) ==
  /\ At(r, "stream")
  /\ req' = [req EXCEPT ![r] = Idle]
  /\ busy' = IF r \in gone THEN busy ELSE busy \ {r}
  /\ gone' = gone \ {r}
  /\ PolicySame
  /\ Observe

IterAuditEnd(r) ==
  /\ At(r, "stream")
  /\ req' = [req EXCEPT ![r] = Idle]
  /\ busy' = busy \ {r}
  /\ gone' = gone \ {r}
  /\ PolicySame
  /\ Observe

(* The insert's error is ignored; the sink is called in any case.          *)
AddAudit(r) ==
  /\ At(r, "audit")
  /\ StoreReady(r)
  /\ req' = [req EXCEPT ![r].pc = "done",
                         ![r].trail = {"log"} \cup (IF r \in gone THEN {} ELSE {"row"})]
  /\ PolicySame /\ UNCHANGED <<gone, busy>>
  /\ Observe

Respond(r) ==
  /\ req[r].pc \in {"done", "refused"}
  /\ req' = [req EXCEPT ![r] = Idle]
  /\ gone' = gone \ {r}
  /\ PolicySame /\ UNCHANGED busy
  /\ Observe

-----------------------------------------------------------------------------
(* The client closes its connection: net/http cancels the context.         *)
Disconnect(r) ==
  /\ req[r].pc \notin {"idle", "done", "refused"}
  /\ r \notin gone
  /\ gone' = gone \cup {r}
  /\ UNCHANGED <<rows, grants, live, req, busy, held, kept>>

Logout(u) ==
  /\ u \in live
  /\ live' = live \ {u}
  /\ UNCHANGED <<rows, grants, req, gone, busy>>
  /\ Observe

(* The process dies: requests are cut off, and sessions in memory lost.    *)
Crash ==
  /\ \E L \in {live, {}} : live' = L
  /\ req' = [r \in Req |-> Idle]
  /\ gone' = {}
  /\ busy' = {}
  /\ UNCHANGED <<rows, grants>>
  /\ Observe

StoreStep(r) == \/ GetConnection(r) \/ connFor(r) \/ RequireWrite(r) \/ List(r)
                \/ Administer(r) \/ apiAuditExportBegin(r) \/ AddAudit(r)
Handle(r) == StoreStep(r) \/ RequireAdmin(r) \/ Turned(r) \/ Statement(r) \/ IterAuditEnd(r) \/ Respond(r)

Next == \/ \E r \in Req : Middleware(r) \/ Handle(r) \/ Disconnect(r)
        \/ \E u \in Users : Logout(u)
        \/ Crash

(* A handler that can go on does.  A store connection that comes free goes *)
(* to the request that has waited longest (database/sql), hence strong     *)
(* fairness.  The client of an export reads on or goes away.               *)
Fairness == \A r \in Req : WF_vars(Handle(r)) /\ SF_vars(StoreStep(r))

Spec == Init /\ [][Next]_vars
FairSpec == Spec /\ Fairness

-----------------------------------------------------------------------------
Phases == Checking \cup {"idle", "stream", "audit", "done", "refused"}

(* The types of the policy, the requests' locals and the histories.        *)
TypeOK ==
  /\ rows \in [Conns -> {"rw", "ro", "none"}]
  /\ grants \in [Conns \X Subjects -> Levels]
  /\ live \subseteq Users
  /\ \A r \in Req : /\ req[r].pc \in Phases
                     /\ req[r].op \in Endpoints
                     /\ req[r].conn \in Conns
                     /\ req[r].act \in Policy!Acts
                     /\ req[r].trail \subseteq {"row", "log"}
  /\ gone \subseteq Req
  /\ busy = {r \in Req : At(r, "stream")}
  /\ held \in [Req -> SUBSET Policy!Rights]
  /\ kept \in [Req -> SUBSET Policy!Rights]

(* The handlers implement the policy: whatever the interleaving of their   *)
(* look-ups with grants, edits, deletes, logouts and crashes, a request    *)
(* reads, writes or administers only what its user was entitled to at      *)
(* instants of that very request, and rights grow only by an               *)
(* administrator's act.                                                    *)
ImplementsPolicy == Policy!Spec

(* The other direction: no request is turned away for want of a right its  *)
(* user had at every instant of the request, unless the client had gone    *)
(* and the look-up failed for that reason.                                 *)
RefusedWithCause ==
  \A r \in Req : At(r, "refused") /\ r \notin gone => req[r].why \notin kept[r]

(* A grant never outlives its connection, although the handler that sets   *)
(* it looked for the connection in an earlier query.                       *)
NoOrphanGrants ==
  \A c \in Conns, s \in Subjects : rows[c] = "none" => grants[<<c, s>>] = "none"

(* A finished request that wrote, or changed the policy, has left a row    *)
(* in the audit table, or its client had gone; a write is in the log even  *)
(* then.                                                                   *)
UnauditedOnlyIfGone ==
  \A r \in Req :
    At(r, "done") /\ req[r].act \in {"write", "administer"}
      => /\ "row" \in req[r].trail \/ r \in gone
         /\ "log" \in req[r].trail \/ (r \in gone /\ req[r].act = "administer")

(* Every request comes to an end, also while an export streams from the    *)
(* only store connection.                                                  *)
EveryRequestEnds == \A r \in Req : ~At(r, "idle") ~> At(r, "idle")
=============================================================================
