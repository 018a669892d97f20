------------------------ MODULE PoolRegistry_proofs ------------------------
(***************************************************************************)
(* Proofs that the pool registry keeps its safety invariants for any       *)
(* number of replicas, requests, connections, families and pools.          *)
(***************************************************************************)
EXTENDS PoolRegistry, TLAPS

-----------------------------------------------------------------------------
(* The inductive invariant, one idea per conjunct.                         *)

Dialling == {"ping", "insert"}
Serving == {"got", "using"}

\* A request carries what its phase needs.
Carries ==
    \A r \in Requests :
        /\ pc[r] \in InFlight \cup Serving \cup {"write"} => prof[r] \in Profiles
        /\ pc[r] \in {"forget", "closing"} => target[r] \in Ids
        /\ pc[r] \in Dialling \cup Serving => held[r] \in Pools
        /\ pc[r] \notin Dialling \cup Serving => held[r] = None

\* Whatever was saved, read or dialled belongs to an id that was handed out.
Born ==
    /\ \A i \in Ids : row[i] # None => i \in born /\ row[i].id = i
    /\ \A r \in Requests : prof[r] # None => prof[r].id \in born
    /\ \A p \in Pools : of[p] # None => of[p].id \in born

\* A pool being dialled belongs to its dialler alone.
Private ==
    \A r \in Requests : pc[r] \in Dialling =>
        /\ \A s \in Slots : cache[s] # held[r]
        /\ \A q \in Requests : q # r => held[q] # held[r]
        /\ of[held[r]] = prof[r]
        /\ status[held[r]] = IF pc[r] = "ping" THEN "dialled" ELSE "open"

\* An entry is keyed by what its pool was dialled from, and by nothing else.
Keyed ==
    /\ \A s \in Slots : cache[s] # None =>
         /\ of[cache[s]] # None
         /\ of[cache[s]].fam = s[2]
         /\ of[cache[s]].id = s[3]
    /\ \A s, t \in Slots : cache[s] # None /\ cache[s] = cache[t] => s = t

\* mu and the phase "closing" agree.
Locked ==
    /\ \A r \in Requests : pc[r] = "closing" => mu[Home[r]] = r
    /\ \A x \in Replicas : mu[x] \in Requests => pc[mu[x]] = "closing" /\ Home[mu[x]] = x

\* What the owner of mu has to close is there to be closed.
ToClose ==
    /\ \A s \in idle : cache[s] # None
    /\ \A x \in Replicas : mu[x] = None => todo[x] = {}
    /\ \A x \in Replicas : \A s \in todo[x] : s[1] = x /\ cache[s] # None

\* An entry's pool is open unless the owner of mu is closing that entry.
Servable ==
    \A s \in Slots : cache[s] # None =>
        \/ status[cache[s]] = "open"
        \/ status[cache[s]] = "closed" /\ s \in todo[s[1]]

\* A request that is about to store a superseded profile's pool is known to have
\* been overtaken, or the Forget is still waiting for mu.
LateDials ==
    \A r \in Requests : pc[r] \in InFlight /\ prof[r] # row[prof[r].id] =>
        \/ r \in overtaken
        \/ \E q \in Requests : /\ Home[q] = Home[r]
                               /\ pc[q] = "forget"
                               /\ target[q] = prof[r].id

IInv ==
    /\ TypeOK
    /\ Carries
    /\ Born
    /\ Private
    /\ Keyed
    /\ Locked
    /\ ToClose
    /\ Servable
    /\ GetsItsOwnPool
    /\ Accounted
    /\ LateDials
    /\ StaleOnlyIfEscaped

-----------------------------------------------------------------------------
(* Proofs                                                                  *)

\* What a handler leaves behind that has written row i: r goes on to Forget or
\* is done, and what that Forget will not see is known to have escaped it.
AfterWrite(r, i) ==
    /\ pc' \in [Requests -> Phases] /\ target' \in [Requests -> Ids \cup {None}]
    /\ pc'[r] \in {"forget", "idle"}
    /\ pc'[r] = "forget" => target'[r] = i
    /\ \A q \in Requests : q # r => pc'[q] = pc[q] /\ target'[q] = target[q]
    /\ overtaken \subseteq overtaken' /\ overtaken' \subseteq Requests
    /\ \A q \in Requests : pc[q] \in InFlight /\ prof[q].id = i =>
         q \in overtaken' \/ (pc'[r] = "forget" /\ Home[q] = Home[r])
    /\ orphan \subseteq orphan' /\ orphan' \subseteq Pools
    /\ \A s \in Slots : cache[s] # None /\ s[3] = i =>
         cache[s] \in orphan' \/ (pc'[r] = "forget" /\ s[1] = Home[r])

\* Whether the call was answered or not, its handler keeps to that.
LEMMA WriteReturns ==
    ASSUME TypeOK, NEW r \in Requests, NEW i \in Ids, NEW answer \in Answers,
           ForgetOrReturn(r, i, answer)
    PROVE  AfterWrite(r, i)
  <1> USE RegistryAssumption DEF TypeOK
  <1>1. CASE /\ pc' = [pc EXCEPT ![r] = "forget"]
             /\ target' = [target EXCEPT ![r] = i]
             /\ Superseded(Replicas \ {Home[r]}, i)
    <2>1. \A s \in Slots : s[1] \in Replicas
      BY DEF Slots
    <2>2. /\ overtaken \subseteq overtaken' /\ overtaken' \subseteq Requests
          /\ \A q \in Requests : pc[q] \in InFlight /\ prof[q].id = i =>
               q \in overtaken' \/ Home[q] = Home[r]
      BY <1>1 DEF Superseded
    <2>3. /\ orphan \subseteq orphan' /\ orphan' \subseteq Pools
          /\ \A s \in Slots : cache[s] # None /\ s[3] = i =>
               cache[s] \in orphan' \/ s[1] = Home[r]
      BY <1>1, <2>1 DEF Superseded
    <2> QED BY <1>1, <2>2, <2>3 DEF AfterWrite, Phases
  <1>2. CASE /\ pc' = [pc EXCEPT ![r] = "idle"]
             /\ UNCHANGED target
             /\ Superseded(Replicas, i)
    <2>1. \A s \in Slots : s[1] \in Replicas
      BY DEF Slots
    <2>2. /\ overtaken \subseteq overtaken' /\ overtaken' \subseteq Requests
          /\ \A q \in Requests : pc[q] \in InFlight /\ prof[q].id = i => q \in overtaken'
      BY <1>2 DEF Superseded
    <2>3. /\ orphan \subseteq orphan' /\ orphan' \subseteq Pools
          /\ \A s \in Slots : cache[s] # None /\ s[3] = i => cache[s] \in orphan'
      BY <1>2, <2>1 DEF Superseded
    <2> QED BY <1>2, <2>2, <2>3 DEF AfterWrite, Phases
  <1> QED BY <1>1, <1>2 DEF ForgetOrReturn

\* No step of a handler, the registry or the janitor breaks the invariant.
LEMMA Step == ASSUME IInv, Next PROVE IInv'
  <1> USE RegistryAssumption
  <1>1. ASSUME NEW i \in Ids, NEW f \in Families, Create(i, f)
       PROVE  IInv'
    <2> USE <1>1 DEF IInv, Create, storeVars, lockVars, history
    <2>1. TypeOK'
      BY DEF TypeOK, Profiles, Slots, Phases
    <2>2. Born'
      BY DEF Born
    <2>3. LateDials'
      BY DEF LateDials, InFlight, TypeOK, Carries, Born, Locked, Superseded, Profiles
    <2>4. StaleOnlyIfEscaped'
      BY DEF StaleOnlyIfEscaped, ForgetPending, TypeOK, Carries, Born, Keyed, Private, ToClose, LateDials, Locked, Superseded, InFlight, Slots, SlotOf, Dialling, Profiles
    <2>5. Carries' /\ Private' /\ Keyed' /\ Locked' /\ ToClose' /\ Servable' /\ GetsItsOwnPool' /\ Accounted'
      BY DEF Carries, Private, Keyed, Locked, ToClose, Servable, GetsItsOwnPool, Accounted, Cached
    <2> QED BY <2>1, <2>2, <2>3, <2>4, <2>5
  <1>2. ASSUME NEW r \in Requests, NEW i \in Ids, NEW next \in {"have", "write"}, Read(r, i, next)
       PROVE  IInv'
    <2> USE <1>2 DEF IInv, Read, storeVars, lockVars, history
    <2>1. TypeOK'
      BY DEF TypeOK, Profiles, Slots, Phases
    <2>2. Carries'
      BY DEF Carries, InFlight, Serving, Dialling, TypeOK
    <2>3. Born'
      BY DEF Born
    <2>4. Private'
      BY DEF Private, Dialling
    <2>5. Locked'
      BY DEF Locked
    <2>6. GetsItsOwnPool'
      BY DEF GetsItsOwnPool
    <2>7. Accounted'
      BY DEF Accounted, Cached
    <2>8. LateDials'
      BY DEF LateDials, InFlight, TypeOK, Carries, Born, Locked, Superseded, Profiles
    <2>9. StaleOnlyIfEscaped'
      BY DEF StaleOnlyIfEscaped, ForgetPending
    <2>10. Keyed' /\ ToClose' /\ Servable'
      BY DEF Keyed, ToClose, Servable
    <2> QED BY <2>1, <2>2, <2>3, <2>4, <2>5, <2>6, <2>7, <2>8, <2>9, <2>10
  <1>3. ASSUME NEW r \in Requests, NEW f \in Families, NEW answer \in Answers, Update(r, f, answer)
       PROVE  IInv'
    <2> DEFINE i == prof[r].id
    <2>1. /\ i \in Ids /\ pc[r] = "write" /\ held[r] = None
          /\ row \in [Ids -> Profiles \cup {None}]
          /\ prof[r] \in Profiles
      BY <1>3 DEF IInv, Update, TypeOK, Carries, Profiles, InFlight, Serving, Dialling
    <2>2. /\ row[i] = None => row' = row
          /\ row[i] # None => /\ row[i] \in Profiles
                              /\ row' = [row EXCEPT ![i] = [id |-> i, fam |-> f, ver |-> row[i].ver + 1]]
                              /\ row[i].ver + 1 \in 1..MaxVer
      BY <1>3, <2>1 DEF Update, Profiles
    <2>3. /\ row' \in [Ids -> Profiles \cup {None}]
          /\ \A j \in Ids : j # i => row'[j] = row[j]
          /\ row'[i] # None => row[i] # None /\ row'[i].id = i
      BY <2>1, <2>2 DEF Profiles
    <2>4. /\ prof' = [prof EXCEPT ![r] = None]
          /\ UNCHANGED <<born, held, status, of, cache, idle, mu, todo, lost>>
      BY <1>3 DEF Update, lockVars
    <2>5. AfterWrite(r, i)
      BY <1>3, <2>1, WriteReturns DEF IInv, Update
    <2> HIDE DEF i
    <2> USE <2>1, <2>3, <2>4, <2>5 DEF IInv, AfterWrite
    <2>6. TypeOK'
      BY DEF TypeOK
    <2>7. Carries'
      BY DEF Carries, InFlight, Serving, Dialling, TypeOK
    <2>8. Born'
      BY DEF Born, TypeOK
    <2>9. Private' /\ GetsItsOwnPool' /\ Accounted'
      BY DEF Private, Dialling, GetsItsOwnPool, Accounted, Cached, TypeOK
    <2>10. Locked'
      BY DEF Locked, TypeOK
    <2>11. LateDials'
      <3> SUFFICES ASSUME NEW q \in Requests, pc'[q] \in InFlight, prof'[q] # row'[prof'[q].id]
                   PROVE  \/ q \in overtaken'
                          \/ \E t \in Requests : /\ Home[t] = Home[q]
                                                 /\ pc'[t] = "forget"
                                                 /\ target'[t] = prof'[q].id
        BY DEF LateDials
      <3>1. q # r /\ pc[q] = pc'[q] /\ prof'[q] = prof[q] /\ prof[q] \in Profiles
        BY DEF InFlight, Carries, TypeOK
      <3>2. CASE prof[q].id = i
        BY <3>1, <3>2
      <3>3. CASE prof[q].id # i
        <4>1. prof[q] # row[prof[q].id]
          BY <3>1, <3>3 DEF Profiles
        <4>2. \/ q \in overtaken
              \/ \E t \in Requests : /\ Home[t] = Home[q]
                                     /\ pc[t] = "forget"
                                     /\ target[t] = prof[q].id
          BY <3>1, <4>1 DEF LateDials
        <4> QED BY <3>1, <4>2
      <3> QED BY <3>2, <3>3
    <2>12. StaleOnlyIfEscaped'
      <3> SUFFICES ASSUME NEW s \in Slots, cache[s] # None, of[cache[s]] # row'[s[3]]
                   PROVE  ForgetPending(s)' \/ cache[s] \in orphan'
        BY DEF StaleOnlyIfEscaped
      <3>1. CASE s[3] = i
        BY <3>1 DEF ForgetPending
      <3>2. CASE s[3] # i
        <4>1. of[cache[s]] # row[s[3]]
          BY <3>2 DEF Slots
        <4>2. ForgetPending(s) \/ cache[s] \in orphan
          BY <4>1 DEF StaleOnlyIfEscaped
        <4> QED BY <4>2 DEF ForgetPending
      <3> QED BY <3>1, <3>2
    <2>13. Keyed' /\ ToClose' /\ Servable'
      BY DEF Keyed, ToClose, Servable
    <2> QED BY <2>6, <2>7, <2>8, <2>9, <2>10, <2>11, <2>12, <2>13
  <1>4. ASSUME NEW r \in Requests, UpdateFails(r)
       PROVE  IInv'
    <2> USE <1>4 DEF IInv, UpdateFails, storeVars, lockVars, history
    <2>1. TypeOK'
      BY DEF TypeOK, Profiles, Slots, Phases
    <2>2. Carries'
      BY DEF Carries, InFlight, Serving, Dialling, TypeOK
    <2>3. Born'
      BY DEF Born
    <2>4. Private'
      BY DEF Private, Dialling
    <2>5. Locked'
      BY DEF Locked
    <2>6. GetsItsOwnPool'
      BY DEF GetsItsOwnPool
    <2>7. Accounted'
      BY DEF Accounted, Cached
    <2>8. LateDials'
      BY DEF LateDials, InFlight
    <2>9. StaleOnlyIfEscaped'
      BY DEF StaleOnlyIfEscaped, ForgetPending
    <2>10. Keyed' /\ ToClose' /\ Servable'
      BY DEF Keyed, ToClose, Servable
    <2> QED BY <2>1, <2>2, <2>3, <2>4, <2>5, <2>6, <2>7, <2>8, <2>9, <2>10
  <1>5. ASSUME NEW r \in Requests, NEW i \in Ids, NEW answer \in Answers, Delete(r, i, answer)
       PROVE  IInv'
    <2>1. pc[r] = "idle" /\ held[r] = None /\ row \in [Ids -> Profiles \cup {None}]
      BY <1>5 DEF IInv, Delete, TypeOK, Carries, Serving, Dialling
    <2>2. /\ row' = [row EXCEPT ![i] = None]
          /\ UNCHANGED <<born, prof, held, status, of, cache, idle, mu, todo, lost>>
      BY <1>5 DEF Delete, lockVars
    <2>3. AfterWrite(r, i)
      BY <1>5, WriteReturns DEF IInv, Delete
    <2> USE <2>1, <2>2, <2>3 DEF IInv, AfterWrite
    <2>4. TypeOK'
      BY DEF TypeOK
    <2>5. Carries'
      BY DEF Carries, InFlight, Serving, Dialling, TypeOK
    <2>6. Born'
      BY DEF Born, TypeOK
    <2>7. Private' /\ GetsItsOwnPool' /\ Accounted'
      BY DEF Private, Dialling, GetsItsOwnPool, Accounted, Cached, TypeOK
    <2>8. Locked'
      BY DEF Locked, TypeOK
    <2>9. LateDials'
      <3> SUFFICES ASSUME NEW q \in Requests, pc'[q] \in InFlight, prof'[q] # row'[prof'[q].id]
                   PROVE  \/ q \in overtaken'
                          \/ \E t \in Requests : /\ Home[t] = Home[q]
                                                 /\ pc'[t] = "forget"
                                                 /\ target'[t] = prof'[q].id
        BY DEF LateDials
      <3>1. q # r /\ pc[q] = pc'[q] /\ prof[q] \in Profiles
        BY DEF InFlight, Carries, TypeOK
      <3>2. CASE prof[q].id = i
        BY <3>1, <3>2
      <3>3. CASE prof[q].id # i
        <4>1. prof[q] # row[prof[q].id]
          BY <3>1, <3>3 DEF Profiles
        <4>2. \/ q \in overtaken
              \/ \E t \in Requests : /\ Home[t] = Home[q]
                                     /\ pc[t] = "forget"
                                     /\ target[t] = prof[q].id
          BY <3>1, <4>1 DEF LateDials
        <4> QED BY <3>1, <4>2
      <3> QED BY <3>2, <3>3
    <2>10. StaleOnlyIfEscaped'
      <3> SUFFICES ASSUME NEW s \in Slots, cache[s] # None, of[cache[s]] # row'[s[3]]
                   PROVE  ForgetPending(s)' \/ cache[s] \in orphan'
        BY DEF StaleOnlyIfEscaped
      <3>1. CASE s[3] = i
        BY <3>1 DEF ForgetPending
      <3>2. CASE s[3] # i
        <4>1. of[cache[s]] # row[s[3]]
          BY <3>2 DEF Slots
        <4>2. ForgetPending(s) \/ cache[s] \in orphan
          BY <4>1 DEF StaleOnlyIfEscaped
        <4> QED BY <4>2 DEF ForgetPending
      <3> QED BY <3>1, <3>2
    <2>11. Keyed' /\ ToClose' /\ Servable'
      BY DEF Keyed, ToClose, Servable
    <2> QED BY <2>4, <2>5, <2>6, <2>7, <2>8, <2>9, <2>10, <2>11
  <1>6. ASSUME NEW r \in Requests, Lookup(r)
       PROVE  IInv'
    <2> USE <1>6 DEF IInv, Lookup, storeVars, lockVars, history
    <2>1. TypeOK'
      BY DEF TypeOK, Profiles, Slots, Phases, SlotOf, Carries, InFlight, Serving, Dialling
    <2>2. Carries'
      BY DEF Carries, InFlight, Serving, Dialling, SlotOf, TypeOK, Profiles, Slots, Phases
    <2>3. Private'
      BY DEF Private, Dialling, SlotOf, TypeOK, Carries, Slots, InFlight, Serving, Profiles, Phases
    <2>4. Locked'
      BY DEF Locked, SlotOf, TypeOK
    <2>5. ToClose'
      BY DEF ToClose, SlotOf
    <2>6. GetsItsOwnPool'
      BY DEF GetsItsOwnPool, SlotOf, TypeOK, Keyed, Private, Carries, Serving, Dialling, Slots, Profiles, InFlight, Phases
    <2>7. Accounted'
      BY DEF Accounted, Cached, SlotOf, TypeOK
    <2>8. LateDials'
      BY DEF LateDials, InFlight, SlotOf, TypeOK
    <2>9. StaleOnlyIfEscaped'
      BY DEF StaleOnlyIfEscaped, ForgetPending, SlotOf, TypeOK
    <2>10. Born' /\ Keyed' /\ Servable'
      BY DEF Born, Keyed, Servable
    <2> QED BY <2>1, <2>2, <2>3, <2>4, <2>5, <2>6, <2>7, <2>8, <2>9, <2>10
  <1>7. ASSUME NEW r \in Requests, Dial(r)
       PROVE  IInv'
    <2> USE <1>7 DEF IInv, Dial, storeVars, lockVars, history
    <2>1. TypeOK'
      BY DEF TypeOK, Profiles, Slots, Phases, Free, Cached
    <2>2. Carries'
      BY DEF Carries, InFlight, Serving, Dialling, Free, Cached, TypeOK
    <2>3. Born'
      BY DEF Born, Free, Cached
    <2>4. Private'
      BY DEF Private, Dialling, Free, Cached, TypeOK
    <2>5. Keyed'
      BY DEF Keyed, Free, Cached
    <2>6. Locked'
      BY DEF Locked, Free, Cached
    <2>7. Servable'
      BY DEF Servable, Free, Cached
    <2>8. GetsItsOwnPool'
      BY DEF GetsItsOwnPool, Free, Cached
    <2>9. Accounted'
      BY DEF Accounted, Cached, Free, TypeOK
    <2>10. LateDials'
      BY DEF LateDials, InFlight, Free, Cached
    <2>11. StaleOnlyIfEscaped'
      BY DEF StaleOnlyIfEscaped, ForgetPending, Free, Cached
    <2>12. ToClose'
      BY DEF ToClose
    <2> QED BY <2>1, <2>2, <2>3, <2>4, <2>5, <2>6, <2>7, <2>8, <2>9, <2>10, <2>11, <2>12
  <1>8. ASSUME NEW r \in Requests, DialFails(r)
       PROVE  IInv'
    <2> USE <1>8 DEF IInv, DialFails, storeVars, lockVars, history
    <2>1. TypeOK'
      BY DEF TypeOK, Profiles, Slots, Phases
    <2>2. Carries'
      BY DEF Carries, InFlight, Serving, Dialling, TypeOK
    <2>3. Born'
      BY DEF Born
    <2>4. Private'
      BY DEF Private, Dialling
    <2>5. Locked'
      BY DEF Locked
    <2>6. GetsItsOwnPool'
      BY DEF GetsItsOwnPool
    <2>7. Accounted'
      BY DEF Accounted, Cached
    <2>8. LateDials'
      BY DEF LateDials, InFlight, TypeOK
    <2>9. StaleOnlyIfEscaped'
      BY DEF StaleOnlyIfEscaped, ForgetPending
    <2>10. Keyed' /\ ToClose' /\ Servable'
      BY DEF Keyed, ToClose, Servable
    <2> QED BY <2>1, <2>2, <2>3, <2>4, <2>5, <2>6, <2>7, <2>8, <2>9, <2>10
  <1>9. ASSUME NEW r \in Requests, Ping(r)
       PROVE  IInv'
    <2> USE <1>9 DEF IInv, Ping, storeVars, lockVars, history
    <2>1. TypeOK'
      BY DEF TypeOK, Profiles, Slots, Phases
    <2>2. Carries'
      BY DEF Carries, InFlight, Serving, Dialling
    <2>3. Private'
      BY DEF Private, Dialling, TypeOK, Carries, Slots, SlotOf
    <2>4. Locked'
      BY DEF Locked
    <2>5. Servable'
      BY DEF Servable
    <2>6. GetsItsOwnPool'
      BY DEF GetsItsOwnPool
    <2>7. Accounted'
      BY DEF Accounted, Cached
    <2>8. LateDials'
      BY DEF LateDials, InFlight
    <2>9. StaleOnlyIfEscaped'
      BY DEF StaleOnlyIfEscaped, ForgetPending
    <2>10. Born' /\ Keyed' /\ ToClose'
      BY DEF Born, Keyed, ToClose
    <2> QED BY <2>1, <2>2, <2>3, <2>4, <2>5, <2>6, <2>7, <2>8, <2>9, <2>10
  <1>10. ASSUME NEW r \in Requests, PingFails(r)
       PROVE  IInv'
    <2> USE <1>10 DEF IInv, PingFails, storeVars, lockVars, history
    <2>1. TypeOK'
      BY DEF TypeOK, Profiles, Slots, Phases
    <2>2. Carries'
      BY DEF Carries, InFlight, Serving, Dialling, TypeOK
    <2>3. Born'
      BY DEF Born
    <2>4. Private'
      BY DEF Private, Dialling, TypeOK, Carries, Slots, SlotOf
    <2>5. Locked'
      BY DEF Locked
    <2>6. Servable'
      BY DEF Servable, TypeOK, Private, Keyed, ToClose, Carries, Slots, SlotOf, Dialling
    <2>7. GetsItsOwnPool'
      BY DEF GetsItsOwnPool
    <2>8. Accounted'
      BY DEF Accounted, Cached, TypeOK
    <2>9. LateDials'
      BY DEF LateDials, InFlight, TypeOK
    <2>10. StaleOnlyIfEscaped'
      BY DEF StaleOnlyIfEscaped, ForgetPending
    <2>11. Keyed' /\ ToClose'
      BY DEF Keyed, ToClose
    <2> QED BY <2>1, <2>2, <2>3, <2>4, <2>5, <2>6, <2>7, <2>8, <2>9, <2>10, <2>11
  <1>11. ASSUME NEW r \in Requests, Insert(r)
       PROVE  IInv'
    <2> USE <1>11 DEF IInv, Insert, storeVars, lockVars, history
    <2>1. TypeOK'
      BY DEF TypeOK, Profiles, Slots, Phases, SlotOf, Carries, InFlight, Serving, Dialling
    <2>2. Carries'
      BY DEF Carries, InFlight, Serving, Dialling, SlotOf
    <2>3. Private'
      BY DEF Private, Dialling, SlotOf, TypeOK
    <2>4. Keyed'
      <3>1. /\ pc[r] = "insert" /\ prof[r] \in Profiles /\ held[r] \in Pools
            /\ of[held[r]] = prof[r] /\ \A s \in Slots : cache[s] # held[r]
        BY DEF Carries, Private, InFlight, Dialling
      <3>2. SlotOf(r) \in Slots /\ SlotOf(r)[2] = prof[r].fam /\ SlotOf(r)[3] = prof[r].id
        BY <3>1 DEF SlotOf, Slots, Profiles
      <3>3. cache' = [cache EXCEPT ![SlotOf(r)] = held[r]] /\ UNCHANGED of
        OBVIOUS
      <3>4. held[r] # None /\ prof[r] # None
        BY <3>1
      <3> HIDE <1>11 DEF Insert
      <3> QED BY <3>1, <3>2, <3>3, <3>4 DEF Keyed, TypeOK
    <2>5. Locked'
      BY DEF Locked, SlotOf
    <2>6. ToClose'
      BY DEF ToClose, SlotOf
    <2>7. Servable'
      BY DEF Servable, SlotOf, TypeOK, Private, Keyed, ToClose, Carries, Slots, Dialling
    <2>8. GetsItsOwnPool'
      BY DEF GetsItsOwnPool, SlotOf, TypeOK, Keyed, Private, Carries, Serving, Dialling, Slots, Profiles, InFlight, Phases
    <2>9. Accounted'
      <3>1. /\ SlotOf(r) \in Slots
            /\ cache' = [cache EXCEPT ![SlotOf(r)] = held[r]]
            /\ lost' = IF cache[SlotOf(r)] = None THEN lost ELSE lost \cup {cache[SlotOf(r)]}
        BY DEF SlotOf, Slots, Profiles, TypeOK, Carries, InFlight
      <3> SUFFICES ASSUME NEW p \in Pools, status[p] # "closed"
                   PROVE  \/ \E s \in Slots : cache'[s] = p
                          \/ \E q \in Requests : held'[q] = p /\ pc'[q] \in {"ping", "insert"}
                          \/ p \in lost'
        BY DEF Accounted, Cached
      <3>2. CASE \E s \in Slots : cache[s] = p
        BY <3>1, <3>2 DEF TypeOK
      <3>3. CASE \E q \in Requests : held[q] = p /\ pc[q] \in {"ping", "insert"}
        BY <3>1, <3>3 DEF TypeOK
      <3> QED BY <3>1, <3>2, <3>3 DEF Accounted, Cached
    <2>10. LateDials'
      BY DEF LateDials, InFlight, SlotOf
    <2>11. StaleOnlyIfEscaped'
      BY DEF StaleOnlyIfEscaped, ForgetPending, SlotOf, TypeOK, Carries, Born, Keyed, Private, ToClose, LateDials, Locked, Superseded, InFlight, Slots, Dialling, Profiles
    <2>12. Born'
      BY DEF Born
    <2> QED BY <2>1, <2>2, <2>3, <2>4, <2>5, <2>6, <2>7, <2>8, <2>9, <2>10, <2>11, <2>12
  <1>12. ASSUME NEW r \in Requests, Acquire(r)
       PROVE  IInv'
    <2> USE <1>12 DEF IInv, Acquire, storeVars, lockVars, history
    <2>1. TypeOK'
      BY DEF TypeOK, Profiles, Slots, Phases
    <2>2. Carries'
      BY DEF Carries, InFlight, Serving, Dialling
    <2>3. Private'
      BY DEF Private, Dialling
    <2>4. Locked'
      BY DEF Locked
    <2>5. GetsItsOwnPool'
      BY DEF GetsItsOwnPool
    <2>6. Accounted'
      BY DEF Accounted, Cached
    <2>7. LateDials'
      BY DEF LateDials, InFlight
    <2>8. StaleOnlyIfEscaped'
      BY DEF StaleOnlyIfEscaped, ForgetPending
    <2>9. Born' /\ Keyed' /\ ToClose' /\ Servable'
      BY DEF Born, Keyed, ToClose, Servable
    <2> QED BY <2>1, <2>2, <2>3, <2>4, <2>5, <2>6, <2>7, <2>8, <2>9
  <1>13. ASSUME NEW r \in Requests, AcquireFails(r)
       PROVE  IInv'
    <2> USE <1>13 DEF IInv, AcquireFails, storeVars, lockVars, history
    <2>1. TypeOK'
      BY DEF TypeOK, Profiles, Slots, Phases
    <2>2. Carries'
      BY DEF Carries, InFlight, Serving, Dialling, TypeOK
    <2>3. Born'
      BY DEF Born
    <2>4. Private'
      BY DEF Private, Dialling, TypeOK, Carries, Slots, SlotOf
    <2>5. Locked'
      BY DEF Locked
    <2>6. GetsItsOwnPool'
      BY DEF GetsItsOwnPool, TypeOK
    <2>7. Accounted'
      BY DEF Accounted, Cached
    <2>8. LateDials'
      BY DEF LateDials, InFlight
    <2>9. StaleOnlyIfEscaped'
      BY DEF StaleOnlyIfEscaped, ForgetPending
    <2>10. Keyed' /\ ToClose' /\ Servable'
      BY DEF Keyed, ToClose, Servable
    <2> QED BY <2>1, <2>2, <2>3, <2>4, <2>5, <2>6, <2>7, <2>8, <2>9, <2>10
  <1>14. ASSUME NEW r \in Requests, Release(r)
       PROVE  IInv'
    <2> USE <1>14 DEF IInv, Release, storeVars, lockVars, history
    <2>1. TypeOK'
      BY DEF TypeOK, Profiles, Slots, Phases
    <2>2. Carries'
      BY DEF Carries, InFlight, Serving, Dialling, TypeOK
    <2>3. Born'
      BY DEF Born
    <2>4. Private'
      BY DEF Private, Dialling, TypeOK, Carries, Slots, SlotOf
    <2>5. Locked'
      BY DEF Locked
    <2>6. GetsItsOwnPool'
      BY DEF GetsItsOwnPool, TypeOK
    <2>7. Accounted'
      BY DEF Accounted, Cached
    <2>8. LateDials'
      BY DEF LateDials, InFlight
    <2>9. StaleOnlyIfEscaped'
      BY DEF StaleOnlyIfEscaped, ForgetPending
    <2>10. Keyed' /\ ToClose' /\ Servable'
      BY DEF Keyed, ToClose, Servable
    <2> QED BY <2>1, <2>2, <2>3, <2>4, <2>5, <2>6, <2>7, <2>8, <2>9, <2>10
  <1>15. ASSUME NEW r \in Requests, ForgetLock(r)
       PROVE  IInv'
    <2> USE <1>15 DEF IInv, ForgetLock, storeVars, lockVars, history
    <2>1. TypeOK'
      BY DEF TypeOK, Profiles, Slots, Phases
    <2>2. Carries'
      BY DEF Carries, InFlight, Serving, Dialling
    <2>3. Private'
      BY DEF Private, Dialling
    <2>4. Locked'
      BY DEF Locked, TypeOK
    <2>5. ToClose'
      BY DEF ToClose, TypeOK
    <2>6. Servable'
      BY DEF Servable, TypeOK, Private, Keyed, ToClose, Carries, Slots, SlotOf, Dialling
    <2>7. GetsItsOwnPool'
      BY DEF GetsItsOwnPool
    <2>8. Accounted'
      BY DEF Accounted, Cached
    <2>9. LateDials'
      BY DEF LateDials, InFlight
    <2>10. StaleOnlyIfEscaped'
      BY DEF StaleOnlyIfEscaped, ForgetPending, TypeOK, Carries, Born, Keyed, Private, ToClose, LateDials, Locked, Superseded, InFlight, Slots, SlotOf, Dialling, Profiles
    <2>11. Born' /\ Keyed'
      BY DEF Born, Keyed
    <2> QED BY <2>1, <2>2, <2>3, <2>4, <2>5, <2>6, <2>7, <2>8, <2>9, <2>10, <2>11
  <1>16. ASSUME NEW r \in Requests, ForgetUnlock(r)
       PROVE  IInv'
    <2> USE <1>16 DEF IInv, ForgetUnlock, storeVars, lockVars, history
    <2>1. TypeOK'
      BY DEF TypeOK, Profiles, Slots, Phases
    <2>2. Carries'
      BY DEF Carries, InFlight, Serving, Dialling, TypeOK
    <2>3. Private'
      BY DEF Private, Dialling
    <2>4. Locked'
      BY DEF Locked, TypeOK
    <2>5. ToClose'
      BY DEF ToClose
    <2>6. GetsItsOwnPool'
      BY DEF GetsItsOwnPool
    <2>7. Accounted'
      BY DEF Accounted, Cached
    <2>8. LateDials'
      BY DEF LateDials, InFlight
    <2>9. StaleOnlyIfEscaped'
      BY DEF StaleOnlyIfEscaped, ForgetPending
    <2>10. Born' /\ Keyed' /\ Servable'
      BY DEF Born, Keyed, Servable
    <2> QED BY <2>1, <2>2, <2>3, <2>4, <2>5, <2>6, <2>7, <2>8, <2>9, <2>10
  <1>17. ASSUME NEW x \in Replicas, JanitorTick(x)
       PROVE  IInv'
    <2> USE <1>17 DEF IInv, JanitorTick, storeVars, lockVars, history
    <2>1. TypeOK'
      BY DEF TypeOK, Profiles, Slots, Phases
    <2>2. Locked'
      BY DEF Locked
    <2>3. ToClose'
      BY DEF ToClose, TypeOK
    <2>4. Servable'
      BY DEF Servable, TypeOK, Private, Keyed, ToClose, Carries, Slots, SlotOf, Dialling
    <2>5. StaleOnlyIfEscaped'
      BY DEF StaleOnlyIfEscaped, ForgetPending, TypeOK, Carries, Born, Keyed, Private, ToClose, LateDials, Locked, Superseded, InFlight, Slots, SlotOf, Dialling, Profiles
    <2>6. Carries' /\ Born' /\ Private' /\ Keyed' /\ GetsItsOwnPool' /\ Accounted' /\ LateDials'
      BY DEF Carries, Born, Private, Keyed, GetsItsOwnPool, Accounted, LateDials, Cached
    <2> QED BY <2>1, <2>2, <2>3, <2>4, <2>5, <2>6
  <1>18. ASSUME NEW x \in Replicas, JanitorUnlock(x)
       PROVE  IInv'
    <2> USE <1>18 DEF IInv, JanitorUnlock, storeVars, lockVars, history
    <2>1. TypeOK'
      BY DEF TypeOK, Profiles, Slots, Phases
    <2>2. Locked'
      BY DEF Locked
    <2>3. ToClose'
      BY DEF ToClose
    <2>4. Carries' /\ Born' /\ Private' /\ Keyed' /\ Servable' /\ GetsItsOwnPool' /\ Accounted' /\ LateDials' /\ StaleOnlyIfEscaped'
      BY DEF Carries, Born, Private, Keyed, Servable, GetsItsOwnPool, Accounted, LateDials, StaleOnlyIfEscaped, Cached, ForgetPending
    <2> QED BY <2>1, <2>2, <2>3, <2>4
  <1>19. ASSUME NEW x \in Replicas, NEW s \in Slots, CloseBegin(x, s)
       PROVE  IInv'
    <2> USE <1>19 DEF IInv, CloseBegin, storeVars, lockVars, history
    <2>1. TypeOK'
      BY DEF TypeOK, Profiles, Slots, Phases, NextToClose
    <2>2. Private'
      BY DEF Private, Dialling, NextToClose
    <2>3. Servable'
      BY DEF Servable, NextToClose, TypeOK, Private, Keyed, ToClose, Carries, Slots, SlotOf, Dialling
    <2>4. Accounted'
      BY DEF Accounted, Cached, NextToClose
    <2>5. Carries' /\ Born' /\ Keyed' /\ Locked' /\ ToClose' /\ GetsItsOwnPool' /\ LateDials' /\ StaleOnlyIfEscaped'
      BY DEF Carries, Born, Keyed, Locked, ToClose, GetsItsOwnPool, LateDials, StaleOnlyIfEscaped, ForgetPending
    <2> QED BY <2>1, <2>2, <2>3, <2>4, <2>5
  <1>20. ASSUME NEW x \in Replicas, NEW s \in Slots, CloseEnd(x, s)
       PROVE  IInv'
    <2> USE <1>20 DEF IInv, CloseEnd, storeVars, lockVars, history
    <2>1. TypeOK'
      BY DEF TypeOK, Profiles, Slots, Phases, NextToClose
    <2>2. Private'
      BY DEF Private, Dialling, NextToClose, TypeOK, Carries, Slots, SlotOf
    <2>3. Keyed'
      BY DEF Keyed, NextToClose
    <2>4. ToClose'
      BY DEF ToClose, NextToClose, TypeOK
    <2>5. Servable'
      BY DEF Servable, NextToClose, TypeOK
    <2>6. Accounted'
      BY DEF Accounted, Cached, NextToClose
    <2>7. StaleOnlyIfEscaped'
      BY DEF StaleOnlyIfEscaped, ForgetPending, NextToClose, TypeOK
    <2>8. Carries' /\ Born' /\ Locked' /\ GetsItsOwnPool' /\ LateDials'
      BY DEF Carries, Born, Locked, GetsItsOwnPool, LateDials
    <2> QED BY <2>1, <2>2, <2>3, <2>4, <2>5, <2>6, <2>7, <2>8
  <1>21. ASSUME NEW s \in Slots, GrowIdle(s)
       PROVE  IInv'
    <2> USE <1>21 DEF IInv, GrowIdle, storeVars, lockVars, history
    <2>1. TypeOK'
      BY DEF TypeOK, Profiles, Slots, Phases
    <2>2. ToClose'
      BY DEF ToClose
    <2>3. Carries' /\ Born' /\ Private' /\ Keyed' /\ Locked' /\ Servable' /\ GetsItsOwnPool' /\ Accounted' /\ LateDials' /\ StaleOnlyIfEscaped'
      BY DEF Carries, Born, Private, Keyed, Locked, Servable, GetsItsOwnPool, Accounted, LateDials, StaleOnlyIfEscaped, Cached, ForgetPending
    <2> QED BY <2>1, <2>2, <2>3
  <1>22. ASSUME NEW r \in Requests, NEW i \in Ids, Reencrypt(r, i)
       PROVE  IInv'
    <2> USE <1>22 DEF IInv, Reencrypt, storeVars, lockVars, history
    <2>1. TypeOK'
      BY DEF TypeOK, Profiles, Slots, Phases
    <2>2. Carries'
      BY DEF Carries, InFlight, Serving, Dialling, TypeOK
    <2>3. Born'
      BY DEF Born
    <2>4. Private'
      BY DEF Private, Dialling
    <2>5. Locked'
      BY DEF Locked
    <2>6. GetsItsOwnPool'
      BY DEF GetsItsOwnPool
    <2>7. Accounted'
      BY DEF Accounted, Cached
    <2>8. LateDials'
      BY DEF LateDials, InFlight, TypeOK
    <2>9. StaleOnlyIfEscaped'
      BY DEF StaleOnlyIfEscaped, ForgetPending, TypeOK
    <2>10. Keyed' /\ ToClose' /\ Servable'
      BY DEF Keyed, ToClose, Servable
    <2> QED BY <2>1, <2>2, <2>3, <2>4, <2>5, <2>6, <2>7, <2>8, <2>9, <2>10
  <1> QED BY <1>1, <1>2, <1>3, <1>4, <1>5, <1>6, <1>7, <1>8, <1>9, <1>10, <1>11, <1>12, <1>13, <1>14, <1>15, <1>16, <1>17, <1>18, <1>19, <1>20, <1>21, <1>22 DEF Next, MetadataStep, PoolStep, LockStep

\* A server that has just started satisfies it.
LEMMA Start == Init => IInv
  BY RegistryAssumption DEF Init, IInv, TypeOK, Carries, Born, Private, Keyed, Locked, ToClose,
     Servable, GetsItsOwnPool, Accounted, LateDials, StaleOnlyIfEscaped, InFlight, Serving,
     Dialling, Phases, Cached, ForgetPending

\* It depends on the variables of the specification only.
LEMMA Stutter == IInv /\ UNCHANGED vars => IInv'
  BY DEF vars, IInv, TypeOK, Carries, Born, Private, Keyed, Locked, ToClose, Servable,
     GetsItsOwnPool, Accounted, LateDials, StaleOnlyIfEscaped, Cached, ForgetPending

\* It holds in every reachable state.
LEMMA Inductive == Spec => []IInv
  <1>1. IInv /\ [Next]_vars => IInv'
    BY Step, Stutter
  <1> QED BY <1>1, Start, PTL DEF Spec

\* The variables of the registry, the store rows and the requests keep their types.
THEOREM TypeCorrect == Spec => []TypeOK
  BY Inductive, PTL DEF IInv

\* A lookup never finds a closed pool or one that has not answered its ping:
\* the critical sections of the getters, Forget and the janitor suffice.
THEOREM LookupsFindOpenPools == Spec => []ServableOpen
  <1>1. IInv => ServableOpen
    BY DEF IInv, ServableOpen, Servable, ToClose, Slots
  <1> QED BY <1>1, Inductive, PTL

\* No request is ever handed the pool of another connection or family.
THEOREM RequestsGetTheirOwnPool == Spec => []GetsItsOwnPool
  BY Inductive, PTL DEF IInv

\* Only overlapping dials of one connection can lose an open pool.
THEOREM OpenPoolsAccounted == Spec => []Accounted
  BY Inductive, PTL DEF IInv

\* A pool that is out of date outside an outstanding Forget escaped that Forget.
THEOREM StalePoolsEscaped == Spec => []StaleOnlyIfEscaped
  BY Inductive, PTL DEF IInv
====
