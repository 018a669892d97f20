---------------------------- MODULE PoolRegistry ----------------------------
(***************************************************************************)
(* The registry of target connection pools (internal/conn/registry.go)     *)
(* together with the handlers that read, edit and delete the saved         *)
(* connections the pools are dialled from (internal/web/api_*.go).         *)
(*                                                                         *)
(* A request reads a saved connection, asks the registry for its pool and  *)
(* works on it.  The registry looks the pool up under its mutex, but dials *)
(* and pings a missing one outside of it, so dials overlap each other, the *)
(* janitor and Forget.  Several replicas of the server may share one       *)
(* metadata store; each has a registry of its own.                         *)
(***************************************************************************)
EXTENDS Naturals, FiniteSets

CONSTANTS
    Replicas,   \* server processes over one metadata store
    Requests,   \* HTTP requests (goroutines)
    Home,       \* Home[r]: the replica that serves r
    Families,   \* engine families in use, a subset of AllFamilies
    Ids,        \* ids the metadata store can hand out
    Pools,      \* names for pool objects; one is reused once nothing refers to it
    MaxVer,     \* bound: how often one saved connection is written
    AnswersLost,\* may a write take effect although its call returns an error?
    Janitor,    \* the janitor goroutine, as an owner of a mutex
    None        \* no value: an absent row, cache entry, owner or pool

\* The five maps of a Registry, in the order janitor and Forget visit them.
FamilyOrder == <<"pg", "mysql", "sqlite", "redis", "mongo">>

AllFamilies == {FamilyOrder[i] : i \in DOMAIN FamilyOrder}

Rank(f) == CHOOSE i \in DOMAIN FamilyOrder : FamilyOrder[i] = f

\* A saved connection, to the extent the registry depends on it: its id, the
\* family its kind maps to, and the edit that wrote it (host, user, password..).
Profiles == [id : Ids, fam : Families, ver : 1..MaxVer]

ASSUME RegistryAssumption ==
    /\ Home \in [Requests -> Replicas]
    /\ Families \subseteq AllFamilies
    /\ MaxVer \in Nat
    /\ AnswersLost \in BOOLEAN
    /\ None \notin Requests \cup Pools \cup Profiles \cup {Janitor}
    /\ Janitor \notin Requests

\* A slot is one key of one map of one replica.
Slots == Replicas \X Families \X Ids

VARIABLES
    row,        \* connections table: row[i] is a profile, or None
    born,       \* ids handed out so far; AUTOINCREMENT never reuses one
    pc,         \* where each request is
    prof,       \* the profile a request has read
    target,     \* the id an edit or delete will Forget
    held,       \* the pool a request dialled or was given
    status,     \* "dialled" (not pinged yet), "open" or "closed"
    of,         \* the profile a pool was dialled from
    cache,      \* the maps: cache[s] is a pool, or None
    idle,       \* slots whose lastUsed is more than idleTTL ago
    mu,         \* owner of each replica's Registry.mu, or None
    todo,       \* slots the owner of mu has still to close
    \* History, for the properties only:
    overtaken,  \* requests whose profile was superseded while they dialled
    orphan,     \* pools that a write superseded and its Forget, if it ran one, missed
    lost        \* pools whose cache entry was overwritten

vars == <<row, born, pc, prof, target, held, status, of, cache, idle, mu, todo,
          overtaken, orphan, lost>>

storeVars == <<row, born>>
lockVars == <<mu, todo>>
history == <<overtaken, orphan, lost>>

Phases == {"idle", "have", "dial", "ping", "insert", "got", "using",
           "write", "forget", "closing"}

\* Between reading a profile and putting its pool into the cache.
InFlight == {"have", "dial", "ping", "insert"}

\* The slot a request looks its pool up in and stores it under.
SlotOf(r) == <<Home[r], prof[r].fam, prof[r].id>>

Cached(p) == \E s \in Slots : cache[s] = p

\* A name whose pool is gone stands for the next pool that is opened.
Free(p) ==
    /\ status[p] = "closed"
    /\ ~Cached(p)
    /\ \A r \in Requests : held[r] # p

Users(p) == {r \in Requests : pc[r] = "using" /\ held[r] = p}

\* pgxpool.Pool.Close returns only when every acquired connection is back;
\* the other drivers' Close does not wait for users (mongo: at most 5s).
CloseWaits(f) == f = "pg"

Init ==
    /\ row = [i \in Ids |-> None]
    /\ born = {}
    /\ pc = [r \in Requests |-> "idle"]
    /\ prof = [r \in Requests |-> None]
    /\ target = [r \in Requests |-> None]
    /\ held = [r \in Requests |-> None]
    /\ status = [p \in Pools |-> "closed"]
    /\ of = [p \in Pools |-> None]
    /\ cache = [s \in Slots |-> None]
    /\ idle = {}
    /\ mu = [x \in Replicas |-> None]
    /\ todo = [x \in Replicas |-> {}]
    /\ overtaken = {}
    /\ orphan = {}
    /\ lost = {}

-----------------------------------------------------------------------------
(* The metadata handlers.                                                  *)

\* Fault: the new row is saved without its version.
CreateUnversioned(i, f) ==
    /\ i \notin born
    /\ MaxVer > 0
    /\ born' = born \cup {i}
    /\ row' = [row EXCEPT ![i] = [id |-> i, fam |-> f, ver |-> 0]]
    /\ UNCHANGED <<pc, prof, target, held, status, of, cache, idle, lockVars, history>>

\* apiCreateConnection: insert a row under a fresh id.
Create(i, f) ==
    /\ i \notin born
    /\ MaxVer > 0
    /\ born' = born \cup {i}
    /\ row' = [row EXCEPT ![i] = [id |-> i, fam |-> f, ver |-> 1]]
    /\ UNCHANGED <<pc, prof, target, held, status, of, cache, idle, lockVars, history>>

\* connFor: every handler on /c/{id} first reads the row; a missing one is
\* answered 404.  The profile is a copy: it does not follow later edits.
Read(r, i, next) ==
    /\ pc[r] = "idle"
    /\ row[i] # None
    /\ pc' = [pc EXCEPT ![r] = next]
    /\ prof' = [prof EXCEPT ![r] = row[i]]
    /\ overtaken' = overtaken \ {r}
    /\ UNCHANGED <<storeVars, target, held, status, of, cache, idle, lockVars, orphan, lost>>

\* What a write to row i leaves behind in the replicas xs, which run no Forget
\* for it: pools of the old row, and dials under way that will store one.
Superseded(xs, i) ==
    /\ overtaken' = overtaken \cup
          {q \in Requests : /\ pc[q] \in InFlight
                            /\ prof[q].id = i
                            /\ Home[q] \in xs}
    /\ orphan' = orphan \cup
          {p \in Pools : \E s \in Slots : /\ cache[s] = p
                                          /\ s[3] = i
                                          /\ s[1] \in xs}

\* What the call that wrote tells its handler.  A statement that took effect may
\* be answered with an error (the client cancelled, the connection broke).
Answers == IF AnswersLost THEN {"done", "error"} ELSE {"done"}

\* The handler runs Forget in its own replica after a write that was answered,
\* and returns before it after an error.
ForgetOrReturn(r, i, answer) ==
    \/ /\ answer = "done"
       /\ pc' = [pc EXCEPT ![r] = "forget"]
       /\ target' = [target EXCEPT ![r] = i]
       /\ Superseded(Replicas \ {Home[r]}, i)
    \/ /\ answer = "error"
       /\ pc' = [pc EXCEPT ![r] = "idle"]
       /\ UNCHANGED target
       /\ Superseded(Replicas, i)

\* apiUpdateConnection after connFor: UPDATE ... WHERE id, which changes nothing
\* (and is no error) when the row has been deleted meanwhile.
Update(r, f, answer) ==
    /\ pc[r] = "write"
    /\ LET i == prof[r].id IN
       /\ row[i] # None => row[i].ver < MaxVer
       /\ row' = IF row[i] = None THEN row
                 ELSE [row EXCEPT ![i] = [id |-> i, fam |-> f, ver |-> row[i].ver + 1]]
       /\ ForgetOrReturn(r, i, answer)
    /\ prof' = [prof EXCEPT ![r] = None]
    /\ UNCHANGED <<born, held, status, of, cache, idle, lockVars, lost>>

\* The egress guard refuses, or the encryption or the store fails before the
\* row is written: Forget is not reached.
UpdateFails(r) ==
    /\ pc[r] = "write"
    /\ pc' = [pc EXCEPT ![r] = "idle"]
    /\ prof' = [prof EXCEPT ![r] = None]
    /\ UNCHANGED <<storeVars, target, held, status, of, cache, idle, lockVars, history>>

\* apiDeleteConnection: DELETE by id without reading the row, which is no
\* error for an id that is already gone.  A DELETE that fails without effect
\* ends the request as it began.
Delete(r, i, answer) ==
    /\ pc[r] = "idle"
    /\ row' = [row EXCEPT ![i] = None]
    /\ ForgetOrReturn(r, i, answer)
    /\ UNCHANGED <<born, prof, held, status, of, cache, idle, lockVars, lost>>

\* apiReencrypt rewrites the ciphertext of a connection it has listed, which may
\* be gone by now; Forget follows.  (What the password becomes: Credentials.)
Reencrypt(r, i) ==
    /\ pc[r] = "idle"
    /\ i \in born
    /\ target' = [target EXCEPT ![r] = i]
    /\ pc' = [pc EXCEPT ![r] = "forget"]
    /\ UNCHANGED <<storeVars, prof, held, status, of, cache, idle, lockVars, history>>

-----------------------------------------------------------------------------
(* Registry.PG, MySQL, SQLite, Redis and Mongo: one shape, five maps.      *)

\* Fault: one map for all families, so a kind change finds the old pool.
LookupAnyFamily(r) ==
    /\ pc[r] = "have"
    /\ mu[Home[r]] = None
    /\ \/ \E s \in Slots :
            /\ s[1] = Home[r] /\ s[3] = prof[r].id /\ cache[s] # None
            /\ held' = [held EXCEPT ![r] = cache[s]]
            /\ idle' = idle \ {s}
            /\ pc' = [pc EXCEPT ![r] = "got"]
       \/ /\ \A s \in Slots : s[1] = Home[r] /\ s[3] = prof[r].id => cache[s] = None
          /\ pc' = [pc EXCEPT ![r] = "dial"]
          /\ UNCHANGED <<held, idle>>
    /\ UNCHANGED <<storeVars, target, prof, status, of, cache, lockVars, history>>

\* The first critical section: a hit refreshes lastUsed and returns the pool.
Lookup(r) ==
    /\ pc[r] = "have"
    /\ mu[Home[r]] = None
    /\ LET s == SlotOf(r) IN
       \/ /\ cache[s] # None
          /\ held' = [held EXCEPT ![r] = cache[s]]
          /\ idle' = idle \ {s}
          /\ pc' = [pc EXCEPT ![r] = "got"]
       \/ /\ cache[s] = None
          /\ pc' = [pc EXCEPT ![r] = "dial"]
          /\ UNCHANGED <<held, idle>>
    /\ UNCHANGED <<storeVars, target, prof, status, of, cache, lockVars, history>>

\* Outside the mutex: decrypt the password, build the DSN, open a pool.
Dial(r) ==
    /\ pc[r] = "dial"
    /\ \E p \in Pools :
         /\ Free(p)
         /\ held' = [held EXCEPT ![r] = p]
         /\ status' = [status EXCEPT ![p] = "dialled"]
         /\ of' = [of EXCEPT ![p] = prof[r]]
         /\ orphan' = orphan \ {p}
         /\ lost' = lost \ {p}
    /\ pc' = [pc EXCEPT ![r] = "ping"]
    /\ UNCHANGED <<storeVars, target, prof, cache, idle, lockVars, overtaken>>

\* The password does not decrypt, or the driver refuses the DSN.
DialFails(r) ==
    /\ pc[r] = "dial"
    /\ pc' = [pc EXCEPT ![r] = "idle"]
    /\ prof' = [prof EXCEPT ![r] = None]
    /\ UNCHANGED <<storeVars, target, held, status, of, cache, idle, lockVars, history>>

Ping(r) ==
    /\ pc[r] = "ping"
    /\ status' = [status EXCEPT ![held[r]] = "open"]
    /\ pc' = [pc EXCEPT ![r] = "insert"]
    /\ UNCHANGED <<storeVars, target, prof, held, of, cache, idle, lockVars, history>>

\* Fault: the ping's error is returned without closing the pool.
PingFailsKeeps(r) ==
    /\ pc[r] = "ping"
    /\ status' = [status EXCEPT ![held[r]] = "open"]
    /\ held' = [held EXCEPT ![r] = None]
    /\ pc' = [pc EXCEPT ![r] = "idle"]
    /\ prof' = [prof EXCEPT ![r] = None]
    /\ UNCHANGED <<storeVars, target, of, cache, idle, lockVars, history>>

\* Fault: the ping's error is ignored and the pool goes on to the cache.
PingFailsIgnored(r) ==
    /\ pc[r] = "ping"
    /\ pc' = [pc EXCEPT ![r] = "insert"]
    /\ UNCHANGED <<storeVars, target, prof, held, status, of, cache, idle, lockVars, history>>

\* The target does not answer: the fresh pool is closed, the error returned.
PingFails(r) ==
    /\ pc[r] = "ping"
    /\ status' = [status EXCEPT ![held[r]] = "closed"]
    /\ held' = [held EXCEPT ![r] = None]
    /\ pc' = [pc EXCEPT ![r] = "idle"]
    /\ prof' = [prof EXCEPT ![r] = None]
    /\ UNCHANGED <<storeVars, target, of, cache, idle, lockVars, history>>

\* The second critical section stores the pool without looking again: an
\* entry another request made meanwhile is overwritten, not closed.
Insert(r) ==
    /\ pc[r] = "insert"
    /\ mu[Home[r]] = None
    /\ LET s == SlotOf(r) IN
       /\ cache' = [cache EXCEPT ![s] = held[r]]
       /\ idle' = idle \ {s}
       /\ lost' = IF cache[s] = None THEN lost ELSE lost \cup {cache[s]}
    /\ orphan' = IF r \in overtaken THEN orphan \cup {held[r]} ELSE orphan
    /\ pc' = [pc EXCEPT ![r] = "got"]
    /\ UNCHANGED <<storeVars, target, prof, held, status, of, lockVars, overtaken>>

-----------------------------------------------------------------------------
(* The handler works on the pool it was given.                             *)

Acquire(r) ==
    /\ pc[r] = "got"
    /\ status[held[r]] = "open"
    /\ pc' = [pc EXCEPT ![r] = "using"]
    /\ UNCHANGED <<storeVars, target, prof, held, status, of, cache, idle, lockVars, history>>

\* No connection is had: the pool was closed since, or the request gave up.
AcquireFails(r) ==
    /\ pc[r] = "got"
    /\ pc' = [pc EXCEPT ![r] = "idle"]
    /\ prof' = [prof EXCEPT ![r] = None]
    /\ held' = [held EXCEPT ![r] = None]
    /\ UNCHANGED <<storeVars, target, status, of, cache, idle, lockVars, history>>

\* Fault: lastUsed is refreshed under the mutex before the connection is released.
ReleaseLocked(r) ==
    /\ pc[r] = "using"
    /\ mu[Home[r]] = None
    /\ pc' = [pc EXCEPT ![r] = "idle"]
    /\ prof' = [prof EXCEPT ![r] = None]
    /\ held' = [held EXCEPT ![r] = None]
    /\ UNCHANGED <<storeVars, target, status, of, cache, idle, lockVars, history>>

\* The statement ends and its connection goes back, without the registry.
Release(r) ==
    /\ pc[r] = "using"
    /\ pc' = [pc EXCEPT ![r] = "idle"]
    /\ prof' = [prof EXCEPT ![r] = None]
    /\ held' = [held EXCEPT ![r] = None]
    /\ UNCHANGED <<storeVars, target, status, of, cache, idle, lockVars, history>>

-----------------------------------------------------------------------------
(* Forget and the janitor: both hold mu while they close pools.            *)

\* Fault: Forget visits only the map of the family the row has now.
ForgetLockOneFamily(r) ==
    /\ pc[r] = "forget"
    /\ LET x == Home[r]
           i == target[r]
       IN /\ mu[x] = None
          /\ mu' = [mu EXCEPT ![x] = r]
          /\ todo' = [todo EXCEPT ![x] = {s \in Slots : /\ s[1] = x /\ s[3] = i
                                                        /\ cache[s] # None
                                                        /\ row[i] # None => s[2] = row[i].fam}]
          /\ overtaken' = overtaken \cup
                {q \in Requests : pc[q] \in InFlight /\ prof[q].id = i /\ Home[q] = x}
    /\ pc' = [pc EXCEPT ![r] = "closing"]
    /\ UNCHANGED <<storeVars, target, prof, held, status, of, cache, idle, orphan, lost>>

\* Forget(id) takes mu and visits id's entry in each of the five maps.
ForgetLock(r) ==
    /\ pc[r] = "forget"
    /\ LET x == Home[r]
           i == target[r]
       IN /\ mu[x] = None
          /\ mu' = [mu EXCEPT ![x] = r]
          /\ todo' = [todo EXCEPT ![x] = {s \in Slots : /\ s[1] = x /\ s[3] = i
                                                        /\ cache[s] # None}]
          /\ overtaken' = overtaken \cup
                {q \in Requests : pc[q] \in InFlight /\ prof[q].id = i /\ Home[q] = x}
    /\ pc' = [pc EXCEPT ![r] = "closing"]
    /\ UNCHANGED <<storeVars, target, prof, held, status, of, cache, idle, orphan, lost>>

\* Fault: the sweep goes over the saved connections instead of the maps.
JanitorTickSaved(x) ==
    /\ mu[x] = None
    /\ mu' = [mu EXCEPT ![x] = Janitor]
    /\ todo' = [todo EXCEPT ![x] = {s \in idle : s[1] = x /\ row[s[3]] # None}]
    /\ UNCHANGED <<storeVars, target, pc, prof, held, status, of, cache, idle, history>>

\* The ticker fires: with mu held, now is read and the idle entries are known.
JanitorTick(x) ==
    /\ mu[x] = None
    /\ mu' = [mu EXCEPT ![x] = Janitor]
    /\ todo' = [todo EXCEPT ![x] = {s \in idle : s[1] = x}]
    /\ UNCHANGED <<storeVars, target, pc, prof, held, status, of, cache, idle, history>>

\* The maps are visited in order, the keys of one map in any order.
NextToClose(x, s) ==
    /\ s \in todo[x]
    /\ \A t \in todo[x] : Rank(s[2]) <= Rank(t[2])

\* Close is called: from here on the pool refuses to be acquired.
CloseBegin(x, s) ==
    /\ mu[x] # None
    /\ NextToClose(x, s)
    /\ status[cache[s]] = "open"
    /\ status' = [status EXCEPT ![cache[s]] = "closed"]
    /\ UNCHANGED <<storeVars, target, pc, prof, held, of, cache, idle, lockVars, history>>

\* Close returns and the entry is deleted.
CloseEnd(x, s) ==
    /\ mu[x] # None
    /\ NextToClose(x, s)
    /\ status[cache[s]] = "closed"
    /\ CloseWaits(s[2]) => Users(cache[s]) = {}
    /\ cache' = [cache EXCEPT ![s] = None]
    /\ idle' = idle \ {s}
    /\ todo' = [todo EXCEPT ![x] = @ \ {s}]
    /\ UNCHANGED <<storeVars, target, pc, prof, held, status, of, mu, history>>

\* Forget returns (deferred Unlock): audit row and response end the request.
ForgetUnlock(r) ==
    /\ pc[r] = "closing"
    /\ todo[Home[r]] = {}
    /\ mu' = [mu EXCEPT ![Home[r]] = None]
    /\ pc' = [pc EXCEPT ![r] = "idle"]
    /\ target' = [target EXCEPT ![r] = None]
    /\ UNCHANGED <<storeVars, prof, held, status, of, cache, idle, todo, history>>

JanitorUnlock(x) ==
    /\ mu[x] = Janitor
    /\ todo[x] = {}
    /\ mu' = [mu EXCEPT ![x] = None]
    /\ UNCHANGED <<storeVars, target, pc, prof, held, status, of, cache, idle, todo, history>>

\* More than idleTTL passes since lastUsed of the entry was set.
GrowIdle(s) ==
    /\ cache[s] # None
    /\ s \notin idle
    /\ idle' = idle \cup {s}
    /\ UNCHANGED <<storeVars, target, pc, prof, held, status, of, cache, lockVars, history>>

-----------------------------------------------------------------------------

MetadataStep ==
    \/ \E i \in Ids, f \in Families : Create(i, f)
    \/ \E r \in Requests, i \in Ids : Read(r, i, "have") \/ Read(r, i, "write")
    \/ \E r \in Requests, f \in Families, answer \in Answers : Update(r, f, answer)
    \/ \E r \in Requests : UpdateFails(r)
    \/ \E r \in Requests, i \in Ids, answer \in Answers : Delete(r, i, answer)
    \/ \E r \in Requests, i \in Ids : Reencrypt(r, i)

PoolStep(r) ==
    \/ Lookup(r)  \/ Dial(r) \/ DialFails(r) \/ Ping(r) \/ PingFails(r)
    \/ Insert(r)  \/ Acquire(r) \/ AcquireFails(r) \/ Release(r)
    \/ ForgetLock(r) \/ ForgetUnlock(r)

LockStep(x) ==
    \/ JanitorTick(x)
    \/ JanitorUnlock(x)
    \/ \E s \in Slots : CloseBegin(x, s) \/ CloseEnd(x, s)

Next ==
    \/ MetadataStep
    \/ \E r \in Requests : PoolStep(r)
    \/ \E x \in Replicas : LockStep(x)
    \/ \E s \in Slots : GrowIdle(s)

Spec == Init /\ [][Next]_vars

(***************************************************************************)
(* Fairness.  A goroutine that can go on does; targets answer or time out, *)
(* statements end (statement_timeout, request contexts); time passes, so   *)
(* the ticker fires again and again; sync.Mutex is starvation free, so a   *)
(* waiter for mu gets it although others take it too.                      *)
(***************************************************************************)
Proceed(r) ==
    \/ UpdateFails(r) \/ \E f \in Families, answer \in Answers : Update(r, f, answer)
    \/ Dial(r) \/ DialFails(r) \/ Ping(r) \/ PingFails(r)
    \/ Acquire(r) \/ AcquireFails(r) \/ Release(r) \/ ForgetUnlock(r)

Fairness ==
    /\ \A r \in Requests :
         /\ WF_vars(Proceed(r))
         /\ SF_vars(Lookup(r) \/ Insert(r) \/ ForgetLock(r))
    /\ \A x \in Replicas :
         /\ SF_vars(JanitorTick(x))
         /\ WF_vars(JanitorUnlock(x) \/ \E s \in Slots : CloseBegin(x, s) \/ CloseEnd(x, s))

FairSpec == Spec /\ Fairness

-----------------------------------------------------------------------------
(* Properties                                                              *)

\* The types of the store's rows, the requests' locals and the registries' maps.
TypeOK ==
    /\ row \in [Ids -> Profiles \cup {None}]
    /\ born \subseteq Ids
    /\ pc \in [Requests -> Phases]
    /\ prof \in [Requests -> Profiles \cup {None}]
    /\ target \in [Requests -> Ids \cup {None}]
    /\ held \in [Requests -> Pools \cup {None}]
    /\ status \in [Pools -> {"dialled", "open", "closed"}]
    /\ of \in [Pools -> Profiles \cup {None}]
    /\ cache \in [Slots -> Pools \cup {None}]
    /\ idle \subseteq Slots
    /\ mu \in [Replicas -> Requests \cup {Janitor, None}]
    /\ todo \in [Replicas -> SUBSET Slots]
    /\ overtaken \subseteq Requests
    /\ orphan \subseteq Pools
    /\ lost \subseteq Pools

\* Whenever a registry's mutex is free, so whenever a lookup can happen, every
\* pool in its maps has answered its ping and is not closed, whatever dials,
\* Forgets and sweeps came before (architecture.md: a broken connection is
\* never cached).
ServableOpen ==
    \A s \in Slots : cache[s] # None /\ mu[s[1]] = None => status[cache[s]] = "open"

\* A request never works on a pool of another saved connection or of another
\* engine family, even when the connection's kind is edited under it.
GetsItsOwnPool ==
    \A r \in Requests : pc[r] \in {"got", "using"} =>
        /\ of[held[r]] # None
        /\ of[held[r]].id = prof[r].id
        /\ of[held[r]].fam = prof[r].fam

\* Every open pool can still be closed by someone: it is in a map, or with the
\* request about to put it there.  The one exception is a pool whose entry a
\* second, overlapping dial of the same connection overwrote.
Accounted ==
    \A p \in Pools : status[p] # "closed" =>
        \/ Cached(p)
        \/ \E r \in Requests : held[r] = p /\ pc[r] \in {"ping", "insert"}
        \/ p \in lost

\* A Forget of the slot is still to come, or is running and will drop it.
ForgetPending(s) ==
    \E r \in Requests :
        /\ Home[r] = s[1]
        /\ target[r] = s[3]
        /\ pc[r] = "forget" \/ (pc[r] = "closing" /\ s \in todo[s[1]])

\* A cached pool is out of date with its row (edited or deleted since) only
\* while the Forget of that write is outstanding, or if the pool escaped it: its
\* dial was in flight when Forget ran, it belongs to another replica, or the
\* write took effect but its call returned an error, so that the handler never
\* ran Forget.  Forget drops every map, so this covers edits of the kind.
StaleOnlyIfEscaped ==
    \A s \in Slots :
        cache[s] # None /\ of[cache[s]] # row[s[3]] =>
            ForgetPending(s) \/ cache[s] \in orphan

\* What architecture.md promises of Forget: once it has run for every write,
\* the next request dials with fresh state, so no cached pool of a connection
\* that still exists is out of date.
FreshOnceForgotten ==
    \A s \in Slots :
        cache[s] # None /\ row[s[3]] \notin {None, of[cache[s]]} =>
            \E r \in Requests : target[r] = s[3] /\ pc[r] \in {"forget", "closing"}

\* Every request ends, although Forget and the janitor keep the mutex while
\* they wait for the users of a Postgres pool.
RequestsEnd ==
    \A r \in Requests : pc[r] # "idle" ~> pc[r] = "idle"

\* An entry that stays unused past idleTTL is closed and dropped, or used again.
IdleEntriesGo ==
    \A s \in Slots : s \in idle ~> s \notin idle
====
