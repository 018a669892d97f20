----------------------------- MODULE RateLimit -----------------------------
(***************************************************************************)
(* The in-process rate limiter (internal/web/ratelimit.go): fixed windows  *)
(* per client key, a table of bounded size, and a pruner.                  *)
(*                                                                         *)
(* allow() reads the clock before it waits for the mutex, so requests are  *)
(* counted with timestamps that are out of order and late.                 *)
(***************************************************************************)
EXTENDS Integers, FiniteSets

CONSTANTS
    Clients,    \* keys: client addresses or user emails
    Requests,   \* HTTP requests (goroutines)
    Max,        \* requests per window (rateLimiter.max)
    Period,     \* length of a window (rateLimiter.period)
    MaxKeys,    \* size of the table (maxRateKeys)
    MaxLag,     \* bound: how long a request waits for the mutex
    MaxClock,   \* bound: the clock
    None        \* no entry

ASSUME LimiterAssumption ==
    /\ {Max, Period, MaxKeys} \subseteq Nat \ {0}
    /\ {MaxLag, MaxClock} \subseteq Nat
    /\ IsFiniteSet(Clients)

Times == 0..MaxClock

Windows == [count : 1..Max, reset : 0..(MaxClock + Period)]

ASSUME NoneAssumption == None \notin Windows \cup Clients \cup Int

VARIABLES
    clock,      \* the time
    hits,       \* the table: hits[k] is a window, or None
    key,        \* the client of a request waiting for the mutex, or None
    at,         \* the time such a request has read
    \* History, for the properties only:
    grants,     \* grants[k]: requests let through, numbered, with their times
    opened      \* opened[k]: when k's latest window was opened, or None

vars == <<clock, hits, key, at, grants, opened>>

Tracked(h) == {k \in Clients : h[k] # None}

Expired(w, now) == now > w.reset

\* The loops of prune and of a full table: delete what has expired.
Sweep(now) ==
    [k \in Clients |-> IF hits[k] # None /\ Expired(hits[k], now) THEN None ELSE hits[k]]

\* hits[key] exists and is not expired as of the time the request has read.
Live(r) == hits[key[r]] # None /\ ~Expired(hits[key[r]], at[r])

\* The request passes on to the next handler.
Granted(k) ==
    grants' = [grants EXCEPT ![k] = @ \cup {[time |-> clock, n |-> Cardinality(@) + 1]}]

Leaves(r) ==
    /\ key' = [key EXCEPT ![r] = None]
    /\ UNCHANGED <<clock, at>>

Init ==
    /\ clock = 0
    /\ hits = [k \in Clients |-> None]
    /\ key = [r \in Requests |-> None]
    /\ at = [r \in Requests |-> 0]
    /\ grants = [k \in Clients |-> {}]
    /\ opened = [k \in Clients |-> None]

-----------------------------------------------------------------------------

\* allow, before the mutex: now is read.
Arrive(r, k) ==
    /\ key[r] = None
    /\ key' = [key EXCEPT ![r] = k]
    /\ at' = [at EXCEPT ![r] = clock]
    /\ UNCHANGED <<clock, hits, grants, opened>>

\* Fault: the comparison lets one more request through.
CountOneMore(r) ==
    /\ key[r] # None
    /\ Live(r)
    /\ hits[key[r]].count <= Max
    /\ hits' = [hits EXCEPT ![key[r]].count = @ + 1]
    /\ Granted(key[r])
    /\ Leaves(r)
    /\ UNCHANGED opened

\* A live window with room.
Count(r) ==
    /\ key[r] # None
    /\ Live(r)
    /\ hits[key[r]].count < Max
    /\ hits' = [hits EXCEPT ![key[r]].count = @ + 1]
    /\ Granted(key[r])
    /\ Leaves(r)
    /\ UNCHANGED opened

\* Fault: a full window is not given up when it expires.
RefuseExpired(r) ==
    /\ key[r] # None
    /\ hits[key[r]] # None
    /\ hits[key[r]].count >= Max
    /\ Leaves(r)
    /\ UNCHANGED <<hits, grants, opened>>

\* A live window that is used up: 429.
Refuse(r) ==
    /\ key[r] # None
    /\ Live(r)
    /\ hits[key[r]].count >= Max
    /\ Leaves(r)
    /\ UNCHANGED <<hits, grants, opened>>

\* A full table is swept before a key that is not in it is added.
MustSweep(k) == hits[k] = None /\ Cardinality(Tracked(hits)) >= MaxKeys

Swept(r) == IF MustSweep(key[r]) THEN Sweep(at[r]) ELSE hits

\* Fault: a full table is swept but the key is added in any case.
OpenAnyway(r) ==
    /\ key[r] # None
    /\ ~Live(r)
    /\ LET k == key[r] IN
       /\ hits' = [Swept(r) EXCEPT ![k] = [count |-> 1, reset |-> at[r] + Period]]
       /\ opened' = [opened EXCEPT ![k] = clock]
       /\ Granted(k)
    /\ Leaves(r)

\* Fault: the new window ends one tick early.
OpenShort(r) ==
    /\ key[r] # None
    /\ ~Live(r)
    /\ MustSweep(key[r]) => Cardinality(Tracked(Swept(r))) < MaxKeys
    /\ LET k == key[r] IN
       /\ hits' = [Swept(r) EXCEPT ![k] = [count |-> 1, reset |-> at[r] + Period - 1]]
       /\ opened' = [opened EXCEPT ![k] = clock]
       /\ Granted(k)
    /\ Leaves(r)

\* No window, or an expired one: a new window counted from the time read.
Open(r) ==
    /\ key[r] # None
    /\ ~Live(r)
    /\ MustSweep(key[r]) => Cardinality(Tracked(Swept(r))) < MaxKeys
    /\ LET k == key[r] IN
       /\ hits' = [Swept(r) EXCEPT ![k] = [count |-> 1, reset |-> at[r] + Period]]
       /\ opened' = [opened EXCEPT ![k] = clock]
       /\ Granted(k)
    /\ Leaves(r)

\* Still full after the sweep: 429.
RefuseFull(r) ==
    /\ key[r] # None
    /\ MustSweep(key[r])
    /\ Cardinality(Tracked(Sweep(at[r]))) >= MaxKeys
    /\ hits' = Sweep(at[r])
    /\ Leaves(r)
    /\ UNCHANGED <<grants, opened>>

\* The ticker of prune: now is read with the mutex held.
Prune ==
    /\ hits' = Sweep(clock)
    /\ UNCHANGED <<clock, key, at, grants, opened>>

\* Time passes; nobody waits for the mutex longer than MaxLag.
Tick ==
    /\ clock < MaxClock
    /\ \A r \in Requests : key[r] # None => clock < at[r] + MaxLag
    /\ clock' = clock + 1
    /\ UNCHANGED <<hits, key, at, grants, opened>>

Next ==
    \/ \E r \in Requests, k \in Clients : Arrive(r, k)
    \/ \E r \in Requests : Count(r) \/ Refuse(r) \/ Open(r) \/ RefuseFull(r)
    \/ Prune
    \/ Tick

Spec == Init /\ [][Next]_vars

-----------------------------------------------------------------------------
(* Properties                                                              *)

\* The types of the table, the waiting requests and the history.
TypeOK ==
    /\ clock \in Times
    /\ hits \in [Clients -> Windows \cup {None}]
    /\ key \in [Requests -> Clients \cup {None}]
    /\ at \in [Requests -> Times]
    /\ opened \in [Clients -> Times \cup {None}]

\* The table never holds more than maxRateKeys windows, whatever keys arrive.
TableBounded == Cardinality(Tracked(hits)) <= MaxKeys

\* Two windows of one client are opened more than Period - MaxLag apart, even
\* when a request that read the clock before another one opens after it, and
\* even across a prune.
WindowsApart ==
    [][\A r \in Requests :
         Open(r) /\ opened[key[r]] # None
            => clock > opened[key[r]] + Period - MaxLag]_vars

GrantsIn(k, from, to) == {g \in grants[k] : g.time \in from..to}

\* No stretch of Period instants sees more grants to a client than the fixed
\* windows that can touch it allow: two, and more only if waiting for the mutex
\* makes up for the difference.
BurstBound ==
    \A k \in Clients, t \in Times :
        Cardinality(GrantsIn(k, t, t + Period - 1))
            <= Max * (2 + (Period - 1) \div (Period + 1 - MaxLag))

\* The clients whose window still runs at the time now.
Running(now) == {k \in Clients : hits[k] # None /\ ~Expired(hits[k], now)}

\* A request is refused only if its client had Max requests let through within
\* the Period before it, or if the table is full of other clients' windows that
\* still run: expired ones never keep a new client out.
RefusedOnlyIfSpent ==
    [][\A r \in Requests :
         key[r] # None /\ key'[r] = None /\ grants' = grants =>
            \/ Cardinality(GrantsIn(key[r], at[r] - Period, clock)) >= Max
            \/ hits[key[r]] = None /\ Cardinality(Running(at[r])) >= MaxKeys]_vars
====
