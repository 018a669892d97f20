-------------------------- MODULE RateLimit_proofs --------------------------
(***************************************************************************)
(* Proofs that the limiter's table stays bounded, that a client's windows  *)
(* stay apart and its bursts bounded, and that refusals are earned, for    *)
(* any number of clients and requests and any limits.                      *)
(***************************************************************************)
EXTENDS RateLimit, FiniteSetTheorems, TLAPS

\* A waiting request read the clock at most MaxLag ago.
ReadLately ==
    \A r \in Requests : key[r] # None => at[r] <= clock /\ clock <= at[r] + MaxLag

\* A window ends no earlier than Period - MaxLag after it was opened, and it is
\* not deleted before its end.
EndsLate ==
    \A k \in Clients :
        /\ hits[k] # None => opened[k] # None /\ hits[k].reset >= opened[k] + Period - MaxLag
        /\ hits[k] = None /\ opened[k] # None => clock > opened[k] + Period - MaxLag

IInv == TypeOK /\ ReadLately /\ EndsLate /\ TableBounded

\* Tables are finite, and a table with fewer entries has no more of them.
LEMMA TableSize ==
  /\ \A h : IsFiniteSet(Tracked(h)) /\ Cardinality(Tracked(h)) \in Nat
  /\ \A h, g : Tracked(g) \subseteq Tracked(h) => Cardinality(Tracked(g)) <= Cardinality(Tracked(h))
  <1>1. \A h : IsFiniteSet(Tracked(h))
    BY LimiterAssumption, FS_Subset DEF Tracked
  <1> QED BY <1>1, FS_Subset, FS_CardinalityType

\* Sweeping with a time that has been reached deletes only what has ended.
LEMMA Sweeping ==
  ASSUME IInv, NEW now \in Times, now <= clock
  PROVE  /\ Sweep(now) \in [Clients -> Windows \cup {None}]
         /\ \A k \in Clients : Sweep(now)[k] = hits[k]
                 \/ (Sweep(now)[k] = None /\ hits[k] # None /\ hits[k].reset < now)
         /\ Cardinality(Tracked(Sweep(now))) <= MaxKeys
  <1>1. Sweep(now) \in [Clients -> Windows \cup {None}]
    BY DEF IInv, TypeOK, Sweep
  <1>2. \A k \in Clients : Sweep(now)[k] = hits[k]
                 \/ (Sweep(now)[k] = None /\ hits[k] # None /\ hits[k].reset < now)
    BY LimiterAssumption DEF IInv, TypeOK, Sweep, Expired, Windows, Times
  <1>3. Tracked(Sweep(now)) \subseteq Tracked(hits)
    BY <1>2 DEF Tracked
  <1>4. Cardinality(Tracked(Sweep(now))) <= Cardinality(Tracked(hits))
    BY <1>3, TableSize
  <1> QED BY <1>1, <1>2, <1>4, TableSize, LimiterAssumption DEF IInv, TableBounded

\* Opening a window leaves the table within its bound.
LEMMA OpenBounded == ASSUME IInv, NEW r \in Requests, Open(r) PROVE TableBounded'
  <1> DEFINE k == key[r]
             h == Swept(r)
  <1> USE LimiterAssumption, NoneAssumption DEF IInv, TypeOK
  <1>1. k \in Clients /\ at[r] \in Times /\ at[r] <= clock
    BY DEF Open, ReadLately
  <1>2. h \in [Clients -> Windows \cup {None}]
    BY <1>1, Sweeping DEF Swept
  <1>3. hits' = [h EXCEPT ![k] = [count |-> 1, reset |-> at[r] + Period]]
    BY DEF Open
  <1>4. [count |-> 1, reset |-> at[r] + Period] # None
    BY <1>1 DEF Windows, Times
  <1> HIDE DEF h
  <1>5. Tracked(hits') = Tracked(h) \cup {k}
    BY <1>1, <1>2, <1>3, <1>4 DEF Tracked
  <1>6. CASE k \in Tracked(h)
    <2>1. Tracked(hits') = Tracked(h)
      BY <1>5, <1>6
    <2>2. Cardinality(Tracked(h)) <= MaxKeys
      BY <1>1, Sweeping DEF h, Swept, TableBounded
    <2> QED BY <2>1, <2>2 DEF TableBounded
  <1>7. CASE k \notin Tracked(h)
    <2>1. Cardinality(Tracked(hits')) = Cardinality(Tracked(h)) + 1
      BY <1>5, <1>7, TableSize, FS_AddElement
    <2>2. Cardinality(Tracked(h)) < MaxKeys
      <3>1. CASE MustSweep(k)
        BY <3>1 DEF Open, h
      <3>2. CASE ~MustSweep(k)
        <4>1. h = hits /\ hits[k] = None
          BY <1>1, <1>7, <3>2 DEF h, Swept, Tracked
        <4> QED BY <3>2, <4>1, TableSize DEF MustSweep
      <3> QED BY <3>1, <3>2
    <2> QED BY <2>1, <2>2, TableSize DEF TableBounded
  <1> QED BY <1>6, <1>7

\* No step of a request, the pruner or the clock breaks the invariant.
LEMMA Step == ASSUME IInv, Next PROVE IInv'
  <1> USE LimiterAssumption, NoneAssumption DEF IInv
  <1>1. ASSUME NEW r \in Requests, NEW k \in Clients, Arrive(r, k) PROVE IInv'
    <2> USE <1>1 DEF Arrive
    <2>1. TypeOK'
      BY DEF TypeOK
    <2>2. ReadLately'
      BY DEF ReadLately, TypeOK, Times
    <2> QED BY <2>1, <2>2 DEF EndsLate, TableBounded, Tracked
  <1>2. ASSUME NEW r \in Requests, Count(r) PROVE IInv'
    <2> USE <1>2 DEF Count, Leaves, Live
    <2>1. key[r] \in Clients /\ hits[key[r]] \in Windows
      BY DEF TypeOK
    <2>2. /\ hits' \in [Clients -> Windows \cup {None}]
          /\ \A k \in Clients : /\ (hits'[k] = None) <=> (hits[k] = None)
                                /\ hits[k] # None => hits'[k].reset = hits[k].reset
      BY <2>1 DEF TypeOK, Windows
    <2>3. TypeOK'
      BY <2>2 DEF TypeOK
    <2>4. ReadLately'
      BY DEF ReadLately, TypeOK
    <2>5. EndsLate'
      BY <2>2 DEF EndsLate
    <2>6. Tracked(hits') = Tracked(hits)
      BY <2>2 DEF Tracked
    <2> QED BY <2>3, <2>4, <2>5, <2>6 DEF TableBounded
  <1>3. ASSUME NEW r \in Requests, Refuse(r) PROVE IInv'
    <2> USE <1>3 DEF Refuse, Leaves
    <2>1. TypeOK'
      BY DEF TypeOK
    <2>2. ReadLately'
      BY DEF ReadLately, TypeOK
    <2> QED BY <2>1, <2>2 DEF EndsLate, TableBounded, Tracked
  <1>4. ASSUME NEW r \in Requests, Open(r) PROVE IInv'
    <2> DEFINE k == key[r]
               h == Swept(r)
               w == [count |-> 1, reset |-> at[r] + Period]
    <2>1. /\ k \in Clients /\ at[r] \in Times /\ clock \in Times
          /\ at[r] <= clock /\ clock <= at[r] + MaxLag
      BY <1>4 DEF Open, ReadLately, TypeOK
    <2>2. /\ h \in [Clients -> Windows \cup {None}]
          /\ \A j \in Clients : h[j] = hits[j]
                 \/ (h[j] = None /\ hits[j] # None /\ hits[j].reset < at[r])
      BY <2>1, Sweeping DEF Swept, TypeOK
    <2>3. w \in Windows
      BY <2>1 DEF Windows, Times
    <2>4. /\ hits' = [h EXCEPT ![k] = w]
          /\ opened' = [opened EXCEPT ![k] = clock]
          /\ key' = [key EXCEPT ![r] = None]
          /\ UNCHANGED <<clock, at>>
      BY <1>4 DEF Open, Leaves
    <2> HIDE DEF h
    <2>5. TypeOK'
      BY <2>1, <2>2, <2>3, <2>4 DEF TypeOK
    <2>6. ReadLately'
      BY <2>4 DEF ReadLately, TypeOK
    <2>7. EndsLate'
      <3> SUFFICES ASSUME NEW j \in Clients
                   PROVE  /\ hits'[j] # None => /\ opened'[j] # None
                                                /\ hits'[j].reset >= opened'[j] + Period - MaxLag
                          /\ hits'[j] = None /\ opened'[j] # None
                                => clock' > opened'[j] + Period - MaxLag
        BY DEF EndsLate
      <3>1. CASE j = k
        BY <2>1, <2>2, <2>3, <2>4, <3>1 DEF TypeOK, Times
      <3>2. CASE j # k
        <4>1. hits'[j] = h[j] /\ opened'[j] = opened[j] /\ clock' = clock
          BY <2>2, <2>4, <3>2 DEF TypeOK
        <4> QED BY <2>1, <2>2, <4>1 DEF EndsLate, TypeOK, Times, Windows
      <3> QED BY <3>1, <3>2
    <2>8. TableBounded'
      BY <1>4, OpenBounded
    <2> QED BY <2>5, <2>6, <2>7, <2>8
  <1>5. ASSUME NEW r \in Requests, RefuseFull(r) PROVE IInv'
    <2>1. /\ hits' = Sweep(at[r])
          /\ key' = [key EXCEPT ![r] = None]
          /\ UNCHANGED <<clock, at, opened>>
      BY <1>5 DEF RefuseFull, Leaves
    <2>2. at[r] \in Times /\ clock \in Times /\ at[r] <= clock
      BY <1>5 DEF RefuseFull, ReadLately, TypeOK
    <2>3. /\ hits' \in [Clients -> Windows \cup {None}]
          /\ \A k \in Clients : hits'[k] = hits[k]
                 \/ (hits'[k] = None /\ hits[k] # None /\ hits[k].reset < at[r])
          /\ TableBounded'
      BY <2>1, <2>2, Sweeping DEF TableBounded
    <2>4. TypeOK'
      BY <2>1, <2>3 DEF TypeOK
    <2>5. ReadLately'
      BY <2>1 DEF ReadLately, TypeOK
    <2>6. EndsLate'
      BY <2>1, <2>2, <2>3 DEF EndsLate, TypeOK, Times, Windows
    <2> QED BY <2>3, <2>4, <2>5, <2>6
  <1>6. ASSUME Prune PROVE IInv'
    <2>1. hits' = Sweep(clock) /\ UNCHANGED <<clock, key, at, opened>>
      BY <1>6 DEF Prune
    <2>2. clock \in Times /\ clock <= clock
      BY DEF TypeOK, Times
    <2>3. /\ hits' \in [Clients -> Windows \cup {None}]
          /\ \A k \in Clients : hits'[k] = hits[k]
                 \/ (hits'[k] = None /\ hits[k] # None /\ hits[k].reset < clock)
          /\ TableBounded'
      BY <2>1, <2>2, Sweeping DEF TableBounded
    <2>4. TypeOK'
      BY <2>1, <2>3 DEF TypeOK
    <2>5. ReadLately'
      BY <2>1 DEF ReadLately
    <2>6. EndsLate'
      BY <2>1, <2>2, <2>3 DEF EndsLate, TypeOK, Times, Windows
    <2> QED BY <2>3, <2>4, <2>5, <2>6
  <1>7. ASSUME Tick PROVE IInv'
    <2> USE <1>7 DEF Tick
    <2>1. TypeOK'
      BY DEF TypeOK, Times
    <2>2. ReadLately'
      BY DEF ReadLately, TypeOK, Times
    <2>3. EndsLate'
      BY DEF EndsLate, TypeOK, Times
    <2> QED BY <2>1, <2>2, <2>3 DEF TableBounded, Tracked
  <1> QED BY <1>1, <1>2, <1>3, <1>4, <1>5, <1>6, <1>7 DEF Next

\* It holds in every reachable state.
LEMMA Inductive == Spec => []IInv
  <1>1. Init => IInv
    <2> SUFFICES ASSUME Init PROVE IInv
      OBVIOUS
    <2> USE LimiterAssumption, NoneAssumption DEF Init
    <2>1. TypeOK
      BY DEF TypeOK, Times
    <2>2. Tracked(hits) = {}
      BY DEF Tracked
    <2>3. TableBounded
      BY <2>2, FS_EmptySet DEF TableBounded
    <2> QED BY <2>1, <2>3 DEF IInv, ReadLately, EndsLate
  <1>2. IInv /\ UNCHANGED vars => IInv'
    BY DEF IInv, TypeOK, ReadLately, EndsLate, TableBounded, Tracked, vars
  <1>3. IInv /\ [Next]_vars => IInv'
    BY <1>2, Step
  <1> QED BY <1>1, <1>3, PTL DEF Spec

\* The table, the waiting requests and the clock keep their types.
THEOREM TypeCorrect == Spec => []TypeOK
  BY Inductive, PTL DEF IInv

\* No sequence of keys makes the table grow beyond maxRateKeys.
THEOREM TableStaysBounded == Spec => []TableBounded
  BY Inductive, PTL DEF IInv

\* A window opens only once the client's last one has ended.
LEMMA WindowOpens ==
  ASSUME IInv, NEW r \in Requests, Open(r), opened[key[r]] # None
  PROVE  clock > opened[key[r]] + Period - MaxLag
  <1> USE LimiterAssumption DEF IInv
  <1>1. key[r] \in Clients /\ at[r] <= clock
    BY DEF Open, ReadLately, TypeOK
  <1> QED BY <1>1 DEF Open, Live, Expired, EndsLate, TypeOK, Times, Windows

\* Reading the clock before taking the mutex costs at most the time waited: a
\* client's windows open more than Period - MaxLag apart.
THEOREM WindowsStayApart == Spec => WindowsApart
  <1>1. IInv /\ [Next]_vars
          => [\A r \in Requests : Open(r) /\ opened[key[r]] # None
                => clock > opened[key[r]] + Period - MaxLag]_vars
    BY WindowOpens
  <1> QED BY <1>1, Inductive, PTL DEF Spec, WindowsApart

-----------------------------------------------------------------------------
(* The history of a client: S is what was let through, h its window or     *)
(* None, o when the window was opened and c the clock.                     *)

Within(S, a, b) == {g \in S : g.time \in a..b}

\* Grants are in the past, and their numbers are in use.
Numbered(S, c) ==
    IsFiniteSet(S) /\ \A g \in S : g.time \in 0..c /\ g.n \in 1..Cardinality(S)

\* Each request counted in a window was let through after the time from which
\* the window counts.
Spent(S, h, c) ==
    h # None => /\ h.reset - Period \in 0..c
                /\ h.count <= Cardinality(Within(S, h.reset - Period, c))

\* Every client's history is in order.
SInv ==
    /\ IInv
    /\ grants \in [Clients -> SUBSET [time : Times, n : Nat]]
    /\ \A k \in Clients : Numbered(grants[k], clock) /\ Spent(grants[k], hits[k], clock)

\* A wider stretch holds no fewer grants.
LEMMA Wider ==
  ASSUME NEW S, IsFiniteSet(S), NEW a \in Int, NEW b \in Int, NEW c \in Int, NEW d \in Int,
         c <= a, b <= d, \A g \in S : g.time \in Int
  PROVE  /\ Cardinality(Within(S, a, b)) \in Nat
         /\ Cardinality(Within(S, a, b)) <= Cardinality(Within(S, c, d))
  <1>1. Within(S, a, b) \subseteq Within(S, c, d) /\ Within(S, c, d) \subseteq S
    BY DEF Within
  <1>2. IsFiniteSet(Within(S, c, d))
    BY <1>1, FS_Subset
  <1> QED BY <1>1, <1>2, FS_Subset, FS_CardinalityType

\* A new grant is one more in the stretches that hold its time, and in no other.
LEMMA OneMore ==
  ASSUME NEW S, NEW c \in Nat, Numbered(S, c),
         NEW g, g = [time |-> c, n |-> Cardinality(S) + 1]
  PROVE  /\ g \notin S
         /\ Numbered(S \cup {g}, c)
         /\ \A a, b \in Int :
              /\ c \in a..b => Cardinality(Within(S \cup {g}, a, b)) = Cardinality(Within(S, a, b)) + 1
              /\ c \notin a..b => Within(S \cup {g}, a, b) = Within(S, a, b)
  <1>1. IsFiniteSet(S) /\ Cardinality(S) \in Nat
    BY FS_CardinalityType DEF Numbered
  <1>2. g \notin S
    BY <1>1 DEF Numbered
  <1>3. IsFiniteSet(S \cup {g}) /\ Cardinality(S \cup {g}) = Cardinality(S) + 1
    BY <1>1, <1>2, FS_AddElement
  <1>4. Numbered(S \cup {g}, c)
    <2>1. ASSUME NEW x \in S \cup {g} PROVE x.time \in 0..c /\ x.n \in 1..(Cardinality(S) + 1)
      <3>1. CASE x \in S
        BY <1>1, <3>1 DEF Numbered
      <3>2. CASE x = g
        BY <1>1, <3>2
      <3> QED BY <3>1, <3>2
    <2> QED BY <1>3, <2>1 DEF Numbered
  <1>5. ASSUME NEW a \in Int, NEW b \in Int
        PROVE  /\ c \in a..b => Cardinality(Within(S \cup {g}, a, b)) = Cardinality(Within(S, a, b)) + 1
               /\ c \notin a..b => Within(S \cup {g}, a, b) = Within(S, a, b)
    <2>1. IsFiniteSet(Within(S, a, b)) /\ g \notin Within(S, a, b)
      <3>1. Within(S, a, b) \subseteq S
        BY DEF Within
      <3> QED BY <1>1, <1>2, <3>1, FS_Subset
    <2>2. CASE c \in a..b
      <3>1. Within(S \cup {g}, a, b) = Within(S, a, b) \cup {g}
        BY <2>2 DEF Within
      <3>2. Cardinality(Within(S, a, b) \cup {g}) = Cardinality(Within(S, a, b)) + 1
        BY <2>1, FS_AddElement
      <3> QED BY <2>2, <3>1, <3>2
    <2>3. CASE c \notin a..b
      BY <2>3 DEF Within
    <2> QED BY <2>2, <2>3
  <1> QED BY <1>2, <1>4, <1>5

\* So a stretch has the same number of grants or one more.
LEMMA AtMostOneMore ==
  ASSUME NEW S, NEW c \in Nat, Numbered(S, c),
         NEW g, g = [time |-> c, n |-> Cardinality(S) + 1], NEW a \in Int, NEW b \in Int
  PROVE  Cardinality(Within(S \cup {g}, a, b))
            \in {Cardinality(Within(S, a, b)), Cardinality(Within(S, a, b)) + 1}
  <1>1. CASE c \in a..b
    BY <1>1, OneMore
  <1>2. CASE c \notin a..b
    <2>1. Within(S \cup {g}, a, b) = Within(S, a, b)
      BY <1>2, OneMore
    <2> QED BY <2>1
  <1> QED BY <1>1, <1>2

\* Time passes, and the window may be deleted.
LEMMA SpentLater ==
  ASSUME NEW S, NEW h \in Windows \cup {None}, NEW c \in Nat, NEW d \in Nat, c <= d,
         Numbered(S, c), Spent(S, h, c), NEW i \in {h, None}
  PROVE  Numbered(S, d) /\ Spent(S, i, d)
  <1> USE LimiterAssumption
  <1>1. Numbered(S, d)
    BY DEF Numbered
  <1>2. ASSUME i # None PROVE Spent(S, i, d)
    <2>1. i = h /\ h \in Windows
      BY <1>2
    <2>2. h.reset \in Int /\ h.count \in Int
      BY <2>1 DEF Windows
    <2>3. IsFiniteSet(S) /\ \A g \in S : g.time \in Int
      BY DEF Numbered
    <2>4. /\ Cardinality(Within(S, h.reset - Period, c)) \in Nat
          /\ Cardinality(Within(S, h.reset - Period, d)) \in Nat
          /\ Cardinality(Within(S, h.reset - Period, c)) <= Cardinality(Within(S, h.reset - Period, d))
      BY <2>2, <2>3, Wider
    <2> QED BY <1>2, <2>1, <2>2, <2>4 DEF Spent
  <1> QED BY <1>1, <1>2 DEF Spent

\* A request is counted in the window.
LEMMA SpentCount ==
  ASSUME NEW S, NEW h \in Windows, NEW c \in Nat, Numbered(S, c), Spent(S, h, c), h # None,
         NEW g, g = [time |-> c, n |-> Cardinality(S) + 1],
         NEW i, i.reset = h.reset, i.count = h.count + 1
  PROVE  Spent(S \cup {g}, i, c)
  <1> USE LimiterAssumption
  <1>1. h.reset - Period \in Int /\ c \in (h.reset - Period)..c /\ h.count \in Int
    BY DEF Spent, Windows
  <1>2. Cardinality(Within(S \cup {g}, h.reset - Period, c))
           = Cardinality(Within(S, h.reset - Period, c)) + 1
    BY <1>1, OneMore
  <1>3. Cardinality(Within(S, h.reset - Period, c)) \in Nat
    BY <1>1, Wider DEF Numbered
  <1> QED BY <1>1, <1>2, <1>3 DEF Spent

\* A request opens a window with the time a that it has read.
LEMMA SpentOpen ==
  ASSUME NEW S, NEW c \in Nat, NEW a \in 0..c, Numbered(S, c),
         NEW g, g = [time |-> c, n |-> Cardinality(S) + 1],
         NEW i, i.reset = a + Period, i.count = 1
  PROVE  Spent(S \cup {g}, i, c)
  <1> USE LimiterAssumption
  <1>1. i.reset - Period = a
    OBVIOUS
  <1>2. Cardinality(Within(S \cup {g}, a, c)) = Cardinality(Within(S, a, c)) + 1
    BY OneMore
  <1>3. Cardinality(Within(S, a, c)) \in Nat
    BY Wider DEF Numbered
  <1> QED BY <1>1, <1>2, <1>3 DEF Spent

\* What the steps do to the table and to the history of each client.
LEMMA HistoryStep ==
  ASSUME SInv, Next
  PROVE  /\ clock' \in Nat /\ clock \in Nat /\ clock <= clock'
         /\ \/ grants' = grants /\ opened' = opened
                 /\ \A k \in Clients : hits'[k] \in {hits[k], None}
            \/ \E r \in Requests : Count(r) \/ Open(r)
  <1> USE DEF SInv, IInv, TypeOK
  <1>1. CASE \E r \in Requests, k \in Clients : Arrive(r, k)
    BY <1>1 DEF Arrive, Times
  <1>2. ASSUME NEW r \in Requests, Count(r) \/ Open(r) PROVE clock' = clock
    BY <1>2 DEF Count, Open, Leaves
  <1>3. CASE \E r \in Requests : Refuse(r)
    BY <1>3 DEF Refuse, Leaves, Times
  <1>4. CASE \E r \in Requests : RefuseFull(r)
    <2> PICK r \in Requests : RefuseFull(r)
      BY <1>4
    <2>1. at[r] \in Times /\ clock \in Times /\ at[r] <= clock
      BY DEF RefuseFull, ReadLately
    <2> QED BY <2>1, Sweeping DEF RefuseFull, Leaves, Times
  <1>5. CASE Prune
    <2>1. clock \in Times /\ clock <= clock
      BY DEF Times
    <2> QED BY <1>5, <2>1, Sweeping DEF Prune, Times
  <1>6. CASE Tick
    BY <1>6 DEF Tick, Times
  <1>7. clock \in Nat /\ clock <= clock
    BY DEF Times
  <1> QED BY <1>1, <1>2, <1>3, <1>4, <1>5, <1>6, <1>7 DEF Next

\* What a grant does: one client has one more, and its window counts it.
LEMMA GrantStep ==
  ASSUME SInv, NEW r \in Requests, Count(r) \/ Open(r)
  PROVE  /\ clock' = clock /\ clock \in Nat /\ key[r] \in Clients
         /\ \A k \in Clients : k # key[r] =>
               /\ grants'[k] = grants[k] /\ opened'[k] = opened[k]
               /\ hits'[k] \in {hits[k], None}
         /\ grants' = [grants EXCEPT ![key[r]] =
               @ \cup {[time |-> clock, n |-> Cardinality(@) + 1]}]
         /\ grants'[key[r]] = grants[key[r]] \cup
               {[time |-> clock, n |-> Cardinality(grants[key[r]]) + 1]}
         /\ Count(r) => /\ hits[key[r]] \in Windows /\ hits[key[r]].count < Max
                        /\ hits[key[r]] # None /\ hits'[key[r]] # None
                        /\ hits'[key[r]].reset = hits[key[r]].reset
                        /\ hits'[key[r]].count = hits[key[r]].count + 1
                        /\ opened'[key[r]] = opened[key[r]]
         /\ Open(r) => /\ at[r] \in 0..clock
                       /\ hits'[key[r]] = [count |-> 1, reset |-> at[r] + Period]
                       /\ opened'[key[r]] = clock
  <1> DEFINE j == key[r]
  <1> USE DEF SInv, IInv
  <1>1. j \in Clients /\ clock \in Times /\ at[r] \in Times /\ at[r] <= clock
    BY DEF TypeOK, Count, Open, ReadLately
  <1>2. clock' = clock /\ clock \in Nat /\ at[r] \in 0..clock
    BY <1>1 DEF Count, Open, Leaves, Times
  <1>3. /\ grants' = [grants EXCEPT ![j] = @ \cup {[time |-> clock, n |-> Cardinality(@) + 1]}]
        /\ grants'[j] = grants[j] \cup {[time |-> clock, n |-> Cardinality(grants[j]) + 1]}
        /\ \A k \in Clients : k # j => grants'[k] = grants[k]
    BY <1>1 DEF Count, Open, Granted
  <1>4. CASE Count(r)
    <2>1. hits[j] \in Windows /\ hits[j] # None /\ hits[j].count < Max
      BY <1>1, <1>4 DEF Count, Live, TypeOK
    <2>2. /\ hits' = [hits EXCEPT ![j].count = @ + 1]
          /\ opened' = opened
      BY <1>4 DEF Count
    <2>3. /\ hits'[j].reset = hits[j].reset /\ hits'[j].count = hits[j].count + 1
          /\ \A k \in Clients : k # j => hits'[k] = hits[k]
      BY <1>1, <2>1, <2>2 DEF TypeOK, Windows
    <2>4. hits'[j] \in Windows
      BY <1>1, <2>1, <2>2, LimiterAssumption DEF TypeOK, Windows
    <2>5. ~Open(r)
      BY <1>4 DEF Count, Open
    <2> QED BY <1>1, <1>2, <1>3, <2>1, <2>2, <2>3, <2>4, <2>5, NoneAssumption
  <1>5. CASE Open(r)
    <2>1. /\ Swept(r) \in [Clients -> Windows \cup {None}]
          /\ \A k \in Clients : Swept(r)[k] \in {hits[k], None}
      BY <1>1, Sweeping DEF Swept, TypeOK
    <2>2. /\ hits' = [Swept(r) EXCEPT ![j] = [count |-> 1, reset |-> at[r] + Period]]
          /\ opened' = [opened EXCEPT ![j] = clock]
      BY <1>5 DEF Open
    <2>3. ~Count(r)
      BY <1>5 DEF Count, Open
    <2> QED BY <1>1, <1>2, <1>3, <2>1, <2>2, <2>3 DEF TypeOK
  <1> QED BY <1>4, <1>5

\* No step breaks it.
LEMMA SpentStep == ASSUME SInv, Next PROVE SInv'
  <1> USE LimiterAssumption, NoneAssumption
  <1>1. IInv'
    BY Step DEF SInv
  <1>2. clock' \in Nat /\ clock \in Nat /\ clock <= clock'
    BY HistoryStep
  <1>3. \A k \in Clients : /\ hits[k] \in Windows \cup {None}
                           /\ Numbered(grants[k], clock) /\ Spent(grants[k], hits[k], clock)
    BY DEF SInv, IInv, TypeOK
  <1>4. CASE grants' = grants /\ \A k \in Clients : hits'[k] \in {hits[k], None}
    <2>1. \A k \in Clients : Numbered(grants'[k], clock') /\ Spent(grants'[k], hits'[k], clock')
      BY <1>2, <1>3, <1>4, SpentLater
    <2> QED BY <1>1, <1>4, <2>1 DEF SInv
  <1>5. ASSUME NEW r \in Requests, Count(r) \/ Open(r) PROVE SInv'
    <2> DEFINE j == key[r]
               g == [time |-> clock, n |-> Cardinality(grants[j]) + 1]
    <2>1. /\ clock' = clock /\ j \in Clients /\ grants'[j] = grants[j] \cup {g}
          /\ grants' = [grants EXCEPT ![j] = @ \cup {[time |-> clock, n |-> Cardinality(@) + 1]}]
      BY <1>5, GrantStep
    <2>2. /\ Numbered(grants[j], clock) /\ Spent(grants[j], hits[j], clock)
          /\ g = [time |-> clock, n |-> Cardinality(grants[j]) + 1]
      BY <1>3, <2>1
    <2> HIDE DEF g
    <2>3. Numbered(grants'[j], clock')
      <3>1. Numbered(grants[j] \cup {g}, clock)
        BY <1>2, <2>2, OneMore
      <3> QED BY <2>1, <3>1
    <2>4. Spent(grants'[j], hits'[j], clock')
      <3>1. CASE Count(r)
        <4>1. /\ hits[j] \in Windows /\ hits[j] # None
              /\ hits'[j].reset = hits[j].reset /\ hits'[j].count = hits[j].count + 1
          BY <3>1, GrantStep
        <4>2. Spent(grants[j] \cup {g}, hits'[j], clock)
          BY <1>2, <2>2, <4>1, SpentCount
        <4> QED BY <2>1, <4>2
      <3>2. CASE Open(r)
        <4>1. at[r] \in 0..clock /\ hits'[j] = [count |-> 1, reset |-> at[r] + Period]
          BY <3>2, GrantStep
        <4>2. hits'[j].reset = at[r] + Period /\ hits'[j].count = 1
          BY <4>1
        <4>3. Spent(grants[j] \cup {g}, hits'[j], clock)
          BY <1>2, <2>2, <4>1, <4>2, SpentOpen
        <4> QED BY <2>1, <4>3
      <3> QED BY <1>5, <3>1, <3>2
    <2>5. ASSUME NEW k \in Clients, k # j
          PROVE  Numbered(grants'[k], clock') /\ Spent(grants'[k], hits'[k], clock')
      <3>1. grants'[k] = grants[k] /\ hits'[k] \in {hits[k], None}
        BY <1>5, <2>5, GrantStep
      <3> QED BY <1>2, <1>3, <3>1, SpentLater
    <2>6. g \in [time : Times, n : Nat]
      <3>1. IsFiniteSet(grants[j])
        BY <1>3, <2>1 DEF Numbered
      <3> QED BY <2>2, <3>1, FS_CardinalityType DEF SInv, IInv, TypeOK
    <2>7. grants' \in [Clients -> SUBSET [time : Times, n : Nat]]
      BY <2>1, <2>2, <2>6 DEF SInv
    <2> QED BY <1>1, <2>3, <2>4, <2>5, <2>7 DEF SInv
  <1> QED BY <1>4, <1>5, HistoryStep

\* It holds in every reachable state.
LEMMA SpentInductive == Spec => []SInv
  <1>1. Init /\ IInv => SInv
    BY FS_EmptySet, LimiterAssumption DEF Init, SInv, Numbered, Spent
  <1>2. SInv /\ UNCHANGED vars => SInv'
    <2> SUFFICES ASSUME SInv, UNCHANGED vars PROVE SInv'
      OBVIOUS
    <2>1. IInv'
      BY DEF SInv, IInv, TypeOK, ReadLately, EndsLate, TableBounded, Tracked, vars
    <2> QED BY <2>1 DEF SInv, vars
  <1>3. SInv /\ [Next]_vars => SInv'
    BY <1>2, SpentStep
  <1> QED BY <1>1, <1>3, Inductive, PTL DEF Spec

\* A request is turned away only if its client was let through Max times since
\* Period before it, or if others fill the table: lateness at the mutex, sweeps
\* and prunes take nobody's share.
THEOREM RefusalsAreEarned == Spec => RefusedOnlyIfSpent
  <1>1. ASSUME SInv, Next, NEW r \in Requests, key[r] # None, key'[r] = None, grants' = grants
        PROVE  \/ Cardinality(GrantsIn(key[r], at[r] - Period, clock)) >= Max
               \/ hits[key[r]] = None /\ Cardinality(Running(at[r])) >= MaxKeys
    <2> USE <1>1
    <2>1. ASSUME NEW q \in Requests, Count(q) \/ Open(q) PROVE FALSE
      <3>1. /\ key[q] \in Clients /\ clock \in Nat
            /\ grants'[key[q]] = grants[key[q]] \cup
                  {[time |-> clock, n |-> Cardinality(grants[key[q]]) + 1]}
        BY <2>1, GrantStep
      <3> QED BY <3>1, OneMore DEF SInv
    <2>2. \A q \in Requests : Refuse(q) \/ RefuseFull(q) => q = r
      BY NoneAssumption DEF Refuse, RefuseFull, Leaves, SInv, IInv, TypeOK
    <2>3. Refuse(r) \/ RefuseFull(r)
      <3>1. \A q \in Requests, k \in Clients : ~Arrive(q, k)
        BY NoneAssumption DEF Arrive, SInv, IInv, TypeOK
      <3>2. ~Prune /\ ~Tick
        BY DEF Prune, Tick
      <3> QED BY <2>1, <2>2, <3>1, <3>2 DEF Next
    <2>4. CASE RefuseFull(r)
      <3>1. Tracked(Sweep(at[r])) = Running(at[r])
        BY DEF Tracked, Sweep, Running
      <3> QED BY <2>4, <3>1 DEF RefuseFull, MustSweep
    <2>5. CASE Refuse(r)
      <3> DEFINE k == key[r]
                 w == hits[k]
      <3>1. k \in Clients /\ w \in Windows /\ w # None /\ at[r] <= w.reset /\ w.count >= Max
        BY <2>5, LimiterAssumption DEF Refuse, Live, Expired, SInv, IInv, TypeOK, Windows, Times
      <3>2. w.count <= Cardinality(Within(grants[k], w.reset - Period, clock))
        BY <3>1 DEF SInv, Spent
      <3>3. /\ w.reset \in Int /\ w.count \in Int /\ at[r] \in Int /\ clock \in Int
            /\ Period \in Int /\ Max \in Int
        BY <3>1, LimiterAssumption DEF Windows, SInv, IInv, TypeOK, Times
      <3>4. IsFiniteSet(grants[k]) /\ \A g \in grants[k] : g.time \in Int
        BY <3>1 DEF SInv, Numbered
      <3> HIDE DEF w
      <3>5. /\ Cardinality(Within(grants[k], w.reset - Period, clock)) \in Nat
            /\ Cardinality(Within(grants[k], at[r] - Period, clock)) \in Nat
            /\ Cardinality(Within(grants[k], w.reset - Period, clock))
                  <= Cardinality(Within(grants[k], at[r] - Period, clock))
        BY <3>1, <3>3, <3>4, Wider
      <3>6. Max <= Cardinality(Within(grants[k], at[r] - Period, clock))
        BY <3>1, <3>2, <3>3, <3>5
      <3> QED BY <3>3, <3>5, <3>6 DEF Within, GrantsIn
    <2> QED BY <2>3, <2>4, <2>5
  <1>2. SInv /\ [Next]_vars =>
          [\A r \in Requests :
             key[r] # None /\ key'[r] = None /\ grants' = grants =>
                \/ Cardinality(GrantsIn(key[r], at[r] - Period, clock)) >= Max
                \/ hits[key[r]] = None /\ Cardinality(Running(at[r])) >= MaxKeys]_vars
    BY <1>1
  <1> QED BY <1>2, SpentInductive, PTL DEF Spec, RefusedOnlyIfSpent

-----------------------------------------------------------------------------
(* Bursts. Windows of a client open at least Gap apart.                    *)

Gap == Period + 1 - MaxLag

\* The grants of the windows opened before the latest, from time t on: one such
\* window may have been open at t, the others were opened since.
Earlier(o, t) == IF o # None /\ o >= t THEN Max * (1 + (o - t) \div Gap) ELSE 0

\* What the latest window has let through; a deleted one counts as used up.
Latest(h) == IF h = None THEN Max ELSE h.count

\* A stretch of Period instants that is not over holds no more than that.
Paced(S, h, o, c) ==
    \A t \in Times : c <= t + Period - 1 =>
        Cardinality(Within(S, t, t + Period - 1)) <= Latest(h) + Earlier(o, t)

Ceiling == Max * (2 + (Period - 1) \div Gap)

Bursts(S) == \A t \in Times : Cardinality(Within(S, t, t + Period - 1)) <= Ceiling

\* Every client is paced, and its stretches that are over were.
BInv ==
    /\ SInv
    /\ \A k \in Clients :
         /\ opened[k] # None => opened[k] <= clock
         /\ Paced(grants[k], hits[k], opened[k], clock)
         /\ Bursts(grants[k])

\* A product grows with its factor.
LEMMA Products ==
  ASSUME NEW m \in Nat, NEW a \in Nat, NEW b \in Nat, a <= b
  PROVE  m * a \in Nat /\ m * a <= m * b /\ m * (a + 1) = m * a + m
  OBVIOUS

\* A quotient grows with its dividend, by one for each divisor added.
LEMMA Quotients ==
  ASSUME NEW d \in Nat \ {0}, NEW x \in Nat, NEW y \in Nat
  PROVE  /\ x \div d \in Nat
         /\ x <= y => x \div d <= y \div d
         /\ x + d <= y => x \div d + 1 <= y \div d
  OBVIOUS

\* What the earlier windows can have let through, and how it grows when a window
\* opens at c.
LEMMA EarlierIs ==
  ASSUME MaxLag <= Period, NEW o \in Times \cup {None}, NEW t \in Times
  PROVE  /\ Earlier(o, t) \in Nat /\ Ceiling \in Nat
         /\ (o = None \/ o <= t + Period - 1) => Max + Earlier(o, t) <= Ceiling
         /\ \A c \in Times : t <= c /\ (o # None => o + Gap <= c)
               => Max + Earlier(o, t) <= Earlier(c, t)
  <1>1. /\ Max \in Nat /\ Period \in Nat \ {0} /\ Gap \in Nat \ {0} /\ t \in Nat
        /\ Period - 1 \in Nat /\ \A x \in Times : x \in Nat
    BY LimiterAssumption DEF Gap, Times
  <1>2. None \notin Times
    BY NoneAssumption DEF Times
  <1>3. (Period - 1) \div Gap \in Nat
    BY <1>1, Quotients
  <1>4. /\ Ceiling \in Nat /\ Max <= Ceiling
        /\ Ceiling = Max * (1 + (Period - 1) \div Gap) + Max
    <2> DEFINE q == (Period - 1) \div Gap
    <2> q \in Nat
      BY <1>3
    <2>1. Ceiling = Max * (2 + q)
      BY DEF Ceiling
    <2> HIDE DEF q
    <2>2. Max * (2 + q) = Max * (1 + q) + Max /\ Max * (1 + q) \in Nat
      BY <1>1, Products
    <2> QED BY <1>1, <2>1, <2>2 DEF q
  <1>5. CASE o # None /\ o >= t
    <2> DEFINE q == (o - t) \div Gap
    <2>1. o \in Nat /\ o - t \in Nat
      BY <1>1, <1>5
    <2>2. q \in Nat
      BY <1>1, <2>1, Quotients
    <2>3. Earlier(o, t) = Max * (1 + q)
      BY <1>5 DEF Earlier
    <2> HIDE DEF q
    <2>4. Max * (1 + q) \in Nat
      BY <1>1, <2>2, Products
    <2>5. ASSUME o <= t + Period - 1 PROVE Max + Earlier(o, t) <= Ceiling
      <3>1. o - t <= Period - 1
        BY <1>1, <2>1, <2>5
      <3>2. q <= (Period - 1) \div Gap
        BY <1>1, <2>1, <3>1, Quotients DEF q
      <3>3. Max * (1 + q) <= Max * (1 + (Period - 1) \div Gap)
        BY <1>1, <1>3, <2>2, <3>2, Products
      <3>4. Max * (1 + (Period - 1) \div Gap) \in Nat
        BY <1>1, <1>3, Products
      <3> QED BY <1>1, <1>4, <2>3, <2>4, <3>3, <3>4
    <2>6. ASSUME NEW c \in Times, t <= c, o + Gap <= c
          PROVE  Max + Earlier(o, t) <= Earlier(c, t)
      <3> DEFINE p == (c - t) \div Gap
      <3>1. c \in Nat /\ c - t \in Nat /\ (o - t) + Gap <= c - t
        BY <1>1, <2>1, <2>6
      <3>2. p \in Nat /\ q + 1 <= p
        BY <1>1, <2>1, <3>1, Quotients DEF q
      <3>3. Earlier(c, t) = Max * (1 + p)
        BY <1>1, <1>2, <2>6, <3>1 DEF Earlier
      <3> HIDE DEF p
      <3>4. Max * ((1 + q) + 1) = Max * (1 + q) + Max /\ Max * ((1 + q) + 1) <= Max * (1 + p)
        BY <1>1, <2>2, <3>2, Products
      <3>5. Max * (1 + p) \in Nat
        BY <1>1, <3>2, Products
      <3> QED BY <1>1, <2>3, <2>4, <3>3, <3>4, <3>5
    <2> QED BY <1>4, <1>5, <2>3, <2>4, <2>5, <2>6
  <1>6. CASE ~(o # None /\ o >= t)
    <2>1. Earlier(o, t) = 0
      BY <1>6 DEF Earlier
    <2>2. ASSUME NEW c \in Times, t <= c PROVE Max <= Earlier(c, t)
      <3> DEFINE p == (c - t) \div Gap
      <3>1. c \in Nat /\ c - t \in Nat
        BY <1>1, <2>2
      <3>2. p \in Nat
        BY <1>1, <3>1, Quotients
      <3>3. Earlier(c, t) = Max * (1 + p)
        BY <1>1, <1>2, <2>2, <3>1 DEF Earlier
      <3> HIDE DEF p
      <3>4. Max * 1 <= Max * (1 + p) /\ Max * 1 = Max
        BY <1>1, <3>2, Products
      <3> QED BY <3>3, <3>4
    <2> QED BY <1>1, <1>4, <2>1, <2>2
  <1> QED BY <1>5, <1>6

\* A paced client that was granted something at c has had no burst.
LEMMA PacedBursts ==
  ASSUME MaxLag <= Period, NEW S, NEW T, NEW h \in Windows \cup {None},
         NEW c \in Times, NEW o \in Times \cup {None}, o # None => o <= c,
         Numbered(T, c), Paced(T, h, o, c), Bursts(S),
         \A a, b \in Int : c \notin a..b => Within(T, a, b) = Within(S, a, b)
  PROVE  Bursts(T)
  <1> SUFFICES ASSUME NEW t \in Times
               PROVE  Cardinality(Within(T, t, t + Period - 1)) <= Ceiling
    BY DEF Bursts
  <1>1. /\ c \in Nat /\ t \in Nat /\ Period \in Nat /\ Max \in Nat
        /\ Latest(h) \in Nat /\ Latest(h) <= Max /\ (o # None => o \in Nat)
    BY LimiterAssumption DEF Times, Latest, Windows
  <1>2. CASE c <= t + Period - 1
    <2>1. Cardinality(Within(T, t, t + Period - 1)) <= Latest(h) + Earlier(o, t)
      BY <1>2 DEF Paced
    <2>2. Earlier(o, t) \in Nat /\ Ceiling \in Nat /\ Max + Earlier(o, t) <= Ceiling
      BY <1>1, <1>2, EarlierIs
    <2>3. Cardinality(Within(T, t, t + Period - 1)) \in Nat
      BY <1>1, Wider DEF Numbered
    <2> QED BY <1>1, <2>1, <2>2, <2>3
  <1>3. CASE ~(c <= t + Period - 1)
    <2>1. c \notin t..(t + Period - 1) /\ t + Period - 1 \in Int
      BY <1>1, <1>3
    <2>2. Within(T, t, t + Period - 1) = Within(S, t, t + Period - 1)
      BY <1>1, <2>1
    <2> QED BY <2>2 DEF Bursts
  <1> QED BY <1>2, <1>3

\* Time passes, and the window may be deleted.
LEMMA PacedLater ==
  ASSUME MaxLag <= Period, NEW S, NEW h \in Windows \cup {None}, NEW o \in Times \cup {None},
         NEW c \in Nat, NEW d \in Nat, c <= d,
         Numbered(S, c), Paced(S, h, o, c), NEW i \in {h, None}
  PROVE  Paced(S, i, o, d)
  <1> SUFFICES ASSUME NEW t \in Times, d <= t + Period - 1
               PROVE  Cardinality(Within(S, t, t + Period - 1)) <= Latest(i) + Earlier(o, t)
    BY DEF Paced
  <1>1. /\ t \in Nat /\ Period \in Nat /\ Latest(h) \in Nat /\ Latest(i) \in Nat
        /\ Latest(h) <= Latest(i)
    BY LimiterAssumption DEF Times, Latest, Windows
  <1>2. Cardinality(Within(S, t, t + Period - 1)) <= Latest(h) + Earlier(o, t)
    BY <1>1 DEF Paced
  <1>3. Earlier(o, t) \in Nat
    BY EarlierIs
  <1>4. Cardinality(Within(S, t, t + Period - 1)) \in Nat
    BY <1>1, Wider DEF Numbered
  <1> QED BY <1>1, <1>2, <1>3, <1>4

\* A request is counted in the window.
LEMMA PacedCount ==
  ASSUME MaxLag <= Period, NEW S, NEW h \in Windows, h # None, NEW o \in Times \cup {None},
         NEW c \in Nat, Numbered(S, c), Paced(S, h, o, c),
         NEW g, g = [time |-> c, n |-> Cardinality(S) + 1],
         NEW i, i # None, i.count = h.count + 1
  PROVE  Paced(S \cup {g}, i, o, c)
  <1> SUFFICES ASSUME NEW t \in Times, c <= t + Period - 1
               PROVE  Cardinality(Within(S \cup {g}, t, t + Period - 1)) <= Latest(i) + Earlier(o, t)
    BY DEF Paced
  <1>1. t \in Nat /\ t + Period - 1 \in Int
    BY LimiterAssumption DEF Times
  <1>2. Latest(h) \in Nat /\ Latest(i) = Latest(h) + 1
    BY DEF Latest, Windows
  <1>3. Cardinality(Within(S, t, t + Period - 1)) <= Latest(h) + Earlier(o, t)
    BY DEF Paced
  <1>4. Earlier(o, t) \in Nat
    BY EarlierIs
  <1>5. Cardinality(Within(S, t, t + Period - 1)) \in Nat
    BY <1>1, Wider DEF Numbered
  <1>6. Cardinality(Within(S \cup {g}, t, t + Period - 1))
           \in {Cardinality(Within(S, t, t + Period - 1)), Cardinality(Within(S, t, t + Period - 1)) + 1}
    BY <1>1, AtMostOneMore
  <1> QED BY <1>2, <1>3, <1>4, <1>5, <1>6

\* A window opens; the one before it, if any, was opened Gap ago or earlier.
LEMMA PacedOpen ==
  ASSUME MaxLag <= Period, NEW S, NEW h \in Windows \cup {None}, NEW o \in Times \cup {None},
         NEW c \in Times, o # None => o + Gap <= c,
         Numbered(S, c), Paced(S, h, o, c),
         NEW g, g = [time |-> c, n |-> Cardinality(S) + 1],
         NEW i, i # None, i.count = 1
  PROVE  Paced(S \cup {g}, i, c, c)
  <1> SUFFICES ASSUME NEW t \in Times, c <= t + Period - 1
               PROVE  Cardinality(Within(S \cup {g}, t, t + Period - 1)) <= Latest(i) + Earlier(c, t)
    BY DEF Paced
  <1>1. t \in Nat /\ c \in Nat /\ t + Period - 1 \in Int /\ Max \in Nat
    BY LimiterAssumption DEF Times
  <1>2. Latest(h) \in Nat /\ Latest(h) <= Max /\ Latest(i) = 1
    BY <1>1 DEF Latest, Windows
  <1>3. Cardinality(Within(S, t, t + Period - 1)) <= Latest(h) + Earlier(o, t)
    BY DEF Paced
  <1>4. Earlier(o, t) \in Nat /\ Earlier(c, t) \in Nat
    BY EarlierIs
  <1>5. Cardinality(Within(S, t, t + Period - 1)) \in Nat
    BY <1>1, Wider DEF Numbered
  <1>6. Cardinality(Within(S \cup {g}, t, t + Period - 1))
           \in {Cardinality(Within(S, t, t + Period - 1)), Cardinality(Within(S, t, t + Period - 1)) + 1}
    BY <1>1, AtMostOneMore
  <1>7. CASE t <= c
    <2>1. Max + Earlier(o, t) <= Earlier(c, t)
      BY <1>7, EarlierIs
    <2> QED BY <1>1, <1>2, <1>3, <1>4, <1>5, <1>6, <2>1
  <1>8. CASE ~(t <= c)
    <2>1. Within(S \cup {g}, t, t + Period - 1) = {}
      <3>1. c \notin t..(t + Period - 1)
        BY <1>1, <1>8
      <3>2. Within(S \cup {g}, t, t + Period - 1) = Within(S, t, t + Period - 1)
        BY <1>1, <3>1, OneMore
      <3>3. Within(S, t, t + Period - 1) = {}
        BY <1>1, <1>8 DEF Within, Numbered
      <3> QED BY <3>2, <3>3
    <2>2. Cardinality(Within(S \cup {g}, t, t + Period - 1)) = 0
      BY <2>1, FS_EmptySet
    <2> QED BY <1>2, <1>4, <2>2
  <1> QED BY <1>7, <1>8

\* No step breaks it.
LEMMA BurstStep == ASSUME MaxLag <= Period, BInv, Next PROVE BInv'
  <1> USE LimiterAssumption, NoneAssumption
  <1>1. SInv /\ SInv' /\ IInv /\ IInv'
    BY SpentStep DEF BInv, SInv
  <1>2. clock' \in Nat /\ clock \in Nat /\ clock <= clock' /\ clock \in Times
    BY <1>1, HistoryStep DEF IInv, TypeOK
  <1>3. \A k \in Clients : /\ hits[k] \in Windows \cup {None} /\ hits'[k] \in Windows \cup {None}
                           /\ opened[k] \in Times \cup {None} /\ opened'[k] \in Times \cup {None}
                           /\ Numbered(grants[k], clock) /\ Numbered(grants'[k], clock')
    BY <1>1 DEF SInv, IInv, TypeOK
  <1>4. \A k \in Clients : /\ opened[k] # None => opened[k] <= clock
                           /\ Paced(grants[k], hits[k], opened[k], clock)
                           /\ Bursts(grants[k])
    BY DEF BInv
  <1>5. ASSUME NEW k \in Clients, grants'[k] = grants[k], opened'[k] = opened[k],
               hits'[k] \in {hits[k], None}
        PROVE  /\ opened'[k] # None => opened'[k] <= clock'
               /\ Paced(grants'[k], hits'[k], opened'[k], clock')
               /\ Bursts(grants'[k])
    <2>1. Paced(grants[k], hits'[k], opened[k], clock')
      <3>1. /\ hits[k] \in Windows \cup {None} /\ opened[k] \in Times \cup {None}
            /\ Numbered(grants[k], clock) /\ Paced(grants[k], hits[k], opened[k], clock)
        BY <1>3, <1>4
      <3>2. ASSUME NEW c \in Nat, NEW d \in Nat, c <= d, NEW i \in {hits[k], None},
                   Numbered(grants[k], c), Paced(grants[k], hits[k], opened[k], c)
            PROVE  Paced(grants[k], i, opened[k], d)
        BY <3>1, <3>2, PacedLater
      <3> QED BY <1>2, <1>5, <3>1, <3>2
    <2>2. opened[k] # None => opened[k] <= clock'
      BY <1>2, <1>3, <1>4 DEF Times
    <2> QED BY <1>4, <1>5, <2>1, <2>2
  <1>6. CASE grants' = grants /\ opened' = opened /\ \A k \in Clients : hits'[k] \in {hits[k], None}
    BY <1>1, <1>5, <1>6 DEF BInv
  <1>7. ASSUME NEW r \in Requests, Count(r) \/ Open(r) PROVE BInv'
    <2> DEFINE j == key[r]
               g == [time |-> clock, n |-> Cardinality(grants[j]) + 1]
    <2>1. /\ clock' = clock /\ j \in Clients /\ grants'[j] = grants[j] \cup {g}
          /\ \A k \in Clients : k # j =>
                /\ grants'[k] = grants[k] /\ opened'[k] = opened[k]
                /\ hits'[k] \in {hits[k], None}
      BY <1>1, <1>7, GrantStep
    <2>2. g = [time |-> clock, n |-> Cardinality(grants[j]) + 1]
      OBVIOUS
    <2> HIDE DEF g
    <2>3. /\ Paced(grants[j] \cup {g}, hits'[j], opened'[j], clock)
          /\ opened'[j] # None => opened'[j] <= clock
      <3>1. CASE Count(r)
        <4>1. /\ hits[j] \in Windows /\ hits[j] # None /\ hits'[j] # None
              /\ hits'[j].count = hits[j].count + 1 /\ opened'[j] = opened[j]
          BY <1>1, <3>1, GrantStep
        <4>2. Paced(grants[j] \cup {g}, hits'[j], opened[j], clock)
          BY <1>2, <1>3, <1>4, <2>1, <2>2, <4>1, PacedCount
        <4> QED BY <1>4, <2>1, <4>1, <4>2
      <3>2. CASE Open(r)
        <4>1. /\ hits'[j] = [count |-> 1, reset |-> at[r] + Period] /\ at[r] \in 0..clock
              /\ opened'[j] = clock
          BY <1>1, <3>2, GrantStep
        <4>2. hits'[j].count = 1 /\ hits'[j] # None
          <5>1. hits'[j] \in Windows
            BY <1>2, <4>1 DEF Windows, Times
          <5> QED BY <4>1, <5>1
        <4>3. opened[j] # None => opened[j] + Gap <= clock
          <5>1. opened[j] # None => clock > opened[j] + Period - MaxLag
            BY <1>1, <3>2, WindowOpens
          <5> QED BY <1>2, <1>3, <2>1, <5>1 DEF Gap, Times
        <4>4. Paced(grants[j] \cup {g}, hits'[j], clock, clock)
          BY <1>2, <1>3, <1>4, <2>1, <2>2, <4>2, <4>3, PacedOpen
        <4> QED BY <1>2, <4>1, <4>4
      <3> QED BY <1>7, <3>1, <3>2
    <2>4. Bursts(grants[j] \cup {g})
      <3>1. Numbered(grants[j] \cup {g}, clock)
        BY <1>3, <2>1
      <3>2. \A a, b \in Int : clock \notin a..b
               => Within(grants[j] \cup {g}, a, b) = Within(grants[j], a, b)
        BY <1>2, <1>3, <2>1, <2>2, OneMore
      <3>3. /\ hits'[j] \in Windows \cup {None} /\ opened'[j] \in Times \cup {None}
            /\ Bursts(grants[j]) /\ clock \in Times
        BY <1>2, <1>3, <1>4, <2>1
      <3> HIDE DEF j
      <3> QED BY ONLY MaxLag <= Period, <2>3, <3>1, <3>2, <3>3, PacedBursts, SMTT(30)
    <2>5. ASSUME NEW k \in Clients
          PROVE  /\ opened'[k] # None => opened'[k] <= clock'
                 /\ Paced(grants'[k], hits'[k], opened'[k], clock')
                 /\ Bursts(grants'[k])
      <3>1. CASE k = j
        BY <2>1, <2>3, <2>4, <3>1
      <3>2. CASE k # j
        BY <1>5, <2>1, <3>2
      <3> QED BY <3>1, <3>2
    <2> QED BY <1>1, <2>5 DEF BInv
  <1> QED BY <1>1, <1>6, <1>7, HistoryStep

\* However requests arrive, wait and are counted, no Period of time lets more of
\* a client's requests through than the windows that can touch it, provided no
\* request waits for the mutex longer than a window lasts.
THEOREM BurstsStayBounded ==
  ASSUME MaxLag <= Period
  PROVE  Spec => []BurstBound
  <1>1. Init /\ SInv => BInv
    <2> SUFFICES ASSUME Init, SInv, NEW k \in Clients
                 PROVE  /\ opened[k] # None => opened[k] <= clock
                        /\ Paced(grants[k], hits[k], opened[k], clock)
                        /\ Bursts(grants[k])
      BY DEF BInv
    <2>1. grants[k] = {} /\ hits[k] = None /\ opened[k] = None
      BY DEF Init
    <2>2. \A a, b : Cardinality(Within(grants[k], a, b)) = 0
      <3>1. \A a, b : Within(grants[k], a, b) = {}
        BY <2>1 DEF Within
      <3> QED BY <3>1, FS_EmptySet
    <2>3. \A t \in Times : Ceiling \in Nat /\ Earlier(opened[k], t) \in Nat
      BY <2>1, EarlierIs
    <2>4. Latest(hits[k]) \in Nat
      BY <2>1, LimiterAssumption DEF Latest
    <2> QED BY <2>1, <2>2, <2>3, <2>4 DEF Paced, Bursts
  <1>2. BInv /\ UNCHANGED vars => BInv'
    <2> SUFFICES ASSUME BInv, UNCHANGED vars PROVE BInv'
      OBVIOUS
    <2>1. SInv'
      BY DEF BInv, SInv, IInv, TypeOK, ReadLately, EndsLate, TableBounded, Tracked, vars
    <2> QED BY <2>1 DEF BInv, vars
  <1>3. BInv /\ [Next]_vars => BInv'
    BY <1>2, BurstStep
  <1>4. BInv => BurstBound
    BY DEF BInv, Bursts, BurstBound, GrantsIn, Within, Ceiling, Gap
  <1> QED BY <1>1, <1>3, <1>4, SpentInductive, PTL DEF Spec
====
