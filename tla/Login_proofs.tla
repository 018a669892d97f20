---------------------------- MODULE Login_proofs ----------------------------
(***************************************************************************)
(* Proofs of the safety invariants of the OIDC login, for any number of    *)
(* browsers, logins and callbacks at once, any two lifetimes, and both     *)
(* session stores.                                                         *)
(***************************************************************************)
EXTENDS Login, FiniteSetTheorems, TLAPS

-----------------------------------------------------------------------------
(* The inductive invariant, one idea per conjunct.                         *)

\* The phases after the code was redeemed.
Redeemed == {"audit", "put"}

\* The locals of a callback.
Locals == [pc : {"idle", "delete", "exchange", "audit", "put"},
           b : Browsers \cup {{}}, l : Logins \cup {{}}, code : Codes \cup {<<>>},
           gone : BOOLEAN, roles : Realm \cup {{}}]

\* The shapes of the cookies, the callbacks' locals and the histories.
Shapes ==
  /\ cookie \in [Browsers -> [state : SUBSET Logins, session : SUBSET Codes]]
  /\ cb \in [Callbacks -> Locals]
  /\ made \in [Logins -> [sessions : SUBSET Codes, excused : BOOLEAN]]
  /\ last \in [Realm -> Int]
  /\ \A k \in DOMAIN sess : sess[k].roles \in Realm /\ sess[k].exp \in Int

\* Codes, cookies and callbacks belong to logins that began in their browser,
\* and once the nonce was compared to the login of their code.
OwnLogin ==
  /\ \A k \in issued : k[1] \in DOMAIN began
  /\ \A b \in Browsers : \A l \in cookie[b].state : began[l] = b
  /\ \A c \in Callbacks : cb[c].pc # "idle" => began[cb[c].l] = cb[c].b
  /\ \A c \in Callbacks : cb[c].pc \in Redeemed => cb[c].code[1] = cb[c].l

\* A redeemed code is in the hands of one callback, and no session is made
\* from it yet; a session that was logged out is not in the store.
FreshCode ==
  /\ \A c \in Callbacks : cb[c].pc \in Redeemed =>
       /\ cb[c].code \notin DOMAIN sess \cup out
       /\ \A d \in Callbacks : d # c /\ cb[d].pc \in Redeemed => cb[d].code # cb[c].code
  /\ DOMAIN sess \cap out = {}

\* The roles of a callback are those of this very tick, and those of a
\* session were the user's at most SessionTTL before it expires.
Timely ==
  /\ last[roles] = now
  /\ \A R \in Realm : last[R] <= now
  /\ \A c \in Callbacks : cb[c].pc \in Redeemed => last[cb[c].roles] = now
  /\ \A k \in DOMAIN sess : sess[k].exp <= last[sess[k].roles] + SessionTTL

\* A state that was never looked up twice at once is in one place: in the
\* store, with one callback, or spent on one session.
OnePlaceOf(l) ==
  /\ made[l].sessions # {} => l \in DOMAIN began
  /\ made[l].excused
     \/ /\ \A c, d \in Callbacks :
             cb[c].pc # "idle" /\ cb[d].pc # "idle" /\ cb[c].l = l /\ cb[d].l = l => c = d
        /\ \A c \in Callbacks :
             cb[c].l = l /\ cb[c].pc \in Redeemed \cup {"exchange"} => l \notin DOMAIN states
        /\ made[l].sessions # {} =>
             /\ l \notin DOMAIN states
             /\ \A c \in Callbacks : cb[c].pc # "idle" => cb[c].l # l
             /\ \E k \in Codes : made[l].sessions = {k}
OnePlace == \A l \in Logins : OnePlaceOf(l)

IInv == /\ TypeOK /\ Shapes /\ OwnLogin /\ FreshCode /\ Timely /\ OnePlace /\ SessionOfOwnLogin

-----------------------------------------------------------------------------
(* What the session store does.                                            *)

\* A write of the store adds its key or, when Redis failed, nothing.
LEMMA PutKeys ==
  ASSUME NEW store, NEW key, NEW entry, NEW store2 \in Put(store, key, entry)
  PROVE  /\ DOMAIN store2 \subseteq DOMAIN store \cup {key}
         /\ \A k \in DOMAIN store2 : (store2[k] = entry /\ k = key) \/ (k \in DOMAIN store /\ store2[k] = store[k])
  <1>1. CASE store2 = [k \in DOMAIN store \cup {key} |-> IF k = key THEN entry ELSE store[k]]
    BY <1>1
  <1>2. CASE store2 = store
    BY <1>2
  <1> QED BY <1>1, <1>2 DEF Put

\* A removal adds nothing and changes no other entry.
LEMMA DeleteKeys ==
  ASSUME NEW store, NEW key, NEW store2 \in Delete(store, key)
  PROVE  /\ DOMAIN store2 \subseteq DOMAIN store
         /\ \A k \in DOMAIN store2 : store2[k] = store[k]
  BY DEF Delete, Without

-----------------------------------------------------------------------------
\* No login has begun yet.
LEMMA Start == Init => IInv
  <1> SUFFICES ASSUME Init PROVE IInv
    OBVIOUS
  <1> USE TimeAssumption DEF Init, NoCb
  <1>1. TypeOK
    BY DEF TypeOK
  <1>2. Shapes
    BY DEF Shapes, Locals
  <1>3. OwnLogin /\ FreshCode /\ SessionOfOwnLogin
    BY DEF OwnLogin, FreshCode, SessionOfOwnLogin, Redeemed
  <1>4. Timely
    BY DEF Timely, Redeemed
  <1>5. OnePlace
    BY DEF OnePlace, OnePlaceOf, Redeemed
  <1> QED BY <1>1, <1>2, <1>3, <1>4, <1>5 DEF IInv

\* Every step of a browser, a callback, the provider or the clock keeps it.
LEMMA Keeps == ASSUME IInv, Next PROVE IInv'
  <1>1. ASSUME NEW b \in Browsers, Login(b) PROVE IInv'
    <2> USE <1>1 DEF IInv, world
    <2>0. PICK l \in Logins \ DOMAIN began :
            /\ began' = [k \in DOMAIN began \cup {l} |-> IF k = l THEN b ELSE began[k]]
            /\ states' \in Put(states, l, [exp |-> now + StateTTL])
            /\ cookie' = [cookie EXCEPT ![b].state = {l}]
            /\ UNCHANGED <<world, issued, used, sess, cb, made, out>>
      BY DEF Login
    <2> USE <2>0
    <2>1. DOMAIN states' \subseteq DOMAIN states \cup {l}
      BY PutKeys
    <2>2. TypeOK'
      BY <2>1 DEF TypeOK, Shapes, Locals
    <2>3. Shapes'
      BY DEF Shapes, Locals, TypeOK
    <2>4. OwnLogin'
      BY DEF OwnLogin, TypeOK, Shapes, Locals, Redeemed
    <2>5. FreshCode' /\ Timely'
      BY DEF FreshCode, Timely, Redeemed
    <2>6. OnePlace'
      BY <2>1 DEF OnePlace, OnePlaceOf, Redeemed, TypeOK
    <2>7. SessionOfOwnLogin'
      BY DEF SessionOfOwnLogin, TypeOK, Shapes, Locals, OwnLogin
    <2> QED BY <2>2, <2>3, <2>4, <2>5, <2>6, <2>7
  <1>2. ASSUME NEW b \in Browsers, Logout(b) PROVE IInv'
    <2> USE <1>2 DEF IInv, world
    <2>0. PICK k \in current(b) :
            /\ sess' \in Delete(sess, k)
            /\ out' = IF k \in DOMAIN sess' THEN out ELSE out \cup {k}
            /\ cookie' = [cookie EXCEPT ![b].session = {}]
            /\ UNCHANGED <<world, began, issued, used, states, cb, made>>
      BY DEF Logout
    <2> USE <2>0
    <2>1. /\ DOMAIN sess' \subseteq DOMAIN sess
          /\ \A j \in DOMAIN sess' : sess'[j] = sess[j]
      BY DeleteKeys
    <2>2. k \in DOMAIN sess
      BY DEF current, Get
    <2>3. TypeOK'
      BY <2>1, <2>2 DEF TypeOK, Shapes, Locals
    <2>4. Shapes'
      BY <2>1 DEF Shapes, Locals
    <2>5. OwnLogin' /\ OnePlace'
      BY DEF OwnLogin, OnePlace, OnePlaceOf, Redeemed, Shapes, Locals
    <2>6. FreshCode'
      BY <2>1, <2>2 DEF FreshCode
    <2>7. Timely'
      BY <2>1 DEF Timely, Redeemed
    <2>8. SessionOfOwnLogin'
      BY DEF SessionOfOwnLogin, Shapes, Locals
    <2> QED BY <2>3, <2>4, <2>5, <2>6, <2>7, <2>8
  <1>3. ASSUME NEW l \in Logins, Authorize(l) PROVE IInv'
    <2> USE <1>3 DEF IInv, world, Authorize
    <2>0. PICK n \in 1 .. MaxCodes : issued' = issued \cup {<<l, n>>}
      OBVIOUS
    <2>1. TypeOK'
      BY <2>0 DEF TypeOK, Codes
    <2>2. Shapes'
      BY DEF Shapes, Locals
    <2>3. OwnLogin'
      BY <2>0 DEF OwnLogin
    <2>4. FreshCode' /\ Timely' /\ OnePlace' /\ SessionOfOwnLogin'
      BY DEF FreshCode, Timely, OnePlace, OnePlaceOf, SessionOfOwnLogin
    <2> QED BY <2>1, <2>2, <2>3, <2>4
  <1>4. ASSUME NEW c \in Callbacks, Callback(c) PROVE IInv'
    <2> USE <1>4 DEF IInv, world
    <2> DEFINE overlaps(l) == made[l].excused \/ \E d \in Callbacks : cb[d].pc = "delete" /\ cb[d].l = l
               locals(b, l, code) == [NoCb EXCEPT !.pc = "delete", !.b = b, !.l = l, !.code = code]
    <2>a. PICK b \in Browsers, code \in issued : \E l \in cookie[b].state :
            /\ Get(states, l)
            /\ cb' = [cb EXCEPT ![c] = locals(b, l, code)]
            /\ made' = [made EXCEPT ![l].excused = overlaps(l)]
      BY DEF Callback
    <2>0. PICK l \in cookie[b].state :
            /\ Get(states, l)
            /\ cb' = [cb EXCEPT ![c] = locals(b, l, code)]
            /\ made' = [made EXCEPT ![l].excused = overlaps(l)]
      BY <2>a
    <2>b. overlaps(l) \in BOOLEAN
      OBVIOUS
    <2>1. cb[c].pc = "idle" /\ UNCHANGED <<world, began, issued, used, states, sess, cookie, out>>
      BY DEF Callback
    <2> USE <2>0, <2>1
    <2>2. /\ cb'[c].pc = "delete" /\ cb'[c].b = b /\ cb'[c].l = l /\ cb'[c].code = code
          /\ \A d \in Callbacks \ {c} : cb'[d] = cb[d]
      BY DEF Shapes, Locals, NoCb
    <2>3. l \in DOMAIN states /\ l \in DOMAIN began /\ l \in Logins
      BY DEF Get, TypeOK
    <2>4. TypeOK'
      BY <2>2, <2>3 DEF TypeOK
    <2>5. Shapes'
      BY <2>3 DEF Shapes, Locals, NoCb, TypeOK
    <2>6. OwnLogin'
      BY <2>2, <2>3 DEF OwnLogin, Redeemed
    <2>7. FreshCode' /\ SessionOfOwnLogin'
      BY <2>2 DEF FreshCode, SessionOfOwnLogin, Redeemed
    <2>8. Timely'
      BY <2>2 DEF Timely, Redeemed
    <2>9. OnePlace'
      <3>1. /\ \A k \in Logins : made'[k].sessions = made[k].sessions
            /\ \A k \in Logins \ {l} : made'[k].excused = made[k].excused
            /\ made'[l].excused \/ (~made[l].excused /\ \A d \in Callbacks : cb[d].pc = "delete" => cb[d].l # l)
        BY <2>3 DEF Shapes, Locals
      <3> SUFFICES ASSUME NEW k \in Logins PROVE OnePlaceOf(k)'
        BY DEF OnePlace
      <3>2. CASE k # l
        BY <2>2, <3>1, <3>2 DEF OnePlace, OnePlaceOf, Redeemed
      <3>3. CASE k = l
        BY <2>2, <2>3, <3>1, <3>3 DEF OnePlace, OnePlaceOf, Redeemed, TypeOK
      <3> QED BY <3>2, <3>3
    <2> QED BY <2>4, <2>5, <2>6, <2>7, <2>8, <2>9
  <1>5. ASSUME NEW c \in Callbacks, CallbackDelete(c) PROVE IInv'
    <2> USE <1>5 DEF IInv, world, Goto, CallbackDelete
    <2> DEFINE l == cb[c].l
    <2>1. /\ DOMAIN states' \subseteq DOMAIN states
          /\ cb'[c] = [cb[c] EXCEPT !.pc = "exchange"]
          /\ \A d \in Callbacks \ {c} : cb'[d] = cb[d]
      BY DeleteKeys DEF Shapes, Locals
    <2>2. l \in DOMAIN began /\ l \in Logins
      BY DEF TypeOK
    <2>3. /\ cb'[c].pc = "exchange" /\ cb'[c].b = cb[c].b /\ cb'[c].l = l /\ cb'[c].code = cb[c].code
      BY <2>1 DEF Shapes, Locals
    <2>4. TypeOK'
      BY <2>1, <2>3 DEF TypeOK
    <2>5. Shapes'
      <3> DEFINE e == made[l].excused \/ l \in DOMAIN states'
      <3>1. e \in BOOLEAN /\ made' = [made EXCEPT ![l].excused = e]
        OBVIOUS
      <3>2. cb' \in [Callbacks -> Locals]
        <4>1. [cb[c] EXCEPT !.pc = "exchange"] \in Locals
          BY DEF Shapes, Locals
        <4> QED BY <4>1 DEF Shapes
      <3> HIDE DEF e
      <3>3. made' \in [Logins -> [sessions : SUBSET Codes, excused : BOOLEAN]]
        BY <2>2, <3>1 DEF Shapes
      <3> QED BY <3>2, <3>3 DEF Shapes
    <2>6. OwnLogin'
      BY <2>1, <2>3 DEF OwnLogin, Redeemed
    <2>7. FreshCode' /\ SessionOfOwnLogin'
      BY <2>1, <2>3 DEF FreshCode, SessionOfOwnLogin, Redeemed
    <2>8. Timely'
      BY <2>1, <2>3 DEF Timely, Redeemed
    <2>9. OnePlace'
      <3>1. /\ \A k \in Logins : made'[k].sessions = made[k].sessions
            /\ \A k \in Logins \ {l} : made'[k].excused = made[k].excused
            /\ made'[l].excused \/ (~made[l].excused /\ l \notin DOMAIN states')
        BY <2>2 DEF Shapes, Locals
      <3> SUFFICES ASSUME NEW k \in Logins PROVE OnePlaceOf(k)'
        BY DEF OnePlace
      <3>2. CASE k # l
        BY <2>1, <2>3, <3>1, <3>2 DEF OnePlace, OnePlaceOf, Redeemed
      <3>3. CASE k = l
        BY <2>1, <2>2, <2>3, <3>1, <3>3 DEF OnePlace, OnePlaceOf, Redeemed
      <3> QED BY <3>2, <3>3
    <2> QED BY <2>4, <2>5, <2>6, <2>7, <2>8, <2>9
  <1>6. ASSUME NEW c \in Callbacks, CallbackExchange(c) PROVE IInv'
    <2> USE <1>6 DEF IInv, world
    <2>1. CASE /\ cb[c].code \notin used /\ used' = used \cup {cb[c].code}
               /\ cb[c].code[1] = cb[c].l
               /\ cb' = [cb EXCEPT ![c].pc = "audit", ![c].roles = roles]
               /\ UNCHANGED cookie
      <3>1. /\ cb[c].pc = "exchange" /\ cb[c].code \notin used /\ used' = used \cup {cb[c].code}
            /\ cb[c].code[1] = cb[c].l
            /\ UNCHANGED <<world, began, issued, states, sess, cookie, made, out>>
        BY <2>1 DEF CallbackExchange
      <3>2. /\ cb'[c].pc = "audit" /\ cb'[c].b = cb[c].b /\ cb'[c].l = cb[c].l /\ cb'[c].code = cb[c].code
            /\ cb'[c].roles = roles
            /\ \A d \in Callbacks \ {c} : cb'[d] = cb[d]
        BY <2>1 DEF Shapes, Locals
      <3> USE <3>1, <3>2
      <3>3. TypeOK'
        BY DEF TypeOK
      <3>4. Shapes'
        <4>1. cb' \in [Callbacks -> Locals]
          <5>1. roles \in Realm
            BY DEF TypeOK
          <5>2. [cb[c] EXCEPT !.pc = "audit", !.roles = roles] \in Locals
            BY <5>1 DEF Shapes, Locals
          <5> QED BY <2>1, <5>2 DEF Shapes
        <4> QED BY <4>1 DEF Shapes, Locals
      <3>5. OwnLogin'
        BY DEF OwnLogin, Redeemed
      <3>6. FreshCode'
        BY DEF FreshCode, Redeemed, TypeOK
      <3>7. Timely'
        BY DEF Timely, Redeemed
      <3>8. SessionOfOwnLogin'
        BY DEF SessionOfOwnLogin
      <3>9. OnePlace'
        BY DEF OnePlace, OnePlaceOf, Redeemed
      <3> QED BY <3>3, <3>4, <3>5, <3>6, <3>7, <3>8, <3>9
    <2>2. CASE /\ Refuse(c)
               /\ UNCHANGED used \/ used' = used \cup {cb[c].code}
      <3> USE <2>2
      <3>1. /\ cb[c].pc = "exchange"
            /\ UNCHANGED <<world, began, issued, states, sess, made, out>>
        BY DEF CallbackExchange
      <3>2. /\ cb'[c] = NoCb
            /\ cb'[c].pc = "idle"
            /\ \A d \in Callbacks \ {c} : cb'[d] = cb[d]
        BY DEF Shapes, Locals, NoCb, Refuse
      <3>3. /\ cb[c].b \in Browsers
            /\ \A b \in Browsers : cookie'[b].state \subseteq cookie[b].state /\ cookie'[b].session = cookie[b].session
        BY <3>1 DEF Refuse, TypeOK, Shapes, Locals
      <3> USE <3>1, <3>2, <3>3
      <3>4. TypeOK'
        BY DEF TypeOK
      <3>5. Shapes'
        BY DEF Shapes, Locals, TypeOK, NoCb, Refuse
      <3>6. OwnLogin'
        BY DEF OwnLogin, Redeemed
      <3>7. FreshCode'
        BY DEF FreshCode, Redeemed
      <3>8. Timely'
        BY DEF Timely, Redeemed
      <3>9. SessionOfOwnLogin'
        BY DEF SessionOfOwnLogin
      <3>10. OnePlace'
        BY DEF OnePlace, OnePlaceOf, Redeemed
      <3> QED BY <3>4, <3>5, <3>6, <3>7, <3>8, <3>9, <3>10
    <2> QED BY <2>1, <2>2 DEF CallbackExchange
  <1>7. ASSUME NEW c \in Callbacks, CallbackAudit(c) \/ Disconnect(c) PROVE IInv'
    <2> USE <1>7 DEF IInv, world
    <2>0. \/ cb' = [cb EXCEPT ![c] = [cb[c] EXCEPT !.pc = "put"]]
          \/ cb' = [cb EXCEPT ![c] = [cb[c] EXCEPT !.gone = TRUE]]
      BY DEF CallbackAudit, Disconnect
    <2>1. /\ cb[c].pc \in Redeemed /\ cb'[c].pc \in Redeemed
          /\ cb'[c].b = cb[c].b /\ cb'[c].l = cb[c].l /\ cb'[c].code = cb[c].code
          /\ cb'[c].roles = cb[c].roles
          /\ \A d \in Callbacks \ {c} : cb'[d] = cb[d]
          /\ UNCHANGED <<world, began, issued, used, states, sess, cookie, made, out>>
      <3>1. cb[c].pc \in Redeemed /\ UNCHANGED <<world, began, issued, used, states, sess, cookie, made, out>>
        BY DEF CallbackAudit, Disconnect, Redeemed
      <3>2. CASE cb' = [cb EXCEPT ![c] = [cb[c] EXCEPT !.pc = "put"]]
        BY <3>1, <3>2 DEF Shapes, Locals, Redeemed
      <3>3. CASE cb' = [cb EXCEPT ![c] = [cb[c] EXCEPT !.gone = TRUE]]
        BY <3>1, <3>3 DEF Shapes, Locals
      <3> QED BY <2>0, <3>1, <3>2, <3>3
    <2> USE <2>1
    <2>2. TypeOK'
      BY DEF TypeOK, Redeemed
    <2>3. Shapes'
      <3>1. cb[c] \in Locals
        BY DEF Shapes
      <3>2. /\ \A q \in Locals : [q EXCEPT !.pc = "put"] \in Locals
            /\ \A q \in Locals : [q EXCEPT !.gone = TRUE] \in Locals
        BY DEF Locals
      <3>3. cb' \in [Callbacks -> Locals]
        BY <2>0, <3>1, <3>2 DEF Shapes
      <3> QED BY <3>3 DEF Shapes
    <2>4. OwnLogin'
      BY DEF OwnLogin, Redeemed
    <2>5. FreshCode'
      BY DEF FreshCode
    <2>6. Timely'
      BY DEF Timely
    <2>7. SessionOfOwnLogin'
      BY DEF SessionOfOwnLogin
    <2>9. OnePlace'
      BY DEF OnePlace, OnePlaceOf, Redeemed
    <2> QED BY <2>2, <2>3, <2>4, <2>5, <2>6, <2>7, <2>9
  <1>8. ASSUME NEW c \in Callbacks, CallbackPut(c) PROVE IInv'
    <2> USE <1>8 DEF IInv, world
    <2> DEFINE k == cb[c].code
               l == cb[c].l
               entry == [roles |-> cb[c].roles, exp |-> now + SessionTTL]
    <2>1. /\ cb[c].pc = "put"
          /\ sess' \in Put(sess, k, entry)
          /\ cookie' = IF cb[c].gone THEN cookie
                       ELSE [cookie EXCEPT ![cb[c].b] = [state |-> {}, session |-> {k}]]
          /\ made' = [made EXCEPT ![l].sessions = @ \cup {k}]
          /\ cb' = [cb EXCEPT ![c] = NoCb]
          /\ UNCHANGED <<world, began, issued, used, states, out>>
      BY DEF CallbackPut
    <2>2. /\ DOMAIN sess' \subseteq DOMAIN sess \cup {k}
          /\ \A j \in DOMAIN sess' : (sess'[j] = entry /\ j = k) \/ (j \in DOMAIN sess /\ sess'[j] = sess[j])
      BY <2>1, PutKeys
    <2>3. /\ k \in used /\ k \in issued /\ k \in Codes /\ l \in Logins /\ l \in DOMAIN began /\ cb[c].b \in Browsers
          /\ cb[c].roles \in Realm
          /\ k \notin DOMAIN sess \cup out /\ k[1] = l /\ began[l] = cb[c].b
      BY <2>1 DEF TypeOK, FreshCode, OwnLogin, Redeemed
    <2>4. /\ cb'[c] = NoCb /\ cb'[c].pc = "idle"
          /\ \A d \in Callbacks \ {c} : cb'[d] = cb[d]
      BY <2>1 DEF Shapes, Locals, NoCb
    <2>5. \A b \in Browsers :
             \/ cookie'[b] = cookie[b]
             \/ b = cb[c].b /\ cookie'[b].state = {} /\ cookie'[b].session = {k}
      BY <2>1 DEF Shapes, Locals
    <2> HIDE DEF k, l
    <2>6. TypeOK'
      BY <2>1, <2>2, <2>3, <2>4, <2>5 DEF TypeOK
    <2>7. Shapes'
      <3>1. cookie' \in [Browsers -> [state : SUBSET Logins, session : SUBSET Codes]]
        BY <2>1, <2>3 DEF Shapes, Locals
      <3>2. cb' \in [Callbacks -> Locals]
        BY <2>1 DEF Shapes, Locals, NoCb
      <3>3. made' \in [Logins -> [sessions : SUBSET Codes, excused : BOOLEAN]]
        BY <2>1, <2>3 DEF Shapes, Locals
      <3>4. \A j \in DOMAIN sess' : sess'[j].roles \in Realm /\ sess'[j].exp \in Int
        BY <2>2, <2>3, TimeAssumption DEF Shapes, Locals, TypeOK
      <3> QED BY <2>1, <3>1, <3>2, <3>3, <3>4 DEF Shapes, Locals
    <2>8. OwnLogin'
      BY <2>1, <2>4, <2>5 DEF OwnLogin, Redeemed
    <2>9. FreshCode'
      BY <2>1, <2>2, <2>3, <2>4 DEF FreshCode, Redeemed, k
    <2>10. Timely'
      BY <2>1, <2>2, <2>4, TimeAssumption DEF Timely, Redeemed, TypeOK
    <2>12. SessionOfOwnLogin'
      BY <2>1, <2>3, <2>5 DEF SessionOfOwnLogin
    <2>13. OnePlace'
      <3>1. /\ made'[l].sessions = made[l].sessions \cup {k} /\ made'[l].excused = made[l].excused
            /\ \A j \in Logins \ {l} : made'[j] = made[j]
        BY <2>1, <2>3 DEF Shapes, Locals
      <3> SUFFICES ASSUME NEW j \in Logins PROVE OnePlaceOf(j)'
        BY DEF OnePlace
      <3>2. CASE j # l
        BY <2>1, <2>4, <3>1, <3>2 DEF OnePlace, OnePlaceOf, Redeemed
      <3>3. CASE j = l
        <4>1. \/ made[l].excused
              \/ /\ made[l].sessions = {} /\ l \notin DOMAIN states
                 /\ \A d \in Callbacks \ {c} : cb[d].pc # "idle" => cb[d].l # l
          BY <2>1, <2>3 DEF OnePlace, OnePlaceOf, Redeemed, l
        <4> QED BY <2>1, <2>3, <2>4, <3>1, <3>3, <4>1 DEF OnePlaceOf, Redeemed
      <3> QED BY <3>2, <3>3
    <2> QED BY <2>6, <2>7, <2>8, <2>9, <2>10, <2>12, <2>13
  <1>9. ASSUME Tick PROVE IInv'
    <2> USE <1>9, TimeAssumption DEF IInv, Tick
    <2>1. TypeOK'
      BY DEF TypeOK
    <2>2. Shapes'
      BY DEF Shapes, Locals, TypeOK
    <2>3. Timely'
      BY DEF Timely, Redeemed, Shapes, Locals, TypeOK
    <2>4. OwnLogin' /\ FreshCode' /\ OnePlace' /\ SessionOfOwnLogin'
      BY DEF OwnLogin, FreshCode, OnePlace, OnePlaceOf, SessionOfOwnLogin
    <2> QED BY <2>1, <2>2, <2>3, <2>4
  <1>10. ASSUME ChangeRoles PROVE IInv'
    <2> USE <1>10, TimeAssumption DEF IInv, ChangeRoles
    <2>1. TypeOK'
      BY DEF TypeOK
    <2>2. Shapes'
      BY DEF Shapes, Locals, TypeOK
    <2>3. Timely'
      <3>1. PICK R \in Realm \ {roles} : roles' = R /\ last' = [last EXCEPT ![R] = now]
        OBVIOUS
      <3>2. /\ last'[R] = now
            /\ \A S \in Realm : last[S] <= last'[S] /\ last'[S] <= now /\ last'[S] \in Int /\ last[S] \in Int
            /\ \A S \in Realm : last[S] = now => last'[S] = now
        BY <3>1 DEF Shapes, Locals, Timely, TypeOK
      <3>3. \A c \in Callbacks : cb[c].pc \in Redeemed => cb[c].roles \in Realm
        BY DEF TypeOK, Redeemed
      <3> QED BY <3>1, <3>2, <3>3 DEF Timely, Shapes, Locals, TypeOK
    <2>4. OwnLogin' /\ FreshCode' /\ OnePlace' /\ SessionOfOwnLogin'
      BY DEF OwnLogin, FreshCode, OnePlace, OnePlaceOf, SessionOfOwnLogin
    <2> QED BY <2>1, <2>2, <2>3, <2>4
  <1>11. ASSUME Restart PROVE IInv'
    <2> USE <1>11 DEF IInv, world
    <2>1. /\ DOMAIN states' \subseteq DOMAIN states
          /\ DOMAIN sess' \subseteq DOMAIN sess
          /\ \A k \in DOMAIN sess' : sess'[k] = sess[k]
          /\ \A c \in Callbacks : cb'[c] = NoCb /\ cb'[c].pc = "idle"
          /\ UNCHANGED <<world, began, issued, used, cookie, made, out>>
      BY DEF Restart, Without, NoCb
    <2> USE <2>1
    <2>2. TypeOK'
      BY DEF TypeOK
    <2>3. Shapes'
      BY DEF Shapes, Locals, Restart, NoCb
    <2>4. OwnLogin' /\ FreshCode' /\ SessionOfOwnLogin'
      BY DEF OwnLogin, FreshCode, SessionOfOwnLogin, Redeemed
    <2>5. Timely'
      BY DEF Timely, Redeemed
    <2>6. OnePlace'
      BY DEF OnePlace, OnePlaceOf, Redeemed
    <2> QED BY <2>2, <2>3, <2>4, <2>5, <2>6
  <1> QED BY <1>1, <1>2, <1>3, <1>4, <1>5, <1>6, <1>7, <1>8, <1>9, <1>10, <1>11 DEF Next, Step

\* It depends on the variables of the specification only.
LEMMA Stutter == IInv /\ UNCHANGED vars => IInv'
  BY DEF vars, IInv, TypeOK, Shapes, OwnLogin, FreshCode, Timely, OnePlace, OnePlaceOf,
     SessionOfOwnLogin

\* It holds in every reachable state.
LEMMA Inductive == Spec => []IInv
  <1>1. IInv /\ [Next]_vars => IInv'
    BY Keeps, Stutter
  <1> QED BY <1>1, Start, PTL DEF Spec

-----------------------------------------------------------------------------
\* The store's entries, the cookies and the callbacks' locals keep their types.
THEOREM TypeCorrect == Spec => []TypeOK
  BY Inductive, PTL DEF IInv

\* A state yields one session, unless two callbacks looked it up before
\* either removed it or Redis did not remove it: nothing else in Callback,
\* a second code or a restart included, lets a login be used twice.
THEOREM LoginsMakeOneSession == Spec => []OneSessionPerLogin
  <1>1. IInv => OneSessionPerLogin
    <2> SUFFICES ASSUME IInv, NEW l \in Logins, ~made[l].excused
                 PROVE  Cardinality(made[l].sessions) <= 1
      BY DEF OneSessionPerLogin
    <2>1. CASE made[l].sessions = {}
      BY <2>1, FS_EmptySet
    <2>2. CASE \E k \in Codes : made[l].sessions = {k}
      <3>1. PICK k \in Codes : made[l].sessions = {k}
        BY <2>2
      <3>2. Cardinality({k}) = 1
        BY FS_Singleton
      <3> QED BY <3>1, <3>2
    <2> QED BY <2>1, <2>2 DEF IInv, OnePlace, OnePlaceOf
  <1> QED BY <1>1, Inductive, PTL

\* The middleware never lets a logged-out session through, nor one whose
\* roles the user lost more than SessionTTL ago.
THEOREM RequestsAcceptedRightly == Spec => []AcceptedRightly
  <1>1. IInv => AcceptedRightly
    <2> SUFFICES ASSUME IInv, NEW b \in Browsers, NEW k \in Middleware(b)
                 PROVE  last[sess[k].roles] >= now - SessionTTL /\ k \notin out
      BY DEF AcceptedRightly
    <2>1. k \in DOMAIN sess /\ now <= sess[k].exp
      BY DEF Middleware, current, Get
    <2>2. /\ sess[k].exp <= last[sess[k].roles] + SessionTTL
          /\ last[sess[k].roles] \in Int /\ sess[k].exp \in Int /\ now \in Int
      BY <2>1 DEF IInv, Timely, Shapes, TypeOK
    <2> QED BY <2>1, <2>2, TimeAssumption DEF IInv, FreshCode
  <1> QED BY <1>1, Inductive, PTL

\* A browser only ever holds sessions of logins that began in it.
THEOREM BrowsersHoldOwnSessions == Spec => []SessionOfOwnLogin
  BY Inductive, PTL DEF IInv
=============================================================================
