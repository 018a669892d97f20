-------------------------------- MODULE Login --------------------------------
(***************************************************************************)
(* The OIDC login and the sessions it makes.  Login leaves a state entry   *)
(* in the session store and a cookie in the browser; Callback checks both, *)
(* consumes the entry, redeems the code at the identity provider, audits   *)
(* and stores a session.  The look-up of the entry and its removal are two *)
(* calls of the store, and a callback URL can be opened again, twice at    *)
(* once or in another browser.  The store is either a map in memory, which *)
(* a restart empties, or Redis, whose errors are ignored.                  *)
(***************************************************************************)
EXTENDS Integers, FiniteSets

CONSTANTS Browsers,
          Logins,     \* the state tokens Login can mint, each once
          Callbacks,  \* slots for callback requests, reused
          MaxCodes,   \* bound: codes the provider issues
          StateTTL, SessionTTL, \* 10 minutes and 12 hours, in ticks
          MaxTime,    \* bound on the clock
          Realm,      \* the sets of realm roles the user may have
          OpenRead,   \* DBM_OPEN_READ
          Backends    \* session stores to look at

ASSUME TimeAssumption == {StateTTL, SessionTTL, MaxTime, MaxCodes} \subseteq Nat
ASSUME RealmAssumption == \A R \in Realm : R \subseteq {"dbm-read", "dbm-write", "dbm-admin"}
ASSUME BackendsAssumption == Backends \subseteq {"memory", "redis"}
ASSUME OpenReadAssumption == OpenRead \in BOOLEAN

(* A code names the login it was issued for; a session is named by the     *)
(* code it was made from, since the provider redeems a code only once.     *)
Codes == Logins \X (1 .. MaxCodes)

VARIABLES backend,
          now,
          roles,   \* the user's realm roles at the provider
          last,    \* when the user last had those roles
          began,   \* the browser that began each login
          issued,  \* the codes the provider has issued
          used,    \* and redeemed
          states,  \* the store's state entries: login -> expiry
          sess,    \* the store's sessions: code -> what the session says
          cookie,  \* the state and the session cookie of every browser
          cb,      \* the locals of every callback
          made,    \* the sessions made with each state, and how it was consumed
          out      \* the sessions that were logged out

vars == <<backend, now, roles, last, began, issued, used, states, sess, cookie, cb, made, out>>
world == <<backend, now, roles, last>>

applyCaps(R) ==
  (IF "dbm-admin" \in R THEN {"admin", "write", "read"} ELSE {})
  \cup (IF "dbm-write" \in R THEN {"write", "read"} ELSE {})
  \cup (IF "dbm-read" \in R \/ OpenRead THEN {"read"} ELSE {})

(* The locals of a callback: its browser, state, code, whether its client  *)
(* has gone, and the roles it was given.                                   *)
NoCb == [pc |-> "idle", b |-> {}, l |-> {}, code |-> <<>>, gone |-> FALSE, roles |-> {}]

Init == /\ backend \in Backends
        /\ now = 0
        /\ roles \in Realm
        /\ last = [R \in Realm |-> IF R = roles THEN 0 ELSE -SessionTTL - 1]
        /\ began = [l \in {} |-> 0]
        /\ issued = {} /\ used = {}
        /\ states = [l \in {} |-> 0]
        /\ sess = [k \in {} |-> 0]
        /\ cookie = [b \in Browsers |-> [state |-> {}, session |-> {}]]
        /\ cb = [c \in Callbacks |-> NoCb]
        /\ made = [l \in Logins |-> [sessions |-> {}, excused |-> FALSE]]
        /\ out = {}

-----------------------------------------------------------------------------
(* The session store.  An expired entry is not found, so whether reap or   *)
(* Redis has removed it makes no difference and it stays here.  Redis      *)
(* may fail, and a write that failed is not reported.                      *)
(* Bugs planted for the properties to catch stand before the definition    *)
(* they replace: here the expiry is left to the store.                     *)
GetAny(store, key) == key \in DOMAIN store
Get(store, key) == key \in DOMAIN store /\ now <= store[key].exp
Without(store, keys) == [k \in DOMAIN store \ keys |-> store[k]]
Put(store, key, entry) ==
  {[k \in DOMAIN store \cup {key} |-> IF k = key THEN entry ELSE store[k]]}
  \cup IF backend = "redis" THEN {store} ELSE {}
Delete(store, key) ==
  {Without(store, {key})} \cup IF backend = "redis" THEN {store} ELSE {}

Login(b) ==
  /\ \E l \in Logins \ DOMAIN began :
       /\ began' = [k \in DOMAIN began \cup {l} |-> IF k = l THEN b ELSE began[k]]
       /\ states' \in Put(states, l, [exp |-> now + StateTTL])
       /\ cookie' = [cookie EXCEPT ![b].state = {l}]
  /\ UNCHANGED <<world, issued, used, sess, cb, made, out>>

(* External: the provider sends the browser back with a code.  Going back  *)
(* to its form and submitting again yields another code for the same state.*)
Authorize(l) ==
  /\ l \in DOMAIN began
  /\ Cardinality(issued) < MaxCodes
  /\ \E n \in 1 .. MaxCodes :
       /\ <<l, n>> \notin issued /\ \A m \in 1 .. n - 1 : <<l, m>> \in issued
       /\ issued' = issued \cup {<<l, n>>}
  /\ UNCHANGED <<world, began, used, states, sess, cookie, cb, made, out>>

-----------------------------------------------------------------------------
Goto(c, pc) == cb' = [cb EXCEPT ![c].pc = pc]
(* A callback refused after its entry was consumed clears the state cookie.*)
Refuse(c) ==
  /\ cb' = [cb EXCEPT ![c] = NoCb]
  /\ cookie' = [cookie EXCEPT ![cb[c].b].state = {}]

(* A callback URL with state l and some code is opened in a browser whose  *)
(* state cookie matches; any other is refused and changes nothing, as is   *)
(* one whose entry is not found.  made records whether another callback    *)
(* with the same state is between its look-up and its removal.             *)
Callback(c) ==
  /\ cb[c].pc = "idle"
  /\ \E b \in Browsers, code \in issued :
       \E l \in cookie[b].state :
         /\ Get(states, l)
         /\ cb' = [cb EXCEPT ![c] = [NoCb EXCEPT !.pc = "delete", !.b = b, !.l = l, !.code = code]]
         /\ made' = [made EXCEPT ![l].excused =
                       @ \/ \E d \in Callbacks : cb[d].pc = "delete" /\ cb[d].l = l]
  /\ UNCHANGED <<world, began, issued, used, states, sess, cookie, out>>

(* Planted bugs: the entry is not consumed; the code is never redeemed.    *)
CallbackKeep(c) ==
  /\ cb[c].pc = "delete"
  /\ Goto(c, "exchange")
  /\ UNCHANGED <<world, began, issued, used, states, sess, cookie, made, out>>
CallbackTrust(c) ==
  /\ cb[c].pc = "delete"
  /\ states' \in Delete(states, cb[c].l)
  /\ Goto(c, "audit")
  /\ UNCHANGED <<world, began, issued, used, sess, cookie, made, out>>

CallbackDelete(c) ==
  LET l == cb[c].l
  IN  /\ cb[c].pc = "delete"
      /\ states' \in Delete(states, l)
      /\ made' = [made EXCEPT ![l].excused = @ \/ l \in DOMAIN states']
      /\ Goto(c, "exchange")
      /\ UNCHANGED <<world, began, issued, used, sess, cookie, out>>

(* A planted bug: the nonce is not compared.                               *)
CallbackExchangeAny(c) ==
  /\ cb[c].pc = "exchange"
  /\ cb[c].code \notin used
  /\ used' = used \cup {cb[c].code}
  /\ cb' = [cb EXCEPT ![c].pc = "audit", ![c].roles = roles]
  /\ UNCHANGED <<world, began, issued, states, sess, cookie, made, out>>

(* The code is redeemed, once, for the roles the user has at that moment.  *)
(* The nonce of the ID token must be the one of this login.  A provider    *)
(* that does not check PKCE is allowed for.                                *)
CallbackExchange(c) ==
  LET code == cb[c].code
  IN  /\ cb[c].pc = "exchange"
      /\ \/ /\ code \notin used
            /\ used' = used \cup {code}
            /\ IF code[1] = cb[c].l
               THEN /\ cb' = [cb EXCEPT ![c].pc = "audit", ![c].roles = roles]
                    /\ UNCHANGED cookie
               ELSE Refuse(c)
         \/ /\ Refuse(c)
            /\ UNCHANGED used
      /\ UNCHANGED <<world, began, issued, states, sess, made, out>>

(* AddAudit ignores every error of its insert, be it the context of a      *)
(* client that has gone or the metadata store that is down, locked or      *)
(* full.  The login goes on with its row or without, so nothing here tells *)
(* the one from the other.                                                 *)
CallbackAudit(c) ==
  /\ cb[c].pc = "audit"
  /\ cb' = [cb EXCEPT ![c].pc = "put"]
  /\ UNCHANGED <<world, began, issued, used, states, sess, cookie, made, out>>

(* The session is stored, and its cookie sent to the browser, if it waits. *)
CallbackPut(c) ==
  LET k == cb[c].code
  IN  /\ cb[c].pc = "put"
      /\ sess' \in Put(sess, k, [roles |-> cb[c].roles, exp |-> now + SessionTTL])
      /\ cookie' = IF cb[c].gone THEN cookie
                   ELSE [cookie EXCEPT ![cb[c].b] = [state |-> {}, session |-> {k}]]
      /\ made' = [made EXCEPT ![cb[c].l].sessions = @ \cup {k}]
      /\ cb' = [cb EXCEPT ![c] = NoCb]
      /\ UNCHANGED <<world, began, issued, used, states, out>>

(* The client goes away; up to the exchange that only makes it fail.       *)
Disconnect(c) ==
  /\ cb[c].pc \in {"audit", "put"} /\ ~cb[c].gone
  /\ cb' = [cb EXCEPT ![c].gone = TRUE]
  /\ UNCHANGED <<world, began, issued, used, states, sess, cookie, made, out>>

-----------------------------------------------------------------------------
(* current: the session of the browser's cookie, if the store has it.      *)
current(b) == {k \in cookie[b].session : Get(sess, k)}

(* Middleware lets a request through for a session with read access.       *)
Middleware(b) == {k \in current(b) : "read" \in applyCaps(sess[k].roles)}

(* The CSRF token is the session's, so a session that is not found has     *)
(* none.  out: the log-outs the store has carried out.                     *)
Logout(b) ==
  /\ \E k \in current(b) :
       /\ sess' \in Delete(sess, k)
       /\ out' = IF k \in DOMAIN sess' THEN out ELSE out \cup {k}
  /\ cookie' = [cookie EXCEPT ![b].session = {}]
  /\ UNCHANGED <<world, began, issued, used, states, cb, made>>

(* A tick is long against the local steps that follow the exchange.        *)
Tick ==
  /\ now < MaxTime
  /\ \A c \in Callbacks : cb[c].pc \notin {"audit", "put"}
  /\ now' = now + 1
  /\ last' = [last EXCEPT ![roles] = now + 1]
  /\ UNCHANGED <<backend, roles, began, issued, used, states, sess, cookie, cb, made, out>>

(* External: an administrator of the provider changes the user's roles.    *)
ChangeRoles ==
  /\ \E R \in Realm \ {roles} : roles' = R /\ last' = [last EXCEPT ![R] = now]
  /\ UNCHANGED <<backend, now, began, issued, used, states, sess, cookie, cb, made, out>>

(* A restart cuts callbacks off and empties a store in memory.             *)
Restart ==
  /\ cb' = [c \in Callbacks |-> NoCb]
  /\ states' = IF backend = "memory" THEN Without(states, Logins) ELSE states
  /\ sess' = IF backend = "memory" THEN Without(sess, Codes) ELSE sess
  /\ <<cb', states', sess'>> # <<cb, states, sess>>
  /\ UNCHANGED <<world, began, issued, used, cookie, made, out>>

Step(c) == \/ CallbackDelete(c) \/ CallbackExchange(c)
           \/ CallbackAudit(c) \/ CallbackPut(c)
Next == \/ \E b \in Browsers : Login(b) \/ Logout(b)
        \/ \E l \in Logins : Authorize(l)
        \/ \E c \in Callbacks : Callback(c) \/ Step(c) \/ Disconnect(c)
        \/ Tick \/ ChangeRoles \/ Restart

Spec == Init /\ [][Next]_vars

-----------------------------------------------------------------------------
(* The types of the store, the cookies and the callbacks' locals.          *)
TypeOK ==
  /\ backend \in Backends /\ now \in 0 .. MaxTime
  /\ roles \in Realm
  /\ began \in [DOMAIN began -> Browsers] /\ DOMAIN began \subseteq Logins
  /\ used \subseteq issued /\ issued \subseteq Codes
  /\ DOMAIN states \subseteq DOMAIN began
  /\ DOMAIN sess \subseteq used
  /\ \A b \in Browsers : cookie[b].state \subseteq DOMAIN began /\ cookie[b].session \subseteq used
  /\ \A c \in Callbacks :
       /\ cb[c].pc \in {"idle", "delete", "exchange", "audit", "put"}
       /\ cb[c].pc # "idle" => cb[c].b \in Browsers /\ cb[c].l \in DOMAIN began /\ cb[c].code \in issued
       /\ cb[c].pc \in {"audit", "put"} => cb[c].code \in used /\ cb[c].roles \in Realm
  /\ out \subseteq used

(* One login makes one session, however often its callback is opened and   *)
(* however many codes the provider issues for it, unless two callbacks     *)
(* overlapped between the look-up of the state and its removal, or Redis   *)
(* did not remove it.                                                      *)
OneSessionPerLogin ==
  \A l \in Logins : Cardinality(made[l].sessions) <= 1 \/ made[l].excused

(* Whoever the middleware lets through had, within the last SessionTTL,    *)
(* the roles the request is given, and the session has not been logged     *)
(* out, restarts and late callbacks included.                              *)
AcceptedRightly ==
  \A b \in Browsers : \A k \in Middleware(b) :
    last[sess[k].roles] >= now - SessionTTL /\ k \notin out

(* A browser holds only sessions of logins that began in it: not the state *)
(* cookie alone but the nonce ties the code to the login.                  *)
SessionOfOwnLogin ==
  \A b \in Browsers : \A k \in cookie[b].session : began[k[1]] = b
=============================================================================
