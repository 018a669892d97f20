---------------------------- MODULE Credentials ----------------------------
(***************************************************************************)
(* Saved passwords and the keys they are sealed under: the keyring         *)
(* (internal/crypto/crypto.go), the handlers that write a password         *)
(* (internal/web/api_connections.go), the Re-encrypt handler               *)
(* (internal/web/api_audit.go) and the rotation an operator performs       *)
(* around them (docs/security.md, "Zero-downtime rotation").               *)
(***************************************************************************)
EXTENDS Naturals, FiniteSets

CONSTANTS
    Replicas,   \* server processes over one metadata store
    Requests,   \* HTTP requests (goroutines)
    Home,       \* Home[r]: the replica that serves r
    Ids,        \* connection ids
    Secrets,    \* plaintext passwords
    MaxStage,   \* bound: configuration changes of the rotation
    Empty,      \* the password_enc of a connection without a password
    None        \* no row

ASSUME CredentialsAssumption ==
    /\ Home \in [Requests -> Replicas]
    /\ MaxStage \in Nat

(***************************************************************************)
(* Keys are numbered in the order they come into use.  The configuration   *)
(* of a replica is one of the stages of successive rotations: at stage 2k  *)
(* the ring is key k alone, at stage 2k + 1 it is key k + 1 as primary and *)
(* key k retained (DBM_ENC_KEYS="k+1:..,k:..").                            *)
(***************************************************************************)
Stages == 0..MaxStage

Primary(n) == (n + 1) \div 2

Keys == 0..Primary(MaxStage)

Retained(n) == n \div 2

Ring(n) == {Primary(n), Retained(n)}

\* "<id>$<payload>" if prefixed; data of older builds has no prefix.
Ciphertexts == [prefixed : BOOLEAN, key : Keys, secret : Secrets]

ASSUME NullAssumption == None # Empty /\ Ciphertexts \cap {None, Empty} = {}

\* Fault: the id put in front of the payload is that of the next key.
EncryptNextKey(n, v) == [prefixed |-> TRUE, key |-> Primary(n) + 1, secret |-> v]

\* Box.Encrypt: always under the primary key.
Encrypt(n, v) == [prefixed |-> TRUE, key |-> Primary(n), secret |-> v]

\* Box.Decrypt succeeds: the named key is in the ring, or for unprefixed data
\* some key of the ring opens it (GCM refuses every key but the right one).
Decrypts(n, c) == c.key \in Ring(n)

\* Box.Reencrypt leaves the ciphertext alone: it names the primary key.
OnPrimary(n, c) == c.prefixed /\ c.key = Primary(n)

\* apiReencrypt has to rewrite the value.
NeedsRewrite(n, c) == c # Empty /\ ~OnPrimary(n, c)

VARIABLES
    row,        \* row[i]: password_enc of connection i, or None if there is no row
    born,       \* ids handed out so far; none is reused
    stage,      \* the configuration each replica was started with
    pc,         \* where each request is
    copied,     \* the password_enc a "save as copy" request has read
    todo,       \* connections a Re-encrypt has listed and not yet visited
    snap,       \* what it listed for them
    failed,     \* Re-encrypts that counted a failure
    clean,      \* Re-encrypts begun when every replica had the new primary
    reported,   \* one of them reported that everything is rewritten
    \* History, for the properties only:
    want,       \* the password an admin last gave the connection
    dirty,      \* dirty[r]: connections given a new password since r's list
    raced,      \* connections whose new password a Re-encrypt overwrote
    carried     \* connections saved as a copy of a value under another key

vars == <<row, born, stage, pc, copied, todo, snap, failed, clean, reported,
          want, dirty, raced, carried>>

sweepVars == <<todo, snap, failed, clean>>
history == <<want, dirty, raced, carried>>

SecretOf(c) == IF c \in {None, Empty} THEN c ELSE c.secret

NoList == [i \in Ids |-> None]

\* The table holds passwords saved before the rotation, some of them unprefixed.
Init ==
    /\ row \in [Ids -> {None, Empty} \cup [prefixed : BOOLEAN, key : {0}, secret : Secrets]]
    /\ born = {i \in Ids : row[i] # None}
    /\ stage = [x \in Replicas |-> 0]
    /\ pc = [r \in Requests |-> "idle"]
    /\ copied = [r \in Requests |-> None]
    /\ todo = [r \in Requests |-> {}]
    /\ snap = [r \in Requests |-> NoList]
    /\ failed = {}
    /\ clean = {}
    /\ reported = FALSE
    /\ want = [i \in Ids |-> SecretOf(row[i])]
    /\ dirty = [r \in Requests |-> {}]
    /\ raced = {}
    /\ carried = {}

-----------------------------------------------------------------------------
(* Handlers that store a password.                                         *)

\* The row of i is written with c, the password an admin asked for.
Give(i, c) ==
    /\ row' = [row EXCEPT ![i] = c]
    /\ want' = [want EXCEPT ![i] = SecretOf(c)]
    /\ dirty' = [r \in Requests |-> IF pc[r] = "sweep" THEN dirty[r] \cup {i} ELSE {}]
    /\ raced' = raced \ {i}

\* apiCreateConnection with a password (or, v = Empty, without one).
Create(r, i, v) ==
    /\ pc[r] = "idle"
    /\ i \notin born
    /\ born' = born \cup {i}
    /\ Give(i, IF v = Empty THEN Empty ELSE Encrypt(stage[Home[r]], v))
    /\ UNCHANGED <<stage, pc, copied, sweepVars, reported, carried>>

\* apiCreateConnection with copyFrom: the source's ciphertext is read ...
CopyRead(r, i) ==
    /\ pc[r] = "idle"
    /\ row[i] # None
    /\ pc' = [pc EXCEPT ![r] = "copy"]
    /\ copied' = [copied EXCEPT ![r] = row[i]]
    /\ UNCHANGED <<row, born, stage, sweepVars, reported, history>>

\* ... and inserted as it is.
CopyWrite(r, i) ==
    /\ pc[r] = "copy"
    /\ i \notin born
    /\ born' = born \cup {i}
    /\ Give(i, copied[r])
    /\ carried' = IF NeedsRewrite(stage[Home[r]], copied[r]) THEN carried \cup {i} ELSE carried
    /\ pc' = [pc EXCEPT ![r] = "idle"]
    /\ copied' = [copied EXCEPT ![r] = None]
    /\ UNCHANGED <<stage, sweepVars, reported>>

\* The insert fails: an error response, nothing saved.
CopyFails(r) ==
    /\ pc[r] = "copy"
    /\ pc' = [pc EXCEPT ![r] = "idle"]
    /\ copied' = [copied EXCEPT ![r] = None]
    /\ UNCHANGED <<row, born, stage, sweepVars, reported, history>>

\* Fault: the edit is saved with updatePw left false.
UpdateKeepsPassword(r, i, v) ==
    /\ pc[r] = "idle"
    /\ row[i] # None
    /\ want' = [want EXCEPT ![i] = v]
    /\ UNCHANGED <<row, dirty, raced, carried, born, stage, pc, copied, sweepVars, reported>>

\* apiUpdateConnection with a password in the form.  (Without one, or when the
\* row is gone by now, password_enc is not written.)
Update(r, i, v) ==
    /\ pc[r] = "idle"
    /\ row[i] # None
    /\ Give(i, Encrypt(stage[Home[r]], v))
    /\ carried' = carried \ {i}
    /\ UNCHANGED <<born, stage, pc, copied, sweepVars, reported>>

\* apiDeleteConnection.
Delete(i) ==
    /\ row[i] # None
    /\ row' = [row EXCEPT ![i] = None]
    /\ want' = [want EXCEPT ![i] = None]
    /\ raced' = raced \ {i}
    /\ carried' = carried \ {i}
    /\ UNCHANGED <<born, stage, pc, copied, sweepVars, reported, dirty>>

-----------------------------------------------------------------------------
(* apiReencrypt.                                                           *)

\* ListConnections: one read of the whole table, acted on row by row later.
ReencryptList(r) ==
    /\ pc[r] = "idle"
    /\ pc' = [pc EXCEPT ![r] = "sweep"]
    /\ todo' = [todo EXCEPT ![r] = {i \in Ids : row[i] # None}]
    /\ snap' = [snap EXCEPT ![r] = row]
    /\ failed' = failed \ {r}
    /\ clean' = IF \A x \in Replicas : stage[x] % 2 = 1 /\ stage[x] = stage[Home[r]]
                THEN clean \cup {r} ELSE clean \ {r}
    /\ dirty' = [dirty EXCEPT ![r] = {}]
    /\ UNCHANGED <<row, born, stage, copied, reported, want, raced, carried>>

\* No password, or already sealed under the primary key.
ReencryptSkip(r, i) ==
    /\ pc[r] = "sweep"
    /\ i \in todo[r]
    /\ ~NeedsRewrite(stage[Home[r]], snap[r][i])
    /\ todo' = [todo EXCEPT ![r] = @ \ {i}]
    /\ UNCHANGED <<row, born, stage, pc, copied, snap, failed, clean, reported, history>>

\* Reencrypt cannot decrypt the listed value, or UpdatePasswordEnc fails without
\* effect.
ReencryptFails(r, i) ==
    /\ pc[r] = "sweep"
    /\ i \in todo[r]
    /\ NeedsRewrite(stage[Home[r]], snap[r][i])
    /\ failed' = failed \cup {r}
    /\ todo' = [todo EXCEPT ![r] = @ \ {i}]
    /\ UNCHANGED <<row, born, stage, pc, copied, snap, clean, reported, history>>

\* UpdatePasswordEnc with the listed password, re-sealed; it finds the row by
\* id alone, so it also replaces a password saved since the list was read.  If
\* its answer is lost, the row counts as failed although it is rewritten.
ReencryptWrite(r, i) ==
    /\ pc[r] = "sweep"
    /\ i \in todo[r]
    /\ LET n == stage[Home[r]]
           c == snap[r][i]
       IN /\ NeedsRewrite(n, c)
          /\ Decrypts(n, c)
          /\ row' = IF row[i] = None THEN row ELSE [row EXCEPT ![i] = Encrypt(n, c.secret)]
    /\ raced' = IF row[i] # None /\ i \in dirty[r] THEN raced \cup {i} ELSE raced
    /\ carried' = carried \ {i}
    /\ todo' = [todo EXCEPT ![r] = @ \ {i}]
    /\ failed' \in {failed, failed \cup {r}}
    /\ UNCHANGED <<born, stage, pc, copied, snap, clean, reported, want, dirty>>

\* Fault: failures are counted but not reported.
ReencryptDoneAnyway(r) ==
    /\ pc[r] = "sweep"
    /\ todo[r] = {}
    /\ reported' = (reported \/ r \in clean)
    /\ clean' = clean \ {r}
    /\ pc' = [pc EXCEPT ![r] = "idle"]
    /\ snap' = [snap EXCEPT ![r] = NoList]
    /\ failed' = failed \ {r}
    /\ dirty' = [dirty EXCEPT ![r] = {}]
    /\ UNCHANGED <<row, born, stage, copied, todo, want, raced, carried>>

\* The counts are audited and returned: nothing failed means all is rewritten.
ReencryptDone(r) ==
    /\ pc[r] = "sweep"
    /\ todo[r] = {}
    /\ reported' = (reported \/ (r \in clean /\ r \notin failed))
    /\ clean' = clean \ {r}
    /\ pc' = [pc EXCEPT ![r] = "idle"]
    /\ snap' = [snap EXCEPT ![r] = NoList]
    /\ failed' = failed \ {r}
    /\ dirty' = [dirty EXCEPT ![r] = {}]
    /\ UNCHANGED <<row, born, stage, copied, todo, want, raced, carried>>

-----------------------------------------------------------------------------
(* The operator changes DBM_ENC_KEYS and restarts one replica after the    *)
(* other; the requests a replica is serving end with it.                   *)

Rolls(x) ==
    /\ stage[x] < MaxStage
    /\ \A y \in Replicas : stage[y] \in {stage[x], stage[x] + 1}
    /\ stage' = [stage EXCEPT ![x] = @ + 1]
    /\ pc' = [r \in Requests |-> IF Home[r] = x THEN "idle" ELSE pc[r]]
    /\ copied' = [r \in Requests |-> IF Home[r] = x THEN None ELSE copied[r]]
    /\ todo' = [r \in Requests |-> IF Home[r] = x THEN {} ELSE todo[r]]
    /\ snap' = [r \in Requests |-> IF Home[r] = x THEN NoList ELSE snap[r]]
    /\ failed' = {r \in failed : Home[r] # x}
    /\ dirty' = [r \in Requests |-> IF Home[r] = x THEN {} ELSE dirty[r]]
    /\ UNCHANGED <<row, born, want, raced, carried>>

\* Step 1: the new key becomes primary, the old one is retained.
AddKey(x) ==
    /\ stage[x] % 2 = 0
    /\ Rolls(x)
    /\ clean' = {}
    /\ reported' = FALSE

\* Step 3: once Re-encrypt has reported everything rewritten, drop the old key.
DropKey(x) ==
    /\ stage[x] % 2 = 1
    /\ reported
    /\ Rolls(x)
    /\ clean' = {r \in clean : Home[r] # x}
    /\ UNCHANGED reported

-----------------------------------------------------------------------------

Next ==
    \/ \E r \in Requests, i \in Ids : \/ \E v \in Secrets \cup {Empty} : Create(r, i, v)
                                      \/ \E v \in Secrets : Update(r, i, v)
                                      \/ CopyRead(r, i)
                                      \/ CopyWrite(r, i)
                                      \/ ReencryptSkip(r, i)
                                      \/ ReencryptFails(r, i)
                                      \/ ReencryptWrite(r, i)
    \/ \E r \in Requests : CopyFails(r) \/ ReencryptList(r) \/ ReencryptDone(r)
    \/ \E i \in Ids : Delete(i)
    \/ \E x \in Replicas : AddKey(x) \/ DropKey(x)

Spec == Init /\ [][Next]_vars

-----------------------------------------------------------------------------
(* Properties                                                              *)

\* The types of the stored values, the requests' locals and the configurations.
TypeOK ==
    /\ row \in [Ids -> Ciphertexts \cup {None, Empty}]
    /\ born \subseteq Ids
    /\ stage \in [Replicas -> Stages]
    /\ pc \in [Requests -> {"idle", "copy", "sweep"}]
    /\ copied \in [Requests -> Ciphertexts \cup {None, Empty}]
    /\ todo \in [Requests -> SUBSET Ids]
    /\ snap \in [Requests -> [Ids -> Ciphertexts \cup {None, Empty}]]
    /\ failed \subseteq Requests
    /\ clean \subseteq Requests
    /\ reported \in BOOLEAN
    /\ want \in [Ids -> Secrets \cup {None, Empty}]
    /\ dirty \in [Requests -> SUBSET Ids]
    /\ raced \subseteq Ids
    /\ carried \subseteq Ids

HasPassword(i) == row[i] \notin {None, Empty}

\* A Re-encrypt that found every replica on the new key and reported no failure
\* left no password under any other key, whatever was created, edited or swept
\* beside it: the old key may be dropped (docs/security.md, step 3).  The one
\* exception is a save as copy that read its source before the sweep reached it.
RewrittenUnlessCopied ==
    reported => \A i \in Ids : HasPassword(i) =>
        i \in carried \/ \A x \in Replicas : OnPrimary(stage[x], row[i])

\* Every running replica can decrypt every saved password, at every moment of
\* the rotation, but for such copies.
DecryptableUnlessCopied ==
    \A i \in Ids : HasPassword(i) =>
        i \in carried \/ \A x \in Replicas : Decrypts(stage[x], row[i])

\* A saved password is the one an admin last gave, unless a Re-encrypt that had
\* listed the connection before that edit put the older password back.
LostOnlyIfRaced ==
    \A i \in Ids : SecretOf(row[i]) # want[i] => i \in raced

\* Re-encrypt is "safe to run anytime": it never changes what a password is.
ReencryptKeepsPasswords ==
    \A i \in Ids : SecretOf(row[i]) = want[i]
====
