------------------------- MODULE Credentials_proofs -------------------------
(***************************************************************************)
(* Proofs about saved passwords and key rotation, for any number of        *)
(* replicas, requests, connections, passwords and rotations.               *)
(***************************************************************************)
EXTENDS Credentials, TLAPS

Values == Ciphertexts \cup {None, Empty}

-----------------------------------------------------------------------------
(* What the handlers store, whatever the configuration.                    *)

\* A key of the ring of a stage is a key.
LEMMA RingKeys == \A n \in Stages : Primary(n) \in Keys /\ Retained(n) \in Keys
  BY CredentialsAssumption DEF Stages, Keys, Primary, Retained

\* Sealing a password gives a value that opens to that password.
LEMMA Sealing ==
  ASSUME NEW n \in Stages, NEW v \in Secrets
  PROVE  /\ Encrypt(n, v) \in Ciphertexts
         /\ Encrypt(n, v) \notin {None, Empty}
         /\ SecretOf(Encrypt(n, v)) = v
         /\ OnPrimary(n, Encrypt(n, v))
  <1>1. Encrypt(n, v) \in Ciphertexts
    BY RingKeys DEF Encrypt, Ciphertexts
  <1>2. Encrypt(n, v) \notin {None, Empty}
    BY <1>1, NullAssumption
  <1> QED BY <1>1, <1>2 DEF SecretOf, Encrypt, OnPrimary

\* A stored value opens to a password, or to its absence.
LEMMA Opening == \A c \in Values : SecretOf(c) \in Secrets \cup {None, Empty}
  BY DEF SecretOf, Values, Ciphertexts

-----------------------------------------------------------------------------
(* Types and lost passwords.                                               *)

\* A Re-encrypt visits only connections it listed a value for.
Listed ==
    \A r \in Requests : \A i \in todo[r] : pc[r] = "sweep" /\ snap[r][i] # None

\* What a Re-encrypt is about to write is the password last given, unless the
\* connection was edited since the list was read or had lost its password before.
Fresh ==
    \A r \in Requests : \A i \in todo[r] : row[i] # None =>
        i \in dirty[r] \/ i \in raced \/ SecretOf(snap[r][i]) = want[i]

PInv == TypeOK /\ Listed /\ Fresh /\ LostOnlyIfRaced

\* No handler and no restart breaks it.
LEMMA PasswordStep == ASSUME PInv, Next PROVE PInv'
  <1> USE CredentialsAssumption, NullAssumption DEF PInv
  <1>1. ASSUME NEW r \in Requests, NEW i \in Ids, NEW c \in Values, Give(i, c),
               UNCHANGED <<stage, todo, snap, failed, clean, reported>>,
               born' \subseteq Ids, carried' \subseteq Ids,
               pc' \in [Requests -> {"idle", "copy", "sweep"}],
               copied' \in [Requests -> Values],
               \A q \in Requests : pc[q] = "sweep" <=> pc'[q] = "sweep"
        PROVE  PInv'
    <2> USE <1>1 DEF Give
    <2>1. TypeOK'
      BY Opening DEF TypeOK, Values
    <2>2. Listed'
      BY DEF Listed
    <2>3. Fresh'
      BY DEF Fresh, Listed, TypeOK
    <2>4. LostOnlyIfRaced'
      BY DEF LostOnlyIfRaced, TypeOK
    <2> QED BY <2>1, <2>2, <2>3, <2>4
  <1>2. ASSUME NEW r \in Requests, NEW i \in Ids, NEW v \in Secrets \cup {Empty}, Create(r, i, v)
        PROVE  PInv'
    <2> DEFINE c == IF v = Empty THEN Empty ELSE Encrypt(stage[Home[r]], v)
    <2>1. stage[Home[r]] \in Stages
      BY DEF TypeOK
    <2>2. c \in Values
      BY <2>1, Sealing DEF Values
    <2>3. Give(i, c) /\ UNCHANGED <<stage, pc, copied, todo, snap, failed, clean, reported>>
      BY <1>2 DEF Create, sweepVars
    <2>4. born' \subseteq Ids /\ carried' \subseteq Ids
      BY <1>2 DEF Create, TypeOK
    <2> HIDE DEF c
    <2> QED BY <1>1, <2>2, <2>3, <2>4 DEF TypeOK, Values
  <1>3. ASSUME NEW r \in Requests, NEW i \in Ids, NEW v \in Secrets, Update(r, i, v)
        PROVE  PInv'
    <2> DEFINE c == Encrypt(stage[Home[r]], v)
    <2>1. stage[Home[r]] \in Stages
      BY DEF TypeOK
    <2>2. c \in Values
      BY <2>1, Sealing DEF Values
    <2>3. Give(i, c) /\ UNCHANGED <<born, stage, pc, copied, todo, snap, failed, clean, reported>>
      BY <1>3 DEF Update, sweepVars
    <2>4. carried' \subseteq Ids
      BY <1>3 DEF Update, TypeOK
    <2> HIDE DEF c
    <2> QED BY <1>1, <2>2, <2>3, <2>4 DEF TypeOK, Values
  <1>4. ASSUME NEW r \in Requests, NEW i \in Ids, CopyRead(r, i)
        PROVE  PInv'
    <2> USE <1>4 DEF CopyRead, sweepVars, history
    <2>1. TypeOK'
      BY DEF TypeOK
    <2>2. Listed'
      BY DEF Listed, TypeOK
    <2> QED BY <2>1, <2>2 DEF Fresh, LostOnlyIfRaced
  <1>5. ASSUME NEW r \in Requests, NEW i \in Ids, CopyWrite(r, i)
        PROVE  PInv'
    <2>1. copied[r] \in Values
      BY DEF TypeOK, Values
    <2>2. Give(i, copied[r]) /\ UNCHANGED <<stage, todo, snap, failed, clean, reported>>
      BY <1>5 DEF CopyWrite, sweepVars
    <2>3. /\ born' \subseteq Ids
          /\ carried' \subseteq Ids
          /\ pc' \in [Requests -> {"idle", "copy", "sweep"}]
          /\ copied' \in [Requests -> Values]
          /\ \A q \in Requests : pc[q] = "sweep" <=> pc'[q] = "sweep"
      BY <1>5 DEF CopyWrite, TypeOK, Values
    <2> QED BY <1>1, <2>1, <2>2, <2>3
  <1>6. ASSUME NEW r \in Requests, CopyFails(r)
        PROVE  PInv'
    <2> USE <1>6 DEF CopyFails, sweepVars, history
    <2>1. TypeOK'
      BY DEF TypeOK
    <2>2. Listed'
      BY DEF Listed, TypeOK
    <2> QED BY <2>1, <2>2 DEF Fresh, LostOnlyIfRaced
  <1>7. ASSUME NEW i \in Ids, Delete(i)
        PROVE  PInv'
    <2> USE <1>7 DEF Delete, sweepVars
    <2>1. TypeOK'
      BY DEF TypeOK
    <2>2. Fresh'
      BY DEF Fresh, TypeOK
    <2>3. LostOnlyIfRaced'
      BY DEF LostOnlyIfRaced, SecretOf, TypeOK
    <2> QED BY <2>1, <2>2, <2>3 DEF Listed
  <1>8. ASSUME NEW r \in Requests, ReencryptList(r)
        PROVE  PInv'
    <2> USE <1>8 DEF ReencryptList
    <2>1. TypeOK'
      BY DEF TypeOK
    <2>2. Listed'
      BY DEF Listed, TypeOK
    <2>3. Fresh'
      BY DEF Fresh, LostOnlyIfRaced, TypeOK
    <2> QED BY <2>1, <2>2, <2>3 DEF LostOnlyIfRaced
  <1>9. ASSUME NEW r \in Requests, NEW i \in Ids, ReencryptSkip(r, i)
        PROVE  PInv'
    <2> USE <1>9 DEF ReencryptSkip, history
    <2>1. TypeOK'
      BY DEF TypeOK
    <2>2. Listed' /\ Fresh'
      BY DEF Listed, Fresh, TypeOK
    <2> QED BY <2>1, <2>2 DEF LostOnlyIfRaced
  <1>10. ASSUME NEW r \in Requests, NEW i \in Ids, ReencryptFails(r, i)
        PROVE  PInv'
    <2> USE <1>10 DEF ReencryptFails, history
    <2>1. TypeOK'
      BY DEF TypeOK
    <2>2. Listed' /\ Fresh'
      BY DEF Listed, Fresh, TypeOK
    <2> QED BY <2>1, <2>2 DEF LostOnlyIfRaced
  <1>11. ASSUME NEW r \in Requests, NEW i \in Ids, ReencryptWrite(r, i)
        PROVE  PInv'
    <2> DEFINE c == snap[r][i]
               e == Encrypt(stage[Home[r]], c.secret)
    <2>1. c \in Ciphertexts /\ stage[Home[r]] \in Stages
      BY <1>11 DEF ReencryptWrite, NeedsRewrite, Listed, TypeOK
    <2>2. c.secret \in Secrets
      BY <2>1 DEF Ciphertexts
    <2>3. e \in Ciphertexts /\ e \notin {None, Empty} /\ SecretOf(e) = c.secret
      BY <2>1, <2>2, Sealing
    <2>4. SecretOf(c) = c.secret
      BY <2>1 DEF SecretOf
    <2>5. row' = IF row[i] = None THEN row ELSE [row EXCEPT ![i] = e]
      BY <1>11 DEF ReencryptWrite
    <2>6. /\ raced' = IF row[i] # None /\ i \in dirty[r] THEN raced \cup {i} ELSE raced
          /\ todo' = [todo EXCEPT ![r] = @ \ {i}]
          /\ i \in todo[r]
          /\ carried' = carried \ {i}
          /\ failed' \in {failed, failed \cup {r}}
          /\ UNCHANGED <<born, stage, pc, copied, snap, clean, reported, want, dirty>>
      BY <1>11 DEF ReencryptWrite
    <2> HIDE DEF e
    <2>7. TypeOK'
      BY <2>3, <2>5, <2>6 DEF TypeOK
    <2>8. Listed'
      BY <2>6 DEF Listed, TypeOK
    <2>9. Fresh'
      BY <2>3, <2>5, <2>6 DEF Fresh, TypeOK
    <2>10. LostOnlyIfRaced'
      BY <2>3, <2>4, <2>5, <2>6 DEF LostOnlyIfRaced, Fresh, TypeOK
    <2> QED BY <2>7, <2>8, <2>9, <2>10
  <1>12. ASSUME NEW r \in Requests, ReencryptDone(r)
        PROVE  PInv'
    <2> USE <1>12 DEF ReencryptDone
    <2>1. TypeOK'
      BY DEF TypeOK, NoList
    <2>2. Listed'
      BY DEF Listed, TypeOK
    <2>3. Fresh'
      BY DEF Fresh, TypeOK
    <2> QED BY <2>1, <2>2, <2>3 DEF LostOnlyIfRaced
  <1>13. ASSUME NEW x \in Replicas, AddKey(x) \/ DropKey(x)
        PROVE  PInv'
    <2>1. /\ stage[x] < MaxStage
          /\ stage' = [stage EXCEPT ![x] = @ + 1]
          /\ UNCHANGED <<row, born, want, raced, carried>>
      BY <1>13 DEF AddKey, DropKey, Rolls
    <2>2. /\ pc' = [r \in Requests |-> IF Home[r] = x THEN "idle" ELSE pc[r]]
          /\ copied' = [r \in Requests |-> IF Home[r] = x THEN None ELSE copied[r]]
          /\ todo' = [r \in Requests |-> IF Home[r] = x THEN {} ELSE todo[r]]
          /\ snap' = [r \in Requests |-> IF Home[r] = x THEN NoList ELSE snap[r]]
          /\ dirty' = [r \in Requests |-> IF Home[r] = x THEN {} ELSE dirty[r]]
      BY <1>13 DEF AddKey, DropKey, Rolls
    <2>3. failed' \subseteq Requests /\ clean' \subseteq Requests /\ reported' \in BOOLEAN
      BY <1>13 DEF AddKey, DropKey, Rolls, TypeOK
    <2>4. stage' \in [Replicas -> Stages]
      BY <2>1 DEF TypeOK, Stages
    <2>5. /\ pc' \in [Requests -> {"idle", "copy", "sweep"}]
          /\ copied' \in [Requests -> Ciphertexts \cup {None, Empty}]
      BY <2>2 DEF TypeOK
    <2>6. NoList \in [Ids -> Ciphertexts \cup {None, Empty}]
      BY DEF NoList
    <2>7. snap' \in [Requests -> [Ids -> Ciphertexts \cup {None, Empty}]]
      BY <2>2, <2>6 DEF TypeOK
    <2>8. todo' \in [Requests -> SUBSET Ids] /\ dirty' \in [Requests -> SUBSET Ids]
      BY <2>2 DEF TypeOK
    <2>9. TypeOK'
      BY <2>1, <2>3, <2>4, <2>5, <2>7, <2>8 DEF TypeOK
    <2>10. ASSUME NEW r \in Requests, NEW i \in todo'[r]
          PROVE  /\ todo'[r] = todo[r] /\ pc'[r] = pc[r]
                 /\ snap'[r] = snap[r] /\ dirty'[r] = dirty[r]
      BY <2>2, <2>10
    <2>11. Listed'
      BY <2>10 DEF Listed
    <2>12. Fresh'
      BY <2>1, <2>10 DEF Fresh
    <2> QED BY <2>1, <2>9, <2>11, <2>12 DEF LostOnlyIfRaced
  <1> QED BY <1>2, <1>3, <1>4, <1>5, <1>6, <1>7, <1>8, <1>9, <1>10, <1>11, <1>12, <1>13 DEF Next

\* It holds in every reachable state.
LEMMA PasswordInv == Spec => []PInv
  <1>1. Init => PInv
    <2> SUFFICES ASSUME Init PROVE PInv
      OBVIOUS
    <2> USE CredentialsAssumption, NullAssumption DEF Init
    <2>1. row \in [Ids -> Values]
      BY DEF Values, Ciphertexts, Keys, Primary
    <2>2. want \in [Ids -> Secrets \cup {None, Empty}]
      BY <2>1, Opening
    <2>3. NoList \in [Ids -> Values]
      BY DEF NoList, Values
    <2>4. 0 \in Stages
      BY DEF Stages
    <2>5. TypeOK
      BY <2>1, <2>2, <2>3, <2>4 DEF TypeOK, Values
    <2> QED BY <2>5 DEF PInv, Listed, Fresh, LostOnlyIfRaced
  <1>2. PInv /\ UNCHANGED vars => PInv'
    BY DEF PInv, TypeOK, Listed, Fresh, LostOnlyIfRaced, vars
  <1>3. PInv /\ [Next]_vars => PInv'
    BY <1>2, PasswordStep
  <1> QED BY <1>1, <1>3, PTL DEF Spec

\* Stored values, configurations and the requests' locals keep their types.
THEOREM TypeCorrect == Spec => []TypeOK
  BY PasswordInv, PTL DEF PInv

\* Only a Re-encrypt that listed a connection before an edit of its password can
\* undo that edit: no other interleaving of the handlers loses a password.
THEOREM PasswordsLostOnlyToRaces == Spec => []LostOnlyIfRaced
  BY PasswordInv, PTL DEF PInv

-----------------------------------------------------------------------------
(* Key rotation, with saves as copy that may straddle a Re-encrypt.        *)

\* From the start of a clean Re-encrypt until the next key is added, all
\* replicas seal under the same key.
SameKey ==
    clean # {} \/ reported =>
        \A x, y \in Replicas : Primary(stage[x]) = Primary(stage[y])

\* A clean Re-encrypt that has not failed so far leaves behind it only passwords
\* under the primary key and late copies, and those it will skip are under it as well.
Swept ==
    \A r \in clean : r \notin failed =>
        \A i \in Ids :
            HasPassword(i) /\ i \notin carried /\ (i \notin todo[r] \/ ~NeedsRewrite(stage[Home[r]], snap[r][i]))
                => OnPrimary(stage[Home[r]], row[i])

RInv == PInv /\ SameKey /\ Swept /\ RewrittenUnlessCopied

\* Dropping the retained key does not change the primary one.
LEMMA PrimaryStays ==
  ASSUME NEW n \in Nat, n % 2 = 1
  PROVE  Primary(n + 1) = Primary(n) /\ Retained(n + 1) = Primary(n)
  BY DEF Primary, Retained

\* Adding a key retains the one that was primary, and it was alone.
LEMMA PrimaryRetained ==
  ASSUME NEW n \in Nat, n % 2 = 0
  PROVE  Retained(n) = Primary(n) /\ Retained(n + 1) = Primary(n)
  BY DEF Primary, Retained

\* A write of a value sealed under some replica's primary key is harmless, and
\* so is one that is noted as carried over.
LEMMA SealedWrite ==
  ASSUME RInv, NEW i \in Ids, NEW y \in Replicas, NEW c,
         c \in {None, Empty} \/ OnPrimary(stage[y], c) \/ i \in carried',
         \A j \in Ids : j # i /\ j \in carried => j \in carried',
         row' = [row EXCEPT ![i] = c],
         UNCHANGED <<stage, snap, failed, clean, reported>>,
         todo' = todo
  PROVE  SameKey' /\ Swept' /\ RewrittenUnlessCopied'
  <1> USE CredentialsAssumption DEF RInv, PInv
  <1>1. SameKey'
    BY DEF SameKey
  <1>2. clean # {} \/ reported =>
          \A x \in Replicas : c \in {None, Empty} \/ OnPrimary(stage[x], c) \/ i \in carried'
    BY DEF SameKey, OnPrimary
  <1>3. \A j \in Ids : row'[j] = IF j = i THEN c ELSE row[j]
    BY DEF TypeOK
  <1>4. Swept'
    BY <1>2, <1>3 DEF Swept, HasPassword, TypeOK
  <1>5. RewrittenUnlessCopied'
    BY <1>2, <1>3 DEF RewrittenUnlessCopied, HasPassword
  <1> QED BY <1>1, <1>4, <1>5

\* No handler and no step of the rotation breaks it.
LEMMA RotationStep == ASSUME RInv, Next PROVE RInv'
  <1> USE CredentialsAssumption, NullAssumption DEF RInv
  <1>0. PInv' /\ TypeOK
    BY PasswordStep DEF PInv
  <1>1. ASSUME NEW r \in Requests, NEW i \in Ids, NEW v \in Secrets \cup {Empty}, Create(r, i, v)
        PROVE  RInv'
    <2> DEFINE y == Home[r]
               c == IF v = Empty THEN Empty ELSE Encrypt(stage[y], v)
    <2>1. y \in Replicas /\ (c \in {None, Empty} \/ OnPrimary(stage[y], c))
      BY DEF Encrypt, OnPrimary
    <2>2. row' = [row EXCEPT ![i] = c] /\ UNCHANGED <<stage, todo, snap, failed, clean, reported, carried>>
      BY <1>1 DEF Create, Give, sweepVars
    <2> HIDE DEF c, y
    <2>3. SameKey' /\ Swept' /\ RewrittenUnlessCopied'
      BY <2>1, <2>2, SealedWrite
    <2> QED BY <1>0, <2>3
  <1>2. ASSUME NEW r \in Requests, NEW i \in Ids, NEW v \in Secrets, Update(r, i, v)
        PROVE  RInv'
    <2> DEFINE y == Home[r]
               c == Encrypt(stage[y], v)
    <2>1. y \in Replicas /\ OnPrimary(stage[y], c)
      BY DEF Encrypt, OnPrimary
    <2>2. /\ row' = [row EXCEPT ![i] = c]
          /\ carried' = carried \ {i}
          /\ UNCHANGED <<stage, todo, snap, failed, clean, reported>>
      BY <1>2 DEF Update, Give, sweepVars
    <2> HIDE DEF c, y
    <2>3. SameKey' /\ Swept' /\ RewrittenUnlessCopied'
      BY <2>1, <2>2, SealedWrite
    <2> QED BY <1>0, <2>3
  <1>3. ASSUME NEW r \in Requests, CopyFails(r) \/ \E i \in Ids : CopyRead(r, i)
        PROVE  RInv'
    <2>1. UNCHANGED <<row, stage, todo, snap, failed, clean, reported, carried>>
      BY <1>3 DEF CopyRead, CopyFails, sweepVars, history
    <2> QED BY <1>0, <2>1 DEF SameKey, Swept, RewrittenUnlessCopied, HasPassword
  <1>4. ASSUME NEW i \in Ids, Delete(i)
        PROVE  RInv'
    <2>1. /\ row' = [row EXCEPT ![i] = None]
          /\ carried' = carried \ {i}
          /\ UNCHANGED <<stage, todo, snap, failed, clean, reported>>
      BY <1>4 DEF Delete, sweepVars
    <2>2. SameKey' /\ Swept'
      BY <1>0, <2>1 DEF SameKey, Swept, HasPassword, TypeOK
    <2>3. RewrittenUnlessCopied'
      BY <1>0, <2>1 DEF RewrittenUnlessCopied, HasPassword, TypeOK
    <2> QED BY <1>0, <2>2, <2>3
  <1>5. ASSUME NEW r \in Requests, ReencryptList(r)
        PROVE  RInv'
    <2> USE <1>0, <1>5 DEF ReencryptList
    <2>1. SameKey'
      BY DEF SameKey
    <2>2. Swept'
      BY DEF Swept, HasPassword, NeedsRewrite, TypeOK
    <2> QED BY <2>1, <2>2 DEF RewrittenUnlessCopied, HasPassword
  <1>6. ASSUME NEW r \in Requests, NEW i \in Ids, ReencryptSkip(r, i) \/ ReencryptFails(r, i)
        PROVE  RInv'
    <2>1. /\ todo' = [todo EXCEPT ![r] = @ \ {i}]
          /\ UNCHANGED <<row, stage, snap, clean, reported, carried>>
          /\ failed \subseteq failed'
          /\ NeedsRewrite(stage[Home[r]], snap[r][i]) => r \in failed'
      BY <1>6 DEF ReencryptSkip, ReencryptFails, history
    <2>2. SameKey' /\ RewrittenUnlessCopied'
      BY <2>1 DEF SameKey, RewrittenUnlessCopied, HasPassword
    <2>3. Swept'
      BY <1>0, <2>1 DEF Swept, HasPassword, TypeOK
    <2> QED BY <1>0, <2>2, <2>3
  <1>7. ASSUME NEW r \in Requests, NEW i \in Ids, ReencryptWrite(r, i)
        PROVE  RInv'
    <2> DEFINE y == Home[r]
               c == Encrypt(stage[y], snap[r][i].secret)
    <2>1. y \in Replicas /\ OnPrimary(stage[y], c)
      BY DEF Encrypt, OnPrimary
    <2>2. /\ row' = IF row[i] = None THEN row ELSE [row EXCEPT ![i] = c]
          /\ todo' = [todo EXCEPT ![r] = @ \ {i}]
          /\ carried' = carried \ {i} /\ failed \subseteq failed'
          /\ UNCHANGED <<stage, snap, clean, reported>>
      BY <1>7 DEF ReencryptWrite
    <2> HIDE DEF c
    <2>3. \A j \in Ids : row'[j] = IF j = i /\ row[i] # None THEN c ELSE row[j]
      BY <1>0, <2>2 DEF TypeOK
    <2>4. clean # {} \/ reported => \A x \in Replicas : OnPrimary(stage[x], c)
      BY <2>1 DEF SameKey, OnPrimary
    <2>5. SameKey'
      BY <2>2 DEF SameKey
    <2>6. Swept'
      BY <1>0, <2>2, <2>3, <2>4 DEF Swept, HasPassword, TypeOK
    <2>7. RewrittenUnlessCopied'
      BY <2>2, <2>3, <2>4 DEF RewrittenUnlessCopied, HasPassword
    <2> QED BY <1>0, <2>5, <2>6, <2>7
  <1>8. ASSUME NEW r \in Requests, ReencryptDone(r)
        PROVE  RInv'
    <2> USE <1>0, <1>8 DEF ReencryptDone
    <2>1. SameKey'
      BY DEF SameKey
    <2>2. Swept'
      BY DEF Swept, HasPassword, TypeOK
    <2>3. RewrittenUnlessCopied'
      BY DEF RewrittenUnlessCopied, HasPassword, Swept, SameKey, OnPrimary, TypeOK
    <2> QED BY <2>1, <2>2, <2>3
  <1>9. ASSUME NEW x \in Replicas, AddKey(x)
        PROVE  RInv'
    BY <1>0, <1>9 DEF AddKey, Rolls, SameKey, Swept, RewrittenUnlessCopied
  <1>10. ASSUME NEW x \in Replicas, DropKey(x)
        PROVE  RInv'
    <2>1. stage[x] \in Nat /\ stage[x] % 2 = 1
      BY <1>0, <1>10 DEF DropKey, TypeOK, Stages
    <2>2. \A y \in Replicas : Primary(stage'[y]) = Primary(stage[y])
      BY <1>0, <1>10, <2>1, PrimaryStays DEF DropKey, Rolls, TypeOK
    <2> USE <1>0, <1>10, <2>2 DEF DropKey, Rolls
    <2>3. SameKey'
      BY DEF SameKey
    <2>4. Swept'
      BY DEF Swept, HasPassword, OnPrimary, NeedsRewrite, TypeOK
    <2>5. RewrittenUnlessCopied'
      BY DEF RewrittenUnlessCopied, HasPassword, OnPrimary
    <2> QED BY <2>3, <2>4, <2>5
  <1>11. ASSUME NEW r \in Requests, NEW i \in Ids, CopyWrite(r, i)
        PROVE  RInv'
    <2> DEFINE y == Home[r]
               c == copied[r]
    <2>1. /\ row' = [row EXCEPT ![i] = c]
          /\ UNCHANGED <<stage, todo, snap, failed, clean, reported>>
          /\ carried' = IF NeedsRewrite(stage[y], c) THEN carried \cup {i} ELSE carried
      BY <1>11 DEF CopyWrite, Give, sweepVars
    <2>2. /\ y \in Replicas
          /\ c \in {None, Empty} \/ OnPrimary(stage[y], c) \/ i \in carried'
          /\ \A j \in Ids : j # i /\ j \in carried => j \in carried'
      BY <2>1 DEF NeedsRewrite
    <2> HIDE DEF c, y
    <2>3. SameKey' /\ Swept' /\ RewrittenUnlessCopied'
      BY <2>1, <2>2, SealedWrite
    <2> QED BY <1>0, <2>3
  <1> QED BY <1>1, <1>2, <1>3, <1>4, <1>5, <1>6, <1>7, <1>8, <1>9, <1>10, <1>11 DEF Next

\* It holds in every reachable state.
LEMMA RotationInv == Spec => []RInv
  <1>1. Init /\ PInv => RInv
    BY DEF Init, RInv, SameKey, Swept, RewrittenUnlessCopied
  <1>2. RInv /\ UNCHANGED vars => RInv'
    BY DEF RInv, PInv, TypeOK, Listed, Fresh, LostOnlyIfRaced, SameKey, Swept,
       RewrittenUnlessCopied, HasPassword, vars
  <1>3. RInv /\ [Next]_vars => RInv'
    BY <1>2, RotationStep
  <1> QED BY <1>1, <1>3, PasswordInv, PTL DEF Spec

\* Step 3 of the documented rotation is sound for any number of replicas: when a
\* Re-encrypt begun after all of them had the new key reports no failure, no
\* saved password is under the old key, then or later, but for copies whose
\* source was read before it was rewritten.
THEOREM RotationSound == Spec => []RewrittenUnlessCopied
  BY RotationInv, PTL DEF RInv

\* With a single replica no password but such a copy ever becomes unreadable,
\* whatever rotations are performed.
THEOREM SingleReplicaDecrypts ==
  ASSUME NEW x0, Replicas = {x0}
  PROVE  Spec => []DecryptableUnlessCopied
  <1>1. Init => DecryptableUnlessCopied
    BY DEF Init, DecryptableUnlessCopied, HasPassword, Decrypts, Ring, Primary
  <1>2. ASSUME RInv, DecryptableUnlessCopied, Next PROVE DecryptableUnlessCopied'
    <2> USE CredentialsAssumption, NullAssumption
    <2>1. TypeOK /\ RewrittenUnlessCopied /\ DecryptableUnlessCopied
      BY <1>2 DEF RInv, PInv
    <2>2. ASSUME NEW i \in Ids, NEW c,
                 c \in {None, Empty} \/ c.key = Primary(stage[x0]) \/ i \in carried',
                 \A j \in Ids : j # i /\ j \in carried => j \in carried',
                 row' = [row EXCEPT ![i] = c], stage' = stage
          PROVE  DecryptableUnlessCopied'
      BY <2>1, <2>2 DEF DecryptableUnlessCopied, HasPassword, Decrypts, Ring, TypeOK
    <2>3. ASSUME UNCHANGED <<row, stage, carried>> PROVE DecryptableUnlessCopied'
      BY <2>1, <2>3 DEF DecryptableUnlessCopied, HasPassword
    <2>4. ASSUME NEW r \in Requests, NEW i \in Ids, NEW v \in Secrets \cup {Empty}, Create(r, i, v)
          PROVE  DecryptableUnlessCopied'
      BY <2>2, <2>4 DEF Create, Give, Encrypt
    <2>5. ASSUME NEW r \in Requests, NEW i \in Ids, NEW v \in Secrets, Update(r, i, v)
          PROVE  DecryptableUnlessCopied'
      BY <2>2, <2>5 DEF Update, Give, Encrypt
    <2>6. ASSUME NEW r \in Requests, CopyFails(r) \/ \E i \in Ids : CopyRead(r, i)
          PROVE  DecryptableUnlessCopied'
      BY <2>3, <2>6 DEF CopyRead, CopyFails, history
    <2>7. ASSUME NEW i \in Ids, Delete(i)
          PROVE  DecryptableUnlessCopied'
      BY <2>2, <2>7 DEF Delete
    <2>8. ASSUME NEW r \in Requests, ReencryptList(r) \/ ReencryptDone(r)
          PROVE  DecryptableUnlessCopied'
      BY <2>3, <2>8 DEF ReencryptList, ReencryptDone
    <2>9. ASSUME NEW r \in Requests, NEW i \in Ids, ReencryptSkip(r, i) \/ ReencryptFails(r, i)
          PROVE  DecryptableUnlessCopied'
      BY <2>3, <2>9 DEF ReencryptSkip, ReencryptFails, history
    <2>10. ASSUME NEW r \in Requests, NEW i \in Ids, ReencryptWrite(r, i)
          PROVE  DecryptableUnlessCopied'
      <3>1. CASE row[i] = None
        BY <2>1, <2>10, <3>1 DEF ReencryptWrite, DecryptableUnlessCopied, HasPassword
      <3>2. CASE row[i] # None
        BY <2>2, <2>10, <3>2 DEF ReencryptWrite, Encrypt
      <3> QED BY <3>1, <3>2
    <2>11. stage[x0] \in Nat
      BY <2>1 DEF TypeOK, Stages
    <2>12. ASSUME AddKey(x0)
          PROVE  DecryptableUnlessCopied'
      <3>1. /\ Retained(stage[x0]) = Primary(stage[x0])
            /\ Retained(stage'[x0]) = Primary(stage[x0])
        BY <2>1, <2>11, <2>12, PrimaryRetained DEF AddKey, Rolls, TypeOK
      <3>2. row' = row /\ carried' = carried
        BY <2>12 DEF AddKey, Rolls
      <3> QED BY <2>1, <3>1, <3>2 DEF DecryptableUnlessCopied, HasPassword, Decrypts, Ring
    <2>13. ASSUME DropKey(x0)
          PROVE  DecryptableUnlessCopied'
      <3>1. Primary(stage'[x0]) = Primary(stage[x0])
        BY <2>1, <2>11, <2>13, PrimaryStays DEF DropKey, Rolls, TypeOK
      <3>2. row' = row /\ carried' = carried /\ reported
        BY <2>13 DEF DropKey, Rolls
      <3> QED
        BY <2>1, <3>1, <3>2
           DEF DecryptableUnlessCopied, HasPassword, Decrypts, Ring, RewrittenUnlessCopied, OnPrimary
    <2>14. ASSUME NEW r \in Requests, NEW i \in Ids, CopyWrite(r, i)
          PROVE  DecryptableUnlessCopied'
      BY <2>2, <2>14 DEF CopyWrite, Give, NeedsRewrite, OnPrimary
    <2> QED
      BY <1>2, <2>4, <2>5, <2>6, <2>7, <2>8, <2>9, <2>10, <2>12, <2>13, <2>14 DEF Next
  <1>3. RInv /\ DecryptableUnlessCopied /\ [Next]_vars => DecryptableUnlessCopied'
    BY <1>2 DEF DecryptableUnlessCopied, HasPassword, vars
  <1> QED BY <1>1, <1>3, RotationInv, PTL DEF Spec
====
