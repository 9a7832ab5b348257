-------------------------- MODULE EncryptionProofs --------------------------
(***************************************************************************)
(* Proofs about the two kinds of sessions: of OneTimeKeys, the account that *)
(* Olm sessions are made with, for any target and any number of keys,       *)
(* claims and faults; and of GroupSession, for every number of users,       *)
(* devices and tasks and every value of the bounds.                         *)
(***************************************************************************)
EXTENDS GroupSession, OneTimeKeys, FiniteSetTheorems, WellFoundedInduction, TLAPS

-----------------------------------------------------------------------------
(* OneTimeKeys: what is inductive.                                         *)


\* A key on the server was not given out yet, unless its upload went unnoticed.
ServedOnce == \A k \in server \ unlearned : claims[k] = 0

\* What a request on its way carries was not uploaded before.
AskedIsNew ==
  upload.state = "asked" => \A k \in upload.keys \ unlearned : claims[k] = 0 /\ k \notin server

\* What the account would upload next was not uploaded before, or the answer is
\* on its way that publishes it.
FreshIsNew ==
  \A k \in KeysIn(account, {"fresh"}) \ unlearned :
    \/ claims[k] = 0 /\ k \notin server
    \/ upload.state = "answered" /\ k \in upload.keys

\* While a request is on its way, what is unpublished is in it.
UploadOfAccount ==
  upload.state # "idle" =>
    KeysIn(account, {"fresh"}) \subseteq upload.keys /\ upload.keys \subseteq Generated(account)

\* The claims of a key are numbered.
ClaimNumbers == \A m \in messages \cup sessions : m[2] <= claims[m[1]]

\* A key is used up by a session only.
UsedBySession ==
  \A k \in Key : account.key[k] = "used" \/ saved.key[k] = "used" => \E s \in sessions : s[1] = k

\* What the server has or had is in the account, unless its process ended.
HeldOrOrphan ==
  \A k \in Key : k \in server \/ claims[k] > 0 => k \in orphans \/ account.key[k] # "none"

\* Publishing a key and using it up saves it.
PublishedSaved ==
  \A k \in Key : account.key[k] \in {"published", "used"} => saved.key[k] # "none"

\* What is inductive.
KeysInv ==
  /\ ServedOnce /\ AskedIsNew /\ FreshIsNew /\ UploadOfAccount
  /\ ClaimNumbers /\ UsedBySession /\ HeldOrOrphan /\ PublishedSaved
  /\ GivenOutOnce /\ SessionsJoin
AccountInv == AccountTypeOK /\ KeysInv

-----------------------------------------------------------------------------
(* The largest of some key numbers, and what is counted.                   *)

\* Some natural numbers have a smallest one among them.
LEMMA LeastNumber ==
  ASSUME NEW T \in SUBSET Nat, T # {}
  PROVE  \E m \in T : \A k \in T : m <= k
PROOF
<1>1. \E m \in T : \A k \in T : <<k, m>> \notin OpToRel(<, Nat)
  BY WFMin, NatLessThanWellFounded, Zenon
<1>2. PICK m \in T : \A k \in T : <<k, m>> \notin {ss \in Nat \X Nat : ss[1] < ss[2]}
  BY <1>1, Zenon DEF OpToRel
<1>3. ASSUME NEW k \in T PROVE ~(k < m)
  <2>1. <<k, m>> \in Nat \X Nat => ~(<<k, m>>[1] < <<k, m>>[2])
    BY <1>2, Zenon
  <2> QED BY <2>1
<1> QED BY <1>3

\* Some key numbers have a largest one among them.
LEMMA LargestKey ==
  ASSUME NEW used \in SUBSET Key, used # {}
  PROVE  \E k \in used : \A j \in used : j <= k
PROOF
<1> DEFINE T == {MaxKeys - k : k \in used}
<1>1. T \in SUBSET Nat /\ T # {}
  <2>1. \A k \in used : MaxKeys - k \in Nat
    BY AccountAssumption DEF Key
  <2> QED BY <2>1
<1>2. PICK m \in T : \A n \in T : m <= n
  BY <1>1, LeastNumber
<1>3. PICK k \in used : m = MaxKeys - k
  BY <1>2
<1>4. \A j \in used : MaxKeys - k <= MaxKeys - j
  BY <1>2, <1>3
<1> QED BY <1>4, AccountAssumption DEF Key

\* The keys generated next have numbers that no key had before, on the server or
\* in a process that ended.
LEMMA NewKeysAreNew ==
  ASSUME AccountTypeOK, NEW n, NewKeys(n) \subseteq Key, NEW k \in NewKeys(n)
  PROVE  /\ k \notin Generated(account) \cup Generated(saved) \cup server \cup orphans
         /\ claims[k] = 0
PROOF
<1> DEFINE used == Generated(account) \cup Generated(saved) \cup server \cup orphans
                     \cup {j \in Key : claims[j] > 0}
           top  == IF used = {} THEN 0 ELSE CHOOSE i \in used : \A j \in used : j <= i
<1>1. used \in SUBSET Key
  BY DEF AccountTypeOK, Generated, KeysIn
<1>2. k \in (top + 1)..(top + n) /\ k \in Key
  BY DEF NewKeys
<1>3. \A j \in used : j <= top
  <2>1. CASE used = {}
    BY <2>1
  <2>2. CASE used # {}
    <3>1. \E i \in used : \A j \in used : j <= i
      BY <1>1, <2>2, LargestKey
    <3> HIDE DEF used
    <3> QED BY <2>2, <3>1
  <2> QED BY <2>1, <2>2
<1>4. top \in Nat
  <2>1. CASE used = {}
    BY <2>1
  <2>2. CASE used # {}
    <3>1. \E i \in used : \A j \in used : j <= i
      BY <1>1, <2>2, LargestKey
    <3>2. used \in SUBSET Nat
      BY <1>1 DEF Key
    <3> HIDE DEF used
    <3> QED BY <2>2, <3>1, <3>2
  <2> QED BY <2>1, <2>2
<1>5. k \notin used
  <2> HIDE DEF used, top
  <2> QED BY <1>1, <1>2, <1>3, <1>4, AccountAssumption DEF Key
<1>6. claims[k] \in Nat
  BY <1>2, AccountAssumption DEF AccountTypeOK
<1> QED BY <1>2, <1>5, <1>6

\* The keys on the server can be counted.
LEMMA KeysCounted ==
  ASSUME NEW S \in SUBSET Key
  PROVE  Cardinality(S) \in Nat
PROOF
<1>1. IsFiniteSet(Key)
  BY FS_Interval, AccountAssumption DEF Key
<1> QED BY <1>1, FS_Subset, FS_CardinalityType

\* As long as fewer claims than the bound were made, no key was claimed more often.
LEMMA ClaimsBounded ==
  ASSUME AccountTypeOK, TotalClaims < MaxClaims, NEW k \in Key
  PROVE  claims[k] + 1 \in 1..MaxClaims
PROOF
<1> USE AccountAssumption
<1> DEFINE T == {s \in OlmSession : s[2] <= claims[s[1]]}
           f == [c \in 1..claims[k] |-> <<k, c>>]
<1>1. claims[k] \in 0..MaxClaims
  BY DEF AccountTypeOK
<1>2. f \in [1..claims[k] -> T]
  <2> SUFFICES ASSUME NEW c \in 1..claims[k] PROVE <<k, c>> \in T
    OBVIOUS
  <2> QED BY <1>1 DEF OlmSession
<1>3. IsFiniteSet(T)
  <2>1. IsFiniteSet(Key) /\ IsFiniteSet(1..MaxClaims)
    BY FS_Interval DEF Key
  <2>2. IsFiniteSet(OlmSession)
    BY <2>1, FS_Product DEF OlmSession
  <2> QED BY <2>2, FS_Subset
<1>4. IsFiniteSet(1..claims[k]) /\ Cardinality(1..claims[k]) = claims[k]
  <2>1. claims[k] \in Nat
    BY <1>1
  <2>2. \A c \in Nat : IsFiniteSet(1..c) /\ Cardinality(1..c) = (IF 1 > c THEN 0 ELSE c - 1 + 1)
    BY FS_Interval
  <2>3. \A c \in Nat : (IF 1 > c THEN 0 ELSE c - 1 + 1) = c
    OBVIOUS
  <2> QED BY <2>1, <2>2, <2>3
<1>5. Cardinality(T) \in Nat /\ Cardinality(T) < MaxClaims
  BY <1>3, FS_CardinalityType DEF TotalClaims
<1>6. ~(Cardinality(T) < Cardinality(1..claims[k]))
  <2> SUFFICES ASSUME Cardinality(T) < Cardinality(1..claims[k]) PROVE FALSE
    OBVIOUS
  <2>1. \E x, y \in 1..claims[k] : x # y /\ f[x] = f[y]
    <3> HIDE DEF T, f
    <3> DEFINE S == 1..claims[k]
    <3>1. IsFiniteSet(S) /\ Cardinality(T) < Cardinality(S) /\ f \in [S -> T]
      BY <1>2, <1>4
    <3> HIDE DEF S
    <3>2. \E x, y \in S : x # y /\ f[x] = f[y]
      BY <1>3, <3>1, FS_PigeonHole, Zenon
    <3> QED BY <3>2 DEF S
  <2> QED BY <2>1
<1> HIDE DEF T
<1> QED BY <1>1, <1>4, <1>5, <1>6

-----------------------------------------------------------------------------
(* The account.                                                            *)

\* Publishing keeps the keys, and leaves none unpublished.
LEMMA PublishedKeys ==
  ASSUME NEW a \in Account
  PROVE  /\ Published(a) \in Account
         /\ \A k \in Key : Published(a).key[k] = IF a.key[k] = "fresh" THEN "published" ELSE a.key[k]
PROOF
  BY DEF Published, Account, KeyState

\* The first account has no key.
LEMMA InitInv == AccountInit => AccountInv
PROOF
  BY AccountAssumption DEF AccountInit, AccountInv, AccountTypeOK, KeysInv, ServedOnce, AskedIsNew, FreshIsNew,
     UploadOfAccount, ClaimNumbers, UsedBySession, HeldOrOrphan, PublishedSaved, GivenOutOnce,
     SessionsJoin, NewAccount, NoUpload, Account, KeyState, KeysIn, Generated

\* Every step keeps the state well formed.
LEMMA TypePreserved == AccountTypeOK /\ [AccountNext]_account_vars => AccountTypeOK'
PROOF
<1> SUFFICES ASSUME AccountTypeOK, [AccountNext]_account_vars PROVE AccountTypeOK'
  OBVIOUS
<1> USE AccountAssumption
<1>1. CASE KeysUpload
  <2> DEFINE new == NewKeys(Missing)
             key == [k \in Key |-> IF k \in new THEN "fresh" ELSE account.key[k]]
  <2>1. key \in [Key -> KeyState]
    BY DEF AccountTypeOK, Account, KeyState
  <2>2. account' \in Account
    <3>1. account' = [account EXCEPT !.key = key]
      BY <1>1 DEF KeysUpload
    <3> HIDE DEF key
    <3> QED BY <2>1, <3>1 DEF AccountTypeOK, Account
  <2>3. upload' = [state |-> "asked", keys |-> {k \in Key : key[k] = "fresh"}, count |-> 0]
    BY <1>1 DEF KeysUpload
  <2> QED BY <1>1, <2>2, <2>3 DEF KeysUpload, AccountTypeOK
<1>2. CASE ServerStores
  <2>1. server' \in SUBSET Key
    BY <1>2 DEF ServerStores, AccountTypeOK
  <2>2. upload' \in [state : {"idle", "asked", "answered"}, keys : SUBSET Key, count : Nat]
    BY <1>2, <2>1, KeysCounted DEF ServerStores, AccountTypeOK
  <2> QED BY <1>2, <2>1, <2>2 DEF ServerStores, AccountTypeOK
<1>3. CASE UploadAnswered
  BY <1>3, PublishedKeys DEF UploadAnswered, SaveAccount, NoUpload, AccountTypeOK
<1>4. CASE UploadFails
  BY <1>4 DEF UploadFails, Fault, NoUpload, AccountTypeOK
<1>5. CASE UploadRefused
  BY <1>5, PublishedKeys DEF UploadRefused, Fault, SaveAccount, NoUpload, AccountTypeOK
<1>6. CASE SyncAnswers
  BY <1>6, KeysCounted DEF SyncAnswers, AccountTypeOK
<1>7. CASE SyncHandled
  BY <1>7 DEF SyncHandled, NewCount, AccountTypeOK
<1>8. ASSUME NEW k \in Key, Claim(k) PROVE AccountTypeOK'
  <2>1. claims[k] + 1 \in 1..MaxClaims
    BY <1>8, ClaimsBounded DEF Claim
  <2>2. claims' \in [Key -> 0..MaxClaims] /\ claims'[k] \in 1..MaxClaims
    BY <1>8, <2>1 DEF Claim, AccountTypeOK
  <2>3. messages' \in SUBSET OlmSession
    BY <1>8, <2>2 DEF Claim, AccountTypeOK, OlmSession
  <2> QED BY <1>8, <2>2, <2>3 DEF Claim, AccountTypeOK
<1>9. ASSUME NEW m \in messages, PreKeyMessage(m) PROVE AccountTypeOK'
  <2>1. m \in OlmSession /\ m[1] \in Key
    BY DEF AccountTypeOK, OlmSession
  <2>2. [account EXCEPT !.key[m[1]] = "used"] \in Account
    BY <2>1 DEF AccountTypeOK, Account, KeyState
  <2>3. account' \in Account /\ saved' \in Account /\ sessions' \in SUBSET OlmSession /\ failed' \in SUBSET OlmSession
    BY <1>9, <2>1, <2>2 DEF PreKeyMessage, SaveAccount, AccountTypeOK
  <2> QED BY <1>9, <2>3 DEF PreKeyMessage, AccountTypeOK
<1>10. CASE CreateSession
  BY <1>10 DEF CreateSession, SaveAccount, AccountTypeOK
<1>11. CASE Restart
  <2>1. server' \in SUBSET Key
    BY <1>11 DEF Restart, AccountTypeOK
  <2>2. orphans' \in SUBSET Key /\ unlearned' \in SUBSET Key
    BY <1>11, <2>1 DEF Restart, AccountTypeOK, KeysIn
  <2> QED BY <1>11, <2>1, <2>2 DEF Restart, Fault, NoUpload, AccountTypeOK
<1>12. CASE UNCHANGED account_vars
  BY <1>12 DEF account_vars, AccountTypeOK
<1> QED BY <1>1, <1>2, <1>3, <1>4, <1>5, <1>6, <1>7, <1>8, <1>9, <1>10, <1>11, <1>12 DEF AccountNext

-----------------------------------------------------------------------------
(* The keys.                                                               *)

\* New keys go into the request with those that are still unpublished.
LEMMA UploadKeeps ==
  ASSUME AccountInv, KeysUpload
  PROVE  KeysInv'
PROOF
<1> USE DEF AccountInv, KeysInv
<1> DEFINE new == NewKeys(Missing)
           key == [k \in Key |-> IF k \in new THEN "fresh" ELSE account.key[k]]
<1>1. /\ upload.state = "idle" /\ new \subseteq Key
      /\ account' = [account EXCEPT !.key = key]
      /\ upload' = [state |-> "asked", keys |-> {k \in Key : key[k] = "fresh"}, count |-> 0]
      /\ UNCHANGED <<saved, sessions, server, claims, messages, failed, orphans, unlearned>>
  BY DEF KeysUpload
<1>2. \A k \in Key : account'.key[k] = IF k \in new THEN "fresh" ELSE account.key[k]
  <2>1. account'.key = key
    BY <1>1 DEF AccountTypeOK, Account
  <2> QED BY <2>1
<1>3. \A k \in new : k \notin server /\ claims[k] = 0
  BY <1>1, NewKeysAreNew
<1>4. upload'.state = "asked" /\ upload'.keys = {k \in Key : account'.key[k] = "fresh"}
  <2>1. account'.key = key
    BY <1>1 DEF AccountTypeOK, Account
  <2> QED BY <1>1, <2>1
<1>5. \A k \in KeysIn(account', {"fresh"}) \ unlearned : claims[k] = 0 /\ k \notin server
  <2> SUFFICES ASSUME NEW k \in Key, account'.key[k] = "fresh", k \notin unlearned
               PROVE  claims[k] = 0 /\ k \notin server
    BY DEF KeysIn
  <2>1. CASE k \in new
    BY <1>3, <2>1
  <2>2. CASE k \notin new
    <3>1. k \in KeysIn(account, {"fresh"}) \ unlearned
      BY <1>2, <2>2 DEF KeysIn
    <3> QED BY <1>1, <3>1 DEF FreshIsNew
  <2> QED BY <2>1, <2>2
<1>6. FreshIsNew'
  BY <1>1, <1>5 DEF FreshIsNew
<1>7. AskedIsNew' /\ UploadOfAccount'
  BY <1>1, <1>4, <1>5 DEF AskedIsNew, UploadOfAccount, KeysIn, Generated, KeyState
<1>8. UsedBySession' /\ HeldOrOrphan' /\ PublishedSaved'
  BY <1>1, <1>2 DEF UsedBySession, HeldOrOrphan, PublishedSaved
<1> QED BY <1>1, <1>6, <1>7, <1>8 DEF ServedOnce, ClaimNumbers, GivenOutOnce, SessionsJoin

\* The keys the server stores are new to it.
LEMMA StoreKeeps ==
  ASSUME AccountInv, ServerStores
  PROVE  KeysInv'
PROOF
<1> USE DEF AccountInv, KeysInv
<1>1. /\ upload.state = "asked" /\ upload'.state = "answered" /\ upload'.keys = upload.keys
      /\ server' = server \cup upload.keys
      /\ UNCHANGED <<account, saved, sessions, claims, messages, failed, orphans, unlearned>>
  BY DEF ServerStores, AccountTypeOK
<1>2. ServedOnce' /\ AskedIsNew'
  BY <1>1 DEF ServedOnce, AskedIsNew
<1>3. FreshIsNew' /\ UploadOfAccount'
  BY <1>1 DEF FreshIsNew, UploadOfAccount, KeysIn, Generated
<1>4. HeldOrOrphan'
  <2>1. \A k \in upload.keys : account.key[k] # "none"
    BY <1>1 DEF UploadOfAccount, Generated, KeysIn
  <2> QED BY <1>1, <2>1 DEF HeldOrOrphan
<1> QED BY <1>1, <1>2, <1>3, <1>4 DEF ClaimNumbers, UsedBySession, PublishedSaved, GivenOutOnce, SessionsJoin

\* Publishing takes every key out of what is uploaded next, with an answer or
\* with the error that counts as one.
LEMMA PublishKeeps ==
  ASSUME AccountInv, UploadAnswered \/ UploadRefused
  PROVE  KeysInv'
PROOF
<1> USE DEF AccountInv, KeysInv
<1>1. /\ upload'.state = "idle"
      /\ account' = Published(account) /\ saved' = account'
      /\ UNCHANGED <<sessions, server, claims, messages, failed, orphans, unlearned>>
  BY DEF UploadAnswered, UploadRefused, NoUpload, SaveAccount
<1>2. \A k \in Key : account'.key[k] = IF account.key[k] = "fresh" THEN "published" ELSE account.key[k]
  BY <1>1, PublishedKeys DEF AccountTypeOK
<1>3. FreshIsNew'
  BY <1>2 DEF FreshIsNew, KeysIn
<1>4. UsedBySession' /\ HeldOrOrphan' /\ PublishedSaved'
  <2>1. \A k \in Key : account'.key[k] \in KeyState
    BY TypePreserved DEF AccountNext, AccountTypeOK, Account
  <2> QED BY <1>1, <1>2, <2>1 DEF UsedBySession, HeldOrOrphan, PublishedSaved, KeyState
<1> QED BY <1>1, <1>3, <1>4 DEF ServedOnce, AskedIsNew, UploadOfAccount, ClaimNumbers, GivenOutOnce, SessionsJoin

\* A request that failed leaves the keys unpublished; those that were stored for
\* it are known to be there only to the server.
LEMMA FailureKeeps ==
  ASSUME AccountInv, UploadFails
  PROVE  KeysInv'
PROOF
<1> USE DEF AccountInv, KeysInv
<1>1. /\ upload.state # "idle"
      /\ unlearned' = IF upload.state = "answered" THEN unlearned \cup upload.keys ELSE unlearned
      /\ UNCHANGED <<account, saved, sessions, server, claims, messages, failed, orphans>>
      /\ upload.state \in {"asked", "answered"}
  BY DEF UploadFails, AccountTypeOK
<1>2. \/ upload'.state = "idle"
      \/ upload'.state = "asked" /\ upload'.keys = upload.keys
  BY DEF UploadFails, NoUpload, AccountTypeOK
<1>3. KeysIn(account, {"fresh"}) \subseteq upload.keys /\ upload.keys \subseteq Generated(account)
  BY <1>1 DEF UploadOfAccount
<1>4. \A k \in upload.keys \ unlearned' : claims[k] = 0 /\ k \notin server
  BY <1>1 DEF AskedIsNew
<1>5. FreshIsNew' /\ AskedIsNew' /\ UploadOfAccount'
  BY <1>1, <1>2, <1>3, <1>4 DEF FreshIsNew, AskedIsNew, UploadOfAccount, KeysIn, Generated
<1>6. unlearned \subseteq unlearned'
  BY <1>1
<1> QED BY <1>1, <1>5, <1>6 DEF ServedOnce, ClaimNumbers, UsedBySession, HeldOrOrphan, PublishedSaved,
           GivenOutOnce, SessionsJoin

\* A claimed key leaves the server.
LEMMA ClaimKeeps ==
  ASSUME AccountInv, NEW k \in Key, Claim(k)
  PROVE  KeysInv'
PROOF
<1> USE AccountAssumption DEF AccountInv, KeysInv
<1>1. /\ k \in server /\ server' = server \ {k}
      /\ \A j \in Key : claims'[j] = IF j = k THEN claims[j] + 1 ELSE claims[j]
      /\ \A j \in Key : claims[j] \in Nat
      /\ messages' = messages \cup {<<k, claims'[k]>>}
      /\ UNCHANGED <<account, saved, sessions, upload, failed, orphans, unlearned>>
  BY DEF Claim, AccountTypeOK
<1>2. ServedOnce' /\ GivenOutOnce'
  BY <1>1 DEF ServedOnce, GivenOutOnce, AccountTypeOK
<1>3. AskedIsNew'
  BY <1>1 DEF AskedIsNew, AccountTypeOK
<1>4. FreshIsNew' /\ UploadOfAccount'
  BY <1>1 DEF FreshIsNew, UploadOfAccount, KeysIn, Generated
<1>5. ClaimNumbers'
  <2> SUFFICES ASSUME NEW m \in messages' \cup sessions' PROVE m[2] <= claims'[m[1]]
    BY DEF ClaimNumbers
  <2>1. CASE m \in messages \cup sessions
    <3>1. m[1] \in Key /\ m[2] \in Nat /\ m[2] <= claims[m[1]]
      BY <2>1 DEF AccountTypeOK, OlmSession, ClaimNumbers
    <3> QED BY <1>1, <3>1
  <2>2. CASE m = <<k, claims'[k]>>
    BY <1>1, <2>2
  <2> QED BY <1>1, <2>1, <2>2
<1>6. HeldOrOrphan'
  BY <1>1 DEF HeldOrOrphan
<1>7. SessionsJoin'
  <2> SUFFICES ASSUME NEW m \in failed PROVE m[1] \in orphans \/ claims'[m[1]] > 1
    BY <1>1 DEF SessionsJoin
  <2>1. m[1] \in Key
    BY DEF AccountTypeOK, OlmSession
  <2> QED BY <1>1, <2>1 DEF SessionsJoin
<1> QED BY <1>1, <1>2, <1>3, <1>4, <1>5, <1>6, <1>7 DEF UsedBySession, PublishedSaved

\* A message makes a session with a key that is there, and fails only for a key
\* of a lost process or one that another session has used up.
LEMMA MessageKeeps ==
  ASSUME AccountInv, NEW m \in messages, PreKeyMessage(m)
  PROVE  KeysInv'
PROOF
<1> USE AccountAssumption DEF AccountInv, KeysInv
<1>1. /\ messages' \subseteq messages
      /\ UNCHANGED <<server, claims, upload, orphans, unlearned>>
  BY DEF PreKeyMessage
<1>2. /\ m[1] \in Key /\ m[2] \in 1..MaxClaims /\ m = <<m[1], m[2]>>
      /\ claims[m[1]] \in Nat /\ m[2] <= claims[m[1]]
  BY DEF AccountTypeOK, OlmSession, ClaimNumbers
<1>3. CASE UNCHANGED <<account, saved, sessions, failed>>
  BY <1>1, <1>3 DEF ServedOnce, AskedIsNew, FreshIsNew, UploadOfAccount, ClaimNumbers, UsedBySession,
     HeldOrOrphan, PublishedSaved, GivenOutOnce, SessionsJoin
<1>4. CASE CanCreate(m) /\ saved' = account /\ account' = [account EXCEPT !.key[m[1]] = "used"]
           /\ sessions' = sessions \cup {m} /\ UNCHANGED failed
  <2>1. \A k \in Key : account'.key[k] = IF k = m[1] THEN "used" ELSE account.key[k]
    BY <1>4 DEF AccountTypeOK, Account
  <2>2. account.key[m[1]] # "none"
    BY <1>4 DEF CanCreate, Private, KeysIn
  <2>3. FreshIsNew' /\ UploadOfAccount'
    <3>1. KeysIn(account', {"fresh"}) \subseteq KeysIn(account, {"fresh"})
      BY <2>1 DEF KeysIn
    <3>2. Generated(account) \subseteq Generated(account')
      <4>1. \A k \in Key : account.key[k] \in KeyState \ {"none"} => account'.key[k] \in KeyState \ {"none"}
        BY <2>1 DEF KeyState
      <4> HIDE DEF KeyState
      <4> QED BY <4>1 DEF Generated, KeysIn
    <3> QED BY <1>1, <3>1, <3>2 DEF FreshIsNew, UploadOfAccount
  <2>4. UsedBySession'
    BY <1>4, <2>1 DEF UsedBySession
  <2>5. HeldOrOrphan' /\ PublishedSaved'
    BY <1>1, <1>4, <2>1, <2>2 DEF HeldOrOrphan, PublishedSaved
  <2>6. ClaimNumbers'
    BY <1>1, <1>2, <1>4 DEF ClaimNumbers
  <2> QED BY <1>1, <1>4, <2>3, <2>4, <2>5, <2>6 DEF ServedOnce, AskedIsNew, GivenOutOnce, SessionsJoin
<1>5. CASE m \notin sessions /\ ~CanCreate(m) /\ failed' = failed \cup {m} /\ UNCHANGED <<account, saved, sessions>>
  <2>1. m[1] \in orphans \/ claims[m[1]] > 1
    <3> SUFFICES ASSUME m[1] \notin orphans, claims[m[1]] = 1 PROVE FALSE
      BY <1>2
    <3>1. account.key[m[1]] # "none"
      BY <1>2 DEF HeldOrOrphan
    <3>2. account.key[m[1]] \in KeyState
      BY <1>2 DEF AccountTypeOK, Account
    <3>3. account.key[m[1]] = "used"
      BY <1>2, <1>5, <3>1, <3>2 DEF CanCreate, Private, KeysIn, KeyState
    <3>4. PICK s \in sessions : s[1] = m[1]
      BY <1>2, <3>3 DEF UsedBySession
    <3>5. s = <<s[1], s[2]>> /\ s[2] \in 1..MaxClaims /\ s[2] <= claims[s[1]]
      BY DEF AccountTypeOK, OlmSession, ClaimNumbers
    <3>6. s[2] = 1 /\ m[2] = 1
      BY <1>2, <3>4, <3>5
    <3>7. s = m
      BY <1>2, <3>4, <3>5, <3>6
    <3> QED BY <1>5, <3>7
  <2>2. SessionsJoin'
    BY <1>1, <1>5, <2>1 DEF SessionsJoin
  <2> QED BY <1>1, <1>5, <2>2 DEF ServedOnce, AskedIsNew, FreshIsNew, UploadOfAccount, ClaimNumbers,
             UsedBySession, HeldOrOrphan, PublishedSaved, GivenOutOnce
<1> QED BY <1>3, <1>4, <1>5 DEF PreKeyMessage, SaveAccount

\* The account that a restart finds may know less than the server has.
LEMMA RestartKeeps ==
  ASSUME AccountInv, Restart
  PROVE  KeysInv'
PROOF
<1> USE DEF AccountInv, KeysInv
<1> DEFINE stored == server' \cup {k \in Key : claims[k] > 0}
<1>1. /\ server' \in IF upload.state = "asked" THEN {server, server \cup upload.keys} ELSE {server}
      /\ account' = saved /\ upload'.state = "idle"
      /\ orphans' = orphans \cup ((stored \cap KeysIn(account, {"fresh"})) \ Generated(saved))
      /\ unlearned' = unlearned \cup (stored \cap KeysIn(saved, {"fresh"}))
      /\ UNCHANGED <<saved, sessions, claims, messages, failed>>
  BY DEF Restart, NoUpload
<1>2. \A k \in Key : claims[k] \in Nat
  BY AccountAssumption DEF AccountTypeOK
<1>3. ServedOnce'
  BY <1>1 DEF ServedOnce, AskedIsNew
<1>4. FreshIsNew'
  <2> SUFFICES ASSUME NEW k \in Key, saved.key[k] = "fresh", k \notin unlearned'
               PROVE  claims[k] = 0 /\ k \notin server'
    BY <1>1 DEF FreshIsNew, KeysIn
  <2>1. k \notin stored
    BY <1>1 DEF KeysIn
  <2> QED BY <1>2, <2>1
<1>5. HeldOrOrphan'
  <2> SUFFICES ASSUME NEW k \in Key, k \in stored, saved.key[k] = "none" PROVE k \in orphans'
    BY <1>1 DEF HeldOrOrphan
  <2>1. k \in orphans \/ account.key[k] # "none"
    <3>1. CASE k \in server \/ claims[k] > 0
      BY <3>1 DEF HeldOrOrphan
    <3>2. CASE upload.state = "asked" /\ k \in upload.keys
      BY <3>2 DEF UploadOfAccount, Generated, KeysIn
    <3> QED BY <1>1, <3>1, <3>2
  <2>2. account.key[k] \in {"none", "fresh"}
    BY DEF PublishedSaved, AccountTypeOK, Account, KeyState
  <2> QED BY <1>1, <2>1, <2>2 DEF Generated, KeysIn, KeyState
<1>6. UsedBySession' /\ PublishedSaved'
  BY <1>1 DEF UsedBySession, PublishedSaved
<1> QED BY <1>1, <1>3, <1>4, <1>5, <1>6 DEF AskedIsNew, UploadOfAccount, ClaimNumbers, GivenOutOnce, SessionsJoin

\* Every step keeps the keys in order.
LEMMA KeysKept == AccountInv /\ [AccountNext]_account_vars => KeysInv'
PROOF
<1> SUFFICES ASSUME AccountInv, [AccountNext]_account_vars PROVE KeysInv'
  OBVIOUS
<1>1. CASE CreateSession
  <2>1. UsedBySession' /\ PublishedSaved'
    BY <1>1 DEF AccountInv, KeysInv, CreateSession, SaveAccount, UsedBySession, PublishedSaved
  <2> QED BY <1>1, <2>1 DEF CreateSession, AccountInv, KeysInv, ServedOnce, AskedIsNew, FreshIsNew,
             UploadOfAccount, ClaimNumbers, HeldOrOrphan, GivenOutOnce, SessionsJoin
<1>2. CASE UNCHANGED <<account, saved, sessions, server, claims, upload, messages, failed, orphans, unlearned>>
  BY <1>2 DEF AccountInv, KeysInv, ServedOnce, AskedIsNew, FreshIsNew, UploadOfAccount, ClaimNumbers,
     UsedBySession, HeldOrOrphan, PublishedSaved, GivenOutOnce, SessionsJoin
<1> QED BY <1>1, <1>2, UploadKeeps, StoreKeeps, PublishKeeps, FailureKeeps, ClaimKeeps, MessageKeeps,
           RestartKeeps DEF AccountNext, account_vars, SyncAnswers, SyncHandled

\* The inductive invariant holds in every reachable state.
THEOREM AccountInvariant == AccountSpec => []AccountInv
PROOF
<1>1. AccountInv /\ [AccountNext]_account_vars => AccountInv'
  BY TypePreserved, KeysKept DEF AccountInv
<1> QED BY InitInv, <1>1, PTL DEF AccountSpec

\* The account, the uploads and the sessions are always well formed, and no claim
\* goes over the bound.
THEOREM AccountTypeCorrect == AccountSpec => []AccountTypeOK
PROOF
<1>1. AccountInv => AccountTypeOK
  BY DEF AccountInv
<1> QED BY AccountInvariant, <1>1, PTL

\* No key is given to two devices, unless the client counts it as unpublished
\* while the server has it: however uploads fail, are repeated or end with the
\* process.
THEOREM KeysAreOneTime == AccountSpec => []GivenOutOnce
PROOF
<1>1. AccountInv => GivenOutOnce
  BY DEF AccountInv, KeysInv
<1> QED BY AccountInvariant, <1>1, PTL

\* A message fails to make a session only for a key whose process ended before
\* saving it or that was given out twice.
THEOREM SessionsAreJoined == AccountSpec => []SessionsJoin
PROOF
<1>1. AccountInv => SessionsJoin
  BY DEF AccountInv, KeysInv
<1> QED BY AccountInvariant, <1>1, PTL

-----------------------------------------------------------------------------
(* GroupSession.                                                           *)


(* Type correctness.                                                       *)

SessionPart == sess' \in Session /\ created' \in Nat /\ pc' \in [Task -> PC]

LEMMA NewType == \A n \in Nat : New(n) \in Session
BY DEF New, Session

LEMMA EncryptType ==
  ASSUME TypeOK, NEW t \in Task, NEW s \in Session, NEW p \in [Task -> PC],
         Encrypt(t, s, p)
  PROVE  SessionPart
<1>1. Fresh(s) \in Session
  <2>1. (IF s.id > created THEN s.id ELSE created) + 1 \in Nat
    BY DEF TypeOK, Session
  <2> QED BY <2>1, NewType DEF Fresh
<1>2. [s EXCEPT !.count = @ + 1] \in Session
  BY DEF Session
<1>3. sess' \in Session
  BY <1>1, <1>2 DEF Encrypt, SetSession
<1>4. created' \in Nat
  BY <1>3, <1>1, <1>2 DEF Encrypt, SetSession, Session, TypeOK
<1>5. pc' \in [Task -> PC]
  BY DEF Encrypt, PC
<1> QED BY <1>3, <1>4, <1>5 DEF SessionPart

LEMMA WakeType == TypeOK => Wake \in [Task -> PC]
BY DEF TypeOK, Wake, PC

LEMMA FinishType ==
  ASSUME TypeOK, NEW t \in Task, NEW s \in Session, NEW method, FinishShare(t, s, method)
  PROVE  SessionPart /\ sharing' \in BOOLEAN
<1> DEFINE done == [s EXCEPT !.shared = TRUE]
<1>1. done \in Session
  BY DEF Session
<1>2. sharing' \in BOOLEAN
  BY DEF FinishShare
<1>3. CASE Encrypt(t, done, Wake)
  BY <1>1, <1>2, <1>3, EncryptType, WakeType
<1>4. CASE SetSession(done) /\ pc' = [Wake EXCEPT ![t] = "idle"]
  BY <1>1, <1>2, <1>4, WakeType DEF SetSession, SessionPart, Session, TypeOK, PC
<1> QED BY <1>3, <1>4 DEF FinishShare

LEMMA AbortType ==
  ASSUME TypeOK, NEW t \in Task, NEW s \in Session, AbortShare(t, s)
  PROVE  SessionPart /\ sharing' \in BOOLEAN
BY WakeType DEF AbortShare, SetSession, SessionPart, Session, TypeOK, PC

LEMMA PrepareType ==
  ASSUME TypeOK, NEW t \in Task, NEW o \in SUBSET Device, NEW method,
         Prepare(t, o, method)
  PROVE  /\ SessionPart /\ sharing' \in BOOLEAN
         /\ trust' \in [Device -> Trust] /\ requests' \in SUBSET Request
<1> DEFINE s == ToShare
           T == Targets(s, o)
           s2 == [s EXCEPT !.ignored = @ \cup Blacklisted]
<1>1. s \in Session
  BY NewType DEF ToShare, TypeOK
<1>2. Blacklisted \in SUBSET Device /\ T \in SUBSET Device
  BY DEF Blacklisted, Targets, RoomDevices
<1>3. s2 \in Session
  BY <1>1, <1>2 DEF Session
<1>4. CASE /\ \E I \in SUBSET Blacklisted : AbortShare(t, [s EXCEPT !.ignored = @ \cup I])
           /\ UNCHANGED <<trust, requests>>
  <2>1. PICK I \in SUBSET Blacklisted : AbortShare(t, [s EXCEPT !.ignored = @ \cup I])
    BY <1>4
  <2>2. [s EXCEPT !.ignored = @ \cup I] \in Session
    BY <1>1, <1>2 DEF Session
  <2> QED BY <2>1, <2>2, <1>4, AbortType DEF TypeOK
<1>5. CASE /\ trust' = [d \in Device |-> IF d \in Unverified(T) THEN "ignored" ELSE trust[d]]
           /\ IF T = {}
              THEN FinishShare(t, s2, method) /\ UNCHANGED requests
              ELSE /\ SetSession(s2)
                   /\ sharing' = TRUE
                   /\ pc' = [pc EXCEPT ![t] = "gathering"]
                   /\ \E P \in Chunks(T) :
                        requests' = requests \cup [task : {t}, sid : {s2.id}, devices : P]
  <2>1. trust' \in [Device -> Trust]
    BY <1>5 DEF TypeOK, Trust
  <2>2. CASE T = {}
    BY <2>1, <2>2, <1>3, <1>5, FinishType DEF TypeOK
  <2>3. CASE T # {}
    <3>1. SessionPart /\ sharing' \in BOOLEAN
      BY <1>3, <1>5, <2>3 DEF SetSession, SessionPart, Session, TypeOK, PC
    <3>2. PICK P \in Chunks(T) :
            requests' = requests \cup [task : {t}, sid : {s2.id}, devices : P]
      BY <1>5, <2>3
    <3>3. P \in SUBSET (SUBSET Device)
      BY <1>2 DEF Chunks
    <3>4. s2.id \in Nat
      BY <1>3 DEF Session
    <3>5. [task : {t}, sid : {s2.id}, devices : P] \in SUBSET Request
      BY <3>3, <3>4 DEF Request
    <3> QED BY <2>1, <3>1, <3>2, <3>5 DEF TypeOK
  <2> QED BY <2>2, <2>3
<1> QED BY <1>4, <1>5 DEF Prepare

LEMMA BeginType ==
  ASSUME TypeOK, NEW t \in Task, NEW method, BeginShare(t, method)
  PROVE  /\ SessionPart /\ sharing' \in BOOLEAN /\ claim' \in [Task -> SUBSET Device]
         /\ trust' \in [Device -> Trust] /\ requests' \in SUBSET Request
<1> DEFINE missing == RoomDevices(members, state) \ olm
<1>1. CASE missing # {}
  <2>1. missing \in SUBSET Device
    BY DEF RoomDevices
  <2> QED BY <1>1, <2>1 DEF BeginShare, TypeOK, SessionPart, PC
<1>2. CASE missing = {}
  <2>1. Prepare(t, olm, method) /\ claim' = claim
    BY <1>2 DEF BeginShare
  <2>2. olm \in SUBSET Device
    BY DEF TypeOK
  <2> QED BY <2>1, <2>2, PrepareType DEF TypeOK
<1> QED BY <1>1, <1>2

LEMMA CheckType ==
  ASSUME TypeOK, NEW t \in Task, CheckSession(t)
  PROVE  /\ SessionPart /\ sharing' \in BOOLEAN /\ claim' \in [Task -> SUBSET Device]
         /\ trust' \in [Device -> Trust] /\ requests' \in SUBSET Request
<1>1. CASE pc' = [pc EXCEPT ![t] = "waiting"] /\ UNCHANGED <<trust, sess, created, sharing, claim, requests>>
  BY <1>1 DEF TypeOK, SessionPart, PC
<1>2. CASE BeginShare(t, "send")
  BY <1>2, BeginType
<1>3. CASE Encrypt(t, sess, pc) /\ UNCHANGED <<trust, sharing, claim, requests>>
  BY <1>3, EncryptType DEF TypeOK
<1> QED BY <1>1, <1>2, <1>3 DEF CheckSession

LEMMA ExposeType ==
  \A s \in Session : \A m, st, tr : /\ Expose(s, m, st, tr) \in Session
                                     /\ ExposeUnshared(s, m, st, tr) \in Session
BY DEF Expose, ExposeUnshared, Session, Entitled, RoomDevices

LEMMA InvalidateType ==
  \A s \in Session : \A u : Invalidate(s) \in Session /\ InvalidateFor(u, s) \in Session
BY NewType DEF Invalidate, InvalidateFor, NoSession

LEMMA DeliveredType ==
  \A s \in Session, n \in Nat, D \in SUBSET Device : Delivered(s, n, D) \in Session
BY DEF Delivered, Session

LEMMA NoteType ==
  \A s \in Session, D \in SUBSET Device : NoteShared(s, D) \in Session
BY DEF NoteShared, Session

LEMMA InFlightType == TypeOK => \A n : InFlight(n) \in SUBSET Device
BY DEF TypeOK, InFlight, Request

LEMMA TypeTask ==
  ASSUME TypeOK, NEW t \in Task, TaskStep(t)
  PROVE  TypeOK'
<1> USE BoundsAssumption
<1>1. CASE RoomSend(t)
  <2>1. CASE CheckSession(t)
    BY <1>1, <2>1, CheckType DEF RoomSend, TypeOK, SessionPart, env
  <2>2. CASE pc' = [pc EXCEPT ![t] = "members"] /\ UNCHANGED <<trust, sess, created, sharing, claim, requests>>
    BY <1>1, <2>2 DEF RoomSend, TypeOK, env, PC
  <2> QED BY <1>1, <2>1, <2>2 DEF RoomSend
<1>2. CASE ShareGroupSession(t)
  BY <1>2, BeginType DEF ShareGroupSession, TypeOK, SessionPart, env
<1>3. CASE JoinedMembersResponse(t)
  <2>1. sess' \in Session
    <3>1. sess \in Session
      BY DEF TypeOK
    <3>2. sess' = sess \/ \E M \in SUBSET User : sess' = Expose(sess, M, state, trust)
      BY <1>3 DEF JoinedMembersResponse, room
    <3> QED BY <3>1, <3>2, ExposeType
  <2>2. members' \in SUBSET User /\ membersSynced' \in BOOLEAN
    BY <1>3 DEF JoinedMembersResponse, room, TypeOK
  <2>3. pc' \in [Task -> PC]
    BY <1>3 DEF JoinedMembersResponse, TypeOK, PC
  <2> QED BY <1>3, <2>1, <2>2, <2>3 DEF JoinedMembersResponse, TypeOK, devs
<1>4. CASE KeysQueried(t)
  BY <1>4, CheckType DEF KeysQueried, TypeOK, SessionPart, env
<1>5. CASE KeysClaimed(t)
  <2>1. PICK C \in SUBSET claim[t] : olm' = olm \cup C /\ Prepare(t, olm \cup C, op[t])
    BY <1>5 DEF KeysClaimed
  <2>2. olm \cup C \in SUBSET Device
    BY DEF TypeOK
  <2>3. claim' \in [Task -> SUBSET Device]
    BY <1>5 DEF KeysClaimed, TypeOK
  <2> QED BY <1>5, <2>1, <2>2, <2>3, PrepareType DEF KeysClaimed, TypeOK, SessionPart, env
<1>6. CASE ClaimRefused(t) \/ GivesUp(t)
  BY <1>6 DEF ClaimRefused, GivesUp, TypeOK, env, PC
<1>7. CASE Gathered(t)
  BY <1>7, FinishType, AbortType DEF Gathered, TypeOK, SessionPart, env
<1>8. CASE ShareCancelled(t)
  <2>1. PICK D \in SUBSET UNION {r.devices : r \in {q \in RequestsOf(t) : q.sid = sess.id}} :
          AbortShare(t, Delivered(sess, sess.id, D))
    BY <1>8 DEF ShareCancelled
  <2>2. D \in SUBSET Device
    BY DEF RequestsOf, TypeOK, Request
  <2>3. Delivered(sess, sess.id, D) \in Session
    <3>1. sess \in Session /\ sess.id \in Nat
      BY DEF TypeOK, Session
    <3> QED BY <2>2, <3>1, DeliveredType
  <2>4. SessionPart /\ sharing' \in BOOLEAN
    BY <2>1, <2>3, AbortType
  <2> QED BY <1>8, <2>4 DEF ShareCancelled, TypeOK, SessionPart, env
<1>9. CASE Resume(t)
  BY <1>9, EncryptType DEF Resume, TypeOK, SessionPart, env
<1>10. CASE Sent(t)
  BY <1>10 DEF Sent, TypeOK, env, PC
<1> QED BY <1>1, <1>2, <1>3, <1>4, <1>5, <1>6, <1>7, <1>8, <1>9, <1>10 DEF TaskStep

LEMMA TypeRequest ==
  ASSUME TypeOK, NEW r \in requests, RequestStep(r)
  PROVE  TypeOK'
<1>1. r.devices \in SUBSET Device /\ r.sid \in Nat /\ sess \in Session
  BY DEF TypeOK, Request
<1>2. CASE RequestAnswered(r)
  <2>1. Delivered(sess, r.sid, r.devices) \in Session
    BY <1>1, DeliveredType
  <2>2. sess' \in Session
    BY <1>1, <1>2, <2>1, NoteType DEF RequestAnswered
  <2> QED BY <1>2, <2>2 DEF RequestAnswered, TypeOK, env
<1>3. CASE RequestFails(r)
  <2>1. PICK D \in {{}, r.devices} : sess' = Delivered(sess, r.sid, D)
    BY <1>3 DEF RequestFails
  <2>2. D \in SUBSET Device
    BY <1>1
  <2>3. sess' \in Session
    BY <1>1, <2>1, <2>2, DeliveredType
  <2> QED BY <1>3, <2>3 DEF RequestFails, TypeOK, env
<1> QED BY <1>2, <1>3 DEF RequestStep

LEMMA TypeRoom ==
  ASSUME TypeOK, RoomStep
  PROVE  TypeOK'
<1> USE BoundsAssumption, OwnerAssumption DEF room, devs, tasks
<1>0. Change => changes' \in 0..MaxChanges
  BY DEF Change, TypeOK
<1>1. ASSUME NEW u \in User, MemberJoins(u) PROVE TypeOK'
  BY <1>0, <1>1, InvalidateType DEF MemberJoins, TypeOK
<1>2. ASSUME NEW u \in User, MemberLeaves(u) PROVE TypeOK'
  BY <1>0, <1>2, InvalidateType, ExposeType DEF MemberLeaves, TypeOK
<1>3. ASSUME NEW d \in Device, DeviceListed(d) PROVE TypeOK'
  BY <1>0, <1>3, InvalidateType DEF DeviceListed, TypeOK
<1>4. ASSUME NEW d \in Device, DeviceKeyChanges(d) PROVE TypeOK'
  BY <1>0, <1>4, InvalidateType DEF DeviceKeyChanges, TypeOK
<1>5. ASSUME NEW d \in Device, DeviceDeleted(d) PROVE TypeOK'
  BY <1>0, <1>5, InvalidateType, ExposeType DEF DeviceDeleted, TypeOK
<1>6. ASSUME NEW d \in Device, VerifiedBySas(d) PROVE TypeOK'
  BY <1>0, <1>6 DEF VerifiedBySas, TypeOK, Trust
<1>7. ASSUME NEW d \in Device, OlmSessionAppears(d) PROVE TypeOK'
  BY <1>0, <1>7 DEF OlmSessionAppears, TypeOK
<1>8. ASSUME NEW d \in Device, NEW value \in Trust, TrustChanges(d, value) PROVE TypeOK'
  BY <1>0, <1>8, InvalidateType, ExposeType DEF TrustChanges, TypeOK
<1>9. CASE SessionAges
  BY <1>0, <1>9 DEF SessionAges, TypeOK, Session
<1> QED BY <1>1, <1>2, <1>3, <1>4, <1>5, <1>6, <1>7, <1>8, <1>9 DEF RoomStep

LEMMA TypeInit == Init => TypeOK
<1> SUFFICES ASSUME Init PROVE TypeOK
  OBVIOUS
<1>1. sess \in Session
  BY NewType DEF Init, NoSession
<1>2. state \in [Device -> {"unknown", "active", "deleted"}] /\ olm \in SUBSET Device
  BY DEF Init
<1>3. calls \in 0..MaxCalls /\ changes \in 0..MaxChanges
  BY BoundsAssumption DEF Init
<1> QED BY <1>1, <1>2, <1>3 DEF Init, TypeOK, PC

\* The state of the client keeps its type through every interleaving of tasks,
\* responses and sync events.
THEOREM TypeCorrect == Spec => []TypeOK
<1>1. TypeOK /\ [Next]_vars => TypeOK'
  <2>1. TypeOK /\ UNCHANGED vars => TypeOK'
    BY DEF vars, TypeOK
  <2> QED BY <2>1, TypeTask, TypeRequest, TypeRoom DEF Next
<1> QED BY <1>1, TypeInit, PTL DEF Spec

-----------------------------------------------------------------------------
(* The inductive invariant.  What the properties say of the session needs   *)
(* three more facts: ids only grow, so that a request for a session that    *)
(* was dropped never counts for a later one; a request names a session that *)
(* was created; and a session that is not shared has encrypted nothing.     *)

Carried(d, n, R) == \E r \in R : r.sid = n /\ d \in r.devices
Right(d, s, m, st, tr) == d \in s.exposed \/ d \in Entitled(m, st, tr)

Sound(s, c, R, m, st, tr) ==
  /\ s.id <= c /\ s.count <= MaxMessages /\ (s.shared \/ s.count = 0)
  /\ \A r \in R : 0 < r.sid /\ r.sid <= c
  /\ \A d \in Device : d \in s.holders \/ Carried(d, s.id, R) => Right(d, s, m, st, tr)

SoundNow == Sound(sess, created, requests, members, state, trust)
IInv == TypeOK /\ OneShareAtATime /\ SoundNow

(* Sessions that agree on what Sound looks at.                             *)
SameKey(s, q) ==
  /\ q.id = s.id /\ q.count = s.count /\ q.holders = s.holders /\ q.exposed = s.exposed
  /\ s.shared => q.shared

LEMMA SameSound ==
  ASSUME NEW s, NEW q, NEW c, NEW R, NEW m, NEW st, NEW tr,
         Sound(s, c, R, m, st, tr), SameKey(s, q)
  PROVE  Sound(q, c, R, m, st, tr)
BY DEF Sound, SameKey, Right

LEMMA NewSound ==
  ASSUME NEW c \in Nat, NEW n \in Nat, NEW R \in SUBSET Request, NEW m, NEW st, NEW tr,
         c < n, \A r \in R : 0 < r.sid /\ r.sid <= c
  PROVE  Sound(New(n), n, R, m, st, tr)
<1>1. \A r \in R : r.sid \in Nat
  BY DEF Request
<1>2. \A d : ~Carried(d, n, R)
  BY <1>1 DEF Carried
<1> QED BY <1>1, <1>2, BoundsAssumption DEF Sound, New

LEMMA NoneSound ==
  ASSUME NEW c \in Nat, NEW R \in SUBSET Request, NEW m, NEW st, NEW tr,
         \A r \in R : 0 < r.sid /\ r.sid <= c
  PROVE  Sound(NoSession, c, R, m, st, tr)
BY BoundsAssumption DEF Sound, New, NoSession, Carried, Request

\* The number of sessions there are once s has been stored.
Latest(s) == IF s.id > created THEN s.id ELSE created

LEMMA EncryptSound ==
  ASSUME TypeOK, NEW t \in Task, NEW s \in Session, NEW p, NEW R \in SUBSET Request,
         NEW m, NEW st, NEW tr, Encrypt(t, s, p), Sound(s, Latest(s), R, m, st, tr)
  PROVE  Sound(sess', created', R, m, st, tr)
<1>0. Latest(s) \in Nat /\ s.id \in Nat /\ s.count \in Nat /\ created \in Nat
  BY DEF Latest, TypeOK, Session
<1>1. CASE CanEncrypt(s) /\ SetSession([s EXCEPT !.count = @ + 1])
  <2> DEFINE q == [s EXCEPT !.count = @ + 1]
  <2>1. /\ q.id = s.id /\ q.count = s.count + 1 /\ q.holders = s.holders
        /\ q.exposed = s.exposed /\ q.shared
    BY <1>1 DEF Session, CanEncrypt
  <2>2. s.count < MaxMessages
    BY <1>0, <1>1, BoundsAssumption DEF CanEncrypt, Expired
  <2>3. sess' = q /\ created' = Latest(s)
    BY <1>1, <2>1 DEF SetSession, Latest
  <2> QED BY <1>0, <2>1, <2>2, <2>3, BoundsAssumption DEF Sound, Right
<1>2. CASE SetSession(Fresh(s))
  <2>1. Fresh(s) = New(Latest(s) + 1) /\ Latest(s) + 1 \in Nat /\ Latest(s) < Latest(s) + 1
    BY <1>0 DEF Fresh, Latest
  <2>2. Fresh(s).id = Latest(s) + 1 /\ Fresh(s).id > created
    BY <1>0, <2>1 DEF New, Latest
  <2>3. sess' = New(Latest(s) + 1) /\ created' = Latest(s) + 1
    BY <1>2, <2>1, <2>2 DEF SetSession
  <2> QED BY <1>0, <2>1, <2>3, NewSound DEF Sound
<1>3. CASE SetSession(s)
  BY <1>3 DEF SetSession, Latest
<1> QED BY <1>1, <1>2, <1>3 DEF Encrypt

LEMMA FinishSound ==
  ASSUME TypeOK, NEW t \in Task, NEW s \in Session, NEW method, NEW R \in SUBSET Request,
         NEW m, NEW st, NEW tr, FinishShare(t, s, method), Sound(s, Latest(s), R, m, st, tr)
  PROVE  Sound(sess', created', R, m, st, tr)
<1> DEFINE done == [s EXCEPT !.shared = TRUE]
<1>1. done \in Session /\ SameKey(s, done) /\ Latest(done) = Latest(s)
  BY DEF Session, SameKey, Latest
<1>2. Sound(done, Latest(done), R, m, st, tr)
  BY <1>1, SameSound
<1>3. CASE Encrypt(t, done, Wake)
  BY <1>1, <1>2, <1>3, EncryptSound
<1>4. CASE SetSession(done)
  BY <1>2, <1>4 DEF SetSession, Latest
<1> QED BY <1>3, <1>4 DEF FinishShare

LEMMA PrepareSound ==
  ASSUME TypeOK, SoundNow, NEW t \in Task, NEW o \in SUBSET Device, NEW method,
         Prepare(t, o, method)
  PROVE  Sound(sess', created', requests', members, state, trust')
<1> DEFINE s == ToShare
           T == Targets(s, o)
           s2 == [s EXCEPT !.ignored = @ \cup Blacklisted]
<1>0. /\ created \in Nat /\ sess \in Session /\ requests \in SUBSET Request
      /\ sess.id \in Nat /\ sess.id <= created
  BY DEF TypeOK, Session, SoundNow, Sound
<1>1. s \in Session /\ Blacklisted \in SUBSET Device /\ T \in SUBSET Device
  BY <1>0, NewType DEF ToShare, Blacklisted, Targets, RoomDevices
<1>2. Sound(s, Latest(s), requests, members, state, trust) /\ 0 < s.id
  <2>1. CASE s = sess /\ Exists(sess)
    BY <1>0, <2>1 DEF Latest, SoundNow, Exists
  <2>2. CASE s = New(created + 1)
    <3>1. s.id = created + 1 /\ Latest(s) = created + 1
      BY <1>0, <2>2 DEF New, Latest
    <3>2. created + 1 \in Nat /\ created < created + 1
      BY <1>0
    <3>3. \A r \in requests : 0 < r.sid /\ r.sid <= created
      BY DEF SoundNow, Sound
    <3>4. Sound(New(created + 1), created + 1, requests, members, state, trust)
      BY ONLY <1>0, <3>2, <3>3, NewSound
    <3> QED BY <1>0, <2>2, <3>1, <3>4
  <2> QED BY <2>1, <2>2 DEF ToShare
<1>3. s2 \in Session /\ SameKey(s, s2) /\ Latest(s2) = Latest(s)
  BY <1>1 DEF Session, SameKey, Latest
<1>4. CASE /\ \E I \in SUBSET Blacklisted : AbortShare(t, [s EXCEPT !.ignored = @ \cup I])
           /\ UNCHANGED <<trust, requests>>
  <2>1. PICK I \in SUBSET Blacklisted : AbortShare(t, [s EXCEPT !.ignored = @ \cup I])
    BY <1>4
  <2> DEFINE q == [s EXCEPT !.ignored = @ \cup I]
  <2>2. SameKey(s, q) /\ Latest(q) = Latest(s)
    BY <1>1 DEF SameKey, Latest, Session
  <2>3. Sound(q, Latest(q), requests, members, state, trust)
    BY <1>2, <2>2, SameSound
  <2> QED BY <1>4, <2>1, <2>3 DEF AbortShare, SetSession, Latest
<1>5. CASE /\ trust' = [d \in Device |-> IF d \in Unverified(T) THEN "ignored" ELSE trust[d]]
           /\ IF T = {}
              THEN FinishShare(t, s2, method) /\ UNCHANGED requests
              ELSE /\ SetSession(s2)
                   /\ sharing' = TRUE
                   /\ pc' = [pc EXCEPT ![t] = "gathering"]
                   /\ \E P \in Chunks(T) :
                        requests' = requests \cup [task : {t}, sid : {s2.id}, devices : P]
  <2>1. \A d \in Device : d \in Entitled(members, state, trust)
                           => d \in Entitled(members, state, trust')
    BY <1>5 DEF Entitled, Unverified
  <2>2. Sound(s2, Latest(s2), requests, members, state, trust')
    <3>1. Sound(s2, Latest(s2), requests, members, state, trust)
      BY <1>2, <1>3, SameSound
    <3> QED BY <2>1, <3>1 DEF Sound, Right
  <2>3. CASE T = {}
    BY <1>0, <1>3, <1>5, <2>2, <2>3, FinishSound
  <2>4. CASE T # {}
    <3>1. T \subseteq Entitled(members, state, trust')
      BY <1>5, TypeOK DEF Targets, Blacklisted, Unverified, Entitled, RoomDevices, TypeOK, Trust
    <3>2. PICK P \in Chunks(T) :
            requests' = requests \cup [task : {t}, sid : {s2.id}, devices : P]
      BY <1>5, <2>4
    <3>3. \A D \in P : D \subseteq T
      BY <3>2 DEF Chunks
    <3>4. \A r \in requests' : r \in requests \/ (r.sid = s2.id /\ r.devices \subseteq T)
      BY <3>2, <3>3
    <3>5. sess' = s2 /\ created' = Latest(s2) /\ s2.id <= Latest(s2) /\ 0 < s2.id
      BY <1>2, <1>3, <1>5, <2>2, <2>4 DEF SetSession, Latest, SameKey, Sound
    <3>6. \A d : Carried(d, s2.id, requests') => d \in T \/ Carried(d, s2.id, requests)
      BY <3>4 DEF Carried
    <3> QED BY <2>2, <3>1, <3>4, <3>5, <3>6 DEF Sound, Right
  <2> QED BY <2>3, <2>4
<1> QED BY <1>4, <1>5 DEF Prepare

LEMMA BeginSound ==
  ASSUME TypeOK, SoundNow, NEW t \in Task, NEW method, BeginShare(t, method)
  PROVE  Sound(sess', created', requests', members, state, trust')
<1>1. CASE UNCHANGED <<trust, sess, created, requests>>
  BY <1>1 DEF SoundNow
<1>2. CASE Prepare(t, olm, method)
  <2>1. olm \in SUBSET Device
    BY DEF TypeOK
  <2> QED BY <1>2, <2>1, PrepareSound
<1> QED BY <1>1, <1>2 DEF BeginShare

LEMMA CheckSound ==
  ASSUME TypeOK, SoundNow, NEW t \in Task, CheckSession(t)
  PROVE  Sound(sess', created', requests', members, state, trust')
<1>1. CASE UNCHANGED <<trust, sess, created, requests>>
  BY <1>1 DEF SoundNow
<1>2. CASE BeginShare(t, "send")
  BY <1>2, BeginSound
<1>3. CASE Encrypt(t, sess, pc) /\ UNCHANGED <<trust, sharing, claim, requests>>
  <2>1. Latest(sess) = created /\ sess \in Session /\ requests \in SUBSET Request
    BY DEF Latest, SoundNow, Sound, TypeOK, Session
  <2> QED BY <1>3, <2>1, EncryptSound DEF SoundNow
<1> QED BY <1>1, <1>2, <1>3 DEF CheckSession

LEMMA InFlightCarried == \A d, n : d \in InFlight(n) <=> Carried(d, n, requests)
BY DEF InFlight, Carried

\* Whatever the room becomes, noting the devices that lost their right keeps
\* the invariant.
LEMMA ExposeSound ==
  ASSUME NEW s \in Session, Sound(s, created, requests, members, state, trust),
         NEW m, NEW st, NEW tr
  PROVE  Sound(Expose(s, m, st, tr), created, requests, m, st, tr)
<1> DEFINE q == Expose(s, m, st, tr)
           lost == Entitled(members, state, trust) \ Entitled(m, st, tr)
<1>1. /\ q.id = s.id /\ q.count = s.count /\ q.holders = s.holders /\ q.shared = s.shared
      /\ q.exposed = s.exposed \cup (lost \cap (s.holders \cup InFlight(s.id)))
  BY DEF Expose, Session
<1>2. ASSUME NEW d \in Device, d \in q.holders \/ Carried(d, q.id, requests)
      PROVE  Right(d, q, m, st, tr)
  <2>1. d \in s.holders \cup InFlight(s.id) /\ Right(d, s, members, state, trust)
    BY <1>1, <1>2, InFlightCarried DEF Sound
  <2> QED BY <1>1, <2>1 DEF Right
<1> QED BY <1>1, <1>2 DEF Sound

\* A shared session is dropped, one that is not shared is noted.
LEMMA DropSound ==
  ASSUME TypeOK, SoundNow, NEW m, NEW st, NEW tr
  PROVE  Sound(ExposeUnshared(Invalidate(sess), m, st, tr), created, requests, m, st, tr)
<1>1. sess \in Session /\ requests \in SUBSET Request
  BY DEF TypeOK
<1>2. CASE sess.shared
  <2>1. ~NoSession.shared /\ NoSession \in Session
    BY NewType DEF NoSession, New
  <2>2. Sound(NoSession, created, requests, members, state, trust)
    <3>1. \A r \in requests : 0 < r.sid /\ r.sid <= created
      BY DEF SoundNow, Sound
    <3> QED BY ONLY TypeOK, <1>1, <3>1, NoneSound DEF TypeOK
  <2> QED BY <1>2, <2>1, <2>2, ExposeSound DEF Invalidate, ExposeUnshared
<1>3. CASE ~sess.shared
  BY <1>1, <1>3, ExposeSound DEF Invalidate, ExposeUnshared, SoundNow
<1> QED BY <1>2, <1>3

\* With nobody losing the right, invalidation alone keeps the invariant.
LEMMA GrowSound ==
  ASSUME TypeOK, SoundNow, NEW m, NEW st, NEW tr, NEW s \in {sess, Invalidate(sess)},
         \A d \in Device : d \in Entitled(members, state, trust) => d \in Entitled(m, st, tr)
  PROVE  Sound(s, created, requests, m, st, tr)
<1>1. requests \in SUBSET Request
  BY DEF TypeOK
<1>2. Sound(sess, created, requests, m, st, tr)
  BY DEF SoundNow, Sound, Right
<1>3. Sound(NoSession, created, requests, m, st, tr)
  <2>1. \A r \in requests : 0 < r.sid /\ r.sid <= created
    BY DEF SoundNow, Sound
  <2> QED BY ONLY TypeOK, <1>1, <2>1, NoneSound DEF TypeOK
<1> QED BY <1>2, <1>3 DEF Invalidate

\* The requests R of the session s are gone, and the server delivered some of
\* their messages.
LEMMA DeliveredSound ==
  ASSUME TypeOK, SoundNow, NEW n \in Nat, NEW D \in SUBSET Device, NEW R \in SUBSET requests,
         \A d \in D : Carried(d, n, requests)
  PROVE  Sound(Delivered(sess, n, D), created, R, members, state, trust)
<1> DEFINE q == Delivered(sess, n, D)
<1>1. /\ q.id = sess.id /\ q.count = sess.count /\ q.shared = sess.shared /\ q.exposed = sess.exposed
      /\ \A d \in q.holders : d \in sess.holders \/ (sess.id = n /\ d \in D)
  BY DEF Delivered, Session, TypeOK
<1>2. \A d : Carried(d, sess.id, R) => Carried(d, sess.id, requests)
  BY DEF Carried
<1> QED BY <1>1, <1>2 DEF SoundNow, Sound, Right

LEMMA NoteSame == \A s \in Session : \A D : SameKey(s, NoteShared(s, D))
BY DEF SameKey, NoteShared, Session

LEMMA SoundRequest ==
  ASSUME TypeOK, SoundNow, NEW r \in requests, RequestStep(r)
  PROVE  SoundNow'
<1>1. /\ r.devices \in SUBSET Device /\ r.sid \in Nat /\ sess \in Session
      /\ \A d \in r.devices : Carried(d, r.sid, requests)
  BY DEF TypeOK, Request, Carried
<1>2. CASE RequestAnswered(r)
  <2> DEFINE q == Delivered(sess, r.sid, r.devices)
  <2>1. requests' \in SUBSET requests /\ requests' = requests \ {r}
    BY <1>2 DEF RequestAnswered
  <2>2. q \in Session
    BY <1>1, DeliveredType
  <2>3. Sound(q, created, requests', members, state, trust)
    BY <1>1, <2>1, DeliveredSound
  <2>4. Sound(NoteShared(q, r.devices), created, requests', members, state, trust)
    BY <2>2, <2>3, NoteSame, SameSound
  <2> QED BY <1>2, <2>4 DEF RequestAnswered, SoundNow, env
<1>3. CASE RequestFails(r)
  <2>1. PICK D \in {{}, r.devices} : sess' = Delivered(sess, r.sid, D)
    BY <1>3 DEF RequestFails
  <2>2. D \in SUBSET Device /\ \A d \in D : Carried(d, r.sid, requests)
    BY <1>1
  <2>3. requests' \in SUBSET requests
    BY <1>3 DEF RequestFails
  <2>4. Sound(sess', created, requests', members, state, trust)
    BY <1>1, <2>1, <2>2, <2>3, DeliveredSound
  <2> QED BY <1>3, <2>4 DEF RequestFails, SoundNow, env
<1> QED BY <1>2, <1>3 DEF RequestStep

LEMMA SoundRoom ==
  ASSUME TypeOK, SoundNow, RoomStep
  PROVE  SoundNow'
<1> DEFINE Before == Entitled(members, state, trust)
           After  == Entitled(members', state', trust')
           Dropped == ExposeUnshared(Invalidate(sess), members', state', trust')
<1>0. TypeOK'
  BY TypeRoom
<1>1. CASE \E u \in User : MemberJoins(u)
  <2>1. /\ Before \subseteq After /\ sess' = Invalidate(sess)
        /\ created' = created /\ requests' = requests
    BY <1>1 DEF MemberJoins, devs, tasks, Entitled, RoomDevices
  <2> QED BY <2>1, GrowSound DEF SoundNow
<1>2. CASE \E u \in User : MemberLeaves(u)
  <2>1. sess' = Dropped /\ created' = created /\ requests' = requests
    BY <1>2 DEF MemberLeaves, devs, tasks
  <2> QED BY <2>1, DropSound DEF SoundNow
<1>3. ASSUME NEW d \in Device,
             DeviceListed(d) \/ DeviceKeyChanges(d) \/ VerifiedBySas(d) \/ OlmSessionAppears(d)
      PROVE  SoundNow'
  <2>1. Before \subseteq After
    BY <1>3 DEF DeviceListed, DeviceKeyChanges, VerifiedBySas, OlmSessionAppears,
                room, devs, Entitled, RoomDevices, TypeOK, Trust
  <2>2. sess' \in {sess, Invalidate(sess)} /\ created' = created /\ requests' = requests
    BY <1>3 DEF DeviceListed, DeviceKeyChanges, VerifiedBySas, OlmSessionAppears,
                tasks, InvalidateFor
  <2> QED BY <2>1, <2>2, GrowSound DEF SoundNow
<1>4. ASSUME NEW d \in Device, DeviceDeleted(d) \/ \E value \in Trust : TrustChanges(d, value)
      PROVE  SoundNow'
  <2>1. /\ created' = created /\ requests' = requests /\ members' = members
        /\ sess' = ExposeUnshared(InvalidateFor(Owner[d], sess), members, state', trust')
        /\ \A e \in Device \ {d} : state'[e] = state[e] /\ trust'[e] = trust[e]
    BY <1>4 DEF DeviceDeleted, TrustChanges, tasks, room, TypeOK
  <2>2. CASE Owner[d] \in members
    BY <2>1, <2>2, DropSound DEF InvalidateFor, SoundNow
  <2>3. CASE Owner[d] \notin members
    <3>1. Before \subseteq After
      BY <2>1, <2>3 DEF Entitled, RoomDevices
    <3>2. CASE sess.shared
      <4>1. sess' = sess
        BY <2>1, <2>3, <3>2 DEF InvalidateFor, ExposeUnshared
      <4> QED BY <2>1, <3>1, <4>1, GrowSound DEF SoundNow
    <3>3. CASE ~sess.shared
      <4>1. sess' = Expose(sess, members', state', trust') /\ sess \in Session
        BY <2>1, <2>3, <3>3 DEF InvalidateFor, ExposeUnshared, TypeOK
      <4> QED BY <2>1, <4>1, ExposeSound DEF SoundNow
    <3> QED BY <3>2, <3>3
  <2> QED BY <2>2, <2>3
<1>5. CASE SessionAges
  <2>1. SameKey(sess, sess')
    BY <1>5 DEF SessionAges, SameKey, TypeOK, Session
  <2> QED BY <1>5, <2>1, SameSound DEF SessionAges, SoundNow, room, devs, tasks
<1> QED BY <1>1, <1>2, <1>3, <1>4, <1>5 DEF RoomStep

LEMMA SoundTask ==
  ASSUME TypeOK, SoundNow, NEW t \in Task, TaskStep(t)
  PROVE  SoundNow'
<1>0. /\ sess \in Session /\ requests \in SUBSET Request /\ Latest(sess) = created
      /\ sess.id \in Nat /\ olm \in SUBSET Device
  BY DEF TypeOK, Session, Latest, SoundNow, Sound
<1>1. CASE RoomSend(t)
  <2>1. CASE CheckSession(t)
    BY <1>1, <2>1, CheckSound DEF RoomSend, SoundNow, env
  <2>2. CASE UNCHANGED <<trust, sess, created, sharing, claim, requests>>
    BY <1>1, <2>2 DEF RoomSend, SoundNow, env
  <2> QED BY <1>1, <2>1, <2>2 DEF RoomSend
<1>2. CASE ShareGroupSession(t)
  BY <1>2, BeginSound DEF ShareGroupSession, SoundNow, env
<1>3. CASE JoinedMembersResponse(t)
  <2>1. CASE UNCHANGED <<room, sess>>
    BY <1>3, <2>1 DEF JoinedMembersResponse, SoundNow, room, devs
  <2>2. CASE sess' = Expose(sess, members', state, trust)
    BY <1>0, <1>3, <2>2, ExposeSound DEF JoinedMembersResponse, SoundNow, devs
  <2> QED BY <1>3, <2>1, <2>2 DEF JoinedMembersResponse
<1>4. CASE KeysQueried(t)
  BY <1>4, CheckSound DEF KeysQueried, SoundNow, env
<1>5. CASE KeysClaimed(t)
  <2>1. PICK C \in SUBSET claim[t] : Prepare(t, olm \cup C, op[t])
    BY <1>5 DEF KeysClaimed
  <2>2. olm \cup C \in SUBSET Device
    BY DEF TypeOK
  <2> QED BY <1>5, <2>1, <2>2, PrepareSound DEF KeysClaimed, SoundNow, env
<1>6. CASE ClaimRefused(t) \/ GivesUp(t) \/ Sent(t)
  BY <1>6 DEF ClaimRefused, GivesUp, Sent, SoundNow, env
<1>7. CASE Gathered(t)
  <2>1. CASE FinishShare(t, sess, op[t])
    <3>1. Sound(sess, Latest(sess), requests, members, state, trust)
      BY <1>0 DEF SoundNow
    <3>2. Sound(sess', created', requests, members, state, trust)
      BY <1>0, <2>1, <3>1, FinishSound
    <3> QED BY <1>7, <3>2 DEF Gathered, SoundNow, env
  <2>2. CASE AbortShare(t, sess)
    BY <1>0, <1>7, <2>2 DEF Gathered, SoundNow, env, AbortShare, SetSession, Latest
  <2> QED BY <1>7, <2>1, <2>2 DEF Gathered
<1>8. CASE ShareCancelled(t)
  <2>1. PICK D \in SUBSET UNION {r.devices : r \in {q \in RequestsOf(t) : q.sid = sess.id}} :
          AbortShare(t, Delivered(sess, sess.id, D))
    BY <1>8 DEF ShareCancelled
  <2>2. D \in SUBSET Device /\ \A d \in D : Carried(d, sess.id, requests)
    BY DEF RequestsOf, TypeOK, Request, Carried
  <2>3. requests' \in SUBSET requests
    BY <1>8 DEF ShareCancelled
  <2>4. Sound(Delivered(sess, sess.id, D), created, requests', members, state, trust)
    BY <1>0, <2>2, <2>3, DeliveredSound
  <2>5. Delivered(sess, sess.id, D).id = sess.id
    BY <1>0 DEF Delivered, Session
  <2>6. sess' = Delivered(sess, sess.id, D) /\ created' = created
    BY <1>0, <2>1, <2>5 DEF AbortShare, SetSession, Latest
  <2> QED BY <1>8, <2>4, <2>6 DEF ShareCancelled, SoundNow, env
<1>9. CASE Resume(t)
  <2>1. Sound(sess, Latest(sess), requests, members, state, trust)
    BY <1>0 DEF SoundNow
  <2>2. Sound(sess', created', requests, members, state, trust)
    BY <1>0, <1>9, <2>1, EncryptSound DEF Resume
  <2> QED BY <1>9, <2>2 DEF Resume, SoundNow, env
<1> QED BY <1>1, <1>2, <1>3, <1>4, <1>5, <1>6, <1>7, <1>8, <1>9 DEF TaskStep

-----------------------------------------------------------------------------
(* One share at a time.                                                    *)

Alone(t) == \A u \in Task : u # t => ~InShare(u)
\* The other tasks of t go on waiting or are woken.
OthersWait(t) == \A u \in Task : u # t => pc'[u] = pc[u] \/ pc'[u] = "woken"

LEMMA WakeWaits ==
  ASSUME TypeOK, NEW t \in Task, NEW c, pc' = [pc EXCEPT ![t] = c] \/ pc' = [Wake EXCEPT ![t] = c]
  PROVE  OthersWait(t) /\ pc'[t] = c
BY DEF TypeOK, Wake, OthersWait

\* t starts or goes on sharing, and no other task does.
LEMMA ShareStep ==
  ASSUME NEW t \in Task, Alone(t), OthersWait(t), InShare(t)' => sharing'
  PROVE  OneShareAtATime'
<1>1. \A u \in Task : u # t => ~InShare(u)'
  BY DEF Alone, OthersWait, InShare
<1> QED BY <1>1 DEF OneShareAtATime

\* t does not share afterwards, and the event of the room is left as it was.
LEMMA OtherStep ==
  ASSUME OneShareAtATime, NEW t \in Task, OthersWait(t), sharing' = sharing, ~InShare(t)'
  PROVE  OneShareAtATime'
<1>1. \A u \in Task : InShare(u)' => u # t /\ InShare(u)
  BY DEF OthersWait, InShare
<1> QED BY <1>1 DEF OneShareAtATime

LEMMA EncryptWaits ==
  ASSUME TypeOK, NEW t \in Task, NEW s, NEW p \in {pc, Wake}, Encrypt(t, s, p)
  PROVE  OthersWait(t) /\ ~InShare(t)'
<1>1. \E c \in {"sending", "idle"} : pc' = [p EXCEPT ![t] = c]
  BY DEF Encrypt
<1>2. OthersWait(t) /\ pc'[t] \in {"sending", "idle"}
  BY <1>1, WakeWaits
<1> QED BY <1>2 DEF InShare

LEMMA PrepareShares ==
  ASSUME TypeOK, NEW t \in Task, NEW o, NEW method, Alone(t), Prepare(t, o, method)
  PROVE  OneShareAtATime'
<1>1. ASSUME NEW s, FinishShare(t, s, method) \/ AbortShare(t, s) PROVE OneShareAtATime'
  <2>1. CASE pc' = [Wake EXCEPT ![t] = "idle"]
    BY <2>1, WakeWaits, ShareStep DEF InShare
  <2>2. ASSUME NEW done, Encrypt(t, done, Wake) PROVE OneShareAtATime'
    BY <2>2, EncryptWaits, ShareStep
  <2> QED BY <1>1, <2>1, <2>2 DEF FinishShare, AbortShare
<1>2. CASE sharing' = TRUE /\ pc' = [pc EXCEPT ![t] = "gathering"]
  BY <1>2, WakeWaits, ShareStep
<1> QED BY <1>1, <1>2 DEF Prepare

LEMMA BeginShares ==
  ASSUME TypeOK, NEW t \in Task, NEW method, Alone(t), BeginShare(t, method)
  PROVE  OneShareAtATime'
<1>1. CASE sharing' = TRUE /\ pc' = [pc EXCEPT ![t] = "claiming"]
  BY <1>1, WakeWaits, ShareStep
<1>2. CASE Prepare(t, olm, method)
  BY <1>2, PrepareShares
<1> QED BY <1>1, <1>2 DEF BeginShare

LEMMA NobodyShares == OneShareAtATime /\ ~sharing => \A t \in Task : Alone(t)
BY DEF OneShareAtATime, Alone

LEMMA CheckShares ==
  ASSUME TypeOK, OneShareAtATime, NEW t \in Task, CheckSession(t)
  PROVE  OneShareAtATime'
<1>1. CASE pc' = [pc EXCEPT ![t] = "waiting"] /\ sharing' = sharing
  BY <1>1, WakeWaits, OtherStep DEF InShare
<1>2. CASE ~AlreadySharing /\ BeginShare(t, "send")
  BY <1>2, NobodyShares, BeginShares DEF AlreadySharing
<1>3. CASE Encrypt(t, sess, pc) /\ sharing' = sharing
  BY <1>3, EncryptWaits, OtherStep
<1> QED BY <1>1, <1>2, <1>3 DEF CheckSession

LEMMA OneShareTask ==
  ASSUME TypeOK, OneShareAtATime, NEW t \in Task, TaskStep(t)
  PROVE  OneShareAtATime'
<1>0. InShare(t) => Alone(t)
  BY DEF OneShareAtATime, Alone
<1>1. ASSUME NEW c \in {"members", "querying", "idle"}, pc' = [pc EXCEPT ![t] = c],
             sharing' = sharing
      PROVE  OneShareAtATime'
  BY <1>1, WakeWaits, OtherStep DEF InShare
<1>2. CASE RoomSend(t)
  BY <1>1, <1>2, CheckShares DEF RoomSend
<1>3. CASE ShareGroupSession(t)
  BY <1>3, NobodyShares, BeginShares DEF ShareGroupSession, AlreadySharing
<1>4. CASE JoinedMembersResponse(t)
  BY <1>1, <1>4 DEF JoinedMembersResponse
<1>5. CASE KeysQueried(t)
  BY <1>5, CheckShares DEF KeysQueried
<1>6. CASE KeysClaimed(t)
  BY <1>0, <1>6, PrepareShares DEF KeysClaimed, InShare
<1>7. CASE ClaimRefused(t) \/ GivesUp(t) \/ Sent(t)
  BY <1>1, <1>7 DEF ClaimRefused, GivesUp, Sent
<1>8. CASE Gathered(t)
  <2>1. Alone(t)
    BY <1>0, <1>8 DEF Gathered, InShare
  <2>2. CASE AbortShare(t, sess) \/ pc' = [Wake EXCEPT ![t] = "idle"]
    BY <2>1, <2>2, WakeWaits, ShareStep DEF AbortShare, InShare
  <2>3. ASSUME NEW s, Encrypt(t, s, Wake) PROVE OneShareAtATime'
    BY <2>1, <2>3, EncryptWaits, ShareStep
  <2> QED BY <1>8, <2>2, <2>3 DEF Gathered, FinishShare
<1>9. CASE ShareCancelled(t)
  <2>1. Alone(t) /\ pc' = [Wake EXCEPT ![t] = "idle"]
    BY <1>0, <1>9 DEF ShareCancelled, AbortShare, InShare
  <2> QED BY <2>1, WakeWaits, ShareStep DEF InShare
<1>10. CASE Resume(t)
  BY <1>10, EncryptWaits, OtherStep DEF Resume
<1> QED BY <1>2, <1>3, <1>4, <1>5, <1>6, <1>7, <1>8, <1>9, <1>10 DEF TaskStep

LEMMA OneShareElsewhere ==
  ASSUME OneShareAtATime, RoomStep \/ \E r \in requests : RequestStep(r)
  PROVE  OneShareAtATime'
<1>1. pc' = pc /\ sharing' = sharing
  BY DEF RoomStep, MemberJoins, MemberLeaves, DeviceListed, DeviceKeyChanges, DeviceDeleted,
         VerifiedBySas, OlmSessionAppears, TrustChanges, SessionAges, tasks,
         RequestStep, RequestAnswered, RequestFails
<1> QED BY <1>1 DEF OneShareAtATime, InShare

-----------------------------------------------------------------------------
LEMMA InvInit == Init => IInv
<1> SUFFICES ASSUME Init PROVE OneShareAtATime /\ SoundNow
  BY TypeInit DEF IInv
<1>1. OneShareAtATime
  BY DEF Init, OneShareAtATime, InShare
<1>2. SoundNow
  BY BoundsAssumption DEF Init, SoundNow, Sound, NoSession, New, Carried
<1> QED BY <1>1, <1>2

LEMMA InvNext == IInv /\ [Next]_vars => IInv'
<1> SUFFICES ASSUME IInv, [Next]_vars PROVE IInv'
  OBVIOUS
<1>1. ASSUME NEW t \in Task, TaskStep(t) PROVE IInv'
  BY <1>1, TypeTask, OneShareTask, SoundTask DEF IInv
<1>2. ASSUME NEW r \in requests, RequestStep(r) PROVE IInv'
  BY <1>2, TypeRequest, OneShareElsewhere, SoundRequest DEF IInv
<1>3. CASE RoomStep
  BY <1>3, TypeRoom, OneShareElsewhere, SoundRoom DEF IInv
<1>4. CASE UNCHANGED vars
  BY <1>4 DEF vars, IInv, TypeOK, OneShareAtATime, InShare, SoundNow
<1> QED BY <1>1, <1>2, <1>3, <1>4 DEF Next

THEOREM Invariant == Spec => []IInv
BY InvInit, InvNext, PTL DEF Spec

\* However many calls of room_send and share_group_session run at once, one of
\* them at most shares the session of the room, and sharing_session says so.
THEOREM ShareIsExclusive == Spec => []OneShareAtATime
<1>1. IInv => OneShareAtATime
  BY DEF IInv
<1> QED BY <1>1, Invariant, PTL

\* The key of the session in use reaches trusted devices of the room only, but
\* for those that lost the right to it while the client kept the session.
THEOREM KeyIsConfined == Spec => []KeyConfinement
<1>1. IInv => KeyConfinement
  <2> SUFFICES ASSUME IInv, NEW d \in sess.holders \cup InFlight(sess.id)
               PROVE  d \in Entitled(members, state, trust) \cup sess.exposed
    BY DEF KeyConfinement
  <2>1. d \in Device
    BY InFlightType DEF IInv, TypeOK, Session
  <2> QED BY <2>1, InFlightCarried DEF IInv, SoundNow, Sound, Right
<1> QED BY <1>1, Invariant, PTL

\* No session encrypts more than max_messages messages.
THEOREM MessagesAreLimited == Spec => []MessageLimit
<1>1. IInv => MessageLimit
  BY DEF IInv, SoundNow, Sound, MessageLimit
<1> QED BY <1>1, Invariant, PTL

\* Only share_group_session_parallel makes requests, and for a session it has
\* found unused.
LEMMA PrepareUnused ==
  ASSUME TypeOK, SoundNow, NEW t \in Task, NEW o \in SUBSET Device, NEW method,
         Prepare(t, o, method), NEW r \in requests' \ requests
  PROVE  r.sid = sess'.id /\ sess'.count = 0
<1> DEFINE s == ToShare
           T == Targets(s, o)
           s2 == [s EXCEPT !.ignored = @ \cup Blacklisted]
<1>1. s \in Session /\ s.count = 0
  BY NewType DEF ToShare, New, TypeOK, SoundNow, Sound
<1>2. s2.count = 0
  BY <1>1 DEF Session
<1>3. PICK P : requests' = requests \cup [task : {t}, sid : {s2.id}, devices : P] /\ sess' = s2
  BY DEF Prepare, SetSession
<1> QED BY <1>2, <1>3

LEMMA BeginUnused ==
  ASSUME TypeOK, SoundNow, NEW t \in Task, NEW method, BeginShare(t, method),
         NEW r \in requests' \ requests
  PROVE  r.sid = sess'.id /\ sess'.count = 0
<1>1. Prepare(t, olm, method) /\ olm \in SUBSET Device
  BY DEF BeginShare, TypeOK
<1> QED BY <1>1, PrepareUnused

LEMMA TaskUnused ==
  ASSUME TypeOK, SoundNow, NEW t \in Task, TaskStep(t), NEW r \in requests' \ requests
  PROVE  r.sid = sess'.id /\ sess'.count = 0
<1>1. CASE CheckSession(t)
  BY <1>1, BeginUnused DEF CheckSession
<1>2. CASE ShareGroupSession(t)
  BY <1>2, BeginUnused DEF ShareGroupSession
<1>3. CASE KeysClaimed(t)
  <2>1. PICK C \in SUBSET claim[t] : Prepare(t, olm \cup C, op[t])
    BY <1>3 DEF KeysClaimed
  <2>2. olm \cup C \in SUBSET Device
    BY DEF TypeOK
  <2> QED BY <2>1, <2>2, PrepareUnused
<1>4. CASE requests' \subseteq requests
  BY <1>4
<1> QED BY <1>1, <1>2, <1>3, <1>4 DEF TaskStep, RoomSend, KeysQueried, JoinedMembersResponse,
          ClaimRefused, GivesUp, Gathered, ShareCancelled, Resume, Sent

\* The key of a session leaves the client before its first message only, so a
\* device that joins later never gets the key of what was said before.
THEOREM KeyLeavesFirst == Spec => KeyLeavesBeforeFirstMessage
<1> DEFINE Leaves == \A r \in requests' \ requests : r.sid = sess'.id /\ sess'.count = 0
<1>1. IInv /\ [Next]_vars => [Leaves]_vars
  <2> SUFFICES ASSUME IInv, Next, NEW r \in requests' \ requests
               PROVE  r.sid = sess'.id /\ sess'.count = 0
    OBVIOUS
  <2>1. ASSUME NEW t \in Task, TaskStep(t) PROVE r.sid = sess'.id /\ sess'.count = 0
    BY <2>1, TaskUnused DEF IInv
  <2>2. CASE RoomStep \/ \E q \in requests : RequestStep(q)
    <3>1. requests' \subseteq requests
      BY <2>2 DEF RoomStep, MemberJoins, MemberLeaves, DeviceListed, DeviceKeyChanges,
           DeviceDeleted, VerifiedBySas, OlmSessionAppears, TrustChanges, SessionAges, tasks,
           RequestStep, RequestAnswered, RequestFails
    <3> QED BY <3>1
  <2> QED BY <2>1, <2>2 DEF Next
<1> QED BY <1>1, Invariant, PTL DEF Spec, KeyLeavesBeforeFirstMessage
=============================================================================
