---------------------- MODULE MegolmDecryptionProofs -----------------------
(* Proofs about MegolmDecryption, for any sessions, indices, events, size   *)
(* of the cache and bounds.                                                *)
EXTENDS MegolmDecryption, TLAPS

\* The cache is a dictionary: an index of a session is in it once.
KeysUnique ==
  \A m, n \in DOMAIN cache : cache[m][1] = cache[n][1] /\ cache[m][2] = cache[n][2] => m = n

\* Until it is full, the cache has every event that was decrypted.
Remembered == ~evicted => \A x \in accepted : \E n \in DOMAIN cache : cache[n] = x

\* A device that got a dummy message has a new session, and is not wedged.
DummyIsNew == dummyRecent => hasOlm /\ recent /\ ~wedged

Entry == Session \X Index \X EventId

\* What is inductive.
IInv == TypeOK /\ KeysUnique /\ Remembered /\ DummyIsNew /\ ForwardedIsKnown

-----------------------------------------------------------------------------
(* The cache.                                                              *)

\* Taking out the element at n leaves the others in their order.
LEMMA RemoveAtElements ==
  ASSUME NEW S, NEW q \in Seq(S), NEW n \in 1..Len(q)
  PROVE  /\ RemoveAt(q, n) \in Seq(S) /\ Len(RemoveAt(q, n)) = Len(q) - 1
         /\ \A j \in 1..Len(q) - 1 : RemoveAt(q, n)[j] = IF j < n THEN q[j] ELSE q[j + 1]
PROOF
<1> DEFINE a == SubSeq(q, 1, n - 1)
           b == SubSeq(q, n + 1, Len(q))
<1>1. a \in Seq(S) /\ Len(a) = n - 1 /\ \A j \in 1..n - 1 : a[j] = q[j]
  OBVIOUS
<1>2. b \in Seq(S) /\ Len(b) = Len(q) - n /\ \A j \in 1..Len(q) - n : b[j] = q[n + j]
  OBVIOUS
<1>3. RemoveAt(q, n) = a \o b
  BY DEF RemoveAt
<1> HIDE DEF a, b
<1>4. RemoveAt(q, n) \in Seq(S) /\ Len(RemoveAt(q, n)) = Len(q) - 1
  BY <1>1, <1>2, <1>3
<1>5. ASSUME NEW j \in 1..Len(q) - 1 PROVE (a \o b)[j] = IF j < n THEN q[j] ELSE q[j + 1]
  <2>1. CASE j < n
    BY <1>1, <1>2, <2>1
  <2>2. CASE ~(j < n)
    <3>1. (a \o b)[j] = b[j - Len(a)]
      BY <1>1, <1>2, <2>2
    <3>2. j - Len(a) \in 1..Len(q) - n /\ n + (j - Len(a)) = j + 1
      BY <1>1, <2>2
    <3> QED BY <1>2, <2>2, <3>1, <3>2
  <2> QED BY <2>1, <2>2
<1> QED BY <1>3, <1>4, <1>5

\* The entry of an index that is in the cache.
LEMMA EntryFound ==
  ASSUME TypeOK, NEW s \in Session, NEW i \in Index, <<s, i>> \in CacheKeys
  PROVE  /\ EntryOf(s, i) \in 1..Len(cache)
         /\ cache[EntryOf(s, i)] \in Entry
         /\ cache[EntryOf(s, i)][1] = s /\ cache[EntryOf(s, i)][2] = i
PROOF
<1>1. PICK n \in DOMAIN cache : <<s, i>> = <<cache[n][1], cache[n][2]>>
  BY DEF CacheKeys
<1>2. cache[n][1] = s /\ cache[n][2] = i
  BY <1>1
<1>3. EntryOf(s, i) \in DOMAIN cache /\ cache[EntryOf(s, i)][1] = s /\ cache[EntryOf(s, i)][2] = i
  BY <1>2 DEF EntryOf
<1>4. DOMAIN cache = 1..Len(cache) /\ cache \in Seq(Entry)
  BY DEF TypeOK, Entry
<1> HIDE DEF EntryOf
<1> QED BY <1>3, <1>4

\* An index that is not in the cache has no entry.
LEMMA EntryMissing ==
  ASSUME NEW s \in Session, NEW i \in Index, <<s, i>> \notin CacheKeys
  PROVE  \A n \in DOMAIN cache : ~(cache[n][1] = s /\ cache[n][2] = i)
PROOF
  BY DEF CacheKeys

\* Noting an event keeps the cache a dictionary within its size.  It is noted
\* itself, or another event with its index is; nothing else is forgotten unless
\* the cache was full.
LEMMA NotedKeeps ==
  ASSUME TypeOK, KeysUnique, NEW s \in Session, NEW i \in Index, NEW e \in EventId,
         cache' = Noted(s, i, e)
  PROVE  /\ cache' \in Seq(Entry) /\ Len(cache') <= CacheSize
         /\ KeysUnique'
         /\ <<s, i>> \in CacheKeys \/ Len(cache) # CacheSize =>
              \A n \in DOMAIN cache : \E k \in DOMAIN cache' : cache'[k] = cache[n]
         /\ MessageIndexOk(s, i, e) => \E k \in DOMAIN cache' : cache'[k] = <<s, i, e>>
PROOF
<1> USE CacheAssumption
<1>0. cache \in Seq(Entry) /\ DOMAIN cache = 1..Len(cache) /\ Len(cache) \in Nat /\ Len(cache) <= CacheSize
  BY DEF TypeOK, Entry
<1>1. CASE <<s, i>> \in CacheKeys
  <2> DEFINE n == EntryOf(s, i)
             c == RemoveAt(cache, n)
  <2>1. n \in 1..Len(cache) /\ cache[n] \in Entry /\ cache[n][1] = s /\ cache[n][2] = i
    BY <1>1, EntryFound
  <2>0. n \in 1..Len(cache) /\ Len(cache) \in Nat
    BY <1>0, <2>1
  <2>2. cache' = Append(c, cache[n])
    BY <1>1 DEF Noted
  <2> HIDE DEF n
  <2>3. /\ c \in Seq(Entry) /\ Len(c) = Len(cache) - 1
        /\ \A j \in 1..Len(cache) - 1 : c[j] = IF j < n THEN cache[j] ELSE cache[j + 1]
    BY <1>0, <2>1, RemoveAtElements
  <2> HIDE DEF c
  <2>4. cache' \in Seq(Entry) /\ Len(cache') = Len(cache) /\ DOMAIN cache' = 1..Len(cache)
    <3>1. cache' \in Seq(Entry) /\ Len(cache') = Len(c) + 1
      BY <2>1, <2>2, <2>3
    <3>2. Len(c) + 1 = Len(cache)
      BY <2>0, <2>3
    <3> QED BY <3>1, <3>2
  <2>5. \A j \in 1..Len(cache) : cache'[j] = IF j < n THEN cache[j]
                                             ELSE IF j < Len(cache) THEN cache[j + 1] ELSE cache[n]
    <3> SUFFICES ASSUME NEW j \in 1..Len(cache)
                 PROVE  cache'[j] = IF j < n THEN cache[j] ELSE IF j < Len(cache) THEN cache[j + 1] ELSE cache[n]
      OBVIOUS
    <3>1. CASE j < Len(cache)
      <4>1. cache'[j] = c[j]
        BY <1>0, <2>1, <2>2, <2>3, <3>1
      <4> QED BY <1>0, <2>3, <3>1, <4>1
    <3>2. CASE j = Len(cache)
      <4>1. cache'[j] = cache[n] /\ ~(j < n)
        BY <1>0, <2>1, <2>2, <2>3, <3>2
      <4> QED BY <3>2, <4>1
    <3> QED BY <2>0, <3>1, <3>2
  <2> DEFINE from(j) == IF j < n THEN j ELSE IF j < Len(cache) THEN j + 1 ELSE n
  <2>6. \A j \in 1..Len(cache) : from(j) \in 1..Len(cache) /\ cache'[j] = cache[from(j)]
    BY <2>0, <2>5
  <2>7. \A j, k \in 1..Len(cache) : from(j) = from(k) => j = k
    BY <2>0
  <2>8. \A k \in 1..Len(cache) : \E j \in 1..Len(cache) : from(j) = k
    <3> SUFFICES ASSUME NEW k \in 1..Len(cache) PROVE \E j \in 1..Len(cache) : from(j) = k
      OBVIOUS
    <3>1. CASE k < n
      BY <2>0, <3>1
    <3>2. CASE k = n
      <4>1. Len(cache) \in 1..Len(cache) /\ from(Len(cache)) = n
        BY <2>0
      <4> QED BY <3>2, <4>1
    <3>3. CASE k > n
      <4>1. k - 1 \in 1..Len(cache) /\ from(k - 1) = k
        BY <2>0, <3>3
      <4> QED BY <4>1
    <3> QED BY <2>0, <3>1, <3>2, <3>3
  <2> HIDE DEF from
  <2>9. KeysUnique'
    BY <1>0, <2>4, <2>6, <2>7 DEF KeysUnique
  <2>10. \A m \in DOMAIN cache : \E k \in DOMAIN cache' : cache'[k] = cache[m]
    BY <1>0, <2>4, <2>6, <2>8
  <2>11. MessageIndexOk(s, i, e) => cache[n] = <<s, i, e>>
    BY <1>1, <2>1 DEF MessageIndexOk, Entry, n
  <2>12. MessageIndexOk(s, i, e) => \E k \in DOMAIN cache' : cache'[k] = <<s, i, e>>
    BY <1>0, <2>0, <2>10, <2>11
  <2>13. Len(cache') <= CacheSize
    BY <1>0, <2>4
  <2> QED BY <1>1, <2>4, <2>9, <2>10, <2>12, <2>13
<1>2. CASE <<s, i>> \notin CacheKeys
  <2> DEFINE c == IF Len(cache) = CacheSize THEN Tail(cache) ELSE cache
             x == <<s, i, e>>
             d == IF Len(cache) = CacheSize THEN 1 ELSE 0
  <2>1. cache' = Append(c, x)
    BY <1>2 DEF Noted
  <2>2. x \in Entry /\ x[1] = s /\ x[2] = i
    BY DEF Entry
  <2>3. /\ c \in Seq(Entry) /\ Len(c) = Len(cache) - d /\ Len(c) < CacheSize /\ Len(c) \in Nat
        /\ \A j \in 1..Len(c) : c[j] = cache[j + d]
    <3>1. CASE Len(cache) = CacheSize
      <4>1. Len(cache) > 0 /\ cache # <<>>
        BY <1>0, <3>1
      <4>2. Tail(cache) \in Seq(Entry) /\ Len(Tail(cache)) = Len(cache) - 1
        BY <1>0, <4>1
      <4>3. \A j \in 1..Len(cache) - 1 : Tail(cache)[j] = cache[j + 1]
        BY <1>0, <4>1
      <4> QED BY <1>0, <3>1, <4>2, <4>3
    <3>2. CASE Len(cache) # CacheSize
      <4>1. c = cache /\ d = 0
        BY <3>2
      <4>2. \A j \in 1..Len(cache) : j + 0 = j
        BY <1>0
      <4> HIDE DEF c, d
      <4>3. Len(cache) - 0 = Len(cache) /\ Len(cache) < CacheSize
        <5>1. \A n \in Nat : n - 0 = n
          OBVIOUS
        <5>2. \A n, k \in Nat : n <= k /\ n # k => n < k
          OBVIOUS
        <5> QED BY <1>0, <3>2, <5>1, <5>2
      <4>4. c \in Seq(Entry) /\ Len(c) = Len(cache) - d /\ Len(c) < CacheSize /\ Len(c) \in Nat
        <5>1. Len(c) = Len(cache) /\ c \in Seq(Entry)
          BY <1>0, <4>1
        <5> QED BY <1>0, <4>1, <4>3, <5>1
      <4>5. ASSUME NEW j \in 1..Len(c) PROVE c[j] = cache[j + d]
        BY <4>1, <4>2
      <4> QED BY <4>4, <4>5
    <3> QED BY <3>1, <3>2
  <2>4. d \in Nat /\ (Len(cache) # CacheSize => d = 0)
    OBVIOUS
  <2>9. Len(c) \in Nat /\ Len(cache) \in Nat /\ Len(c) = Len(cache) - d /\ d \in Nat
    BY <1>0, <2>3, <2>4
  <2> HIDE DEF c, d
  <2> HIDE DEF x
  <2>5. cache' \in Seq(Entry) /\ Len(cache') = Len(c) + 1 /\ DOMAIN cache' = 1..Len(c) + 1
    BY <2>1, <2>2, <2>3
  <2>6. cache'[Len(c) + 1] = x /\ \A j \in 1..Len(c) : cache'[j] = cache[j + d]
    BY <2>1, <2>2, <2>3
  <2>7. KeysUnique'
    <3> SUFFICES ASSUME NEW m \in 1..Len(c) + 1, NEW n \in 1..Len(c) + 1,
                        cache'[m][1] = cache'[n][1], cache'[m][2] = cache'[n][2]
                 PROVE  m = n
      BY <2>5 DEF KeysUnique
    <3>1. CASE m \in 1..Len(c) /\ n \in 1..Len(c)
      <4>1. m + d = n + d
        <5>1. m + d \in DOMAIN cache /\ n + d \in DOMAIN cache
          BY <1>0, <2>9, <3>1
        <5>2. cache'[m] = cache[m + d] /\ cache'[n] = cache[n + d]
          BY <2>6, <3>1
        <5> QED BY <5>1, <5>2 DEF KeysUnique
      <4> QED BY <2>4, <4>1
    <3>2. ASSUME NEW j \in 1..Len(c) PROVE ~(cache'[j][1] = s /\ cache'[j][2] = i)
      <4>1. j + d \in DOMAIN cache
        BY <1>0, <2>9
      <4>2. ~(cache[j + d][1] = s /\ cache[j + d][2] = i)
        BY <1>2, <4>1, EntryMissing
      <4> QED BY <2>6, <4>2
    <3>3. CASE m = Len(c) + 1 /\ n \in 1..Len(c)
      BY <2>2, <2>6, <3>2, <3>3
    <3>4. CASE n = Len(c) + 1 /\ m \in 1..Len(c)
      BY <2>2, <2>6, <3>2, <3>4
    <3> QED BY <2>3, <3>1, <3>3, <3>4
  <2>8. Len(cache) # CacheSize => \A n \in DOMAIN cache : \E k \in DOMAIN cache' : cache'[k] = cache[n]
    <3> SUFFICES ASSUME Len(cache) # CacheSize, NEW n \in 1..Len(cache)
                 PROVE  \E k \in 1..Len(c) + 1 : cache'[k] = cache[n]
      BY <1>0, <2>5
    <3>1. d = 0 /\ n \in 1..Len(c) /\ n + d = n /\ n \in 1..Len(c) + 1
      BY <2>4, <2>9
    <3> QED BY <2>6, <3>1
  <2>10. \E k \in DOMAIN cache' : cache'[k] = <<s, i, e>>
    <3>1. Len(c) + 1 \in DOMAIN cache'
      BY <2>5, <2>9
    <3> QED BY <2>6, <3>1 DEF x
  <2>11. Len(cache') <= CacheSize
    BY <1>0, <2>3, <2>5
  <2> QED BY <1>2, <2>5, <2>7, <2>8, <2>10, <2>11
<1> QED BY <1>1, <1>2

-----------------------------------------------------------------------------
(* Steps.                                                                  *)

\* The three messages are different ones.
LEMMA MessagesDiffer ==
  ASSUME NEW s \in Session
  PROVE  /\ Request(s) \in Message /\ Cancel(s) \in Message /\ Dummy \in Message
         /\ Request(s) # Dummy /\ Cancel(s) # Dummy
         /\ Request(s).session = s /\ Cancel(s).session = s
PROOF
  BY DEF Request, Cancel, Dummy, Message

\* A message is a dummy one or about a session.
LEMMA MessageSession ==
  ASSUME NEW m \in Message, m.type # "dummy"
  PROVE  m.session \in Session
PROOF
<1>1. CASE m = Dummy
  BY <1>1 DEF Dummy
<1>2. ASSUME NEW s \in Session, m = Request(s) \/ m = Cancel(s) PROVE m.session \in Session
  BY <1>2, MessagesDiffer
<1> QED BY <1>1, <1>2 DEF Message

\* A new session is stored well formed.
LEMMA AddSessionType ==
  ASSUME TypeOK, NEW s \in Session, NEW k \in Key, AddSession(s, k)
  PROVE  inbound' \in [Session -> Key] /\ saved' \in [Session -> Key]
PROOF
<1>1. inbound' \in [Session -> Key]
  BY DEF AddSession, TypeOK
<1>2. [start |-> k.start, forwarded |-> saved[s].forwarded \/ k.forwarded] \in Key
  BY DEF TypeOK, Key
<1>3. saved' = [saved EXCEPT ![s] = [start |-> k.start, forwarded |-> saved[s].forwarded \/ k.forwarded]]
  BY DEF AddSession, Save, TypeOK
<1> QED BY <1>1, <1>2, <1>3 DEF TypeOK

\* The first state has no session, no message and an empty cache.
LEMMA InitInv == Init => IInv
PROOF
<1> SUFFICES ASSUME Init PROVE IInv
  OBVIOUS
<1> USE BoundsAssumption, IndexAssumption, CacheAssumption
<1>1. NoKey \in Key
  BY DEF NoKey, Key, Never
<1>2. cache \in Seq(Session \X Index \X EventId) /\ Len(cache) <= CacheSize /\ DOMAIN cache = {}
  BY DEF Init
<1>3. TypeOK
  <2>1. /\ evicted \in BOOLEAN /\ channel \in BOOLEAN /\ recent \in BOOLEAN /\ hasOlm \in BOOLEAN
        /\ wedged \in BOOLEAN /\ claiming \in BOOLEAN /\ dummyRecent \in BOOLEAN
    BY DEF Init
  <2>2. inbound \in [Session -> Key] /\ saved \in [Session -> Key]
    BY <1>1 DEF Init
  <2>3. messages \in 0..MaxMessages /\ faults \in 0..MaxFaults
    BY DEF Init
  <2> QED BY <1>2, <2>1, <2>2, <2>3 DEF Init, TypeOK
<1>4. \A s \in Session : inbound[s].start = Never /\ saved[s].start = Never
  BY DEF Init, NoKey
<1> QED BY <1>2, <1>3, <1>4 DEF Init, IInv, KeysUnique, Remembered, DummyIsNew, ForwardedIsKnown

\* Every step keeps the state well formed.
LEMMA TypePreserved == IInv /\ [Next]_vars => TypeOK'
PROOF
<1> SUFFICES ASSUME IInv, [Next]_vars PROVE TypeOK'
  OBVIOUS
<1> USE BoundsAssumption, IndexAssumption
<1>0. TypeOK
  BY DEF IInv
<1>1. ASSUME NEW s \in Session, RoomKey(s) PROVE TypeOK'
  <2>1. PICK i \in Index : AddSession(s, [start |-> i, forwarded |-> FALSE])
    BY <1>1 DEF RoomKey
  <2>2. [start |-> i, forwarded |-> FALSE] \in Key
    BY DEF Key, Index, Never
  <2>3. inbound' \in [Session -> Key] /\ saved' \in [Session -> Key]
    BY <1>0, <2>1, <2>2, AddSessionType
  <2>4. hasOlm' \in BOOLEAN /\ recent' \in BOOLEAN
    BY <1>0, <1>1, Zenon DEF RoomKey, TypeOK
  <2>5. direct' \in SUBSET Session /\ messages' \in 0..MaxMessages
    BY <1>0, <1>1 DEF RoomKey, Count, TypeOK
  <2> QED BY <1>0, <1>1, <2>3, <2>4, <2>5 DEF RoomKey, requestVars, TypeOK
<1>2. ASSUME NEW s \in Session, ImportKeys(s) PROVE TypeOK'
  <2>1. PICK i \in Index : AddSession(s, [start |-> i, forwarded |-> FALSE])
    BY <1>2 DEF ImportKeys
  <2>2. [start |-> i, forwarded |-> FALSE] \in Key
    BY DEF Key, Index, Never
  <2>3. inbound' \in [Session -> Key] /\ saved' \in [Session -> Key]
    BY <1>0, <2>1, <2>2, AddSessionType
  <2> QED BY <1>0, <1>2, <2>3 DEF ImportKeys, Count, olmVars, requestVars, TypeOK
<1>3. ASSUME NEW s \in Session, RequestRoomKey(s) PROVE TypeOK'
  <2>1. outgoing' \in SUBSET Message
    BY <1>0, <1>3, MessagesDiffer DEF RequestRoomKey, TypeOK
  <2> QED BY <1>0, <1>3, <2>1 DEF RequestRoomKey, Count, megolmVars, olmVars, requestVars, TypeOK
<1>4. ASSUME NEW s \in Session, NEW i \in Index, NEW e \in EventId, RoomEvent(s, i, e) PROVE TypeOK'
  <2>1. CASE ~Has(s) /\ CheckIfWedged(s) /\ UNCHANGED megolmVars
    <3>1. outgoing' \in SUBSET Message /\ reRequests' \in SUBSET Session
      BY <1>0, <2>1, MessagesDiffer DEF CheckIfWedged, TypeOK
    <3> QED BY <1>0, <1>4, <2>1, <3>1 DEF RoomEvent, Count, megolmVars, requestVars, TypeOK
  <2>2. CASE /\ cache' = Noted(s, i, e)
             /\ evicted' = (evicted \/ (<<s, i>> \notin CacheKeys /\ Len(cache) = CacheSize))
             /\ accepted' = IF MessageIndexOk(s, i, e) THEN accepted \cup {<<s, i, e>>} ELSE accepted
             /\ UNCHANGED <<inbound, saved, direct, outgoing, reRequests>>
    <3>1. cache' \in Seq(Entry) /\ Len(cache') <= CacheSize
      BY <1>0, <2>2, NotedKeeps DEF IInv
    <3>2. accepted' \in SUBSET Entry
      BY <1>0, <2>2 DEF TypeOK, Entry
    <3>3. evicted' \in BOOLEAN
      BY <2>2
    <3> QED BY <1>0, <1>4, <2>2, <3>1, <3>2, <3>3 DEF RoomEvent, Count, requestVars, TypeOK, Entry
  <2> QED BY <1>4, <2>1, <2>2 DEF RoomEvent
<1>5. ASSUME NEW s \in Session, NEW t \in BOOLEAN, Forward(s, t) PROVE TypeOK'
  BY <1>0, <1>5 DEF Forward, megolmVars, olmVars, TypeOK
<1>6. ASSUME NEW f \in forwards, ForwardArrives(f) PROVE TypeOK'
  <2>1. f.session \in Session /\ f.start \in Index
    BY <1>0 DEF TypeOK
  <2>2. CASE AddSession(f.session, [start |-> f.start, forwarded |-> TRUE])
             /\ requests' = requests \ {f.session} /\ outgoing' = outgoing \cup {Cancel(f.session)} /\ UNCHANGED early
    <3>1. [start |-> f.start, forwarded |-> TRUE] \in Key
      BY <2>1 DEF Key, Index, Never
    <3>2. inbound' \in [Session -> Key] /\ saved' \in [Session -> Key]
      BY <1>0, <2>1, <2>2, <3>1, AddSessionType
    <3>3. outgoing' \in SUBSET Message
      BY <1>0, <2>1, <2>2, MessagesDiffer DEF TypeOK
    <3> QED BY <1>0, <1>6, <2>2, <3>2, <3>3 DEF ForwardArrives, olmVars, TypeOK
  <2>3. CASE early' = (IF f.session \notin requests THEN early \cup {f.session} ELSE early)
             /\ UNCHANGED <<inbound, saved, requests, outgoing>>
    BY <1>0, <1>6, <2>1, <2>3 DEF ForwardArrives, olmVars, TypeOK
  <2> QED BY <1>6, <2>2, <2>3 DEF ForwardArrives
<1>7. ASSUME NEW m \in outgoing, Reaches(m) PROVE TypeOK'
  <2>1. m.type # "dummy" => m.session \in Session
    BY <1>0, MessageSession DEF TypeOK
  <2> QED BY <1>0, <1>7, <2>1 DEF Reaches, megolmVars, TypeOK
<1>8. ASSUME NEW m \in outgoing, MarkAsSent(m) PROVE TypeOK'
  <2>1. m.type # "dummy" => m.session \in Session
    BY <1>0, MessageSession DEF TypeOK
  <2>2. WaitedForDummy \subseteq Message
    BY <1>0, MessagesDiffer DEF WaitedForDummy, TypeOK
  <2>3. outgoing' \in SUBSET Message /\ reRequests' \in SUBSET Session /\ requests' \in SUBSET Session
    BY <1>0, <1>8, <2>1, <2>2 DEF MarkAsSent, TypeOK
  <2> QED BY <1>0, <1>8, <2>3 DEF MarkAsSent, megolmVars, TypeOK
<1>9. CASE Undecryptable
  <2>1. wedged' \in BOOLEAN
    BY <1>9 DEF Undecryptable
  <2> QED BY <1>0, <1>9, <2>1 DEF Undecryptable, Count, megolmVars, requestVars, TypeOK
<1>10. CASE ChannelBreaks
  <2>1. faults' \in 0..MaxFaults
    BY <1>0, <1>10 DEF ChannelBreaks, Fault, TypeOK
  <2>2. channel' \in BOOLEAN
    BY <1>10 DEF ChannelBreaks
  <2> QED BY <1>0, <1>10, <2>1, <2>2 DEF ChannelBreaks, megolmVars, requestVars, TypeOK
<1>11. CASE ClaimKeys
  BY <1>0, <1>11 DEF ClaimKeys, megolmVars, requestVars, TypeOK
<1>12. CASE KeysClaimed
  <2>1. dummyRecent' \in BOOLEAN /\ wedged' \in BOOLEAN
    BY <1>12 DEF KeysClaimed, NotWedged
  <2>2. outgoing' \in SUBSET Message
    BY <1>0, <1>12 DEF KeysClaimed, Message, TypeOK
  <2> QED BY <1>0, <1>12, <2>1, <2>2 DEF KeysClaimed, megolmVars, requestVars, TypeOK
<1>13. CASE ClaimFails
  <2>1. faults' \in 0..MaxFaults
    BY <1>0, <1>13 DEF ClaimFails, Fault, TypeOK
  <2>2. claiming' \in BOOLEAN
    BY <1>13 DEF ClaimFails
  <2> QED BY <1>0, <1>13, <2>1, <2>2 DEF ClaimFails, megolmVars, requestVars, TypeOK
<1>14. CASE HourPasses
  BY <1>0, <1>14 DEF HourPasses, megolmVars, requestVars, TypeOK
<1>15. CASE Restart
  <2>1. cache' \in Seq(Session \X Index \X EventId) /\ Len(cache') <= CacheSize
    BY <1>15, CacheAssumption DEF Restart
  <2>2. faults' \in 0..MaxFaults
    BY <1>0, <1>15 DEF Restart, Fault, TypeOK
  <2>3. evicted' \in BOOLEAN /\ wedged' \in BOOLEAN /\ claiming' \in BOOLEAN
    BY <1>15 DEF Restart
  <2>4. dropped' \in SUBSET Session /\ inbound' \in [Session -> Key] /\ UNCHANGED saved
    BY <1>0, <1>15 DEF Restart, TypeOK
  <2> QED BY <1>0, <1>15, <2>1, <2>2, <2>3, <2>4 DEF Restart, TypeOK
<1>16. CASE UNCHANGED vars
  BY <1>0, <1>16 DEF vars, TypeOK
<1> QED BY <1>1, <1>2, <1>3, <1>4, <1>5, <1>6, <1>7, <1>8, <1>9, <1>10, <1>11, <1>12, <1>13, <1>14, <1>15, <1>16
        DEF Next

\* Every step keeps the cache a dictionary that has every event until it is full.
LEMMA CacheKept == IInv /\ [Next]_vars => KeysUnique' /\ Remembered'
PROOF
<1> SUFFICES ASSUME IInv, [Next]_vars PROVE KeysUnique' /\ Remembered'
  OBVIOUS
<1>1. CASE UNCHANGED <<cache, accepted, evicted>>
  BY <1>1 DEF IInv, KeysUnique, Remembered
<1>2. CASE Restart
  <2>1. cache' = <<>> /\ accepted' = {}
    BY <1>2 DEF Restart
  <2> QED BY <2>1 DEF KeysUnique, Remembered
<1>3. ASSUME NEW s \in Session, NEW i \in Index, NEW e \in EventId,
             cache' = Noted(s, i, e),
             evicted' = (evicted \/ (<<s, i>> \notin CacheKeys /\ Len(cache) = CacheSize)),
             accepted' = IF MessageIndexOk(s, i, e) THEN accepted \cup {<<s, i, e>>} ELSE accepted
      PROVE  KeysUnique' /\ Remembered'
  <2>1. /\ KeysUnique'
        /\ <<s, i>> \in CacheKeys \/ Len(cache) # CacheSize =>
             \A n \in DOMAIN cache : \E k \in DOMAIN cache' : cache'[k] = cache[n]
        /\ MessageIndexOk(s, i, e) => \E k \in DOMAIN cache' : cache'[k] = <<s, i, e>>
    BY <1>3, NotedKeeps DEF IInv
  <2>2. Remembered'
    <3> SUFFICES ASSUME ~evicted', NEW x \in accepted' PROVE \E k \in DOMAIN cache' : cache'[k] = x
      BY DEF Remembered
    <3>1. CASE x \in accepted
      <4>1. PICK n \in DOMAIN cache : cache[n] = x
        BY <1>3, <3>1 DEF IInv, Remembered
      <4> QED BY <1>3, <2>1, <4>1
    <3>2. CASE x \notin accepted
      BY <1>3, <2>1, <3>2
    <3> QED BY <3>1, <3>2
  <2> QED BY <2>1, <2>2
<1> QED BY <1>1, <1>2, <1>3 DEF Next, vars, megolmVars, RoomKey, ImportKeys, RoomEvent, RequestRoomKey,
           Forward, ForwardArrives, Reaches, MarkAsSent, Undecryptable, ChannelBreaks, ClaimKeys,
           KeysClaimed, ClaimFails, HourPasses

\* Every step keeps a session that got a dummy message new.
LEMMA DummyKept == IInv /\ [Next]_vars => DummyIsNew'
PROOF
<1> SUFFICES ASSUME IInv, [Next]_vars PROVE DummyIsNew'
  OBVIOUS
<1> USE DEF IInv, DummyIsNew
<1>1. ASSUME NEW s \in Session, RoomKey(s) PROVE DummyIsNew'
  BY <1>1 DEF RoomKey
<1>2. CASE Undecryptable
  BY <1>2 DEF Undecryptable, MayUnwedge
<1>3. CASE KeysClaimed
  BY <1>3 DEF KeysClaimed, NotWedged
<1>4. CASE HourPasses
  BY <1>4 DEF HourPasses
<1>5. CASE Restart
  BY <1>5 DEF Restart
<1>6. CASE UNCHANGED <<dummyRecent, hasOlm, recent, wedged>>
  BY <1>6
<1> QED BY <1>1, <1>2, <1>3, <1>4, <1>5, <1>6 DEF Next, vars, olmVars, ImportKeys, RoomEvent, RequestRoomKey,
           Forward, ForwardArrives, Reaches, MarkAsSent, ChannelBreaks, ClaimKeys, ClaimFails

\* What is stored for a session after AddSession counts as forwarded when the key
\* does, or one of its saved keys did.
LEMMA AddSessionMarks ==
  ASSUME TypeOK, ForwardedIsKnown, NEW s \in Session, NEW k \in Key, AddSession(s, k),
         direct \subseteq direct', k.forwarded \/ s \in direct'
  PROVE  ForwardedIsKnown'
PROOF
<1>1. \A t \in Session : t # s => inbound'[t] = inbound[t] /\ saved'[t] = saved[t]
  BY DEF AddSession, Save, TypeOK
<1>2. inbound'[s].forwarded = k.forwarded /\ (k.forwarded => saved'[s].forwarded)
  BY DEF AddSession, Save, TypeOK, Key
<1> QED BY <1>1, <1>2 DEF ForwardedIsKnown

\* Every step keeps the sessions that do not count as forwarded known ones.
LEMMA ForwardedKept == IInv /\ [Next]_vars => ForwardedIsKnown'
PROOF
<1> SUFFICES ASSUME IInv, [Next]_vars PROVE ForwardedIsKnown'
  OBVIOUS
<1> USE DEF IInv
<1>1. ASSUME NEW s \in Session, RoomKey(s) \/ ImportKeys(s) PROVE ForwardedIsKnown'
  <2>1. PICK i \in Index : AddSession(s, [start |-> i, forwarded |-> FALSE])
    BY <1>1 DEF RoomKey, ImportKeys
  <2>2. [start |-> i, forwarded |-> FALSE] \in Key
    BY IndexAssumption DEF Key, Index, Never
  <2>3. direct' = direct \cup {s}
    BY <1>1 DEF RoomKey, ImportKeys
  <2> QED BY <2>1, <2>2, <2>3, AddSessionMarks
<1>2. ASSUME NEW f \in forwards, ForwardArrives(f), AddSession(f.session, [start |-> f.start, forwarded |-> TRUE])
      PROVE  ForwardedIsKnown'
  <2>1. f.session \in Session /\ [start |-> f.start, forwarded |-> TRUE] \in Key
    BY IndexAssumption DEF TypeOK, Key, Index, Never
  <2>2. direct' = direct
    BY <1>2 DEF ForwardArrives
  <2> QED BY <1>2, <2>1, <2>2, AddSessionMarks
<1>3. CASE Restart
  BY <1>3 DEF Restart, ForwardedIsKnown
<1>4. CASE UNCHANGED <<inbound, saved, direct>>
  BY <1>4 DEF ForwardedIsKnown
<1> QED BY <1>1, <1>2, <1>3, <1>4 DEF Next, vars, megolmVars, RoomEvent, RequestRoomKey, Forward, ForwardArrives,
           Reaches, MarkAsSent, Undecryptable, ChannelBreaks, ClaimKeys, KeysClaimed, ClaimFails, HourPasses

\* The inductive invariant holds in every reachable state.
THEOREM Invariant == Spec => []IInv
PROOF
<1>1. IInv /\ [Next]_vars => IInv'
  BY TypePreserved, CacheKept, DummyKept, ForwardedKept DEF IInv
<1> QED BY InitInv, <1>1, PTL DEF Spec

\* As long as the cache was not full, no two events were decrypted from one index
\* of a session, in whatever order they and their repetitions come.
THEOREM NoEventIsReplayed == Spec => []ReplayCheck
PROOF
<1>1. IInv => ReplayCheck
  <2> SUFFICES ASSUME IInv, ~evicted, NEW x \in accepted, NEW y \in accepted, x[1] = y[1], x[2] = y[2]
               PROVE  x[3] = y[3]
    BY DEF IInv, ReplayCheck, NoReplay
  <2>1. PICK m \in DOMAIN cache : cache[m] = x
    BY DEF IInv, Remembered
  <2>2. PICK n \in DOMAIN cache : cache[n] = y
    BY DEF IInv, Remembered
  <2>3. m = n
    BY <2>1, <2>2 DEF IInv, KeysUnique
  <2> QED BY <2>1, <2>2, <2>3
<1> QED BY Invariant, <1>1, PTL

\* A session that does not count as forwarded came from its device or from a key
\* file, across restarts, forwards and keys that replace one another.
THEOREM ForwardsAreMarked == Spec => []ForwardedIsKnown
PROOF
<1>1. IInv => ForwardedIsKnown
  BY DEF IInv
<1> QED BY Invariant, <1>1, PTL

\* A second dummy message is not queued within an hour.
THEOREM DummiesAreRare == Spec => OneDummyAnHour
PROOF
<1> DEFINE Rare == Dummy \notin outgoing /\ Dummy \in outgoing' => ~dummyRecent
<1>1. IInv /\ [Next]_vars => [Rare]_vars
  <2> SUFFICES ASSUME IInv, Next, Dummy \notin outgoing, Dummy \in outgoing' PROVE ~dummyRecent
    OBVIOUS
  <2>1. \A s \in Session : Request(s) # Dummy /\ Cancel(s) # Dummy
    BY MessagesDiffer
  <2>2. CASE KeysClaimed
    BY <2>2 DEF KeysClaimed, IInv, DummyIsNew
  <2>3. ASSUME NEW s \in Session, NEW i \in Index, NEW e \in EventId, RoomEvent(s, i, e) PROVE FALSE
    BY <2>1, <2>3 DEF RoomEvent, CheckIfWedged
  <2>4. ASSUME NEW m \in outgoing, MarkAsSent(m) PROVE FALSE
    <3>1. Dummy \notin WaitedForDummy
      BY <2>1 DEF WaitedForDummy, IInv, TypeOK
    <3> QED BY <2>4, <3>1 DEF MarkAsSent
  <2>5. ASSUME NEW f \in forwards, ForwardArrives(f) PROVE FALSE
    <3>1. f.session \in Session
      BY DEF IInv, TypeOK
    <3> QED BY <2>1, <2>5, <3>1 DEF ForwardArrives
  <2>6. ASSUME NEW s \in Session, RequestRoomKey(s) PROVE FALSE
    BY <2>1, <2>6 DEF RequestRoomKey
  <2> QED BY <2>2, <2>3, <2>4, <2>5, <2>6 DEF Next, RoomKey, ImportKeys, Forward, Reaches, Undecryptable,
             ChannelBreaks, ClaimKeys, ClaimFails, HourPasses, Restart
<1> QED BY <1>1, Invariant, PTL DEF Spec, OneDummyAnHour
=============================================================================
