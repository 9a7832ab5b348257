------------------------- MODULE KeyRequestsProofs -------------------------
(* Proofs about KeyRequests and the TrustStore it extends, for any devices, *)
(* ids and bounds, and whichever of the devices are the user's own.         *)
EXTENDS KeyRequests, TLAPS

\* No file has more copies of a key than calls were made.
FilesCounted == \A m \in Mark, d \in Device : files[m][d] <= marks

\* A device that never got the same mark twice is in its own file once and in
\* no other one; its row is its state.
StoreHolds ==
  \A d \in Device \ remarked :
    IF backend = "files" THEN \A m \in Mark : files[m][d] = (IF trust[d] = m THEN 1 ELSE 0)
    ELSE row[d] = trust[d]

TrustInv == TrustTypeOK /\ FilesCounted /\ StoreHolds

\* What a queue holds was asked for and is not cancelled.
QueuedAsked ==
  \A d \in Device, i \in Id :
    \/ i \in waiting[d]
    \/ untrusted[i] = d
    \/ received[i] = [kind |-> "request", device |-> d]
    => status[<<d, i>>] \notin {"none", "cancelled"}

\* A request that a cancellation was received for is not among those shown.
WithdrawnIsGone == \A i \in Id : received[i].kind = "cancellation" => untrusted[i] = Nobody

\* What is inductive.
IInv ==
  /\ TypeOK /\ TrustInv
  /\ NoneForgotten /\ ClaimedForRequests /\ AwaitedIsShown
  /\ noSession \subseteq known
  /\ QueuedAsked /\ WithdrawnIsGone

-----------------------------------------------------------------------------
(* The trust state.                                                        *)

\* A step of the trust state is a call of the application or a restart.
TrustStep ==
  \/ \E d \in known, m \in Mark : SetTrust(d, m) \/ UnsetTrust(d, m)
  \/ \E D \in SUBSET known : IgnoreDevices(D)
  \/ Reload
  \/ \E d \in known, m \in Mark : ReloadHalfway(d, m)

\* A key leaves a file only if it is there, and never leaves less than nothing.
LEMMA LessIsSmaller ==
  ASSUME NEW n \in Nat
  PROVE  Less(n) \in Nat /\ Less(n) <= n /\ (n \in {0, 1} => Less(n) = 0)
PROOF
  BY DEF Less

\* A restart finds one of the four states.
LEMMA LoadedType ==
  ASSUME TrustTypeOK, NEW d \in Device
  PROVE  Loaded(d) \in TrustState
PROOF
  BY DEF TrustTypeOK, Loaded, LoadedFromFiles, LoadedFromRow, TrustState, Mark

\* A restart finds the state that the store holds.
LEMMA LoadedIsTrust ==
  ASSUME TrustTypeOK, StoreHolds, NEW d \in Device \ remarked
  PROVE  Loaded(d) = trust[d]
PROOF
<1>1. trust[d] \in {"verified", "blacklisted", "ignored", "unset"}
  BY DEF TrustTypeOK, TrustState, Mark
<1>2. CASE backend = "files"
  <2>1. \A m \in Mark : files[m][d] = (IF trust[d] = m THEN 1 ELSE 0)
    BY <1>2 DEF StoreHolds
  <2> QED BY <1>1, <1>2, <2>1 DEF Loaded, LoadedFromFiles, Mark
<1>3. CASE backend # "files"
  BY <1>3 DEF StoreHolds, Loaded, LoadedFromRow
<1> QED BY <1>2, <1>3

\* The store never holds more than the calls account for, and what it holds for
\* a device is what the device object says, after every call and every restart.
LEMMA TrustPreserved ==
  ASSUME TrustInv, known \in SUBSET Device, TrustStep
  PROVE  TrustInv'
PROOF
<1> USE MarksAssumption DEF TrustInv
<1> DEFINE Files(F, n) == /\ F \in [Mark -> [Device -> 0..n]]
                          /\ \A m \in Mark, d \in Device : F[m][d] <= n
<1>0. /\ marks \in Nat /\ marks <= MaxMarks
      /\ \A m \in Mark, d \in Device : files[m][d] \in Nat /\ files[m][d] <= marks
  BY DEF TrustTypeOK, FilesCounted
<1>1. ASSUME NEW d \in Device, NEW m \in Mark, SetTrust(d, m) PROVE TrustInv'
  <2>1. trust' \in [Device -> TrustState] /\ marks' \in 0..MaxMarks /\ marks' = marks + 1
    BY <1>1 DEF SetTrust, CountMark, TrustTypeOK, TrustState
  <2>2. CASE SetInFiles(d, m)
    <3>1. \A n \in Mark, x \in Device :
            files'[n][x] = IF x = d THEN (IF n = m THEN files[n][x] + 1 ELSE Less(files[n][x]))
                           ELSE files[n][x]
      BY <2>2 DEF SetInFiles, Moved, TrustTypeOK
    <3>2. \A n \in Mark, x \in Device : files'[n][x] \in 0..MaxMarks /\ files'[n][x] <= marks'
      BY <1>0, <2>1, <3>1, LessIsSmaller
    <3>3. files' \in [Mark -> [Device -> 0..MaxMarks]]
      <4>1. files' = [n \in Mark |-> [x \in Device |-> files'[n][x]]]
        BY <2>2 DEF SetInFiles, Moved, TrustTypeOK
      <4> QED BY <3>2, <4>1
    <3>4. StoreHolds'
      <4> SUFFICES ASSUME NEW x \in Device \ remarked', NEW n \in Mark
                   PROVE  files'[n][x] = (IF trust'[x] = n THEN 1 ELSE 0)
        BY <1>1, <2>2 DEF StoreHolds, SetInFiles, SetTrust
      <4>1. x \in Device \ remarked
        BY <2>2 DEF SetInFiles
      <4>2. files[n][x] = (IF trust[x] = n THEN 1 ELSE 0)
        BY <2>2, <4>1 DEF StoreHolds, SetInFiles
      <4>3. CASE x # d
        BY <1>1, <3>1, <4>2, <4>3 DEF SetTrust, TrustTypeOK
      <4>4. CASE x = d
        <5>1. files[m][d] = 0
          BY <1>0, <2>2, <4>4 DEF SetInFiles, Is, StoreHolds
        <5>2. trust'[d] = m
          BY <1>1 DEF SetTrust, TrustTypeOK
        <5> QED BY <1>0, <3>1, <4>2, <4>4, <5>1, <5>2, LessIsSmaller
      <4> QED BY <4>3, <4>4
    <3> QED BY <1>1, <2>1, <2>2, <3>2, <3>3, <3>4 DEF SetTrust, SetInFiles, TrustTypeOK, FilesCounted
  <2>3. CASE SetRow(d, m)
    <3>1. row' \in [Device -> TrustState]
      BY <2>3 DEF SetRow, ReplacedRow, TrustTypeOK, TrustState
    <3>2. StoreHolds'
      BY <1>1, <2>3 DEF StoreHolds, SetRow, ReplacedRow, SetTrust, TrustTypeOK
    <3>3. FilesCounted'
      BY <1>0, <2>1, <2>3 DEF SetRow, FilesCounted
    <3> QED BY <1>1, <2>1, <2>3, <3>1, <3>2, <3>3 DEF SetTrust, SetRow, TrustTypeOK
  <2> QED BY <1>1, <2>2, <2>3 DEF SetTrust
<1>2. ASSUME NEW d \in Device, NEW m \in Mark, UnsetTrust(d, m) PROVE TrustInv'
  <2>1. trust' \in [Device -> TrustState] /\ marks' \in 0..MaxMarks /\ marks' = marks + 1
    BY <1>2 DEF UnsetTrust, CountMark, TrustTypeOK, TrustState
  <2>2. CASE UnsetInFiles(d, m)
    <3>1. \A n \in Mark, x \in Device :
            files'[n][x] = IF x = d /\ n = m THEN Less(files[n][x]) ELSE files[n][x]
      BY <2>2 DEF UnsetInFiles, Removed, TrustTypeOK
    <3>2. \A n \in Mark, x \in Device : files'[n][x] \in 0..MaxMarks /\ files'[n][x] <= marks'
      BY <1>0, <2>1, <3>1, LessIsSmaller
    <3>3. files' \in [Mark -> [Device -> 0..MaxMarks]]
      <4>1. files' = [n \in Mark |-> [x \in Device |-> files'[n][x]]]
        BY <2>2 DEF UnsetInFiles, Removed, TrustTypeOK
      <4> QED BY <3>2, <4>1
    <3>4. StoreHolds'
      <4> SUFFICES ASSUME NEW x \in Device \ remarked, NEW n \in Mark
                   PROVE  files'[n][x] = (IF trust'[x] = n THEN 1 ELSE 0)
        BY <1>2, <2>2 DEF StoreHolds, UnsetInFiles, UnsetTrust
      <4>1. files[n][x] = (IF trust[x] = n THEN 1 ELSE 0)
        BY <2>2 DEF StoreHolds, UnsetInFiles
      <4>2. CASE x # d
        BY <1>2, <3>1, <4>1, <4>2 DEF UnsetTrust, TrustTypeOK
      <4>3. CASE x = d
        <5>1. trust[d] = m
          BY <1>2, <2>2, <4>3 DEF UnsetTrust, UnsetInFiles, Is, StoreHolds
        <5>2. trust'[d] = "unset"
          BY <1>2 DEF UnsetTrust, TrustTypeOK
        <5> QED BY <3>1, <4>1, <4>3, <5>1, <5>2, LessIsSmaller DEF Mark
      <4> QED BY <4>2, <4>3
    <3> QED BY <1>2, <2>1, <2>2, <3>2, <3>3, <3>4 DEF UnsetTrust, UnsetInFiles, TrustTypeOK, FilesCounted
  <2>3. CASE UnsetRow(d, m)
    <3>1. row' \in [Device -> TrustState]
      BY <2>3 DEF UnsetRow, ReplacedRow, TrustTypeOK, TrustState
    <3>2. StoreHolds'
      BY <1>2, <2>3 DEF StoreHolds, UnsetRow, ReplacedRow, UnsetTrust, TrustTypeOK
    <3>3. FilesCounted'
      BY <1>0, <2>1, <2>3 DEF UnsetRow, FilesCounted
    <3> QED BY <1>2, <2>1, <2>3, <3>1, <3>2, <3>3 DEF UnsetTrust, UnsetRow, TrustTypeOK
  <2> QED BY <1>2, <2>2, <2>3 DEF UnsetTrust
<1>3. ASSUME NEW D \in SUBSET Device, IgnoreDevices(D) PROVE TrustInv'
  <2>1. trust' \in [Device -> TrustState] /\ marks' \in 0..MaxMarks /\ marks' = marks + 1
    BY <1>3 DEF IgnoreDevices, CountMark, TrustTypeOK, TrustState, Mark
  <2>2. CASE IgnoreInFiles(D)
    <3>1. \A n \in Mark, x \in Device :
            files'[n][x] = IF x \notin D THEN files[n][x]
                           ELSE IF n = "ignored" THEN files[n][x] + 1 ELSE Less(files[n][x])
      BY <2>2 DEF IgnoreInFiles
    <3>2. \A n \in Mark, x \in Device : files'[n][x] \in 0..MaxMarks /\ files'[n][x] <= marks'
      BY <1>0, <2>1, <3>1, LessIsSmaller
    <3>3. files' \in [Mark -> [Device -> 0..MaxMarks]]
      <4>1. files' = [n \in Mark |-> [x \in Device |-> files'[n][x]]]
        BY <2>2 DEF IgnoreInFiles
      <4> QED BY <3>2, <4>1
    <3>4. StoreHolds'
      <4> SUFFICES ASSUME NEW x \in Device \ remarked', NEW n \in Mark
                   PROVE  files'[n][x] = (IF trust'[x] = n THEN 1 ELSE 0)
        BY <1>3, <2>2 DEF StoreHolds, IgnoreInFiles, IgnoreDevices
      <4>1. \A k \in Mark : files[k][x] = (IF trust[x] = k THEN 1 ELSE 0)
        BY <2>2 DEF StoreHolds, IgnoreInFiles
      <4>2. CASE x \notin D
        BY <1>3, <3>1, <4>1, <4>2 DEF IgnoreDevices
      <4>3. CASE x \in D
        <5>1. files["ignored"][x] = 0
          BY <1>0, <2>2, <4>3 DEF IgnoreInFiles, Is, Mark
        <5>2. trust'[x] = "ignored"
          BY <1>3, <4>3 DEF IgnoreDevices
        <5> QED BY <3>1, <4>1, <4>3, <5>1, <5>2, LessIsSmaller
      <4> QED BY <4>2, <4>3
    <3>5. remarked' \in SUBSET Device
      BY <2>2 DEF IgnoreInFiles, TrustTypeOK
    <3> QED BY <1>3, <2>1, <2>2, <3>2, <3>3, <3>4, <3>5 DEF IgnoreDevices, IgnoreInFiles, TrustTypeOK, FilesCounted
  <2>3. CASE IgnoreRows(D)
    <3>1. row' \in [Device -> TrustState]
      BY <2>3 DEF IgnoreRows, TrustTypeOK, TrustState, Mark
    <3>2. StoreHolds'
      BY <1>3, <2>3 DEF StoreHolds, IgnoreRows, IgnoreDevices, TrustTypeOK
    <3>3. FilesCounted'
      BY <1>0, <2>1, <2>3 DEF IgnoreRows, FilesCounted
    <3> QED BY <1>3, <2>1, <2>3, <3>1, <3>2, <3>3 DEF IgnoreDevices, IgnoreRows, TrustTypeOK
  <2> QED BY <1>3, <2>2, <2>3 DEF IgnoreDevices
<1>4. CASE Reload
  <2>1. trust' \in [Device -> TrustState] /\ (\A d \in Device \ remarked : trust'[d] = trust[d])
    BY <1>4, LoadedType, LoadedIsTrust DEF Reload
  <2>2. StoreHolds' /\ FilesCounted'
    BY <1>4, <2>1 DEF Reload, StoreHolds, FilesCounted
  <2> QED BY <1>4, <2>1, <2>2 DEF Reload, TrustTypeOK
<1>5. ASSUME NEW d \in Device, NEW m \in Mark, ReloadHalfway(d, m) PROVE TrustInv'
  <2>1. PICK N \in {{ClearedFirst(m)}, Mark \ {m}} :
          files' = [n \in Mark |-> IF n \in N THEN [files[n] EXCEPT ![d] = Less(@)] ELSE files[n]]
    BY <1>5 DEF ReloadHalfway
  <2>2. marks' \in 0..MaxMarks /\ marks' = marks + 1
    BY <1>5 DEF ReloadHalfway, CountMark, TrustTypeOK
  <2>3. \A n \in Mark, x \in Device :
          files'[n][x] = IF x = d /\ n \in N THEN Less(files[n][x]) ELSE files[n][x]
    BY <2>1 DEF TrustTypeOK
  <2>4. \A n \in Mark, x \in Device : files'[n][x] \in 0..MaxMarks /\ files'[n][x] <= marks'
    BY <1>0, <2>2, <2>3, LessIsSmaller
  <2>5. files' \in [Mark -> [Device -> 0..MaxMarks]]
    <3>1. files' = [n \in Mark |-> [x \in Device |-> files'[n][x]]]
      BY <2>1 DEF TrustTypeOK
    <3> QED BY <2>4, <3>1
  <2>6. backend' = "files" /\ backend = "files" /\ remarked' = remarked
    BY <1>5 DEF ReloadHalfway
  <2>7. ASSUME NEW x \in Device PROVE
          trust'[x] = (IF files'["verified"][x] > 0 THEN "verified"
                       ELSE IF files'["blacklisted"][x] > 0 THEN "blacklisted"
                       ELSE IF files'["ignored"][x] > 0 THEN "ignored" ELSE "unset")
    <3>1. trust'[x] = Loaded(x)'
      BY <1>5 DEF ReloadHalfway
    <3>2. files'["verified"][x] \in Nat /\ files'["blacklisted"][x] \in Nat /\ files'["ignored"][x] \in Nat
      BY <2>4 DEF Mark
    <3> QED BY <2>6, <3>1, <3>2 DEF Loaded, LoadedFromFiles
  <2>8. trust' \in [Device -> TrustState]
    BY <1>5, <2>7 DEF ReloadHalfway, TrustState, Mark
  <2>9. StoreHolds'
    <3> SUFFICES ASSUME NEW x \in Device \ remarked, NEW n \in Mark
                 PROVE  files'[n][x] = (IF trust'[x] = n THEN 1 ELSE 0)
      BY <2>6 DEF StoreHolds
    <3>1. \A k \in Mark : files[k][x] = (IF trust[x] = k THEN 1 ELSE 0)
      BY <2>6 DEF StoreHolds
    <3>2. \A k \in Mark : files'[k][x] = (IF trust[x] = k /\ ~(x = d /\ k \in N) THEN 1 ELSE 0)
      BY <2>3, <3>1, LessIsSmaller
    <3> QED BY <2>7, <3>2 DEF Mark
  <2> QED BY <1>5, <2>2, <2>4, <2>5, <2>6, <2>8, <2>9 DEF ReloadHalfway, TrustTypeOK, FilesCounted
<1> QED BY <1>1, <1>2, <1>3, <1>4, <1>5 DEF TrustStep

-----------------------------------------------------------------------------
(* The queues.                                                             *)

\* Which device a request that was collected is from, and which checks it met.
LEMMA OutcomeMeans ==
  ASSUME TrustTypeOK, NEW R \in [Id -> Event], NEW o, NEW d, NEW i, <<d, i>> \in WithOutcome(R, o)
  PROVE  /\ d \in Device /\ i \in Id
         /\ R[i] = [kind |-> "request", device |-> d]
         /\ Outcome(d, i) = o
PROOF
<1>1. PICK j \in Id : <<d, i>> = <<R[j].device, j>> /\ R[j].kind = "request" /\ Outcome(R[j].device, j) = o
  BY DEF WithOutcome
<1>2. i = j /\ d = R[j].device
  BY <1>1
<1>3. R[j] \in [kind : {"request", "cancellation"}, device : Device]
  BY <1>1 DEF Event, NoEvent
<1> QED BY <1>1, <1>2, <1>3

\* The request in the dictionary is among those with its outcome.
LEMMA OutcomeOfReceived ==
  ASSUME NEW R \in [Id -> Event], NEW d \in Device, NEW i \in Id,
         R[i].kind = "request", R[i].device = d
  PROVE  <<d, i>> \in WithOutcome(R, Outcome(d, i))
PROOF
  BY DEF WithOutcome

\* There are four outcomes; a key is sent only to a verified own device, and only
\* a stored device waits for an Olm session.
LEMMA OutcomeCases ==
  ASSUME NEW d \in Device, NEW i \in Id
  PROVE  /\ Outcome(d, i) \in {"void", "wait", "untrusted", "send"}
         /\ Outcome(d, i) = "send" => d \in own /\ trust[d] = "verified"
         /\ Outcome(d, i) = "wait" => d \in known
PROOF
  BY DEF Outcome

\* Only a request that another device's event with the same id replaces is displaced.
LEMMA DisplacedMeans ==
  ASSUME NEW d, NEW i, NEW q, NEW r \in Displaced(i, d, q)
  PROVE  r[1] \in Device /\ r[1] # d /\ r[1] = q /\ r[2] = i /\ r = <<r[1], r[2]>>
PROOF
<1>1. PICK x \in Device : r = <<x, i>> /\ x # d /\ x = q
  BY DEF Displaced
<1> QED BY <1>1

\* The first state has no request in any queue.
LEMMA InitInv == Init => IInv
PROOF
<1> SUFFICES ASSUME Init PROVE IInv
  OBVIOUS
<1> USE BoundsAssumption, MarksAssumption, NobodyAssumption
<1>1. TrustInv
  BY DEF Init, TrustInit, TrustInv, TrustTypeOK, TrustState, Mark, FilesCounted, StoreHolds
<1>2. TypeOK
  BY <1>1 DEF Init, TypeOK, TrustInv, Event, NoEvent, Status, Request
<1> QED BY <1>1, <1>2 DEF Init, IInv, NoneForgotten, ClaimedForRequests, AwaitedIsShown, QueuedAsked,
           WithdrawnIsGone, NoEvent, Request

\* Every step keeps the trust state well formed and the store faithful to it.
LEMMA TrustKept == IInv /\ [Next]_vars => TrustInv'
PROOF
<1> SUFFICES ASSUME IInv, [Next]_vars PROVE TrustInv'
  OBVIOUS
<1>1. TrustInv /\ known \in SUBSET Device
  BY DEF IInv, TypeOK
<1>2. CASE TrustChanges
  BY <1>1, <1>2, TrustPreserved DEF TrustChanges, TrustStep
<1>3. CASE Restart
  BY <1>1, <1>3, TrustPreserved DEF Restart, TrustStep
<1>4. CASE UNCHANGED trustVars
  BY <1>1, <1>4 DEF trustVars, TrustInv, TrustTypeOK, FilesCounted, StoreHolds
<1> QED BY <1>2, <1>3, <1>4 DEF Next, vars, RequestArrives, CancellationArrives, CollectKeyRequests,
           ClaimKeys, KeysClaimed, ClaimFails, Decision, ContinueKeyShare, CancelKeyShare,
           KeyArrives, OlmSessionAppears, DeviceListed, MessageSent

\* What the steps other than a restart do to the history of a request.
LEMMA StatusType ==
  ASSUME TypeOK, NEW S, NEW T
  PROVE  Settled(S, T) \in [Request -> Status]
PROOF
  BY DEF TypeOK, Settled, Status

\* Every step keeps the state well formed.
LEMMA TypePreserved == IInv /\ [Next]_vars => TypeOK'
PROOF
<1> SUFFICES ASSUME IInv, [Next]_vars PROVE TypeOK'
  OBVIOUS
<1>0. TrustTypeOK' /\ TypeOK
  BY TrustKept DEF IInv, TrustInv
<1> USE BoundsAssumption, NobodyAssumption, <1>0
<1>1. ASSUME NEW d \in Device, NEW i \in Id, RequestArrives(d, i) PROVE TypeOK'
  <2>1. received' \in [Id -> Event]
    BY <1>1 DEF RequestArrives, TypeOK, Event
  <2>2. status' \in [Request -> Status]
    BY <1>1 DEF RequestArrives, TypeOK, Status
  <2> QED BY <1>1, <2>1, <2>2 DEF RequestArrives, CountEvent, TypeOK
<1>2. ASSUME NEW d \in Device, NEW i \in Id, CancellationArrives(d, i) PROVE TypeOK'
  <2>1. received' \in [Id -> Event]
    BY <1>2 DEF CancellationArrives, TypeOK, Event
  <2>2. status' \in [Request -> Status]
    BY <1>2 DEF CancellationArrives, TypeOK, Status
  <2>3. waiting' \in [Device -> SUBSET Id] /\ noSession' \in SUBSET Device
    BY <1>2 DEF CancellationArrives, NotWaiting, TypeOK
  <2>4. untrusted' \in [Id -> Device \cup {Nobody}]
    BY <1>2 DEF CancellationArrives, TypeOK
  <2> QED BY <1>2, <2>1, <2>2, <2>3, <2>4 DEF CancellationArrives, CountEvent, TypeOK
<1>3. CASE CollectKeyRequests
  <2> DEFINE ask == WithOutcome(received, "untrusted")
  <2>1. \A d, i, o : <<d, i>> \in WithOutcome(received, o) => d \in Device /\ i \in Id
    BY OutcomeMeans DEF TypeOK
  <2>2. \A o : DevicesOf(WithOutcome(received, o)) \subseteq Device
    BY <2>1 DEF DevicesOf, WithOutcome
  <2>3. \A o : WithOutcome(received, o) \subseteq Request
    BY <2>1 DEF WithOutcome, Request
  <2>4. untrusted' \in [Id -> Device \cup {Nobody}] /\ shown' \in [Id -> Device \cup {Nobody}]
    BY <1>3, <2>1 DEF CollectKeyRequests, ShownAfter, TypeOK
  <2>5. received' \in [Id -> Event]
    BY <1>3 DEF CollectKeyRequests, Event
  <2>6. waiting' \in [Device -> SUBSET Id] /\ noSession' \in SUBSET Device /\ outgoing' \in SUBSET Request
    BY <1>3, <2>2, <2>3 DEF CollectKeyRequests, TypeOK
  <2>7. status' \in [Request -> Status]
    BY <1>3, StatusType DEF CollectKeyRequests, Status
  <2> QED BY <1>3, <2>4, <2>5, <2>6, <2>7 DEF CollectKeyRequests, TypeOK
<1>4. CASE ClaimKeys
  BY <1>4 DEF ClaimKeys, Claimable, queues, TypeOK
<1>5. CASE KeysClaimed
  <2> PICK S \in SUBSET (claim \cap known) :
        /\ \E pick \in [Id -> (S \cap noSession) \cup {Nobody}] : received' = Reinstated(pick)
        /\ olm' = olm \cup S /\ claim' = {} /\ noSession' = Unlisted(S \cap noSession)
        /\ waiting' = [d \in Device |-> IF d \in S \cap noSession THEN {} ELSE waiting[d]]
        /\ S = claim \/ faults < MaxFaults
        /\ faults' = IF S = claim THEN faults ELSE faults + 1
    BY <1>5 DEF KeysClaimed
  <2>1. received' \in [Id -> Event]
    BY DEF Reinstated, Event, TypeOK
  <2>2. status' \in [Request -> Status]
    BY <1>5 DEF KeysClaimed, TypeOK, Status
  <2> QED BY <1>5, <2>1, <2>2 DEF KeysClaimed, Unlisted, TypeOK
<1>6. CASE ClaimFails
  BY <1>6 DEF ClaimFails, Fault, queues, TypeOK
<1>7. ASSUME NEW i \in Id, ContinueKeyShare(i) PROVE TypeOK'
  <2>1. untrusted[i] \in Device
    BY <1>7 DEF ContinueKeyShare, TypeOK
  <2>2. status' \in [Request -> Status]
    BY <1>7, StatusType DEF ContinueKeyShare
  <2>3. waiting' \in [Device -> SUBSET Id] /\ noSession' \in SUBSET Device /\ outgoing' \in SUBSET Request
    BY <1>7, <2>1 DEF ContinueKeyShare, TypeOK, Request
  <2>4. untrusted' \in [Id -> Device \cup {Nobody}] /\ shown' \in [Id -> Device \cup {Nobody}]
    BY <1>7 DEF ContinueKeyShare, TypeOK
  <2>5. events' \in 0..MaxEvents /\ faults' \in 0..MaxFaults
    BY <1>7 DEF ContinueKeyShare, CountEvent, TypeOK
  <2>6. /\ UNCHANGED <<own, known, olm, have, received, claim>>
    BY <1>7 DEF ContinueKeyShare
  <2> QED BY <2>2, <2>3, <2>4, <2>5, <2>6 DEF TypeOK
<1>8. ASSUME NEW i \in Id, CancelKeyShare(i) PROVE TypeOK'
  <2>1. status' \in [Request -> Status]
    BY <1>8 DEF CancelKeyShare, TypeOK, Status
  <2>2. untrusted' \in [Id -> Device \cup {Nobody}] /\ shown' \in [Id -> Device \cup {Nobody}]
    BY <1>8 DEF CancelKeyShare, TypeOK
  <2> QED BY <1>8, <2>1, <2>2 DEF CancelKeyShare, CountEvent, TypeOK
<1>9. ASSUME NEW i \in Id, KeyArrives(i) PROVE TypeOK'
  BY <1>9 DEF KeyArrives, queues, TypeOK
<1>10. ASSUME NEW d \in Device, OlmSessionAppears(d) PROVE TypeOK'
  BY <1>10 DEF OlmSessionAppears, queues, TypeOK
<1>11. ASSUME NEW d \in Device, DeviceListed(d) PROVE TypeOK'
  BY <1>11 DEF DeviceListed, queues, TypeOK
<1>12. ASSUME NEW m \in outgoing, MessageSent(m) PROVE TypeOK'
  BY <1>12 DEF MessageSent, TypeOK
<1>13. CASE TrustChanges
  BY <1>13 DEF TrustChanges, queues, TypeOK
<1>14. CASE Restart
  <2>1. status' \in [Request -> Status]
    BY <1>14 DEF Restart, Mark1, Status, TypeOK
  <2> QED BY <1>14, <2>1 DEF Restart, Fault, Event, TypeOK
<1>15. CASE UNCHANGED vars
  BY <1>15 DEF vars, TypeOK
<1> QED BY <1>1, <1>2, <1>3, <1>4, <1>5, <1>6, <1>7, <1>8, <1>9, <1>10, <1>11, <1>12, <1>13, <1>14, <1>15
        DEF Next, Decision

\* The conjuncts about the queues.
QueuesInv ==
  /\ NoneForgotten /\ ClaimedForRequests /\ AwaitedIsShown
  /\ noSession \subseteq known
  /\ QueuedAsked /\ WithdrawnIsGone

\* A request or a cancellation that arrives takes the place of the event with
\* its id, and the open request it displaces is lost.
LEMMA ArrivalKeeps ==
  ASSUME IInv, NEW d \in Device, NEW i \in Id, RequestArrives(d, i) \/ CancellationArrives(d, i)
  PROVE  QueuesInv'
PROOF
<1> USE NobodyAssumption DEF IInv, QueuesInv
<1>1. CASE RequestArrives(d, i)
  <2>1. /\ received'[i] = [kind |-> "request", device |-> d]
        /\ \A j \in Id : j # i => received'[j] = received[j]
    BY <1>1 DEF RequestArrives, TypeOK
  <2>2. \A e \in Device, j \in Id :
          status'[<<e, j>>] = IF e = d /\ j = i THEN "open"
                              ELSE IF <<e, j>> \in Displaced(i, d, received[i].device) THEN "lost"
                              ELSE status[<<e, j>>]
    BY <1>1 DEF RequestArrives, Request
  <2>3. UNCHANGED <<waiting, noSession, untrusted, shown, known>>
    BY <1>1 DEF RequestArrives
  <2>4. NoneForgotten'
    <3> SUFFICES ASSUME NEW e \in Device, NEW j \in Id, status'[<<e, j>>] = "open" PROVE Pending(e, j)'
      BY DEF NoneForgotten
    <3>1. CASE e = d /\ j = i
      BY <2>1, <3>1 DEF Pending
    <3>2. CASE ~(e = d /\ j = i)
      <4>1. status[<<e, j>>] = "open" /\ <<e, j>> \notin Displaced(i, d, received[i].device)
        BY <2>2, <3>2
      <4>2. Pending(e, j)
        BY <4>1 DEF NoneForgotten
      <4>3. j = i => e # received[i].device
        BY <3>2, <4>1 DEF Displaced
      <4> QED BY <2>1, <2>3, <4>2, <4>3 DEF Pending
    <3> QED BY <3>1, <3>2
  <2>5. QueuedAsked'
    <3> SUFFICES ASSUME NEW e \in Device, NEW j \in Id,
                        \/ j \in waiting'[e]
                        \/ untrusted'[j] = e
                        \/ received'[j] = [kind |-> "request", device |-> e]
                 PROVE  status'[<<e, j>>] \notin {"none", "cancelled"}
      BY DEF QueuedAsked
    <3>1. CASE e = d /\ j = i
      BY <2>2, <3>1
    <3>2. CASE ~(e = d /\ j = i)
      <4>1. j = i => received'[j] # [kind |-> "request", device |-> e]
        BY <2>1, <3>2
      <4>2. status[<<e, j>>] \notin {"none", "cancelled"}
        BY <2>1, <2>3, <4>1 DEF QueuedAsked
      <4> QED BY <2>2, <3>2, <4>2
    <3> QED BY <3>1, <3>2
  <2>6. WithdrawnIsGone'
    BY <2>1, <2>3 DEF WithdrawnIsGone
  <2> QED BY <2>3, <2>4, <2>5, <2>6 DEF ClaimedForRequests, AwaitedIsShown
<1>2. CASE CancellationArrives(d, i)
  <2>1. /\ received'[i] = IF Forwarded(i) THEN [kind |-> "cancellation", device |-> d] ELSE NoEvent
        /\ \A j \in Id : j # i => received'[j] = received[j]
    BY <1>2 DEF CancellationArrives, TypeOK
  <2>2. \A e \in Device, j \in Id :
          status'[<<e, j>>] =
            IF e = d /\ j = i /\ status[<<e, j>>] # "none" THEN "cancelled"
            ELSE IF <<e, j>> \in Displaced(i, d, received[i].device) \cup Displaced(i, d, untrusted[i])
            THEN "lost" ELSE status[<<e, j>>]
    BY <1>2 DEF CancellationArrives, Request
  <2>3. \A e \in Device : waiting'[e] = IF e = d THEN waiting[e] \ {i} ELSE waiting[e]
    BY <1>2 DEF CancellationArrives, NotWaiting, TypeOK
  <2>4. /\ noSession' = IF waiting'[d] = {} /\ d \in known THEN noSession \ {d} ELSE noSession
        /\ UNCHANGED <<known, shown>>
    BY <1>2 DEF CancellationArrives
  <2>5. untrusted'[i] = Nobody /\ \A j \in Id : j # i => untrusted'[j] = untrusted[j]
    BY <1>2 DEF CancellationArrives, Forwarded, TypeOK
  <2>6. \A e \in Device : e \in noSession' <=> waiting'[e] # {}
    <3>1. waiting[d] # {} => d \in known
      BY DEF ClaimedForRequests
    <3> QED BY <2>3, <2>4, <3>1 DEF ClaimedForRequests
  <2>7. NoneForgotten'
    <3> SUFFICES ASSUME NEW e \in Device, NEW j \in Id, status'[<<e, j>>] = "open" PROVE Pending(e, j)'
      BY DEF NoneForgotten
    <3>1. /\ status[<<e, j>>] = "open" /\ ~(e = d /\ j = i)
          /\ <<e, j>> \notin Displaced(i, d, received[i].device) \cup Displaced(i, d, untrusted[i])
      BY <2>2
    <3>2. j = i => e # received[i].device /\ e # untrusted[i]
      BY <3>1 DEF Displaced
    <3>3. Pending(e, j)
      BY <3>1 DEF NoneForgotten
    <3>4. j \in waiting[e] => j \in waiting'[e] /\ e \in noSession'
      BY <2>3, <2>6, <3>1
    <3> QED BY <2>1, <2>5, <3>2, <3>3, <3>4 DEF Pending
  <2>8. QueuedAsked'
    <3> SUFFICES ASSUME NEW e \in Device, NEW j \in Id,
                        \/ j \in waiting'[e]
                        \/ untrusted'[j] = e
                        \/ received'[j] = [kind |-> "request", device |-> e]
                 PROVE  status'[<<e, j>>] \notin {"none", "cancelled"}
      BY DEF QueuedAsked
    <3>1. j = i => /\ received'[j] # [kind |-> "request", device |-> e]
                   /\ untrusted'[j] # e
      BY <2>1, <2>5 DEF NoEvent
    <3>2. ~(e = d /\ j = i)
      BY <2>3, <3>1
    <3>3. status[<<e, j>>] \notin {"none", "cancelled"}
      BY <2>1, <2>3, <2>5, <3>1 DEF QueuedAsked
    <3> QED BY <2>2, <3>2, <3>3
  <2>9. WithdrawnIsGone' /\ AwaitedIsShown'
    BY <2>1, <2>4, <2>5 DEF WithdrawnIsGone, AwaitedIsShown
  <2> QED BY <2>4, <2>6, <2>7, <2>8, <2>9 DEF ClaimedForRequests
<1> QED BY <1>1, <1>2

\* Collecting moves every request that was received to the queue of its outcome.
LEMMA CollectKeeps ==
  ASSUME IInv, CollectKeyRequests
  PROVE  QueuesInv'
PROOF
<1> USE NobodyAssumption DEF IInv, QueuesInv
<1> DEFINE wait == WithOutcome(received, "wait")
           ask  == WithOutcome(received, "untrusted")
           lost == UNION {Displaced(i, received[i].device, untrusted[i]) :
                            i \in {j \in Id : <<received[j].device, j>> \in ask}}
<1>0. received \in [Id -> Event] /\ TrustTypeOK
  BY DEF TypeOK
<1>1. \A o, e, j : <<e, j>> \in WithOutcome(received, o) =>
        e \in Device /\ j \in Id /\ received[j] = [kind |-> "request", device |-> e] /\ Outcome(e, j) = o
  BY <1>0, OutcomeMeans
<1>2. \A o, e : e \in DevicesOf(WithOutcome(received, o)) <=> \E j \in Id : <<e, j>> \in WithOutcome(received, o)
  <2> SUFFICES ASSUME NEW o, NEW e
               PROVE  e \in DevicesOf(WithOutcome(received, o)) <=> \E j \in Id : <<e, j>> \in WithOutcome(received, o)
    OBVIOUS
  <2>1. ASSUME NEW r \in WithOutcome(received, o) PROVE r = <<r[1], r[2]>> /\ r[2] \in Id
    <3>1. PICK j \in Id : r = <<received[j].device, j>>
      BY DEF WithOutcome
    <3> QED BY <3>1
  <2>2. ASSUME NEW j \in Id, <<e, j>> \in WithOutcome(received, o) PROVE e \in DevicesOf(WithOutcome(received, o))
    <3>1. <<e, j>>[1] = e
      OBVIOUS
    <3> QED BY <2>2, <3>1 DEF DevicesOf
  <2> QED BY <2>1, <2>2 DEF DevicesOf
<1>3. \A e \in Device : waiting'[e] = waiting[e] \cup {j \in Id : <<e, j>> \in wait}
  BY DEF CollectKeyRequests
<1>4. noSession' = noSession \cup DevicesOf(wait) /\ UNCHANGED known
  BY DEF CollectKeyRequests
<1>5. \A j \in Id : untrusted'[j] = IF <<received[j].device, j>> \in ask THEN received[j].device ELSE untrusted[j]
  BY DEF CollectKeyRequests
<1>6. \A j \in Id : received'[j] = NoEvent
  BY DEF CollectKeyRequests
<1>7. \A r \in Request : status'[r] =
        IF r \in lost THEN "lost" ELSE Settled(WithOutcome(received, "send"), WithOutcome(received, "void"))[r]
  BY DEF CollectKeyRequests
<1>8. \A e \in Device, j \in Id : status'[<<e, j>>] =
        IF <<e, j>> \in lost THEN "lost"
        ELSE IF <<e, j>> \in WithOutcome(received, "send") THEN "sent"
        ELSE IF <<e, j>> \in WithOutcome(received, "void") THEN "void" ELSE status[<<e, j>>]
  BY <1>7 DEF Settled, Request
<1>9. ClaimedForRequests' /\ noSession' \subseteq known'
  <2>1. ASSUME NEW e \in DevicesOf(wait) PROVE e \in known
    <3>1. PICK j \in Id : <<e, j>> \in wait
      BY <1>2
    <3>2. e \in Device /\ Outcome(e, j) = "wait"
      BY <1>1, <3>1
    <3> QED BY <3>2, OutcomeCases
  <2> QED BY <1>2, <1>3, <1>4, <2>1 DEF ClaimedForRequests, TypeOK
<1>10. NoneForgotten'
  <2> SUFFICES ASSUME NEW e \in Device, NEW j \in Id, status'[<<e, j>>] = "open" PROVE Pending(e, j)'
    BY DEF NoneForgotten
  <2>1. /\ status[<<e, j>>] = "open" /\ <<e, j>> \notin lost
        /\ <<e, j>> \notin WithOutcome(received, "send") \cup WithOutcome(received, "void")
    BY <1>8
  <2>2. Pending(e, j)
    BY <2>1 DEF NoneForgotten
  <2>3. CASE received[j].kind = "request" /\ received[j].device = e
    <3>1. <<e, j>> \in wait \cup ask
      BY <1>0, <2>1, <2>3, OutcomeOfReceived, OutcomeCases
    <3> QED BY <1>2, <1>3, <1>4, <1>5, <2>3, <3>1 DEF Pending
  <2>4. CASE j \in waiting[e] /\ e \in noSession
    BY <1>3, <1>4, <2>4 DEF Pending
  <2>5. CASE untrusted[j] = e
    <3>1. <<received[j].device, j>> \in ask => received[j].device = e
      <4> SUFFICES ASSUME <<received[j].device, j>> \in ask, received[j].device # e PROVE FALSE
        OBVIOUS
      <4>1. <<e, j>> \in Displaced(j, received[j].device, untrusted[j])
        BY <2>1, <2>5 DEF Displaced
      <4> QED BY <2>1, <4>1
    <3> QED BY <1>5, <2>5, <3>1 DEF Pending
  <2> QED BY <2>2, <2>3, <2>4, <2>5 DEF Pending
<1>11. QueuedAsked'
  <2> SUFFICES ASSUME NEW e \in Device, NEW j \in Id, j \in waiting'[e] \/ untrusted'[j] = e
               PROVE  status'[<<e, j>>] \notin {"none", "cancelled"}
    BY <1>6 DEF QueuedAsked, NoEvent
  <2>1. \/ j \in waiting[e] \/ untrusted[j] = e
        \/ received[j] = [kind |-> "request", device |-> e]
    <3>1. j \in waiting'[e] => j \in waiting[e] \/ received[j] = [kind |-> "request", device |-> e]
      <4>1. <<e, j>> \in wait => received[j] = [kind |-> "request", device |-> e]
        BY <1>1
      <4> HIDE DEF wait
      <4> QED BY <1>3, <4>1
    <3>2. untrusted'[j] = e => untrusted[j] = e \/ received[j] = [kind |-> "request", device |-> e]
      <4>1. CASE <<received[j].device, j>> \in ask
        <5>1. received[j] = [kind |-> "request", device |-> received[j].device]
          BY <1>1, <4>1
        <5> QED BY <1>5, <4>1, <5>1
      <4>2. CASE <<received[j].device, j>> \notin ask
        BY <1>5, <4>2
      <4> QED BY <4>1, <4>2
    <3> QED BY <3>1, <3>2
  <2>2. status[<<e, j>>] \notin {"none", "cancelled"}
    BY <2>1 DEF QueuedAsked
  <2> QED BY <1>8, <2>2
<1>12. AwaitedIsShown' /\ WithdrawnIsGone'
  <2>1. \A j \in Id : shown'[j] = IF <<received[j].device, j>> \in ask THEN received[j].device
                                 ELSE IF received[j].kind = "cancellation" THEN Nobody ELSE shown[j]
    BY DEF CollectKeyRequests, ShownAfter
  <2>2. ASSUME NEW j \in Id, untrusted'[j] # Nobody PROVE shown'[j] = untrusted'[j]
    BY <1>5, <2>1, <2>2 DEF AwaitedIsShown, WithdrawnIsGone
  <2> QED BY <1>6, <2>2 DEF AwaitedIsShown, WithdrawnIsGone, NoEvent
<1> QED BY <1>9, <1>10, <1>11, <1>12

\* The requests that waited for a session with the devices that have one now are
\* received again, all but those of which two have one id.
LEMMA ClaimKeeps ==
  ASSUME IInv, KeysClaimed
  PROVE  QueuesInv'
PROOF
<1> USE NobodyAssumption DEF IInv, QueuesInv
<1>1. PICK S \in SUBSET (claim \cap known) :
        /\ noSession' = Unlisted(S \cap noSession)
        /\ waiting' = [d \in Device |-> IF d \in S \cap noSession THEN {} ELSE waiting[d]]
        /\ \E pick \in [Id -> (S \cap noSession) \cup {Nobody}] :
             /\ \A i \in Id :
                  /\ pick[i] # Nobody => i \in waiting[pick[i]]
                  /\ pick[i] = Nobody => \A d \in S \cap noSession : i \notin waiting[d]
             /\ received' = Reinstated(pick)
             /\ status' = [r \in Request |->
                  IF status[r] = "open" /\ pick[r[2]] \notin {Nobody, r[1]}
                     /\ (r[1] = received[r[2]].device \/ (r[1] \in S \cap noSession /\ r[2] \in waiting[r[1]]))
                  THEN "lost" ELSE status[r]]
  BY DEF KeysClaimed
<1> DEFINE released == S \cap noSession
<1>2. PICK pick :
        /\ \A i \in Id :
             /\ pick[i] # Nobody => pick[i] \in released /\ i \in waiting[pick[i]]
             /\ pick[i] = Nobody => \A d \in released : i \notin waiting[d]
        /\ received' = Reinstated(pick)
        /\ status' = [r \in Request |->
             IF status[r] = "open" /\ pick[r[2]] \notin {Nobody, r[1]}
                /\ (r[1] = received[r[2]].device \/ (r[1] \in released /\ r[2] \in waiting[r[1]]))
             THEN "lost" ELSE status[r]]
  BY <1>1
<1>3. UNCHANGED <<known, untrusted, shown>>
  BY DEF KeysClaimed
<1>4. \A j \in Id :
        /\ pick[j] = Nobody => received'[j] = received[j]
        /\ pick[j] # Nobody => /\ received'[j] = [kind |-> "request", device |-> pick[j]]
                               /\ received'[j].kind = "request"
                               /\ received'[j].device = pick[j]
  BY <1>2 DEF Reinstated
<1>5. \A e \in Device, j \in Id : status'[<<e, j>>] =
        IF status[<<e, j>>] = "open" /\ pick[j] \notin {Nobody, e}
           /\ (e = received[j].device \/ (e \in released /\ j \in waiting[e]))
        THEN "lost" ELSE status[<<e, j>>]
  BY <1>2 DEF Request
<1>6. released \subseteq Device
  BY DEF TypeOK
<1>7. ClaimedForRequests' /\ noSession' \subseteq known'
  BY <1>1, <1>3 DEF ClaimedForRequests, Unlisted
<1>8. NoneForgotten'
  <2> SUFFICES ASSUME NEW e \in Device, NEW j \in Id, status'[<<e, j>>] = "open" PROVE Pending(e, j)'
    BY DEF NoneForgotten
  <2>1. /\ status[<<e, j>>] = "open"
        /\ ~(pick[j] \notin {Nobody, e} /\ (e = received[j].device \/ (e \in released /\ j \in waiting[e])))
    BY <1>5
  <2>2. Pending(e, j)
    BY <2>1 DEF NoneForgotten
  <2>3. CASE received[j].kind = "request" /\ received[j].device = e
    BY <1>4, <2>1, <2>3 DEF Pending
  <2>4. CASE j \in waiting[e] /\ e \in noSession
    <3>1. CASE e \in released
      BY <1>2, <1>4, <2>1, <2>4, <3>1 DEF Pending
    <3>2. CASE e \notin released
      BY <1>1, <2>4, <3>2 DEF Pending, Unlisted
    <3> QED BY <3>1, <3>2
  <2>5. CASE untrusted[j] = e
    BY <1>3, <2>5 DEF Pending
  <2> QED BY <2>2, <2>3, <2>4, <2>5 DEF Pending
<1>9. QueuedAsked'
  <2> SUFFICES ASSUME NEW e \in Device, NEW j \in Id,
                      \/ j \in waiting'[e]
                      \/ untrusted'[j] = e
                      \/ received'[j] = [kind |-> "request", device |-> e]
               PROVE  status'[<<e, j>>] \notin {"none", "cancelled"}
    BY DEF QueuedAsked
  <2>1. \/ j \in waiting[e] \/ untrusted[j] = e
        \/ received[j] = [kind |-> "request", device |-> e]
    <3>1. j \in waiting'[e] => j \in waiting[e]
      BY <1>1
    <3>2. received'[j] = [kind |-> "request", device |-> e] =>
            j \in waiting[e] \/ received[j] = [kind |-> "request", device |-> e]
      <4>1. CASE pick[j] = Nobody
        BY <1>4, <4>1
      <4>2. CASE pick[j] # Nobody
        <5>1. received'[j] = [kind |-> "request", device |-> e] => pick[j] = e
          <6>1. received'[j].device = pick[j]
            BY <1>4, <4>2
          <6> QED BY <6>1
        <5> QED BY <1>2, <4>2, <5>1
      <4> QED BY <4>1, <4>2
    <3> QED BY <1>3, <3>1, <3>2
  <2>2. status[<<e, j>>] \notin {"none", "cancelled"}
    BY <2>1 DEF QueuedAsked
  <2> QED BY <1>5, <2>2
<1>10. AwaitedIsShown' /\ WithdrawnIsGone'
  <2>1. AwaitedIsShown'
    BY <1>3 DEF AwaitedIsShown
  <2>2. ASSUME NEW j \in Id, received'[j].kind = "cancellation" PROVE untrusted'[j] = Nobody
    <3>1. pick[j] = Nobody
      BY <1>4, <2>2
    <3>2. received'[j] = received[j]
      BY <1>4, <3>1
    <3> QED BY <1>3, <2>2, <3>2 DEF WithdrawnIsGone
  <2> QED BY <2>1, <2>2 DEF WithdrawnIsGone
<1> QED BY <1>7, <1>8, <1>9, <1>10

\* A request that the application continues leaves its queue for the waiting one,
\* or is answered.
LEMMA DecisionKeeps ==
  ASSUME IInv, NEW i \in Id, Decision(i)
  PROVE  QueuesInv'
PROOF
<1> USE NobodyAssumption DEF IInv, QueuesInv
<1> DEFINE d == untrusted[i]
           o == Outcome(d, i)
<1>0. d \in Device
  BY DEF Decision, ContinueKeyShare, CancelKeyShare, TypeOK
<1>1. /\ \A j \in Id : untrusted'[j] = IF j = i THEN Nobody ELSE untrusted[j]
      /\ \A j \in Id : shown'[j] = IF j = i THEN Nobody ELSE shown[j]
      /\ UNCHANGED <<known, received>>
  BY DEF Decision, ContinueKeyShare, CancelKeyShare, TypeOK
<1>2. CASE ContinueKeyShare(i)
  <2>1. o \in {"void", "wait", "send"} /\ (o = "wait" => d \in known)
    BY <1>0, <1>2, OutcomeCases DEF ContinueKeyShare
  <2>2. \A e \in Device : waiting'[e] = IF e = d /\ o = "wait" THEN waiting[e] \cup {i} ELSE waiting[e]
    BY <1>2 DEF ContinueKeyShare, TypeOK
  <2>3. noSession' = IF o = "wait" THEN noSession \cup {d} ELSE noSession
    BY <1>2 DEF ContinueKeyShare
  <2>4. \A e \in Device, j \in Id : status'[<<e, j>>] =
          IF e = d /\ j = i /\ o = "send" THEN "sent"
          ELSE IF e = d /\ j = i /\ o = "void" THEN "void" ELSE status[<<e, j>>]
    BY <1>2 DEF ContinueKeyShare, Settled, Request
  <2>5. NoneForgotten'
    <3> SUFFICES ASSUME NEW e \in Device, NEW j \in Id, status'[<<e, j>>] = "open" PROVE Pending(e, j)'
      BY DEF NoneForgotten
    <3>1. status[<<e, j>>] = "open" /\ (e = d /\ j = i => o = "wait")
      BY <2>1, <2>4
    <3>2. Pending(e, j)
      BY <3>1 DEF NoneForgotten
    <3> QED BY <1>1, <2>2, <2>3, <3>1, <3>2 DEF Pending
  <2>6. QueuedAsked'
    <3>1. \A e \in Device, j \in Id : j \in waiting'[e] => j \in waiting[e] \/ untrusted[j] = e
      BY <2>2
    <3>2. \A e \in Device, j \in Id : untrusted'[j] = e => untrusted[j] = e
      BY <1>1
    <3> QED BY <1>1, <2>4, <3>1, <3>2 DEF QueuedAsked
  <2>7. ClaimedForRequests' /\ noSession' \subseteq known'
    BY <1>0, <1>1, <2>1, <2>2, <2>3 DEF ClaimedForRequests
  <2> QED BY <1>1, <2>5, <2>6, <2>7 DEF AwaitedIsShown, WithdrawnIsGone
<1>3. CASE CancelKeyShare(i)
  <2>1. \A e \in Device, j \in Id : status'[<<e, j>>] = IF e = d /\ j = i THEN "declined" ELSE status[<<e, j>>]
    BY <1>0, <1>3 DEF CancelKeyShare, TypeOK, Request
  <2>2. UNCHANGED <<waiting, noSession>>
    BY <1>3 DEF CancelKeyShare
  <2>3. NoneForgotten'
    BY <1>1, <2>1, <2>2 DEF NoneForgotten, Pending
  <2>4. QueuedAsked'
    <3>1. \A e \in Device, j \in Id : untrusted'[j] = e => untrusted[j] = e
      BY <1>1
    <3> QED BY <1>1, <2>1, <2>2, <3>1 DEF QueuedAsked
  <2> QED BY <1>1, <2>2, <2>3, <2>4 DEF ClaimedForRequests, AwaitedIsShown, WithdrawnIsGone
<1> QED BY <1>2, <1>3 DEF Decision

\* Every step keeps the queues in agreement.
LEMMA QueuesKept == IInv /\ [Next]_vars => QueuesInv'
PROOF
<1> SUFFICES ASSUME IInv, [Next]_vars PROVE QueuesInv'
  OBVIOUS
<1>1. CASE Restart
  <2>1. \A r \in Request : status'[r] # "open"
    BY <1>1 DEF Restart, Mark1
  <2>2. NoneForgotten'
    BY <2>1 DEF NoneForgotten, Request
  <2> QED BY <1>1, <2>2, NobodyAssumption DEF Restart, QueuesInv, ClaimedForRequests, AwaitedIsShown,
             QueuedAsked, WithdrawnIsGone, NoEvent
<1>2. ASSUME UNCHANGED <<received, waiting, noSession, untrusted, shown, status>>, known \subseteq known'
      PROVE  QueuesInv'
  BY <1>2 DEF IInv, QueuesInv, NoneForgotten, Pending, ClaimedForRequests, AwaitedIsShown, QueuedAsked,
     WithdrawnIsGone
<1> QED BY <1>1, <1>2, ArrivalKeeps, CollectKeeps, ClaimKeeps, DecisionKeeps
        DEF Next, vars, queues, ClaimKeys, ClaimFails, KeyArrives, OlmSessionAppears, DeviceListed,
            MessageSent, TrustChanges

\* The inductive invariant holds in every reachable state.
THEOREM Invariant == Spec => []IInv
PROOF
<1>1. IInv /\ [Next]_vars => IInv'
  BY TypePreserved, TrustKept, QueuesKept DEF IInv, QueuesInv
<1> QED BY InitInv, <1>1, PTL DEF Spec

\* No open request is forgotten between the queues, keys are claimed for exactly
\* the devices that wait, and the application knows of what waits for it, however
\* requests, cancellations, decisions, claims and restarts interleave.
THEOREM QueuesAlwaysAgree == Spec => []QueuesAgree
PROOF
<1>1. IInv => QueuesAgree
  BY DEF IInv, QueuesAgree
<1> QED BY Invariant, <1>1, PTL

\* A restart finds the trust state that the application set, on both stores, for
\* every device whose file did not get the same key twice.
THEOREM TrustSurvives == Spec => []TrustPersists
PROOF
<1>1. IInv => TrustPersists
  <2> SUFFICES ASSUME IInv PROVE TrustPersists
    OBVIOUS
  <2> USE DEF IInv, TrustInv
  <2>1. \A d \in Device \ remarked : Loaded(d) = trust[d]
    BY LoadedIsTrust
  <2>2. ASSUME NEW d \in Device \ remarked, NEW m \in Mark PROVE Is(d, m) <=> trust[d] = m
    <3>1. CASE backend = "files"
      <4>1. files[m][d] = (IF trust[d] = m THEN 1 ELSE 0)
        BY <3>1 DEF StoreHolds
      <4> QED BY <3>1, <4>1 DEF Is
    <3>2. CASE backend # "files"
      BY <3>2 DEF StoreHolds, Is
    <3> QED BY <3>1, <3>2
  <2> QED BY <2>1, <2>2 DEF TrustPersists
<1> QED BY Invariant, <1>1, PTL

\* A key goes only to a verified device of the own user whose request for it was
\* not cancelled.
THEOREM OnlyAsked == Spec => SharedOnlyOnRequest
PROOF
<1> DEFINE Ok == \A m \in outgoing' \ outgoing :
                   /\ m[1] \in own /\ trust[m[1]] = "verified"
                   /\ status[m] \notin {"none", "cancelled"}
<1>1. IInv /\ [Next]_vars => [Ok]_vars
  <2> SUFFICES ASSUME IInv, Next, NEW m \in outgoing' \ outgoing
               PROVE  /\ m[1] \in own /\ trust[m[1]] = "verified"
                      /\ status[m] \notin {"none", "cancelled"}
    OBVIOUS
  <2>1. CASE CollectKeyRequests
    <3>1. m \in WithOutcome(received, "send")
      BY <2>1 DEF CollectKeyRequests
    <3>2. PICK j \in Id : m = <<received[j].device, j>>
      BY <3>1 DEF WithOutcome
    <3> DEFINE d == received[j].device
    <3>3. d \in Device /\ received[j] = [kind |-> "request", device |-> d] /\ Outcome(d, j) = "send"
      <4>1. received \in [Id -> Event] /\ TrustTypeOK
        BY DEF IInv, TypeOK
      <4>2. \A e, i : <<e, i>> \in WithOutcome(received, "send") =>
              e \in Device /\ received[i] = [kind |-> "request", device |-> e] /\ Outcome(e, i) = "send"
        BY <4>1, OutcomeMeans
      <4> QED BY <3>1, <3>2, <4>2
    <3>4. status[<<d, j>>] \notin {"none", "cancelled"}
      BY <3>3 DEF IInv, QueuedAsked
    <3>5. d \in own /\ trust[d] = "verified"
      BY <3>3, OutcomeCases
    <3> QED BY <3>2, <3>4, <3>5
  <2>2. ASSUME NEW i \in Id, ContinueKeyShare(i)
        PROVE  /\ m[1] \in own /\ trust[m[1]] = "verified"
               /\ status[m] \notin {"none", "cancelled"}
    <3>1. m = <<untrusted[i], i>> /\ untrusted[i] \in Device /\ Outcome(untrusted[i], i) = "send"
      BY <2>2 DEF ContinueKeyShare, IInv, TypeOK
    <3>2. status[<<untrusted[i], i>>] \notin {"none", "cancelled"}
      BY <3>1 DEF IInv, QueuedAsked
    <3> QED BY <3>1, <3>2, OutcomeCases
  <2>3. CASE outgoing' \subseteq outgoing
    BY <2>3
  <2> QED BY <2>1, <2>2, <2>3 DEF Next, queues, RequestArrives, CancellationArrives, ClaimKeys, KeysClaimed,
             ClaimFails, Decision, CancelKeyShare, KeyArrives, OlmSessionAppears, DeviceListed,
             MessageSent, TrustChanges, Restart
<1> QED BY <1>1, Invariant, PTL DEF Spec, SharedOnlyOnRequest
=============================================================================
