----------------------- MODULE KeyVerificationProofs -------------------------
(***************************************************************************)
(* Proofs about KeyVerification, for any number of verifications, faults   *)
(* and calls and any time limits.                                          *)
(***************************************************************************)
EXTENDS KeyVerification, TLAPS

(* The inductive invariant.  An accepted string was confirmed by the user  *)
(* of the side, a MAC is made only for a string its sender's user has      *)
(* confirmed, and nothing but a MAC with the own secret leads to           *)
(* mac_received; so an object that is both was confirmed twice.            *)

Accepted(s, sas) == sas.accepted => Established(sas) /\ Secret(sas) \in confirmed[s]
Checked(s, sas)  == sas.state = "mac_received" => Secret(sas) \in confirmed[Other(s)]
Sound(s, sas)    == sas \in SasObject /\ Accepted(s, sas) /\ Checked(s, sas)

\* Starts, accepts and MACs are sent directly, so none is queued.
Queueable == {"key", "cancel"}
MacSound(m) == m.type = "mac" => m.secret \in confirmed[Other(m.to)]

Typed ==
  /\ outgoing \in [Side -> SUBSET Message] /\ net \in SUBSET Message
  /\ verified \in [Side -> SUBSET (Nat \X Nat)]
  /\ confirmed \in [Side -> SUBSET (Nat \X Nat)]
  /\ knows \in [Side -> BOOLEAN] /\ news \in [Side -> BOOLEAN]
  /\ started \in 0..MaxTxn /\ keys \in Nat /\ calls \in 0..MaxCalls /\ faults \in 0..MaxFaults

Objects ==
  /\ verifications \in [Side -> [Txn -> SasObject]]
  /\ \A s \in Side, t \in Txn : Sound(s, Sas(s, t))

Messages ==
  /\ \A m \in net : MacSound(m)
  /\ \A s \in Side : \A m \in outgoing[s] : m.type \in Queueable

IInv == Typed /\ Objects /\ Messages /\ MutualConfirmation

LEMMA OtherSide ==
  \A s \in Side : Other(s) \in Side /\ Other(s) # s /\ Other(Other(s)) = s /\ Side = {s, Other(s)}
<1>1. PICK x, y \in Side : x # y /\ Side = {x, y}
  BY SideAssumption
<1>2. ASSUME NEW s \in Side
      PROVE  \E o \in Side : o # s
  BY <1>1
<1>3. \A s \in Side : Other(s) \in Side /\ Other(s) # s
  BY <1>2 DEF Other
<1> QED BY <1>1, <1>3

-----------------------------------------------------------------------------
(* The methods of a Sas object.                                            *)

LEMMA NewSound ==
  ASSUME NEW s, NEW k \in Nat
  PROVE  Sound(s, NewSas(k)) /\ Sound(s, FromStart(k, TRUE)) /\ Sound(s, FromStart(k, FALSE))
         /\ Sound(s, NoSas)
BY DEF Sound, NewSas, FromStart, NoSas, CancelWith, SasObject, SasState, Code, Accepted, Checked

LEMMA CancelSound ==
  ASSUME NEW s, NEW sas, Sound(s, sas), NEW why \in Code
  PROVE  Sound(s, CancelWith(sas, why))
BY DEF Sound, CancelWith, SasObject, SasState, Accepted, Checked, Established, Secret

LEMMA SecretType == \A sas \in SasObject : Secret(sas) \in Nat \X Nat
BY DEF Secret, SasObject

LEMMA AcceptanceSound ==
  ASSUME NEW s, NEW sas, Sound(s, sas), NEW c \in Nat, NEW known \in BOOLEAN
  PROVE  Sound(s, ReceiveAccept(sas, known, c))
<1>1. \A why \in Code : Sound(s, CancelWith(sas, why))
  BY CancelSound
<1>2. CASE Canceled(sas)
  BY <1>2 DEF ReceiveAccept, Canceled
<1>3. CASE ~Canceled(sas) /\ sas.state # "created"
  BY <1>1, <1>3 DEF ReceiveAccept, Code
<1>4. CASE sas.state = "created" /\ ~known
  BY <1>1, <1>4 DEF ReceiveAccept, Canceled, Code
<1>5. CASE sas.state = "created" /\ known
  BY <1>5 DEF ReceiveAccept, Canceled, Sound, SasObject, SasState, Accepted, Checked,
              Established, Secret
<1> QED BY <1>2, <1>3, <1>4, <1>5

\* A key arrives only once, so no string was confirmed before.
LEMMA KeySound ==
  ASSUME NEW s, NEW sas, Sound(s, sas), NEW k \in Nat
  PROVE  Sound(s, ReceiveKey(sas, k))
<1>1. \A why \in Code : Sound(s, CancelWith(sas, why))
  BY CancelSound
<1>2. CASE Established(sas) \/ sas.state \notin {"started", "accepted"}
  BY <1>1, <1>2 DEF ReceiveKey, Code
<1>3. CASE ~(Established(sas) \/ sas.state \notin {"started", "accepted"})
  <2>1. CASE sas.weStarted /\ sas.commitment # k
    BY <1>1, <1>3, <2>1 DEF ReceiveKey, Code
  <2>2. CASE ~(sas.weStarted /\ sas.commitment # k)
    <3>1. ReceiveKey(sas, k) = [sas EXCEPT !.theirs = k, !.state = "key_received"]
      BY <1>3, <2>2 DEF ReceiveKey
    <3>2. ~sas.accepted
      BY <1>3 DEF Sound, Accepted
    <3> QED BY <3>1, <3>2 DEF Sound, SasObject, SasState, Accepted, Checked
  <2> QED BY <2>1, <2>2
<1> QED BY <1>2, <1>3

LEMMA MacReceiptSound ==
  ASSUME NEW s, NEW sas, Sound(s, sas), NEW x, x \in confirmed[Other(s)], NEW K
  PROVE  Sound(s, ReceiveMac(sas, x, K))
<1>1. \A why \in Code : Sound(s, CancelWith(sas, why))
  BY CancelSound
<1>2. CASE Verified(sas) \/ Canceled(sas)
  BY <1>2 DEF ReceiveMac, Verified, Canceled
<1>3. CASE ~Verified(sas) /\ ~Canceled(sas) /\ sas.state # "key_received"
  BY <1>1, <1>3 DEF ReceiveMac, Code
<1>4. CASE sas.state = "key_received" /\ x # Secret(sas)
  BY <1>1, <1>4 DEF ReceiveMac, Code, Verified, Canceled
<1>5. CASE sas.state = "key_received" /\ x = Secret(sas)
  <2> DEFINE done == [sas EXCEPT !.verifiedDevice = "device" \in K, !.state = "mac_received",
                                 !.code = IF "device" \in K THEN @ ELSE "m.key_mismatch"]
  <2>1. Sound(s, done)
    <3>1. done \in SasObject
      <4>1. \A found \in BOOLEAN, c \in Code :
              [sas EXCEPT !.verifiedDevice = found, !.state = "mac_received", !.code = c] \in SasObject
        BY DEF Sound, SasObject, SasState
      <4>2. ("device" \in K) \in BOOLEAN
        OBVIOUS
      <4>3. (IF "device" \in K THEN sas.code ELSE "m.key_mismatch") \in Code
        BY DEF Sound, SasObject, Code
      <4>4. done = [sas EXCEPT !.verifiedDevice = ("device" \in K), !.state = "mac_received",
                      !.code = (IF "device" \in K THEN sas.code ELSE "m.key_mismatch")]
        BY Zenon DEF Sound, SasObject
      <4> QED BY Zenon, <4>1, <4>2, <4>3, <4>4
    <3>2. /\ done.accepted = sas.accepted /\ done.theirs = sas.theirs
          /\ done.key = sas.key /\ done.weStarted = sas.weStarted
      BY DEF Sound, SasObject
    <3> QED BY <1>5, <3>1, <3>2 DEF Sound, Accepted, Checked, Established, Secret
  <2>2. ReceiveMac(sas, x, K) \in {done, CancelWith(sas, "m.invalid_message"),
                                   CancelWith(sas, "m.key_mismatch")}
    BY <1>5 DEF ReceiveMac, Verified, Canceled
  <2> QED BY <1>1, <2>1, <2>2 DEF Code
<1> QED BY <1>2, <1>3, <1>4, <1>5

LEMMA VerifiedAgreed ==
  ASSUME NEW s \in Side, NEW sas, Sound(s, sas), Verified(sas)
  PROVE  \A o \in Side : Secret(sas) \in confirmed[o]
BY OtherSide DEF Sound, Accepted, Checked, Verified

-----------------------------------------------------------------------------
(* Storing an object keeps the invariant.                                  *)

LEMMA SetSound ==
  ASSUME Objects, NEW s \in Side, NEW t \in Txn, NEW sas, Sound(s, sas),
         SetSas(s, t, sas), confirmed' = confirmed
  PROVE  Objects'
<1>1. verifications' \in [Side -> [Txn -> SasObject]]
  BY DEF Objects, SetSas, Sound
<1>2. \A o \in Side, u \in Txn : Sas(o, u)' = IF o = s /\ u = t THEN sas ELSE Sas(o, u)
  BY DEF Objects, SetSas, Sas
<1>3. \A o \in Side, u \in Txn : Sound(o, Sas(o, u)')
  BY <1>2 DEF Objects
<1> QED BY <1>1, <1>3 DEF Objects, Sound, Accepted, Checked

\* The user of s confirms the string x: what was confirmed stays so.
LEMMA ConfirmSound ==
  ASSUME NEW s \in Side, NEW x, NEW o \in Side, NEW sas, Sound(o, sas),
         confirmed \in [Side -> SUBSET (Nat \X Nat)],
         confirmed' = [confirmed EXCEPT ![s] = @ \cup {x}]
  PROVE  /\ sas.accepted => Established(sas) /\ Secret(sas) \in confirmed'[o]
         /\ sas.state = "mac_received" => Secret(sas) \in confirmed'[Other(o)]
BY OtherSide DEF Sound, Accepted, Checked

-----------------------------------------------------------------------------
(* Messages.                                                               *)

LEMMA AnswerType ==
  ASSUME NEW s \in Side, NEW t \in Txn, NEW sas \in SasObject
  PROVE  /\ KeyMessage(s, t, sas) \in Message /\ KeyMessage(s, t, sas).type \in Queueable
         /\ Cancellation(s, t) \in Message /\ Cancellation(s, t).type \in Queueable
<1>1. Other(s) \in Side
  BY OtherSide
<1>2. sas.key \in Nat
  BY DEF SasObject
<1> QED BY <1>1, <1>2 DEF KeyMessage, Cancellation, Message, Queueable

LEMMA MessageFields ==
  ASSUME NEW m \in Message
  PROVE  /\ m.to \in Side /\ m.txn \in Txn
         /\ m.type \in {"start", "accept"} => m.known \in BOOLEAN
         /\ m.type = "accept" => m.commitment \in Nat
         /\ m.type = "key" => m.key \in Nat
BY DEF Message

LEMMA QueueSound ==
  ASSUME Typed, Messages, NEW s \in Side, NEW M \in SUBSET Message,
         \A m \in M : m.type \in Queueable, Queue(s, M)
  PROVE  /\ outgoing' \in [Side -> SUBSET Message]
         /\ \A o \in Side : \A m \in outgoing'[o] : m.type \in Queueable
BY DEF Queue, Typed, Messages

\* What Deliver leaves in net is sound.
LEMMA NetShrinks ==
  ASSUME Typed, Messages, net' \subseteq net, confirmed' = confirmed
  PROVE  net' \in SUBSET Message /\ \A m \in net' : MacSound(m)'
BY DEF Typed, Messages, MacSound

LEMMA MarkSound ==
  ASSUME Typed, MutualConfirmation, NEW s \in Side, NEW sas, Sound(s, sas),
         MarkVerified(s, sas), confirmed' = confirmed
  PROVE  verified' \in [Side -> SUBSET (Nat \X Nat)] /\ MutualConfirmation'
<1>1. CASE Verified(sas)
  <2>1. Secret(sas) \in Nat \X Nat
    BY SecretType DEF Sound
  <2>2. verified' = [verified EXCEPT ![s] = @ \cup {Secret(sas)}]
    BY <1>1 DEF MarkVerified
  <2>3. \A o \in Side : Secret(sas) \in confirmed[o]
    BY <1>1, VerifiedAgreed
  <2> QED BY <2>1, <2>2, <2>3 DEF Typed, MutualConfirmation
<1>2. CASE ~Verified(sas)
  BY <1>2 DEF MarkVerified, Typed, MutualConfirmation
<1> QED BY <1>1, <1>2

-----------------------------------------------------------------------------
(* One lemma per handler of a received event: what it does to the state.   *)

Kept == /\ Objects' /\ keys' \in Nat /\ MutualConfirmation'
        /\ verified' \in [Side -> SUBSET (Nat \X Nat)]
        /\ outgoing' \in [Side -> SUBSET Message]
        /\ \A s \in Side : \A m \in outgoing'[s] : m.type \in Queueable

LEMMA KeptUnchanged ==
  ASSUME IInv, UNCHANGED <<verifications, outgoing, keys, verified, confirmed>>
  PROVE  Kept
BY DEF IInv, Kept, Typed, Objects, Messages, MutualConfirmation, Sound, Accepted, Checked, Sas

LEMMA StartKept ==
  ASSUME IInv, NEW m \in Message, m.type = "start", HandleStart(m.to, m),
         UNCHANGED <<verified, confirmed>>
  PROVE  Kept
<1> DEFINE s == m.to
           new == FromStart(keys + 1, m.known)
           old == ActiveSas(s)
<1>0. /\ s \in Side /\ m.txn \in Txn /\ m.known \in BOOLEAN /\ keys + 1 \in Nat
      /\ MutualConfirmation' /\ verified' \in [Side -> SUBSET (Nat \X Nat)]
  BY MessageFields DEF IInv, Typed, MutualConfirmation
<1>1. Sound(s, new) /\ new \in SasObject
  BY <1>0, NewSound DEF Sound
<1>2. old \in SUBSET Txn
  BY DEF ActiveSas
<1>3. CASE UNCHANGED <<verifications, outgoing, keys>>
  BY <1>3, KeptUnchanged
<1>4. CASE Queue(s, {Cancellation(s, m.txn)}) /\ keys' = keys + 1 /\ UNCHANGED verifications
  <2>1. Objects'
    BY <1>4 DEF IInv, Objects, Sound, Accepted, Checked, Sas
  <2>2. /\ outgoing' \in [Side -> SUBSET Message]
        /\ \A o \in Side : \A q \in outgoing'[o] : q.type \in Queueable
    BY <1>0, <1>1, <1>4, AnswerType, QueueSound DEF IInv
  <2> QED BY <1>0, <1>4, <2>1, <2>2 DEF Kept
<1>5. CASE /\ verifications' =
                [verifications EXCEPT ![s] =
                   [t \in Txn |-> IF t = m.txn THEN new
                                  ELSE IF t \in old THEN CancelSas(Sas(s, t)) ELSE Sas(s, t)]]
           /\ Queue(s, {Cancellation(s, t) : t \in old})
           /\ keys' = keys + 1
  <2> DEFINE value(t) == IF t = m.txn THEN new
                         ELSE IF t \in old THEN CancelSas(Sas(s, t)) ELSE Sas(s, t)
  <2>1. \A t \in Txn : Sound(s, value(t))
    <3>1. \A t \in Txn : Sound(s, Sas(s, t))
      BY <1>0 DEF IInv, Objects
    <3>2. \A t \in Txn : Sound(s, CancelSas(Sas(s, t)))
      BY <3>1, CancelSound DEF CancelSas, Code
    <3> QED BY <1>1, <3>1, <3>2
  <2>2. verifications' \in [Side -> [Txn -> SasObject]]
    BY <1>5, <2>1 DEF IInv, Objects, Sound
  <2>3. \A o \in Side, t \in Txn : Sas(o, t)' = IF o = s THEN value(t) ELSE Sas(o, t)
    BY <1>5 DEF IInv, Objects, Sas
  <2>4. Objects'
    <3>1. \A o \in Side, t \in Txn : Sound(o, Sas(o, t)')
      BY <2>1, <2>3 DEF IInv, Objects
    <3> QED BY <2>2, <3>1 DEF Objects, Sound, Accepted, Checked
  <2>5. /\ {Cancellation(s, t) : t \in old} \in SUBSET Message
        /\ \A q \in {Cancellation(s, t) : t \in old} : q.type \in Queueable
    BY <1>0, <1>1, <1>2, AnswerType
  <2>6. /\ outgoing' \in [Side -> SUBSET Message]
        /\ \A o \in Side : \A q \in outgoing'[o] : q.type \in Queueable
    BY <1>0, <1>5, <2>5, QueueSound DEF IInv
  <2> QED BY <1>0, <1>5, <2>4, <2>6 DEF Kept
<1> QED BY <1>3, <1>4, <1>5 DEF HandleStart

\* What the accept, key and mac handlers have in common: the object becomes
\* sas and a set of answers is queued.
LEMMA AnswerKept ==
  ASSUME IInv, NEW s \in Side, NEW t \in Txn, NEW sas, Sound(s, sas), SetSas(s, t, sas),
         NEW M \in SUBSET {Cancellation(s, t), KeyMessage(s, t, sas)}, Queue(s, M),
         UNCHANGED <<keys, confirmed>>, MarkVerified(s, sas) \/ verified' = verified
  PROVE  Kept
<1>1. Objects'
  BY SetSound DEF IInv
<1>2. M \in SUBSET Message /\ \A m \in M : m.type \in Queueable
  BY AnswerType DEF Sound
<1>3. /\ outgoing' \in [Side -> SUBSET Message]
      /\ \A o \in Side : \A q \in outgoing'[o] : q.type \in Queueable
  BY <1>2, QueueSound DEF IInv
<1>4. verified' \in [Side -> SUBSET (Nat \X Nat)] /\ MutualConfirmation'
  BY MarkSound DEF IInv, Typed, MutualConfirmation
<1> QED BY <1>1, <1>3, <1>4 DEF Kept, IInv, Typed

LEMMA AcceptKept ==
  ASSUME IInv, NEW m \in Message, m.type = "accept", HandleAccept(m.to, m), UNCHANGED confirmed
  PROVE  Kept
<1> DEFINE sas == ReceiveAccept(Sas(m.to, m.txn), m.known, m.commitment)
<1>1. m.to \in Side /\ m.txn \in Txn /\ m.known \in BOOLEAN /\ m.commitment \in Nat
  BY MessageFields
<1>2. Sound(m.to, sas)
  BY <1>1, AcceptanceSound DEF IInv, Objects
<1> QED BY <1>1, <1>2, AnswerKept DEF HandleAccept

LEMMA KeyKept ==
  ASSUME IInv, NEW m \in Message, m.type = "key", HandleKey(m.to, m), UNCHANGED confirmed
  PROVE  Kept
<1> DEFINE sas == ReceiveKey(Sas(m.to, m.txn), m.key)
<1>1. m.to \in Side /\ m.txn \in Txn /\ m.key \in Nat
  BY MessageFields
<1>2. Sound(m.to, sas)
  BY <1>1, KeySound DEF IInv, Objects
<1> QED BY <1>1, <1>2, AnswerKept DEF HandleKey

LEMMA MacKept ==
  ASSUME IInv, NEW m \in Message, m.type = "mac", MacSound(m), HandleMac(m.to, m),
         UNCHANGED confirmed
  PROVE  Kept
<1> DEFINE sas == ReceiveMac(Sas(m.to, m.txn), m.secret, m.keys)
<1>1. m.to \in Side /\ m.txn \in Txn /\ m.secret \in confirmed[Other(m.to)]
  BY MessageFields DEF MacSound
<1>2. Sound(m.to, sas)
  BY <1>1, MacReceiptSound DEF IInv, Objects
<1>3. CASE UNCHANGED <<verifications, outgoing, verified>>
  BY <1>3, KeptUnchanged DEF HandleMac
<1>4. CASE /\ SetSas(m.to, m.txn, sas)
           /\ Queue(m.to, IF Canceled(sas) THEN {Cancellation(m.to, m.txn)} ELSE {})
           /\ MarkVerified(m.to, sas)
  BY <1>1, <1>2, <1>4, AnswerKept DEF HandleMac
<1> QED BY <1>3, <1>4 DEF HandleMac

LEMMA CancelKept ==
  ASSUME IInv, NEW m \in Message, HandleCancel(m.to, m), UNCHANGED confirmed
  PROVE  Kept
<1>1. m.to \in Side /\ m.txn \in Txn /\ Sound(m.to, NoSas)
  BY MessageFields, NewSound
<1>2. Objects'
  BY <1>1, SetSound DEF HandleCancel, IInv
<1> QED BY <1>2 DEF HandleCancel, Kept, IInv, Typed, Messages, MutualConfirmation

-----------------------------------------------------------------------------
(* The actions.                                                            *)

LEMMA DeliverInv ==
  ASSUME IInv, NEW m \in net, Deliver(m)
  PROVE  IInv'
<1>1. m \in Message /\ MacSound(m)
  BY DEF IInv, Typed, Messages
<1>2. UNCHANGED <<knows, news, confirmed, started, calls, faults>> /\ net' \subseteq net
  BY DEF Deliver
<1>3. Kept
  <2>1. CASE m.type = "start" /\ HandleStart(m.to, m) /\ UNCHANGED verified
    BY <1>1, <1>2, <2>1, StartKept
  <2>2. CASE m.type = "accept" /\ HandleAccept(m.to, m)
    BY <1>1, <1>2, <2>2, AcceptKept
  <2>3. CASE m.type = "key" /\ HandleKey(m.to, m)
    BY <1>1, <1>2, <2>3, KeyKept
  <2>4. CASE m.type = "mac" /\ HandleMac(m.to, m)
    BY <1>1, <1>2, <2>4, MacKept
  <2>5. CASE m.type = "cancel" /\ HandleCancel(m.to, m)
    BY <1>1, <1>2, <2>5, CancelKept
  <2>6. CASE UNCHANGED <<verifications, outgoing, keys, verified>>
    BY <1>2, <2>6, KeptUnchanged
  <2> QED BY <2>1, <2>2, <2>3, <2>4, <2>5, <2>6 DEF Deliver
<1>4. net' \in SUBSET Message /\ \A q \in net' : MacSound(q)'
  BY <1>2, NetShrinks DEF IInv
<1> QED BY <1>2, <1>3, <1>4 DEF IInv, Kept, Typed, Messages

LEMMA SyncInv ==
  ASSUME IInv, NEW s \in Side, SyncStep(s)
  PROVE  IInv'
<1>1. ASSUME NEW m \in outgoing[s], SendQueued(s, m) PROVE IInv'
  <2>1. m \in Message /\ m.type # "mac"
    BY DEF IInv, Typed, Messages, Queueable
  <2>2. net' \in SUBSET Message /\ \A q \in net' : MacSound(q)'
    BY <1>1, <2>1 DEF SendQueued, IInv, Typed, Messages, MacSound
  <2>3. /\ outgoing' \in [Side -> SUBSET Message]
        /\ \A o \in Side : \A q \in outgoing'[o] : q.type \in Queueable
    BY <1>1 DEF SendQueued, IInv, Typed, Messages
  <2>4. Objects' /\ MutualConfirmation'
    BY <1>1 DEF SendQueued, IInv, Objects, Sound, Accepted, Checked, Sas, MutualConfirmation
  <2>5. faults' \in 0..MaxFaults
    BY <1>1, LimitAssumption DEF SendQueued, IInv, Typed
  <2> QED BY <1>1, <2>2, <2>3, <2>4, <2>5 DEF SendQueued, IInv, Typed, Messages
<1>2. CASE DeviceQueried(s)
  <2>1. Objects' /\ MutualConfirmation' /\ Messages'
    BY <1>2 DEF DeviceQueried, IInv, Objects, Sound, Accepted, Checked, Sas,
                MutualConfirmation, Messages, MacSound
  <2> QED BY <1>2, <2>1 DEF DeviceQueried, IInv, Typed
<1> QED BY <1>1, <1>2 DEF SyncStep

LEMMA HandlingInv ==
  ASSUME IInv, NEW s \in Side, NewToken(s) \/ ClearVerifications(s)
  PROVE  IInv'
<1>1. CASE NewToken(s)
  <2>1. Objects' /\ MutualConfirmation' /\ Messages'
    BY <1>1 DEF NewToken, IInv, Objects, Sound, Accepted, Checked, Sas,
                MutualConfirmation, Messages, MacSound
  <2> QED BY <1>1, <2>1 DEF NewToken, IInv, Typed
<1>2. CASE ClearVerifications(s)
  <2> DEFINE late == {t \in Txn : Has(s, t) /\ TimedOut(Sas(s, t))}
             done == {t \in Txn : Has(s, t) /\ Outlived(Sas(s, t))}
             value(t) == IF t \in late \cup done THEN NoSas ELSE Sas(s, t)
  <2>1. /\ verifications' = [verifications EXCEPT ![s] = [t \in Txn |-> value(t)]]
        /\ Queue(s, {Cancellation(s, t) : t \in late})
        /\ UNCHANGED <<net, knows, verified, confirmed, started, keys, calls, faults>>
    BY <1>2 DEF ClearVerifications
  <2>5. news' \in [Side -> BOOLEAN]
    BY <1>2 DEF ClearVerifications, IInv, Typed
  <2>2. \A t \in Txn : Sound(s, value(t))
    <3>1. Sound(s, NoSas)
      BY NewSound
    <3> QED BY <3>1 DEF IInv, Objects
  <2>3. Objects'
    <3>1. verifications' \in [Side -> [Txn -> SasObject]]
      BY <2>1, <2>2 DEF IInv, Objects, Sound
    <3>2. \A o \in Side, t \in Txn : Sas(o, t)' = IF o = s THEN value(t) ELSE Sas(o, t)
      BY <2>1 DEF IInv, Objects, Sas
    <3>3. \A o \in Side, t \in Txn : Sound(o, Sas(o, t)')
      BY <2>2, <3>2 DEF IInv, Objects
    <3> QED BY <2>1, <3>1, <3>3 DEF Objects, Sound, Accepted, Checked
  <2>4. /\ outgoing' \in [Side -> SUBSET Message]
        /\ \A o \in Side : \A q \in outgoing'[o] : q.type \in Queueable
    <3>1. NoSas \in SasObject
      BY NewSound DEF Sound
    <3>2. /\ {Cancellation(s, t) : t \in late} \in SUBSET Message
          /\ \A q \in {Cancellation(s, t) : t \in late} : q.type \in Queueable
      BY <3>1, AnswerType
    <3> QED BY <2>1, <3>2, QueueSound DEF IInv
  <2> QED BY <2>1, <2>3, <2>4, <2>5 DEF IInv, Typed, Messages, MacSound, MutualConfirmation
<1> QED BY <1>1, <1>2

LEMMA TickInv ==
  ASSUME IInv, Tick
  PROVE  IInv'
<1> DEFINE value(s, t) ==
      IF Has(s, t) THEN [Sas(s, t) EXCEPT !.age = Later(@)] ELSE NoSas
<1>1. ASSUME NEW s \in Side, NEW t \in Txn PROVE Sound(s, value(s, t))
  <2>1. \A n \in Nat : Later(n) \in Nat
    BY DEF Later
  <2>2. Sound(s, Sas(s, t)) /\ Sound(s, NoSas)
    BY NewSound DEF IInv, Objects
  <2>3. \A a \in Nat : Sound(s, [Sas(s, t) EXCEPT !.age = a])
    BY <2>2 DEF Sound, SasObject, Accepted, Checked, Established, Secret
  <2>4. Sas(s, t).age \in Nat
    BY <2>2 DEF Sound, SasObject
  <2> QED BY <2>1, <2>2, <2>3, <2>4
<1>2. /\ verifications' = [s \in Side |-> [t \in Txn |-> value(s, t)]]
      /\ UNCHANGED <<outgoing, net, knows, news, verified, confirmed, started, keys, calls,
                     faults>>
  BY DEF Tick
<1>3. Objects'
  <2>1. verifications' \in [Side -> [Txn -> SasObject]]
    BY <1>1, <1>2 DEF Sound
  <2>2. \A s \in Side, t \in Txn : Sound(s, Sas(s, t)')
    BY <1>1, <1>2 DEF Sas
  <2> QED BY <1>2, <2>1, <2>2 DEF Objects, Sound, Accepted, Checked
<1> QED BY <1>2, <1>3 DEF IInv, Typed, Messages, MacSound, MutualConfirmation

\* A user's message is in net, or the request failed.
LEMMA SendSound ==
  ASSUME Typed, Messages, NEW m \in Message, Send(m), MacSound(m)',
         \A o \in Side : confirmed[o] \subseteq confirmed'[o]
  PROVE  /\ net' \in SUBSET Message /\ \A q \in net' : MacSound(q)'
         /\ faults' \in 0..MaxFaults
<1>1. \A q \in net : q \in Message /\ Other(q.to) \in Side /\ MacSound(q)
  BY OtherSide, MessageFields DEF Typed, Messages
<1>2. \A q \in net : MacSound(q)'
  BY <1>1 DEF MacSound
<1>3. faults' \in 0..MaxFaults
  BY LimitAssumption DEF Send, Typed
<1> QED BY <1>2, <1>3 DEF Send, Typed

LEMMA ConfirmMoreSound ==
  ASSUME IInv, NEW s \in Side, NEW t \in Txn, ConfirmShortAuthString(s, t)
  PROVE  IInv'
<1> DEFINE sas == AcceptSas(Sas(s, t))
           x == Secret(sas)
<1>1. /\ Sound(s, Sas(s, t)) /\ Sas(s, t) \in SasObject
      /\ verifications \in [Side -> [Txn -> SasObject]]
      /\ confirmed \in [Side -> SUBSET (Nat \X Nat)]
  BY DEF IInv, Objects, Sound, Typed
<1>2. /\ sas \in SasObject /\ sas.state = Sas(s, t).state /\ x = Secret(Sas(s, t))
      /\ Established(sas)
  BY <1>1 DEF AcceptSas, SasObject, Secret, Established, ConfirmShortAuthString, CanConfirm
<1>3. x \in Nat \X Nat
  BY <1>2, SecretType
<1>4. confirmed' = [confirmed EXCEPT ![s] = @ \cup {x}]
  BY DEF ConfirmShortAuthString
<1>5. /\ confirmed' \in [Side -> SUBSET (Nat \X Nat)] /\ x \in confirmed'[s]
      /\ \A o \in Side : confirmed[o] \subseteq confirmed'[o]
  BY <1>1, <1>3, <1>4
<1>6. Objects'
  <2>1. SetSas(s, t, sas)
    BY DEF ConfirmShortAuthString
  <2>2. verifications' \in [Side -> [Txn -> SasObject]]
    BY <1>1, <1>2, <2>1 DEF SetSas
  <2>3. \A o \in Side, u \in Txn : Sas(o, u)' = IF o = s /\ u = t THEN sas ELSE Sas(o, u)
    BY <1>1, <2>1 DEF SetSas, Sas
  <2>4. /\ sas.accepted => Established(sas) /\ x \in confirmed'[s]
        /\ sas.state = "mac_received" => x \in confirmed'[Other(s)]
    BY <1>1, <1>2, <1>5, OtherSide DEF Sound, Checked
  <2>5. \A o \in Side, u \in Txn :
          LET q == Sas(o, u)
          IN /\ q \in SasObject
             /\ q.accepted => Established(q) /\ Secret(q) \in confirmed'[o]
             /\ q.state = "mac_received" => Secret(q) \in confirmed'[Other(o)]
    BY <1>5, OtherSide DEF IInv, Objects, Sound, Accepted, Checked
  <2>6. \A o \in Side, u \in Txn : Sound(o, Sas(o, u))'
    BY <1>2, <2>3, <2>4, <2>5 DEF Sound, Accepted, Checked
  <2> QED BY <2>2, <2>6 DEF Objects
<1>7. net' \in SUBSET Message /\ (\A q \in net' : MacSound(q)') /\ faults' \in 0..MaxFaults
  <2>1. CASE UNCHANGED <<net, faults>>
    BY <1>5, <2>1, OtherSide, MessageFields DEF IInv, Typed, Messages, MacSound
  <2>2. CASE \E k \in MacKeys :
               Send([type |-> "mac", to |-> Other(s), txn |-> t, secret |-> x, keys |-> k])
    <3>1. PICK k \in MacKeys :
            Send([type |-> "mac", to |-> Other(s), txn |-> t, secret |-> x, keys |-> k])
      BY <2>2
    <3>2. [type |-> "mac", to |-> Other(s), txn |-> t, secret |-> x, keys |-> k] \in Message
      BY <1>3, OtherSide, LimitAssumption DEF Message
    <3>3. PICK m \in Message : /\ m.to = Other(s) /\ m.secret = x /\ Send(m)
      BY <3>1, <3>2
    <3>4. MacSound(m)'
      BY <1>5, <3>3, OtherSide DEF MacSound
    <3> QED BY <1>5, <3>3, <3>4, SendSound DEF IInv
  <2> QED BY <2>1, <2>2 DEF ConfirmShortAuthString
<1>8. verified' \in [Side -> SUBSET (Nat \X Nat)] /\ MutualConfirmation'
  <2>1. CASE verified' = verified
    BY <1>5, <2>1 DEF IInv, Typed, MutualConfirmation
  <2>2. CASE Verified(sas) /\ verified' = [verified EXCEPT ![s] = @ \cup {x}]
    <3>1. x \in confirmed[Other(s)]
      BY <1>1, <1>2, <2>2 DEF Verified, Sound, Checked
    <3>2. \A o \in Side : x \in confirmed'[o]
      BY <1>5, <3>1, OtherSide
    <3> QED BY <1>3, <1>5, <2>2, <3>2 DEF IInv, Typed, MutualConfirmation
  <2> QED BY <2>1, <2>2 DEF ConfirmShortAuthString, MarkVerified
<1>9. calls' \in 0..MaxCalls
  BY LimitAssumption DEF ConfirmShortAuthString, Call, IInv, Typed
<1> QED BY <1>5, <1>6, <1>7, <1>8, <1>9 DEF ConfirmShortAuthString, IInv, Typed, Messages

LEMMA UserInv ==
  ASSUME IInv, NEW s \in Side, UserStep(s)
  PROVE  IInv'
<1>0. Call => calls' \in 0..MaxCalls
  BY LimitAssumption DEF Call, IInv, Typed
\* A call stores the object sas and sends the message m, not a MAC.
<1>1. ASSUME NEW t \in Txn, NEW sas, Sound(s, sas), SetSas(s, t, sas), Call,
             NEW m \in Message, m.type # "mac", Send(m),
             started' \in 0..MaxTxn, keys' \in Nat,
             UNCHANGED <<outgoing, knows, news, verified, confirmed>>
      PROVE  IInv'
  <2>1. Objects'
    BY <1>1, SetSound DEF IInv
  <2>2. MacSound(m)' /\ \A o \in Side : confirmed[o] \subseteq confirmed'[o]
    BY <1>1 DEF MacSound
  <2>3. net' \in SUBSET Message /\ (\A q \in net' : MacSound(q)') /\ faults' \in 0..MaxFaults
    BY <1>1, <2>2, SendSound DEF IInv
  <2> QED BY <1>0, <1>1, <2>1, <2>3 DEF IInv, Typed, Messages, MutualConfirmation
<1>2. CASE StartVerification(s)
  <2>1. /\ started' = started + 1 /\ started' \in Txn /\ started' \in 0..MaxTxn
        /\ keys' = keys + 1 /\ keys' \in Nat
    BY <1>2, LimitAssumption DEF StartVerification, IInv, Typed, Txn
  <2>2. PICK k \in Known :
          Send([type |-> "start", to |-> Other(s), txn |-> started', known |-> k])
    BY <1>2 DEF StartVerification
  <2> DEFINE m == [type |-> "start", to |-> Other(s), txn |-> started', known |-> k]
  <2>3. m \in Message /\ m.type # "mac"
    BY <2>1, OtherSide, LimitAssumption DEF Message
  <2>4. Sound(s, NewSas(keys'))
    BY <2>1, NewSound
  <2> HIDE DEF m
  <2>5. Send(m)
    BY <2>2 DEF m
  <2> QED BY <1>1, <1>2, <2>1, <2>3, <2>4, <2>5 DEF StartVerification
<1>3. ASSUME NEW t \in Txn, AcceptKeyVerification(s, t) PROVE IInv'
  <2> DEFINE sas == AcceptVerification(Sas(s, t))
  <2>1. Sound(s, sas)
    <3>1. Sound(s, Sas(s, t))
      BY DEF IInv, Objects
    <3> QED BY <3>1 DEF AcceptVerification, Sound, SasObject, Accepted, Checked, Established, Secret
  <2>2. PICK k \in Known :
          Send([type |-> "accept", to |-> Other(s), txn |-> t, known |-> k,
                commitment |-> sas.commitment])
    BY <1>3 DEF AcceptKeyVerification
  <2> DEFINE m == [type |-> "accept", to |-> Other(s), txn |-> t, known |-> k,
                   commitment |-> sas.commitment]
  <2>3. m \in Message /\ m.type # "mac"
    <3>1. sas.commitment \in Nat /\ k \in BOOLEAN /\ Other(s) \in Side
      BY <2>1, OtherSide, LimitAssumption DEF Sound, SasObject
    <3> QED BY <3>1 DEF Message
  <2>4. started' \in 0..MaxTxn /\ keys' \in Nat
    BY <1>3 DEF AcceptKeyVerification, IInv, Typed
  <2> HIDE DEF m
  <2>5. Send(m)
    BY <2>2 DEF m
  <2> QED BY <1>1, <1>3, <2>1, <2>3, <2>4, <2>5 DEF AcceptKeyVerification
<1>4. ASSUME NEW t \in Txn, CancelKeyVerification(s, t) PROVE IInv'
  <2>1. Sound(s, Sas(s, t)) /\ Sas(s, t) \in SasObject
    BY DEF IInv, Objects, Sound
  <2>2. Sound(s, CancelSas(Sas(s, t))) /\ Sound(s, RejectSas(Sas(s, t)))
    BY <2>1, CancelSound DEF CancelSas, RejectSas, Code
  <2>3. Cancellation(s, t) \in Message /\ Cancellation(s, t).type # "mac"
    BY <2>1, AnswerType DEF Queueable
  <2>4. started' \in 0..MaxTxn /\ keys' \in Nat
    BY <1>4 DEF CancelKeyVerification, IInv, Typed
  <2> QED BY <1>1, <1>4, <2>2, <2>3, <2>4 DEF CancelKeyVerification
<1> QED BY <1>2, <1>3, <1>4, ConfirmMoreSound DEF UserStep

-----------------------------------------------------------------------------
LEMMA InvInit == Init => IInv
<1> SUFFICES ASSUME Init PROVE IInv
  OBVIOUS
<1>1. NoSas \in SasObject /\ \A s \in Side : Sound(s, NoSas)
  BY NewSound DEF Sound
<1>2. Objects
  BY <1>1 DEF Init, Objects, Sas
<1>3. Typed
  BY LimitAssumption DEF Init, Typed
<1> QED BY <1>2, <1>3 DEF Init, IInv, Messages, MutualConfirmation

LEMMA InvNext == IInv /\ [Next]_vars => IInv'
<1> SUFFICES ASSUME IInv, [Next]_vars PROVE IInv'
  OBVIOUS
<1>1. CASE UNCHANGED vars
  BY <1>1 DEF vars, IInv, Typed, Objects, Messages, MacSound, MutualConfirmation,
              Sound, Accepted, Checked, Sas
<1> QED BY <1>1, UserInv, SyncInv, HandlingInv, DeliverInv, TickInv DEF Next, Timeless

THEOREM Invariant == Spec => []IInv
BY InvInit, InvNext, PTL DEF Spec

\* The objects and messages of both sides keep their types.
THEOREM TypeCorrect == Spec => []TypeOK
<1>1. IInv => TypeOK
  BY DEF IInv, Typed, Objects, TypeOK
<1> QED BY <1>1, Invariant, PTL

\* Whatever messages are lost, repeated, overtaken or ignored, a device is
\* verified only under a string that both users confirmed.
THEOREM BothConfirmed == Spec => []MutualConfirmation
<1>1. IInv => MutualConfirmation
  BY DEF IInv
<1> QED BY <1>1, Invariant, PTL

-----------------------------------------------------------------------------
(* The second invariant, for the agreement on keys.  A transaction id has  *)
(* one starter and one start message, so the two objects of a transaction  *)
(* are the only ones it ever has, and every commitment and key in flight   *)
(* under it is that of the object it came from, while that object exists.  *)

Sent(m) == m \in net \/ \E s \in Side : m \in outgoing[s]

\* What an object knows by itself.
Anchor(q, t) ==
  /\ q.state = "none" => ~Established(q)
  /\ q.state # "none" => t <= started /\ 0 < q.key /\ q.key <= keys
  /\ q.state = "created" => q.weStarted /\ ~Established(q)
  /\ q.state = "started" => ~q.weStarted
  /\ q.state = "accepted" => q.weStarted /\ q.method
  /\ ~q.weStarted => q.commitment = q.key
  /\ Established(q) => q.method /\ (q.weStarted => q.theirs = q.commitment)

\* What it knows of the object q of the other side.
Pair(p, q) ==
  p.state # "none" /\ q.state # "none" =>
    /\ p.weStarted # q.weStarted
    /\ p.weStarted /\ p.method => p.commitment = q.key /\ q.method
    /\ ~p.weStarted /\ Established(p) => p.theirs = q.key

\* Nothing but cancellations is in flight under the id of a start message.
StartFirst(m) ==
  m.type = "start" =>
    /\ ~Has(m.to, m.txn)
    /\ Has(Other(m.to), m.txn) =>
         Sas(Other(m.to), m.txn).weStarted /\ ~Sas(Other(m.to), m.txn).method
    /\ \A n \in Message :
         Sent(n) /\ n.txn = m.txn /\ n.type \in {"start", "accept", "key"} => n = m

AcceptTrue(m) ==
  m.type = "accept" =>
    /\ Has(m.to, m.txn) => Sas(m.to, m.txn).weStarted
    /\ Has(Other(m.to), m.txn) =>
         /\ ~Sas(Other(m.to), m.txn).weStarted /\ Sas(Other(m.to), m.txn).method
         /\ Sas(Other(m.to), m.txn).key = m.commitment

KeyTrue(m) ==
  m.type = "key" =>
    /\ Has(Other(m.to), m.txn) => Sas(Other(m.to), m.txn).key = m.key
    /\ Has(m.to, m.txn) /\ ~Sas(m.to, m.txn).weStarted => Sas(m.to, m.txn).method

Keyed ==
  /\ \A s \in Side, t \in Txn : Anchor(Sas(s, t), t) /\ Pair(Sas(s, t), Sas(Other(s), t))
  /\ \A m \in Message :
       Sent(m) => m.txn <= started /\ StartFirst(m) /\ AcceptTrue(m) /\ KeyTrue(m)

\* q is p after a step that has to do with no key: canceled, checked, older.
Follows(p, q) ==
  /\ q.key = p.key /\ q.weStarted = p.weStarted /\ q.commitment = p.commitment
  /\ q.theirs = p.theirs /\ q.method = p.method
  /\ q.state \in {p.state, "canceled", "mac_received"}
  /\ p.state = "none" => q.state = "none"

LEMMA ObjectType ==
  ASSUME IInv
  PROVE  \A s \in Side, t \in Txn : Sas(s, t) \in SasObject
BY DEF IInv, Objects, Sound

LEMMA ObjectType2 ==
  ASSUME IInv'
  PROVE  \A s \in Side, t \in Txn : Sas(s, t)' \in SasObject
BY DEF IInv, Objects, Sound

LEMMA CancelFollows ==
  ASSUME NEW p \in SasObject, p.state # "none", NEW why
  PROVE  /\ Follows(p, CancelWith(p, why)) /\ Follows(p, CancelSas(p))
         /\ Canceled(CancelWith(p, why)) /\ Canceled(CancelSas(p))
BY DEF Follows, CancelWith, CancelSas, SasObject, Canceled

\* A step that makes and receives no keys.
LEMMA NoKeys ==
  ASSUME IInv, IInv', Keyed,
         \A s \in Side, t \in Txn : Sas(s, t)' = NoSas \/ Follows(Sas(s, t), Sas(s, t)'),
         started' >= started, keys' >= keys,
         \A m \in Message : Sent(m)' =>
           Sent(m) \/ (m.txn <= started' /\ m.type \in {"cancel", "mac"})
  PROVE  Keyed'
<1>1. /\ started \in Nat /\ started' \in Nat /\ keys \in Nat /\ keys' \in Nat
      /\ \A s \in Side, t \in Txn : Sas(s, t) \in SasObject /\ Sas(s, t)' \in SasObject
      /\ Txn \subseteq Nat
  BY ObjectType, ObjectType2, LimitAssumption DEF IInv, Typed, Txn
<1>2. /\ NoSas.state = "none" /\ NoSas.theirs = 0 /\ NoSas.weStarted
  BY DEF NoSas, NewSas
<1>3. ASSUME NEW s \in Side, NEW t \in Txn
      PROVE  Anchor(Sas(s, t), t)'
  <2>1. Anchor(Sas(s, t), t)
    BY DEF Keyed
  <2>2. CASE Sas(s, t)' = NoSas
    BY <1>2, <2>2 DEF Anchor, Established
  <2>3. CASE Follows(Sas(s, t), Sas(s, t)')
    <3>1. Sas(s, t).key \in Nat
      BY <1>1 DEF SasObject
    <3> QED BY <1>1, <2>1, <2>3, <3>1 DEF Anchor, Established, Follows
  <2> QED BY <2>2, <2>3
<1>4. ASSUME NEW s \in Side, NEW t \in Txn
      PROVE  Pair(Sas(s, t), Sas(Other(s), t))'
  <2>1. Other(s) \in Side /\ Pair(Sas(s, t), Sas(Other(s), t))
    BY OtherSide DEF Keyed
  <2> QED BY <1>2, <2>1 DEF Pair, Established, Follows
<1>5. ASSUME NEW m \in Message, Sent(m)'
      PROVE  (m.txn <= started /\ StartFirst(m) /\ AcceptTrue(m) /\ KeyTrue(m))'
  <2>0. m.to \in Side /\ Other(m.to) \in Side /\ m.txn \in Txn /\ m.txn \in Nat
    BY <1>1, MessageFields, OtherSide
  <2>1. CASE ~Sent(m)
    BY <1>5, <2>1 DEF StartFirst, AcceptTrue, KeyTrue
  <2>2. CASE Sent(m)
    <3>1. m.txn <= started /\ StartFirst(m) /\ AcceptTrue(m) /\ KeyTrue(m)
      BY <2>2 DEF Keyed
    <3>2. \A s \in Side, t \in Txn :
             Has(s, t)' => Has(s, t) /\ Sas(s, t)'.key = Sas(s, t).key
                           /\ Sas(s, t)'.weStarted = Sas(s, t).weStarted
                           /\ Sas(s, t)'.method = Sas(s, t).method
      BY <1>2 DEF Has, Follows
    <3>3. \A n \in Message : Sent(n)' /\ n.type \in {"start", "accept", "key"} => Sent(n)
      OBVIOUS
    <3>4. StartFirst(m)'
      BY <2>0, <3>1, <3>2, <3>3 DEF StartFirst
    <3>5. AcceptTrue(m)' /\ KeyTrue(m)'
      BY <2>0, <3>1, <3>2 DEF AcceptTrue, KeyTrue
    <3> QED BY <1>1, <2>0, <3>1, <3>4, <3>5
  <2> QED BY <2>1, <2>2
<1> QED BY <1>3, <1>4, <1>5 DEF Keyed

\* A message in the exchange of s says what its object sas is.
Truthful(n, s, t, sas) ==
  /\ n.txn = t /\ n.to = Other(s) /\ n.type \in {"accept", "key", "cancel"}
  /\ n.type = "accept" => ~sas.weStarted /\ sas.method /\ n.commitment = sas.key
  /\ n.type = "key" => /\ n.key = sas.key
                       /\ Has(Other(s), t) /\ ~Sas(Other(s), t).weStarted
                            => Sas(Other(s), t).method

\* The object of s takes part in the exchange: it becomes sas, and truthful
\* answers are sent.
LEMMA Exchange ==
  ASSUME IInv, IInv', Keyed, NEW s \in Side, NEW t \in Txn, NEW sas \in SasObject,
         SetSas(s, t, sas), Has(s, t), sas.state # "none",
         sas.key = Sas(s, t).key, sas.weStarted = Sas(s, t).weStarted,
         Sas(s, t).method => sas.method,
         Anchor(sas, t), Pair(sas, Sas(Other(s), t)), Pair(Sas(Other(s), t), sas),
         \A m \in Message : Sent(m) /\ m.type = "start" => m.txn # t,
         started' = started, keys' = keys,
         \A m \in Message : Sent(m)' => Sent(m) \/ Truthful(m, s, t, sas)
  PROVE  Keyed'
<1>1. /\ Other(s) \in Side /\ Other(s) # s /\ Other(Other(s)) = s
      /\ \A o \in Side : o = s \/ o = Other(s)
  BY OtherSide
<1>2. \A o \in Side, u \in Txn : Sas(o, u)' = IF o = s /\ u = t THEN sas ELSE Sas(o, u)
  BY DEF IInv, Objects, SetSas, Sas
<1>3. \A o \in Side, u \in Txn :
        /\ Has(o, u)' <=> Has(o, u)
        /\ Sas(o, u)'.key = Sas(o, u).key /\ Sas(o, u)'.weStarted = Sas(o, u).weStarted
        /\ Sas(o, u).method => Sas(o, u)'.method
        /\ u # t => Sas(o, u)' = Sas(o, u)
  BY <1>2 DEF Has
<1>4. ASSUME NEW o \in Side, NEW u \in Txn
      PROVE  Anchor(Sas(o, u), u)' /\ Pair(Sas(o, u), Sas(Other(o), u))'
  <2>1. Anchor(Sas(o, u), u)'
    BY <1>2 DEF Keyed, Anchor
  <2>2. Pair(Sas(o, u), Sas(Other(o), u))'
    <3>1. CASE u # t
      BY <1>2, <3>1, OtherSide DEF Keyed, Pair
    <3>2. CASE u = t
      BY <1>1, <1>2, <3>2 DEF Pair
    <3> QED BY <3>1, <3>2
  <2> QED BY <2>1, <2>2
<1>5. ASSUME NEW m \in Message, Sent(m)'
      PROVE  (m.txn <= started /\ StartFirst(m) /\ AcceptTrue(m) /\ KeyTrue(m))'
  <2>0. m.to \in Side /\ Other(m.to) \in Side /\ m.txn \in Txn
    BY MessageFields, OtherSide
  <2>1. CASE Truthful(m, s, t, sas)
    <3>1. m.txn <= started'
      BY <2>1 DEF Anchor, Truthful
    <3>2. StartFirst(m)'
      BY <2>1 DEF StartFirst, Truthful
    <3>3. AcceptTrue(m)'
      <4>1. ASSUME m.type = "accept"
            PROVE  /\ Has(Other(s), t)' => Sas(Other(s), t)'.weStarted
                   /\ ~Sas(s, t)'.weStarted /\ Sas(s, t)'.method /\ Sas(s, t)'.key = m.commitment
        <5>1. Sas(Other(s), t) \in SasObject
          BY <1>1, ObjectType
        <5> QED BY <1>1, <1>2, <1>3, <2>1, <4>1, <5>1 DEF Pair, Has, SasObject, Truthful
      <4> QED BY <1>1, <2>1, <4>1 DEF AcceptTrue, Truthful
    <3>4. KeyTrue(m)'
      BY <1>1, <1>2, <1>3, <2>1 DEF KeyTrue, Truthful
    <3> QED BY <3>1, <3>2, <3>3, <3>4
  <2>2. CASE Sent(m)
    <3>1. Sent(m) /\ m.txn <= started /\ StartFirst(m) /\ AcceptTrue(m) /\ KeyTrue(m)
      BY <1>5, <2>2 DEF Keyed
    <3>2. StartFirst(m)'
      <4>1. SUFFICES ASSUME m.type = "start" PROVE StartFirst(m)'
        BY DEF StartFirst
      <4>2. m.txn # t
        BY <2>2, <4>1
      <4>3. \A n \in Message : Sent(n)' /\ n.txn = m.txn => Sent(n)
        BY <4>2 DEF Truthful
      <4> QED BY <1>3, <2>0, <3>1, <4>2, <4>3 DEF StartFirst
    <3>3. AcceptTrue(m)' /\ KeyTrue(m)'
      BY <1>3, <2>0, <3>1 DEF AcceptTrue, KeyTrue
    <3> QED BY <3>1, <3>2, <3>3
  <2> QED BY <1>5, <2>1, <2>2
<1> QED BY <1>4, <1>5 DEF Keyed

\* What a start event makes of the objects of its receiver, when it is accepted.
LEMMA StartKeyed ==
  ASSUME IInv, IInv', Keyed, NEW m \in Message, Sent(m), m.type = "start", HandleStart(m.to, m),
         ~Sent(m)', \A n \in Message : Sent(n)' =>
           Sent(n) \/ (n.txn <= started /\ n.type = "cancel"), started' = started
  PROVE  Keyed'
<1> DEFINE s == m.to
           new == FromStart(keys + 1, m.known)
           old == ActiveSas(s)
<1>0. /\ s \in Side /\ Other(s) \in Side /\ Other(s) # s /\ Other(Other(s)) = s
      /\ m.txn \in Txn /\ m.known \in BOOLEAN /\ keys \in Nat
      /\ \A o \in Side : o = s \/ o = Other(s)
  BY MessageFields, OtherSide DEF IInv, Typed
<1>1. CASE UNCHANGED verifications /\ keys' >= keys
  <2>1. \A o \in Side, t \in Txn : Follows(Sas(o, t), Sas(o, t)')
    BY <1>1 DEF Follows, Sas
  <2>2. started' >= started
    BY DEF IInv, Typed
  <2>3. \A n \in Message : Sent(n)' =>
           Sent(n) \/ (n.txn <= started' /\ n.type \in {"cancel", "mac"})
    OBVIOUS
  <2> QED BY <1>1, <2>1, <2>2, <2>3, NoKeys
<1>2. CASE /\ ~Canceled(new) /\ keys' = keys + 1
           /\ verifications' =
                [verifications EXCEPT ![s] =
                   [t \in Txn |-> IF t = m.txn THEN new
                                  ELSE IF t \in old THEN CancelSas(Sas(s, t)) ELSE Sas(s, t)]]
  <2>1. /\ new.state = "started" /\ ~new.weStarted /\ ~new.method /\ new.theirs = 0
        /\ new.key = keys + 1 /\ new.commitment = keys + 1
    BY <1>2 DEF FromStart, NewSas, Canceled, CancelWith
  <2>2. \A o \in Side, t \in Txn :
          Sas(o, t)' = IF o # s THEN Sas(o, t) ELSE IF t = m.txn THEN new
                       ELSE IF t \in old THEN CancelSas(Sas(s, t)) ELSE Sas(s, t)
    BY <1>2 DEF IInv, Objects, Sas
  <2>3. /\ m.txn <= started /\ ~Has(s, m.txn)
        /\ Has(Other(s), m.txn) => Sas(Other(s), m.txn).weStarted /\ ~Sas(Other(s), m.txn).method
        /\ \A n \in Message :
             Sent(n) /\ n.txn = m.txn /\ n.type \in {"start", "accept", "key"} => n = m
    BY DEF Keyed, StartFirst
  <2>4. \A t \in old : Sas(s, t).state # "none"
    BY DEF ActiveSas, Active, Has
  <2>5. ASSUME NEW o \in Side, NEW t \in Txn, o # s \/ t # m.txn
        PROVE  Follows(Sas(o, t), Sas(o, t)')
    <3>1. Sas(o, t) \in SasObject
      BY ObjectType
    <3>2. Sas(o, t)' = Sas(o, t) \/ (Sas(o, t)' = CancelSas(Sas(o, t)) /\ Sas(o, t).state # "none")
      BY <1>0, <2>2, <2>4, <2>5
    <3> QED BY <3>1, <3>2, CancelFollows DEF Follows
  <2>6. ASSUME NEW o \in Side, NEW t \in Txn PROVE Anchor(Sas(o, t), t)'
    <3>1. CASE o = s /\ t = m.txn
      BY <1>0, <1>2, <2>1, <2>2, <2>3, <3>1 DEF Anchor, Established
    <3>2. CASE o # s \/ t # m.txn
      <4>1. Follows(Sas(o, t), Sas(o, t)') /\ Anchor(Sas(o, t), t) /\ Sas(o, t).key \in Nat
        BY <2>5, <3>2, ObjectType DEF Keyed, SasObject
      <4> QED BY <1>0, <1>2, <4>1 DEF Anchor, Established, Follows
    <3> QED BY <3>1, <3>2
  <2>7. ASSUME NEW o \in Side, NEW t \in Txn PROVE Pair(Sas(o, t), Sas(Other(o), t))'
    <3>0. Other(o) \in Side /\ Pair(Sas(o, t), Sas(Other(o), t))
      BY OtherSide DEF Keyed
    <3>1. CASE t # m.txn
      BY <2>5, <3>0, <3>1 DEF Pair, Established, Follows
    <3>2. CASE t = m.txn
      <4>1. Sas(s, t)' = new /\ Sas(Other(s), t)' = Sas(Other(s), t)
        BY <1>0, <2>2, <3>2
      <4>2. Sas(Other(s), t).state # "none" =>
              Sas(Other(s), t).weStarted /\ ~Sas(Other(s), t).method
        BY <2>3, <3>2 DEF Has
      <4>3. Pair(new, Sas(Other(s), t)) /\ Pair(Sas(Other(s), t), new)
        BY <2>1, <4>2 DEF Pair, Established
      <4> QED BY <1>0, <4>1, <4>3
    <3> QED BY <3>1, <3>2
  <2>8. ASSUME NEW n \in Message, Sent(n)'
        PROVE  (n.txn <= started /\ StartFirst(n) /\ AcceptTrue(n) /\ KeyTrue(n))'
    <3>0. n.to \in Side /\ Other(n.to) \in Side /\ n.txn \in Txn
      BY MessageFields, OtherSide
    <3>1. CASE ~Sent(n)
      BY <2>8, <3>1 DEF StartFirst, AcceptTrue, KeyTrue
    <3>2. CASE Sent(n)
      <4>1. n.txn <= started /\ StartFirst(n) /\ AcceptTrue(n) /\ KeyTrue(n) /\ n # m
        BY <2>8, <3>2 DEF Keyed
      <4>2. CASE n.txn = m.txn
        <5>1. n.type \notin {"start", "accept", "key"}
          BY <2>3, <3>2, <4>1, <4>2
        <5> QED BY <4>1, <5>1 DEF StartFirst, AcceptTrue, KeyTrue
      <4>3. CASE n.txn # m.txn
        <5>1. \A o \in Side : /\ Has(o, n.txn)' <=> Has(o, n.txn)
                              /\ Sas(o, n.txn)'.key = Sas(o, n.txn).key
                              /\ Sas(o, n.txn)'.weStarted = Sas(o, n.txn).weStarted
                              /\ Sas(o, n.txn)'.method = Sas(o, n.txn).method
          <6>1. \A o \in Side : Follows(Sas(o, n.txn), Sas(o, n.txn)')
            BY <2>5, <3>0, <4>3
          <6>2. \A o \in Side : Has(o, n.txn)' <=> Has(o, n.txn)
            BY <6>1 DEF Has, Follows
          <6> QED BY <6>1, <6>2 DEF Follows
        <5>2. StartFirst(n)'
          BY <3>0, <4>1, <5>1 DEF StartFirst
        <5>3. AcceptTrue(n)' /\ KeyTrue(n)'
          BY <3>0, <4>1, <5>1 DEF AcceptTrue, KeyTrue
        <5> QED BY <4>1, <5>2, <5>3
      <4> QED BY <4>2, <4>3
    <3> QED BY <3>1, <3>2
  <2> QED BY <2>6, <2>7, <2>8 DEF Keyed
<1> QED BY <1>0, <1>1, <1>2 DEF HandleStart

-----------------------------------------------------------------------------
(* The actions.                                                            *)

LEMMA StayFollows ==
  ASSUME UNCHANGED verifications
  PROVE  \A s \in Side, t \in Txn : Follows(Sas(s, t), Sas(s, t)')
BY DEF Follows, Sas

\* One object is replaced by one that follows it, or removed.
LEMMA SetFollows ==
  ASSUME IInv, NEW s \in Side, NEW t \in Txn, NEW sas, SetSas(s, t, sas),
         sas = NoSas \/ Follows(Sas(s, t), sas)
  PROVE  \A o \in Side, u \in Txn : Sas(o, u)' = NoSas \/ Follows(Sas(o, u), Sas(o, u)')
<1>1. \A o \in Side, u \in Txn : Sas(o, u)' = IF o = s /\ u = t THEN sas ELSE Sas(o, u)
  BY DEF IInv, Objects, SetSas, Sas
<1> QED BY <1>1 DEF Follows

\* Numbers that a step leaves alone do not get smaller.
LEMMA NumbersKept ==
  ASSUME IInv
  PROVE  /\ started' = started => started' >= started
         /\ keys' = keys => keys' >= keys
BY DEF IInv, Typed

LEMMA QueueSent ==
  ASSUME IInv, NEW s \in Side, NEW M \in SUBSET Message, Queue(s, M), net' \subseteq net
  PROVE  \A m \in Message : Sent(m)' => Sent(m) \/ m \in M
<1>1. \A o \in Side : outgoing'[o] = IF o = s THEN outgoing[o] \cup M ELSE outgoing[o]
  BY DEF Queue, IInv, Typed
<1> QED BY <1>1 DEF Sent

LEMMA SendSent ==
  ASSUME NEW n, Send(n), UNCHANGED outgoing
  PROVE  \A m \in Message : Sent(m)' => Sent(m) \/ m = n
BY DEF Send, Sent

LEMMA UserKeyed ==
  ASSUME IInv, IInv', Keyed, NEW s \in Side, UserStep(s)
  PROVE  Keyed'
<1>0. /\ Other(s) \in Side /\ Other(s) # s /\ Other(Other(s)) = s /\ started \in Nat /\ keys \in Nat
      /\ \A o \in Side : o = s \/ o = Other(s)
  BY OtherSide DEF IInv, Typed
<1>1. CASE StartVerification(s)
  <2> DEFINE new == NewSas(keys')
  <2>1. /\ started' = started + 1 /\ started' \in Txn /\ keys' = keys + 1 /\ keys' \in Nat
        /\ started' \in Nat
    BY <1>0, <1>1, LimitAssumption DEF StartVerification, Txn
  <2>2. PICK k \in Known :
          Send([type |-> "start", to |-> Other(s), txn |-> started', known |-> k])
    BY <1>1 DEF StartVerification
  <2>3. PICK m \in Message : /\ m.type = "start" /\ m.txn = started' /\ m.to = Other(s)
                             /\ Send(m)
    <3>1. [type |-> "start", to |-> Other(s), txn |-> started', known |-> k] \in Message
      BY <1>0, <2>1, LimitAssumption DEF Message
    <3> QED BY <2>2, <3>1
  <2>4. \A n \in Message : Sent(n)' => Sent(n) \/ n = m
    BY <1>1, <2>3, SendSent DEF StartVerification
  <2>5. /\ new.state = "created" /\ new.weStarted /\ ~new.method /\ new.theirs = 0
        /\ new.key = keys'
    BY DEF NewSas
  <2>6. \A o \in Side, t \in Txn : Sas(o, t)' = IF o = s /\ t = started' THEN new ELSE Sas(o, t)
    BY <1>1, <2>1 DEF StartVerification, SetSas, IInv, Objects, Sas
  \* The transaction id is new: there is no object and no message with it.
  <2>7. /\ \A o \in Side : ~Has(o, started')
        /\ \A n \in Message : Sent(n) => n.txn # started' /\ n.txn <= started /\ n.txn \in Nat
    <3>1. Txn \subseteq Nat
      BY LimitAssumption DEF Txn
    <3>2. \A n \in Message : n.txn \in Nat
      BY <3>1, MessageFields
    <3> QED BY <1>0, <2>1, <3>2 DEF Keyed, Anchor, Has
  <2>8. ASSUME NEW o \in Side, NEW t \in Txn PROVE Anchor(Sas(o, t), t)'
    <3>1. t \in Nat /\ Sas(o, t).key \in Nat /\ Anchor(Sas(o, t), t)
      BY LimitAssumption, ObjectType DEF Txn, Keyed, SasObject
    <3>2. CASE o = s /\ t = started'
      BY <1>0, <2>1, <2>5, <2>6, <3>2 DEF Anchor, Established
    <3>3. CASE ~(o = s /\ t = started')
      BY <1>0, <2>1, <2>6, <3>1, <3>3 DEF Anchor, Established
    <3> QED BY <3>2, <3>3
  <2>9. ASSUME NEW o \in Side, NEW t \in Txn PROVE Pair(Sas(o, t), Sas(Other(o), t))'
    <3>1. Other(o) \in Side /\ Other(o) # o /\ Pair(Sas(o, t), Sas(Other(o), t))
      BY OtherSide DEF Keyed
    <3>2. CASE t # started'
      BY <2>6, <3>1, <3>2
    <3>3. CASE t = started'
      <4>1. ~Has(o, t)' \/ ~Has(Other(o), t)'
        BY <2>6, <2>7, <3>1, <3>3 DEF Has
      <4> QED BY <4>1 DEF Pair, Has
    <3> QED BY <3>2, <3>3
  <2>10. ASSUME NEW n \in Message, Sent(n)'
         PROVE  (n.txn <= started /\ StartFirst(n) /\ AcceptTrue(n) /\ KeyTrue(n))'
    <3>0. n.to \in Side /\ Other(n.to) \in Side /\ n.txn \in Txn
      BY MessageFields, OtherSide
    <3>1. CASE n = m
      <4>1. StartFirst(m)'
        BY <1>0, <2>1, <2>3, <2>4, <2>5, <2>6, <2>7 DEF StartFirst, Has
      <4> QED BY <2>1, <2>3, <3>1, <4>1 DEF AcceptTrue, KeyTrue
    <3>2. CASE n # m
      <4>1. Sent(n) /\ n.txn # started' /\ n.txn <= started /\ n.txn \in Nat
        BY <2>4, <2>7, <2>10, <3>2
      <4>2. StartFirst(n) /\ AcceptTrue(n) /\ KeyTrue(n)
        BY <4>1 DEF Keyed
      <4>3. \A o \in Side : Sas(o, n.txn)' = Sas(o, n.txn) /\ (Has(o, n.txn)' <=> Has(o, n.txn))
        BY <2>6, <3>0, <4>1 DEF Has
      <4>4. StartFirst(n)'
        BY <2>3, <2>4, <3>0, <4>1, <4>2, <4>3 DEF StartFirst
      <4>5. AcceptTrue(n)' /\ KeyTrue(n)'
        BY <3>0, <4>2, <4>3 DEF AcceptTrue, KeyTrue
      <4> QED BY <1>0, <2>1, <4>1, <4>4, <4>5
    <3> QED BY <3>1, <3>2
  <2> QED BY <2>8, <2>9, <2>10 DEF Keyed
<1>2. ASSUME NEW t \in Txn, AcceptKeyVerification(s, t) PROVE Keyed'
  <2> DEFINE p == Sas(s, t)
             q == Sas(Other(s), t)
             sas == AcceptVerification(p)
  <2>0. p \in SasObject /\ q \in SasObject /\ p.state # "none" /\ ~p.weStarted
    BY <1>0, <1>2, ObjectType DEF AcceptKeyVerification, CanAccept, Has
  <2>1. /\ sas \in SasObject /\ sas.key = p.key /\ sas.weStarted = p.weStarted /\ sas.method
        /\ sas.state = p.state /\ sas.theirs = p.theirs /\ sas.commitment = p.commitment
    BY <2>0 DEF AcceptVerification, SasObject
  <2>2. PICK k \in Known :
          Send([type |-> "accept", to |-> Other(s), txn |-> t, known |-> k,
                commitment |-> sas.commitment])
    BY <1>2 DEF AcceptKeyVerification
  <2> DEFINE m == [type |-> "accept", to |-> Other(s), txn |-> t, known |-> k,
                   commitment |-> sas.commitment]
  <2>3. /\ m \in Message /\ m.type = "accept" /\ m.txn = t /\ m.to = Other(s)
        /\ m.commitment = sas.commitment
    <3>1. sas.commitment \in Nat /\ k \in BOOLEAN
      BY <2>1, LimitAssumption DEF SasObject
    <3> QED BY <1>0, <3>1 DEF Message
  <2> HIDE DEF m
  <2>4. \A n \in Message : Sent(n)' => Sent(n) \/ n = m
    BY <1>2, <2>2, SendSent DEF AcceptKeyVerification, m
  <2>5. Anchor(p, t) /\ Pair(p, q) /\ Pair(q, p)
    BY <1>0 DEF Keyed
  <2>6. Anchor(sas, t) /\ Pair(sas, q) /\ Pair(q, sas) /\ sas.commitment = sas.key
    BY <2>0, <2>1, <2>5 DEF Anchor, Pair, Established
  <2>7. \A n \in Message : Sent(n) /\ n.type = "start" => n.txn # t
    <3>1. SUFFICES ASSUME NEW n \in Message, Sent(n), n.type = "start", n.txn = t PROVE FALSE
      OBVIOUS
    <3>2. n.to \in Side /\ StartFirst(n)
      BY <3>1, MessageFields DEF Keyed
    <3> QED BY <1>0, <1>2, <2>0, <3>1, <3>2 DEF StartFirst, AcceptKeyVerification
  <2>8. SetSas(s, t, sas) /\ Has(s, t) /\ started' = started /\ keys' = keys
    BY <1>2 DEF AcceptKeyVerification
  <2>9. \A n \in Message : Sent(n)' => Sent(n) \/ Truthful(n, s, t, sas)
    BY <2>0, <2>1, <2>3, <2>4, <2>6 DEF Truthful
  <2> HIDE DEF sas
  <2> QED BY <2>0, <2>1, <2>6, <2>7, <2>8, <2>9, Exchange
<1>3. ASSUME NEW t \in Txn, ConfirmShortAuthString(s, t) PROVE Keyed'
  <2>1. SetSas(s, t, AcceptSas(Sas(s, t))) /\ started' = started /\ keys' = keys
    BY <1>3 DEF ConfirmShortAuthString
  <2>2. Follows(Sas(s, t), AcceptSas(Sas(s, t)))
    BY ObjectType DEF Follows, AcceptSas, SasObject
  <2>3. \A m \in Message : Sent(m)' =>
           Sent(m) \/ (m.txn <= started' /\ m.type \in {"cancel", "mac"})
    <3>1. t <= started'
      BY <1>3, <2>1 DEF ConfirmShortAuthString, Has, Keyed, Anchor
    <3>2. CASE UNCHANGED <<net, outgoing>>
      BY <3>2 DEF Sent
    <3>3. CASE \E n : n.txn = t /\ n.type = "mac" /\ Send(n) /\ UNCHANGED outgoing
      BY <3>1, <3>3, SendSent
    <3> QED BY <1>3, <3>2, <3>3 DEF ConfirmShortAuthString
  <2> QED BY <2>1, <2>2, <2>3, SetFollows, NumbersKept, NoKeys
<1>4. ASSUME NEW t \in Txn, CancelKeyVerification(s, t) PROVE Keyed'
  <2>1. PICK sas \in {CancelSas(Sas(s, t)), RejectSas(Sas(s, t))} : SetSas(s, t, sas)
    BY <1>4 DEF CancelKeyVerification
  <2>2. Follows(Sas(s, t), sas)
    BY <1>4, ObjectType, CancelFollows DEF CancelKeyVerification, Has, RejectSas
  <2>3. started' = started /\ keys' = keys
    BY <1>4 DEF CancelKeyVerification
  <2>4. \A m \in Message : Sent(m)' =>
           Sent(m) \/ (m.txn <= started' /\ m.type \in {"cancel", "mac"})
    <3>1. t <= started'
      BY <1>4, <2>3 DEF CancelKeyVerification, Has, Keyed, Anchor
    <3> QED BY <1>4, <3>1, SendSent DEF CancelKeyVerification, Cancellation
  <2> QED BY <2>1, <2>2, <2>3, <2>4, SetFollows, NumbersKept, NoKeys
<1> QED BY <1>1, <1>2, <1>3, <1>4 DEF UserStep

\* An event whose handling makes no key and answers with cancellations alone.
LEMMA QuietKeyed ==
  ASSUME IInv, IInv', Keyed, NEW s \in Side,
         \A o \in Side, u \in Txn : Sas(o, u)' = NoSas \/ Follows(Sas(o, u), Sas(o, u)'),
         NEW M \in SUBSET Message, Queue(s, M), net' \subseteq net,
         \A m \in M : m.txn <= started /\ m.type = "cancel",
         started' = started, keys' = keys
  PROVE  Keyed'
<1>1. \A m \in Message : Sent(m)' =>
         Sent(m) \/ (m.txn <= started' /\ m.type \in {"cancel", "mac"})
  BY QueueSent
<1> QED BY <1>1, NumbersKept, NoKeys

\* The cancellation of an object is of a transaction that was started.
LEMMA CancelTo ==
  ASSUME IInv, NEW s \in Side, NEW t \in Txn, Has(s, t), Keyed
  PROVE  /\ Cancellation(s, t) \in Message /\ Cancellation(s, t).txn <= started
         /\ Cancellation(s, t).type = "cancel"
BY ObjectType, AnswerType DEF Keyed, Anchor, Has, Cancellation

LEMMA AcceptKeyed ==
  ASSUME IInv, IInv', Keyed, NEW m \in net, m.type = "accept", HandleAccept(m.to, m),
         net' \subseteq net, started' = started
  PROVE  Keyed'
<1> DEFINE s == m.to
           t == m.txn
           p == Sas(s, t)
           q == Sas(Other(s), t)
           sas == ReceiveAccept(p, m.known, m.commitment)
<1>1. /\ m \in Message /\ s \in Side /\ t \in Txn /\ Other(s) \in Side /\ Other(Other(s)) = s
      /\ p \in SasObject /\ q \in SasObject /\ sas \in SasObject /\ Has(s, t) /\ p.state # "none"
      /\ m.known \in BOOLEAN
  <2>1. m \in Message
    BY DEF IInv, Typed
  <2>2. /\ s \in Side /\ t \in Txn /\ m.known \in BOOLEAN /\ m.commitment \in Nat
        /\ Other(s) \in Side /\ Other(Other(s)) = s
    BY <2>1, MessageFields, OtherSide
  <2>3. Sound(s, sas)
    BY <2>2, AcceptanceSound DEF IInv, Objects
  <2> QED BY <2>1, <2>2, <2>3, ObjectType DEF Sound, HandleAccept, Has
<1>2. /\ SetSas(s, t, sas) /\ keys' = keys
      /\ Queue(s, {IF Canceled(sas) THEN Cancellation(s, t) ELSE KeyMessage(s, t, sas)})
  BY DEF HandleAccept
<1>3. CASE Canceled(sas)
  <2>1. sas = p \/ \E why : sas = CancelWith(p, why)
    BY <1>1, <1>3 DEF ReceiveAccept, Canceled
  <2>2. Follows(p, sas)
    BY <1>1, <2>1, CancelFollows DEF Follows
  <2>3. \A o \in Side, u \in Txn : Sas(o, u)' = NoSas \/ Follows(Sas(o, u), Sas(o, u)')
    BY <1>1, <1>2, <2>2, SetFollows
  <2> QED BY <1>1, <1>2, <1>3, <2>3, CancelTo, QuietKeyed
<1>4. CASE ~Canceled(sas)
  <2>1. /\ p.state = "created"
        /\ sas = [p EXCEPT !.commitment = m.commitment, !.method = TRUE, !.state = "accepted"]
    BY <1>1, <1>4 DEF ReceiveAccept, Canceled, CancelWith, SasObject
  <2>2. /\ sas.state = "accepted" /\ sas.key = p.key /\ sas.weStarted = p.weStarted /\ sas.method
        /\ sas.theirs = p.theirs /\ sas.commitment = m.commitment
    BY <1>1, <2>1 DEF SasObject
  <2>3. /\ Anchor(p, t) /\ Pair(p, q) /\ Pair(q, p) /\ AcceptTrue(m) /\ Sent(m)
    BY <1>1 DEF Keyed, Sent
  <2>4. p.weStarted /\ ~Established(p)
    <3>1. p.weStarted
      BY <2>1, <2>3 DEF Anchor
    <3>2. ~Established(p)
      BY <2>1, <2>3 DEF Anchor
    <3> QED BY <3>1, <3>2
  <2>5. Anchor(sas, t)
    BY <1>1, <2>2, <2>3, <2>4 DEF Anchor, Established
  <2>6. q.state # "none" => ~q.weStarted /\ q.method /\ q.key = m.commitment
    BY <1>1, <2>3 DEF AcceptTrue, Has
  <2>7. Pair(sas, q) /\ Pair(q, sas)
    BY <2>2, <2>3, <2>4, <2>6, <1>1 DEF Pair, Established
  <2>8. \A n \in Message : Sent(n) /\ n.type = "start" => n.txn # t
    BY <1>1, <2>3 DEF Keyed, StartFirst
  <2>9. \A n \in Message : Sent(n)' => Sent(n) \/ Truthful(n, s, t, sas)
    <3>1. KeyMessage(s, t, sas) \in Message /\ Truthful(KeyMessage(s, t, sas), s, t, sas)
      BY <1>1, <2>6, AnswerType DEF Truthful, KeyMessage, Has
    <3>2. Queue(s, {KeyMessage(s, t, sas)})
      BY <1>2, <1>4
    <3> QED BY <1>1, <3>1, <3>2, QueueSent
  <2> HIDE DEF sas
  <2> QED BY <1>1, <1>2, <2>2, <2>5, <2>7, <2>8, <2>9, Exchange
<1> QED BY <1>3, <1>4

LEMMA KeyKeyed ==
  ASSUME IInv, IInv', Keyed, NEW m \in net, m.type = "key", HandleKey(m.to, m),
         net' \subseteq net, started' = started
  PROVE  Keyed'
<1> DEFINE s == m.to
           t == m.txn
           p == Sas(s, t)
           q == Sas(Other(s), t)
           sas == ReceiveKey(p, m.key)
<1>1. /\ m \in Message /\ s \in Side /\ t \in Txn /\ Other(s) \in Side /\ Other(Other(s)) = s
      /\ p \in SasObject /\ q \in SasObject /\ sas \in SasObject /\ Has(s, t) /\ p.state # "none"
  <2>1. m \in Message
    BY DEF IInv, Typed
  <2>2. /\ s \in Side /\ t \in Txn /\ m.key \in Nat /\ Other(s) \in Side /\ Other(Other(s)) = s
    BY <2>1, MessageFields, OtherSide
  <2>3. Sound(s, sas)
    BY <2>2, KeySound DEF IInv, Objects
  <2> QED BY <2>1, <2>2, <2>3, ObjectType DEF Sound, HandleKey, Has
<1>2. /\ SetSas(s, t, sas) /\ keys' = keys
      /\ Queue(s, IF Canceled(sas) THEN {Cancellation(s, t)}
                  ELSE IF sas.weStarted THEN {} ELSE {KeyMessage(s, t, sas)})
  BY DEF HandleKey
<1>3. CASE Canceled(sas)
  <2>1. \E why : sas = CancelWith(p, why)
    BY <1>1, <1>3 DEF ReceiveKey, Canceled, SasObject
  <2>2. Follows(p, sas)
    BY <1>1, <2>1, CancelFollows
  <2>3. \A o \in Side, u \in Txn : Sas(o, u)' = NoSas \/ Follows(Sas(o, u), Sas(o, u)')
    BY <1>1, <1>2, <2>2, SetFollows
  <2> QED BY <1>1, <1>2, <1>3, <2>3, CancelTo, QuietKeyed
<1>4. CASE ~Canceled(sas)
  <2>1. /\ p.state \in {"started", "accepted"} /\ ~Established(p)
        /\ p.weStarted => p.commitment = m.key
        /\ sas = [p EXCEPT !.theirs = m.key, !.state = "key_received"]
    BY <1>1, <1>4 DEF ReceiveKey, Canceled, CancelWith, SasObject
  <2>2. /\ sas.state = "key_received" /\ sas.key = p.key /\ sas.weStarted = p.weStarted
        /\ sas.method = p.method /\ sas.theirs = m.key /\ sas.commitment = p.commitment
    BY <1>1, <2>1 DEF SasObject
  <2>3. /\ Anchor(p, t) /\ Pair(p, q) /\ Pair(q, p) /\ KeyTrue(m) /\ Sent(m)
    BY <1>1 DEF Keyed, Sent
  <2>4. sas.method
    BY <1>1, <2>1, <2>2, <2>3 DEF Anchor, KeyTrue
  <2>5. Anchor(sas, t)
    BY <1>1, <2>1, <2>2, <2>3, <2>4 DEF Anchor, Established
  <2>6. q.state # "none" => q.key = m.key
    BY <1>1, <2>3 DEF KeyTrue, Has
  <2>7. Pair(sas, q) /\ Pair(q, sas)
    BY <1>1, <2>1, <2>2, <2>3, <2>4, <2>6 DEF Pair, Established
  <2>8. \A n \in Message : Sent(n) /\ n.type = "start" => n.txn # t
    BY <1>1, <2>3 DEF Keyed, StartFirst
  <2>9. \A n \in Message : Sent(n)' => Sent(n) \/ Truthful(n, s, t, sas)
    <3>1. CASE sas.weStarted
      BY <1>1, <1>2, <1>4, <3>1, QueueSent
    <3>2. CASE ~sas.weStarted
      <4>1. q.state # "none" => q.weStarted
        BY <1>1, <2>2, <2>3, <3>2 DEF Pair, SasObject
      <4>2. KeyMessage(s, t, sas) \in Message /\ Truthful(KeyMessage(s, t, sas), s, t, sas)
        BY <1>1, <4>1, AnswerType DEF Truthful, KeyMessage, Has
      <4>3. Queue(s, {KeyMessage(s, t, sas)})
        BY <1>2, <1>4, <3>2
      <4> QED BY <1>1, <4>2, <4>3, QueueSent
    <3> QED BY <3>1, <3>2
  <2> HIDE DEF sas
  <2> QED BY <1>1, <1>2, <2>2, <2>4, <2>5, <2>7, <2>8, <2>9, Exchange
<1> QED BY <1>3, <1>4

LEMMA DeliverKeyed ==
  ASSUME IInv, IInv', Keyed, NEW m \in net, Deliver(m)
  PROVE  Keyed'
<1> DEFINE s == m.to
           t == m.txn
<1>1. /\ m \in Message /\ s \in Side /\ t \in Txn /\ Sent(m)
      /\ net' = net \ {m} /\ net' \subseteq net /\ started' = started
  <2>1. m \in Message
    BY DEF IInv, Typed
  <2> QED BY <2>1, MessageFields DEF Deliver, Sent
<1>2. CASE m.type = "start" /\ HandleStart(s, m)
  <2>1. CASE UNCHANGED <<verifications, outgoing, keys>>
    BY <1>1, <2>1, StayFollows, NumbersKept, NoKeys DEF Sent
  <2>2. CASE \E M \in SUBSET Message :
               Queue(s, M) /\ \A n \in M : n.txn <= started /\ n.type = "cancel"
    <3>1. PICK M \in SUBSET Message :
            Queue(s, M) /\ \A n \in M : n.txn <= started /\ n.type = "cancel"
      BY <2>2
    <3>2. \A n \in Message : Sent(n)' => Sent(n) \/ (n.txn <= started /\ n.type = "cancel")
      BY <1>1, <3>1, QueueSent
    <3>3. ~Sent(m)'
      <4>1. \A o \in Side : outgoing'[o] \subseteq outgoing[o] \cup M
        BY <1>1, <3>1 DEF Queue, IInv, Typed
      <4>2. \A o \in Side : m \notin outgoing[o]
        BY <1>2 DEF IInv, Messages, Queueable
      <4> QED BY <1>1, <1>2, <3>1, <4>1, <4>2 DEF Sent
    <3> QED BY <1>1, <1>2, <3>2, <3>3, StartKeyed
  <2>3. CASE Queue(s, {Cancellation(s, t)})
    <3>1. \A n \in {Cancellation(s, t)} : n \in Message /\ n.txn <= started /\ n.type = "cancel"
      BY <1>1, <1>2, ObjectType, AnswerType DEF Keyed, Cancellation
    <3> QED BY <2>2, <2>3, <3>1
  <2>4. CASE Queue(s, {Cancellation(s, u) : u \in ActiveSas(s)})
    <3>1. \A n \in {Cancellation(s, u) : u \in ActiveSas(s)} :
             n \in Message /\ n.txn <= started /\ n.type = "cancel"
      BY <1>1, CancelTo DEF ActiveSas, Active
    <3> QED BY <2>2, <2>4, <3>1
  <2> QED BY <1>2, <2>1, <2>3, <2>4 DEF HandleStart
<1>3. CASE m.type = "accept" /\ HandleAccept(s, m)
  BY <1>1, <1>3, AcceptKeyed
<1>4. CASE m.type = "key" /\ HandleKey(s, m)
  BY <1>1, <1>4, KeyKeyed
<1>5. CASE m.type = "mac" /\ HandleMac(s, m)
  <2> DEFINE p == Sas(s, t)
             sas == ReceiveMac(p, m.secret, m.keys)
  <2>0. Has(s, t) /\ p.state # "none" /\ p \in SasObject /\ keys' = keys
    BY <1>1, <1>5, ObjectType DEF HandleMac, Has
  <2>1. CASE UNCHANGED <<verifications, outgoing>>
    BY <1>1, <2>0, <2>1, StayFollows, NumbersKept, NoKeys DEF Sent
  <2>2. CASE SetSas(s, t, sas) /\ Queue(s, IF Canceled(sas) THEN {Cancellation(s, t)} ELSE {})
    <3>1. \/ sas = p \/ \E why : sas = CancelWith(p, why)
          \/ \E found, c : sas = [p EXCEPT !.verifiedDevice = found, !.state = "mac_received",
                                           !.code = c]
      BY DEF ReceiveMac, Verified, Canceled
    <3>2. Follows(p, sas)
      <4>1. \A found, c :
              Follows(p, [p EXCEPT !.verifiedDevice = found, !.state = "mac_received", !.code = c])
        BY <2>0 DEF Follows, SasObject
      <4>2. Follows(p, p) /\ \A why : Follows(p, CancelWith(p, why))
        BY <2>0, CancelFollows DEF Follows
      <4>3. CASE \E found, c : sas = [p EXCEPT !.verifiedDevice = found, !.state = "mac_received",
                                              !.code = c]
        <5>1. PICK found, c : sas = [p EXCEPT !.verifiedDevice = found, !.state = "mac_received",
                                              !.code = c]
          BY <4>3
        <5>2. Follows(p, [p EXCEPT !.verifiedDevice = found, !.state = "mac_received", !.code = c])
          BY <4>1
        <5> HIDE DEF p, sas
        <5> QED BY Zenon, <5>1, <5>2
      <4>4. CASE sas = p \/ \E why : sas = CancelWith(p, why)
        BY <4>2, <4>4
      <4> QED BY Zenon, <3>1, <4>3, <4>4
    <3>3. \A o \in Side, u \in Txn : Sas(o, u)' = NoSas \/ Follows(Sas(o, u), Sas(o, u)')
      BY <1>1, <2>2, <3>2, SetFollows
    <3> QED BY <1>1, <2>0, <2>2, <3>3, CancelTo, QuietKeyed
  <2> QED BY <1>5, <2>1, <2>2 DEF HandleMac
<1>6. CASE m.type = "cancel" /\ HandleCancel(s, m)
  <2>1. \A o \in Side, u \in Txn : Sas(o, u)' = NoSas \/ Follows(Sas(o, u), Sas(o, u)')
    BY <1>1, <1>6, SetFollows DEF HandleCancel
  <2> QED BY <1>1, <1>6, <2>1, NumbersKept, NoKeys DEF HandleCancel, Sent
<1>7. CASE UNCHANGED <<verifications, outgoing, keys, verified>>
  BY <1>1, <1>7, StayFollows, NumbersKept, NoKeys DEF Sent
<1> QED BY <1>2, <1>3, <1>4, <1>5, <1>6, <1>7 DEF Deliver

LEMMA SyncKeyed ==
  ASSUME IInv, IInv', Keyed, NEW s \in Side, SyncStep(s)
  PROVE  Keyed'
<1>1. ASSUME NEW m \in outgoing[s], SendQueued(s, m) PROVE Keyed'
  <2>1. \A n \in Message : Sent(n)' => Sent(n)
    BY <1>1 DEF SendQueued, Sent, IInv, Typed
  <2> QED BY <1>1, <2>1, StayFollows, NumbersKept, NoKeys DEF SendQueued
<1>2. CASE DeviceQueried(s)
  BY <1>2, StayFollows, NumbersKept, NoKeys DEF DeviceQueried, Sent
<1> QED BY <1>1, <1>2 DEF SyncStep

LEMMA HandlingKeyed ==
  ASSUME IInv, IInv', Keyed, NEW s \in Side, NewToken(s) \/ ClearVerifications(s)
  PROVE  Keyed'
<1>1. CASE NewToken(s)
  BY <1>1, StayFollows, NumbersKept, NoKeys DEF NewToken, Sent
<1>2. CASE ClearVerifications(s)
  <2>1. \A o \in Side, u \in Txn : Sas(o, u)' = NoSas \/ Follows(Sas(o, u), Sas(o, u)')
    <3>1. PICK gone \in SUBSET Txn :
            verifications' = [verifications EXCEPT ![s] =
                                [t \in Txn |-> IF t \in gone THEN NoSas ELSE Sas(s, t)]]
      BY <1>2 DEF ClearVerifications
    <3>2. \A o \in Side, t \in Txn : Sas(o, t)' = IF o = s /\ t \in gone THEN NoSas ELSE Sas(o, t)
      BY <3>1 DEF IInv, Objects, Sas
    <3> QED BY <3>2 DEF Follows
  <2>2. PICK late \in SUBSET {t \in Txn : Has(s, t)} : Queue(s, {Cancellation(s, t) : t \in late})
    BY <1>2 DEF ClearVerifications
  <2>3. \A n \in {Cancellation(s, t) : t \in late} :
           n \in Message /\ n.txn <= started /\ n.type = "cancel"
    BY <2>2, CancelTo
  <2> QED BY <1>2, <2>1, <2>2, <2>3, QuietKeyed DEF ClearVerifications
<1> QED BY <1>1, <1>2

LEMMA TickKeyed ==
  ASSUME IInv, IInv', Keyed, Tick
  PROVE  Keyed'
<1>1. \A s \in Side, t \in Txn : Sas(s, t)' = NoSas \/ Follows(Sas(s, t), Sas(s, t)')
  <2>1. \A s \in Side, t \in Txn : \A n : Follows(Sas(s, t), [Sas(s, t) EXCEPT !.age = n])
    BY ObjectType DEF Follows, SasObject
  <2> QED BY <2>1 DEF Tick, Sas
<1> QED BY <1>1, NumbersKept, NoKeys DEF Tick, Sent

THEOREM KeysInvariant == Spec => []Keyed
<1>1. Init => Keyed
  <2> SUFFICES ASSUME Init PROVE Keyed
    OBVIOUS
  <2>1. \A s \in Side, t \in Txn : Sas(s, t) = NoSas /\ Other(s) \in Side
    BY OtherSide DEF Init, Sas
  <2>2. NoSas.state = "none" /\ NoSas.theirs = 0 /\ NoSas.weStarted
    BY DEF NoSas, NewSas
  <2>3. \A m \in Message : ~Sent(m)
    BY DEF Init, Sent
  <2> QED BY <2>1, <2>2, <2>3 DEF Keyed, Anchor, Pair, Established
<1>2. IInv /\ IInv' /\ Keyed /\ [Next]_vars => Keyed'
  <2> SUFFICES ASSUME IInv, IInv', Keyed, [Next]_vars PROVE Keyed'
    OBVIOUS
  <2>1. CASE UNCHANGED vars
    BY <2>1, StayFollows, NumbersKept, NoKeys DEF vars, Sent
  <2> QED BY <2>1, UserKeyed, SyncKeyed, HandlingKeyed, DeliverKeyed, TickKeyed
      DEF Next, Timeless
<1> QED BY <1>1, <1>2, Invariant, PTL DEF Spec

LEMMA Agreement == IInv /\ Keyed => KeyAgreement
<1> SUFFICES ASSUME IInv, Keyed, NEW s \in Side, NEW o \in Side, NEW t \in Txn,
                    Established(Sas(s, t)), Established(Sas(o, t))
             PROVE  Secret(Sas(s, t)) = Secret(Sas(o, t)) /\ Sas(s, t).method /\ Sas(o, t).method
  BY DEF KeyAgreement
<1>1. /\ Anchor(Sas(s, t), t) /\ Anchor(Sas(o, t), t)
      /\ Pair(Sas(s, t), Sas(Other(s), t)) /\ Pair(Sas(o, t), Sas(Other(o), t))
      /\ Sas(s, t).weStarted \in BOOLEAN /\ Sas(o, t).weStarted \in BOOLEAN
  BY ObjectType DEF Keyed, SasObject
<1>2. s = o \/ (Other(s) = o /\ Other(o) = s)
  BY OtherSide
<1> QED BY <1>1, <1>2 DEF Anchor, Pair, Secret

\* Two objects of one verification that have exchanged keys show the same emoji
\* and have a MAC method, whatever overtook, repeated or was lost on the way.
THEOREM KeysAgree == Spec => []KeyAgreement
BY Agreement, Invariant, KeysInvariant, PTL

-----------------------------------------------------------------------------
(* Cancellation is final: no operation of a canceled object sets another   *)
(* state, and an object that takes its place has a new key.                *)

\* What becomes of the object p in one step.
Final(p, q) == Canceled(p) => Canceled(q) \/ q = NoSas \/ q.key > keys

LEMMA SetFinal ==
  ASSUME IInv, NEW s \in Side, NEW t \in Txn, NEW sas, SetSas(s, t, sas), Final(Sas(s, t), sas)
  PROVE  \A o \in Side, u \in Txn : Final(Sas(o, u), Sas(o, u)')
<1>1. \A o \in Side, u \in Txn : Sas(o, u)' = IF o = s /\ u = t THEN sas ELSE Sas(o, u)
  BY DEF IInv, Objects, SetSas, Sas
<1> QED BY <1>1 DEF Final

LEMMA StayFinal ==
  ASSUME UNCHANGED verifications
  PROVE  \A s \in Side, t \in Txn : Final(Sas(s, t), Sas(s, t)')
BY DEF Final, Sas

LEMMA CancelIsCanceled ==
  \A p \in SasObject : \A why : Canceled(CancelWith(p, why)) /\ CancelWith(p, why).key = p.key
BY DEF CancelWith, Canceled, SasObject

LEMMA HandlersFinal ==
  ASSUME NEW p \in SasObject, Canceled(p)
  PROVE  /\ \A known, c : Canceled(ReceiveAccept(p, known, c))
         /\ \A k : Canceled(ReceiveKey(p, k))
         /\ \A x, K : Canceled(ReceiveMac(p, x, K))
<1>1. \A known, c : Canceled(ReceiveAccept(p, known, c))
  BY DEF ReceiveAccept, Canceled
<1>2. \A k : Canceled(ReceiveKey(p, k))
  BY CancelIsCanceled DEF ReceiveKey, Canceled
<1>3. \A x, K : Canceled(ReceiveMac(p, x, K))
  BY DEF ReceiveMac, Canceled
<1> QED BY <1>1, <1>2, <1>3

LEMMA StepFinal ==
  ASSUME IInv, [Next]_vars
  PROVE  \A s \in Side, t \in Txn : Final(Sas(s, t), Sas(s, t)')
<1>0. keys \in Nat /\ \A s \in Side, t \in Txn : Sas(s, t) \in SasObject
  BY ObjectType DEF IInv, Typed
<1>1. ASSUME NEW s \in Side, UserStep(s)
      PROVE  \A o \in Side, t \in Txn : Final(Sas(o, t), Sas(o, t)')
  <2>1. CASE StartVerification(s)
    <3>0. started \in Nat /\ started < MaxTxn /\ started' = started + 1 /\ keys' = keys + 1
      BY <2>1 DEF StartVerification, IInv, Typed
    <3>1. started' \in Txn /\ keys' > keys /\ NewSas(keys').key = keys'
      BY <1>0, <3>0, LimitAssumption DEF Txn, NewSas
    <3>2. \A o \in Side, t \in Txn :
            Sas(o, t)' = IF o = s /\ t = started' THEN NewSas(keys') ELSE Sas(o, t)
      BY <2>1, <3>1 DEF StartVerification, SetSas, IInv, Objects, Sas
    <3> QED BY <3>1, <3>2 DEF Final
  <2>2. ASSUME NEW t \in Txn,
               AcceptKeyVerification(s, t) \/ ConfirmShortAuthString(s, t)
        PROVE  \A o \in Side, u \in Txn : Final(Sas(o, u), Sas(o, u)')
    <3>1. ~Canceled(Sas(s, t))
      BY <2>2 DEF AcceptKeyVerification, ConfirmShortAuthString, CanAccept, CanConfirm
    <3> QED BY <2>2, <3>1, SetFinal DEF AcceptKeyVerification, ConfirmShortAuthString, Final
  <2>3. ASSUME NEW t \in Txn, CancelKeyVerification(s, t)
        PROVE  \A o \in Side, u \in Txn : Final(Sas(o, u), Sas(o, u)')
    <3>1. Final(Sas(s, t), CancelSas(Sas(s, t))) /\ Final(Sas(s, t), RejectSas(Sas(s, t)))
      BY <1>0, CancelIsCanceled DEF Final, CancelSas, RejectSas
    <3> QED BY <2>3, <3>1, SetFinal DEF CancelKeyVerification
  <2> QED BY <1>1, <2>1, <2>2, <2>3 DEF UserStep
<1>2. ASSUME NEW s \in Side, SyncStep(s) \/ NewToken(s) \/ ClearVerifications(s)
      PROVE  \A o \in Side, t \in Txn : Final(Sas(o, t), Sas(o, t)')
  <2>1. CASE UNCHANGED verifications
    BY <2>1, StayFinal
  <2>2. CASE ClearVerifications(s)
    <3>1. PICK gone \in SUBSET Txn :
            verifications' = [verifications EXCEPT ![s] =
                                [t \in Txn |-> IF t \in gone THEN NoSas ELSE Sas(s, t)]]
      BY <2>2 DEF ClearVerifications
    <3>2. \A o \in Side, t \in Txn : Sas(o, t)' = IF o = s /\ t \in gone THEN NoSas ELSE Sas(o, t)
      BY <3>1 DEF IInv, Objects, Sas
    <3> QED BY <3>2 DEF Final
  <2> QED BY <1>2, <2>1, <2>2 DEF SyncStep, SendQueued, DeviceQueried, NewToken
<1>3. ASSUME NEW m \in net, Deliver(m)
      PROVE  \A o \in Side, t \in Txn : Final(Sas(o, t), Sas(o, t)')
  <2>1. m \in Message /\ m.to \in Side /\ m.txn \in Txn
    BY MessageFields DEF IInv, Typed
  <2>2. CASE UNCHANGED verifications
    BY <2>2, StayFinal
  <2>3. CASE m.type = "start" /\ HandleStart(m.to, m) /\ ~UNCHANGED verifications
    <3> DEFINE s == m.to
               new == FromStart(keys + 1, m.known)
    <3>1. verifications' =
            [verifications EXCEPT ![s] =
               [t \in Txn |-> IF t = m.txn THEN new
                              ELSE IF t \in ActiveSas(s) THEN CancelSas(Sas(s, t)) ELSE Sas(s, t)]]
      BY <2>3 DEF HandleStart
    <3>2. \A o \in Side, t \in Txn :
            Sas(o, t)' = IF o # s THEN Sas(o, t) ELSE IF t = m.txn THEN new
                         ELSE IF t \in ActiveSas(s) THEN CancelSas(Sas(s, t)) ELSE Sas(s, t)
      BY <2>1, <3>1 DEF IInv, Objects, Sas
    <3>3. new.key > keys
      BY <1>0 DEF FromStart, NewSas, CancelWith
    <3>4. \A t \in ActiveSas(s) : ~Canceled(Sas(s, t))
      BY DEF ActiveSas, Active
    <3> QED BY <2>1, <3>2, <3>3, <3>4 DEF Final
  <2>4. CASE m.type = "accept" /\ HandleAccept(m.to, m)
    BY <1>0, <2>1, <2>4, HandlersFinal, SetFinal DEF HandleAccept, Final
  <2>5. CASE m.type = "key" /\ HandleKey(m.to, m)
    BY <1>0, <2>1, <2>5, HandlersFinal, SetFinal DEF HandleKey, Final
  <2>6. CASE m.type = "mac" /\ HandleMac(m.to, m) /\ ~UNCHANGED verifications
    BY <1>0, <2>1, <2>6, HandlersFinal, SetFinal DEF HandleMac, Final
  <2>7. CASE m.type = "cancel" /\ HandleCancel(m.to, m)
    BY <2>1, <2>7, SetFinal DEF HandleCancel, Final
  <2> QED BY <1>3, <2>2, <2>3, <2>4, <2>5, <2>6, <2>7 DEF Deliver
<1>4. CASE Tick
  <2>1. \A s \in Side, t \in Txn : Has(s, t) =>
          \E n : Sas(s, t)' = [Sas(s, t) EXCEPT !.age = n]
    BY <1>4 DEF Tick, Sas
  <2>2. \A s \in Side, t \in Txn : ~Has(s, t) => Sas(s, t)' = NoSas
    BY <1>4 DEF Tick, Sas
  <2>3. \A p \in SasObject : \A n : Canceled(p) => Canceled([p EXCEPT !.age = n])
    BY DEF Canceled, SasObject
  <2> QED BY <1>0, <2>1, <2>2, <2>3 DEF Final
<1>5. CASE UNCHANGED vars
  BY <1>5, StayFinal DEF vars
<1> QED BY <1>1, <1>2, <1>3, <1>4, <1>5 DEF Next, Timeless

\* A canceled object never verifies anything: whatever is received, called or
\* repeated, it stays canceled until it is removed.
THEOREM CancellationIsFinal == Spec => CancelIsFinal
<1> DEFINE Ok == \A s \in Side, t \in Txn :
              Canceled(Sas(s, t)) /\ Sas(s, t)'.key = Sas(s, t).key => Canceled(Sas(s, t)')
<1>1. IInv /\ Keyed /\ [Next]_vars => Ok
  <2> SUFFICES ASSUME IInv, Keyed, [Next]_vars, NEW s \in Side, NEW t \in Txn,
                      Canceled(Sas(s, t)), Sas(s, t)'.key = Sas(s, t).key
               PROVE  Canceled(Sas(s, t)')
    OBVIOUS
  <2>1. 0 < Sas(s, t).key /\ Sas(s, t).key <= keys /\ Sas(s, t).key \in Nat /\ keys \in Nat
    BY ObjectType DEF Keyed, Anchor, Canceled, SasObject, IInv, Typed
  <2>2. NoSas.key = 0
    BY DEF NoSas, NewSas
  <2> QED BY <2>1, <2>2, StepFinal DEF Final
<1>2. IInv /\ Keyed /\ [Next]_vars => [Ok]_vars
  BY <1>1
<1> QED BY <1>2, Invariant, KeysInvariant, PTL DEF Spec, CancelIsFinal

-----------------------------------------------------------------------------
(* The third invariant, for what the users see.  An ephemeral key belongs  *)
(* to one side and one verification, and a user has confirmed no string    *)
(* made of a key whose verification shows none yet; so every string that   *)
(* comes up is a new one.                                                  *)

\* q is p after a step in which it neither learns a key nor is new.
Tame(p, q) ==
  \/ q = NoSas
  \/ /\ q.key = p.key /\ q.weStarted = p.weStarted /\ q.theirs = p.theirs
     /\ p.state = "none" => q.state = "none"
     /\ Canceled(p) => Canceled(q)

AllTame == \A s \in Side, t \in Txn : Tame(Sas(s, t), Sas(s, t)')

\* A new object of side s for t; the other objects are tame.
Begins(s, t) ==
  /\ ~Has(s, t) /\ Has(s, t)' /\ keys' = keys + 1
  /\ Sas(s, t)'.key = keys' /\ ~Established(Sas(s, t))' /\ ~Established(Sas(s, t))
  /\ \A o \in Side, u \in Txn : o # s \/ u # t => Tame(Sas(o, u), Sas(o, u)')
  /\ UNCHANGED <<confirmed, verified>>

\* The object that m is for learns the key of the other side.
Learns(m) ==
  /\ m.type = "key" /\ Has(m.to, m.txn) /\ ~Established(Sas(m.to, m.txn))
  /\ Sas(m.to, m.txn).state \in {"started", "accepted"}
  /\ SetSas(m.to, m.txn, [Sas(m.to, m.txn) EXCEPT !.theirs = m.key, !.state = "key_received"])
  /\ UNCHANGED <<keys, confirmed, verified>>

LEMMA SetTame ==
  ASSUME IInv, NEW s \in Side, NEW t \in Txn, NEW sas, SetSas(s, t, sas), Tame(Sas(s, t), sas)
  PROVE  AllTame
<1>1. \A o \in Side, u \in Txn : Sas(o, u)' = IF o = s /\ u = t THEN sas ELSE Sas(o, u)
  BY DEF IInv, Objects, SetSas, Sas
<1> QED BY <1>1 DEF AllTame, Tame

LEMMA StayTame ==
  ASSUME UNCHANGED verifications
  PROVE  AllTame
BY DEF AllTame, Tame, Sas

\* All methods of an object are tame, but for a key that is accepted.
LEMMA MethodsTame ==
  ASSUME NEW p \in SasObject, p.state # "none"
  PROVE  /\ \A why : Tame(p, CancelWith(p, why))
         /\ Tame(p, CancelSas(p)) /\ Tame(p, RejectSas(p))
         /\ Tame(p, AcceptVerification(p)) /\ Tame(p, AcceptSas(p))
         /\ \A known, c : Tame(p, ReceiveAccept(p, known, c))
         /\ \A x, K : Tame(p, ReceiveMac(p, x, K))
         /\ \A k : \/ Tame(p, ReceiveKey(p, k))
                   \/ /\ ~Established(p) /\ p.state \in {"started", "accepted"}
                      /\ ReceiveKey(p, k) = [p EXCEPT !.theirs = k, !.state = "key_received"]
<1>1. \A why : Tame(p, CancelWith(p, why))
  BY DEF CancelWith, Tame, Canceled, SasObject
<1>2. Tame(p, CancelSas(p)) /\ Tame(p, RejectSas(p))
  BY <1>1 DEF CancelSas, RejectSas
<1>3. Tame(p, p) /\ Tame(p, AcceptVerification(p)) /\ Tame(p, AcceptSas(p))
  BY DEF AcceptVerification, AcceptSas, Tame, Canceled, SasObject
<1>4. ASSUME NEW known, NEW c PROVE Tame(p, ReceiveAccept(p, known, c))
  <2>1. CASE p.state = "created" /\ known
    <3>1. Tame(p, [p EXCEPT !.commitment = c, !.method = TRUE, !.state = "accepted"])
      BY <2>1 DEF Tame, Canceled, SasObject
    <3> QED BY <2>1, <3>1 DEF ReceiveAccept, Canceled
  <2>2. CASE ~(p.state = "created" /\ known)
    BY <1>1, <1>3, <2>2 DEF ReceiveAccept, Canceled
  <2> QED BY <2>1, <2>2
<1>5. ASSUME NEW x, NEW K PROVE Tame(p, ReceiveMac(p, x, K))
  <2> DEFINE sas == ReceiveMac(p, x, K)
  <2>1. \/ sas = p \/ \E why : sas = CancelWith(p, why)
        \/ /\ p.state = "key_received"
           /\ \E found, c : sas = [p EXCEPT !.verifiedDevice = found, !.state = "mac_received",
                                            !.code = c]
    BY DEF ReceiveMac, Verified, Canceled
  <2>2. p.state = "key_received" => \A found, c :
          Tame(p, [p EXCEPT !.verifiedDevice = found, !.state = "mac_received", !.code = c])
    BY DEF Tame, Canceled, SasObject
  <2> HIDE DEF sas
  <2>3. Tame(p, sas)
    <3>1. CASE sas = p \/ \E why : sas = CancelWith(p, why)
      BY <1>1, <1>3, <3>1
    <3>2. CASE /\ p.state = "key_received"
               /\ \E found, c : sas = [p EXCEPT !.verifiedDevice = found,
                                                !.state = "mac_received", !.code = c]
      <4>1. PICK found, c : sas = [p EXCEPT !.verifiedDevice = found, !.state = "mac_received",
                                            !.code = c]
        BY <3>2
      <4>2. Tame(p, [p EXCEPT !.verifiedDevice = found, !.state = "mac_received", !.code = c])
        BY <2>2, <3>2
      <4> QED BY Zenon, <4>1, <4>2
    <3> QED BY Zenon, <2>1, <3>1, <3>2
  <2> QED BY <2>3 DEF sas
<1>6. ASSUME NEW k
      PROVE  \/ Tame(p, ReceiveKey(p, k))
             \/ /\ ~Established(p) /\ p.state \in {"started", "accepted"}
                /\ ReceiveKey(p, k) = [p EXCEPT !.theirs = k, !.state = "key_received"]
  <2>1. CASE Established(p) \/ p.state \notin {"started", "accepted"}
    BY <1>1, <2>1 DEF ReceiveKey
  <2>2. CASE ~(Established(p) \/ p.state \notin {"started", "accepted"})
    BY <1>1, <2>2 DEF ReceiveKey
  <2> QED BY <2>1, <2>2
<1> QED BY <1>1, <1>2, <1>3, <1>4, <1>5, <1>6

\* Every step is tame, begins a verification on one side, or brings a key.
LEMMA StepKinds ==
  ASSUME IInv, Keyed, [Next]_vars
  PROVE  /\ keys' = keys \/ keys' = keys + 1
         /\ \/ AllTame
            \/ \E s \in Side, t \in Txn : Begins(s, t)
            \/ \E m \in net : Learns(m)
<1>0. keys \in Nat /\ \A s \in Side, t \in Txn : Sas(s, t) \in SasObject
  BY ObjectType DEF IInv, Typed
<1>1. ASSUME NEW s \in Side, UserStep(s)
      PROVE  /\ keys' = keys \/ keys' = keys + 1
             /\ AllTame \/ \E o \in Side, t \in Txn : Begins(o, t)
  <2>1. CASE StartVerification(s)
    <3>0. started \in Nat /\ started < MaxTxn /\ started' = started + 1 /\ keys' = keys + 1
      BY <2>1 DEF StartVerification, IInv, Typed
    <3>1. /\ started' \in Txn /\ keys' > keys /\ NewSas(keys').key = keys'
          /\ NewSas(keys').theirs = 0 /\ NewSas(keys').state # "none"
      BY <1>0, <3>0, LimitAssumption DEF Txn, NewSas
    <3> PICK new \in Txn : new = started'
      BY <3>1
    <3>2. \A o \in Side, t \in Txn :
            Sas(o, t)' = IF o = s /\ t = new THEN NewSas(keys') ELSE Sas(o, t)
      BY <2>1 DEF StartVerification, SetSas, IInv, Objects, Sas
    <3>3. ~Has(s, new) /\ ~Established(Sas(s, new))
      <4>1. Anchor(Sas(s, new), new)
        BY DEF Keyed
      <4> QED BY <3>0, <4>1 DEF Anchor, Has
    <3>4. \A o \in Side, t \in Txn : o # s \/ t # new => Tame(Sas(o, t), Sas(o, t)')
      BY <3>2 DEF Tame
    <3>5. Begins(s, new)
      BY <2>1, <3>0, <3>1, <3>2, <3>3, <3>4 DEF Begins, Has, Established, StartVerification
    <3> QED BY <3>0, <3>5
  <2>2. ASSUME NEW t \in Txn,
               \/ AcceptKeyVerification(s, t) \/ ConfirmShortAuthString(s, t)
               \/ CancelKeyVerification(s, t)
        PROVE  AllTame /\ keys' = keys
    <3>1. Sas(s, t).state # "none" /\ keys' = keys
      BY <2>2 DEF AcceptKeyVerification, ConfirmShortAuthString, CancelKeyVerification, Has
    <3>2. \E sas : SetSas(s, t, sas) /\ Tame(Sas(s, t), sas)
      BY <1>0, <2>2, <3>1, MethodsTame
         DEF AcceptKeyVerification, ConfirmShortAuthString, CancelKeyVerification
    <3> QED BY <3>1, <3>2, SetTame
  <2> QED BY <1>1, <2>1, <2>2 DEF UserStep
<1>2. ASSUME NEW s \in Side, SyncStep(s) \/ NewToken(s) \/ ClearVerifications(s)
      PROVE  AllTame /\ keys' = keys
  <2>1. CASE UNCHANGED verifications
    BY <1>2, <2>1, StayTame
       DEF SyncStep, SendQueued, DeviceQueried, NewToken, ClearVerifications
  <2>2. CASE ClearVerifications(s)
    <3>1. PICK gone \in SUBSET Txn :
            verifications' = [verifications EXCEPT ![s] =
                                [t \in Txn |-> IF t \in gone THEN NoSas ELSE Sas(s, t)]]
      BY <2>2 DEF ClearVerifications
    <3>2. \A o \in Side, t \in Txn : Sas(o, t)' = IF o = s /\ t \in gone THEN NoSas ELSE Sas(o, t)
      BY <3>1 DEF IInv, Objects, Sas
    <3> QED BY <2>2, <3>2 DEF AllTame, Tame, ClearVerifications
  <2> QED BY <1>2, <2>1, <2>2 DEF SyncStep, SendQueued, DeviceQueried, NewToken
<1>3. ASSUME NEW m \in net, Deliver(m)
      PROVE  /\ keys' = keys \/ keys' = keys + 1
             /\ AllTame \/ Learns(m) \/ \E o \in Side, t \in Txn : Begins(o, t)
  <2> DEFINE s == m.to
             t == m.txn
             p == Sas(s, t)
  <2>1. /\ m \in Message /\ s \in Side /\ t \in Txn /\ p \in SasObject /\ Sent(m)
        /\ UNCHANGED confirmed
    BY <1>0, <1>3, MessageFields DEF IInv, Typed, Sent, Deliver
  <2>2. CASE m.type = "start" /\ HandleStart(s, m) /\ UNCHANGED verified
    <3> DEFINE new == FromStart(keys + 1, m.known)
    <3>0. keys' = keys \/ keys' = keys + 1
      BY <2>2 DEF HandleStart
    <3>1. CASE UNCHANGED verifications
      BY <3>0, <3>1, StayTame
    <3>2. CASE ~UNCHANGED verifications
      <4>1. /\ verifications' =
                 [verifications EXCEPT ![s] =
                    [u \in Txn |-> IF u = t THEN new
                                   ELSE IF u \in ActiveSas(s) THEN CancelSas(Sas(s, u))
                                   ELSE Sas(s, u)]]
            /\ keys' = keys + 1
        BY <2>2, <3>2 DEF HandleStart
      <4>2. \A o \in Side, u \in Txn :
              Sas(o, u)' = IF o # s THEN Sas(o, u) ELSE IF u = t THEN new
                           ELSE IF u \in ActiveSas(s) THEN CancelSas(Sas(s, u)) ELSE Sas(s, u)
        BY <2>1, <4>1 DEF IInv, Objects, Sas
      <4>3. new.key = keys + 1 /\ new.theirs = 0 /\ new.state # "none"
        BY DEF FromStart, NewSas, CancelWith
      <4>4. ~Has(s, t) /\ ~Established(p)
        <5>1. StartFirst(m) /\ Anchor(p, t)
          BY <2>1 DEF Keyed
        <5> QED BY <2>2, <5>1 DEF StartFirst, Anchor, Has
      <4>5. \A o \in Side, u \in Txn : o # s \/ u # t => Tame(Sas(o, u), Sas(o, u)')
        <5>1. \A u \in ActiveSas(s) : Sas(s, u).state # "none" /\ Sas(s, u) \in SasObject
          BY <1>0, <2>1 DEF ActiveSas, Active, Has
        <5>2. \A u \in ActiveSas(s) : Tame(Sas(s, u), CancelSas(Sas(s, u)))
          BY <5>1, MethodsTame
        <5>3. \A o \in Side, u \in Txn : Tame(Sas(o, u), Sas(o, u))
          BY DEF Tame
        <5> QED BY <2>1, <4>2, <5>2, <5>3
      <4>6. Begins(s, t)
        BY <2>1, <2>2, <4>1, <4>2, <4>3, <4>4, <4>5 DEF Begins, Has, Established
      <4> QED BY <2>1, <3>0, <4>6
    <3> QED BY <3>1, <3>2
  <2>3. CASE m.type = "accept" /\ HandleAccept(s, m)
    BY <2>1, <2>3, MethodsTame, SetTame DEF HandleAccept, Has
  <2>4. CASE m.type = "key" /\ HandleKey(s, m)
    <3>1. SetSas(s, t, ReceiveKey(p, m.key)) /\ p.state # "none" /\ keys' = keys /\ UNCHANGED verified
      BY <2>4 DEF HandleKey, Has
    <3>2. CASE Tame(p, ReceiveKey(p, m.key))
      BY <2>1, <3>1, <3>2, SetTame
    <3>3. CASE /\ ~Established(p) /\ p.state \in {"started", "accepted"}
               /\ ReceiveKey(p, m.key) = [p EXCEPT !.theirs = m.key, !.state = "key_received"]
      BY <2>1, <2>4, <3>1, <3>3 DEF Learns, Has
    <3> QED BY <2>1, <3>1, <3>2, <3>3, MethodsTame
  <2>5. CASE m.type = "mac" /\ HandleMac(s, m)
    <3>1. CASE UNCHANGED verifications
      BY <2>5, <3>1, StayTame DEF HandleMac
    <3>2. CASE ~UNCHANGED verifications
      BY <2>1, <2>5, <3>2, MethodsTame, SetTame DEF HandleMac, Has
    <3> QED BY <3>1, <3>2
  <2>6. CASE m.type = "cancel" /\ HandleCancel(s, m)
    BY <2>1, <2>6, SetTame DEF HandleCancel, Tame
  <2>7. CASE UNCHANGED <<verifications, outgoing, keys, verified>>
    BY <2>7, StayTame
  <2> QED BY <1>3, <2>2, <2>3, <2>4, <2>5, <2>6, <2>7 DEF Deliver
<1>4. CASE Tick
  <2>1. \A s \in Side, t \in Txn : Has(s, t) =>
          \E n : Sas(s, t)' = [Sas(s, t) EXCEPT !.age = n]
    BY <1>4 DEF Tick, Sas
  <2>2. \A s \in Side, t \in Txn : ~Has(s, t) => Sas(s, t)' = NoSas
    BY <1>4 DEF Tick, Sas
  <2>3. \A p \in SasObject : \A n : Tame(p, [p EXCEPT !.age = n])
    BY DEF Tame, Canceled, SasObject
  <2>4. ASSUME NEW s \in Side, NEW t \in Txn PROVE Tame(Sas(s, t), Sas(s, t)')
    <3>1. CASE Has(s, t)
      BY <1>0, <2>1, <2>3, <3>1
    <3>2. CASE ~Has(s, t)
      BY <2>2, <3>2 DEF Tame
    <3> QED BY <3>1, <3>2
  <2> QED BY <1>4, <2>4 DEF AllTame, Tick
<1>5. CASE UNCHANGED vars
  BY <1>5, StayTame DEF vars
<1> QED BY <1>1, <1>2, <1>3, <1>4, <1>5 DEF Next, Timeless

\* The same for one object.
Brings(m, s, t) ==
  /\ m.type = "key" /\ m.to = s /\ m.txn = t /\ ~Established(Sas(s, t)) /\ Has(s, t)
  /\ Sas(s, t)'.key = Sas(s, t).key /\ Sas(s, t)'.theirs = m.key

LEMMA ObjectKinds ==
  ASSUME IInv, Keyed, [Next]_vars, NEW s \in Side, NEW t \in Txn
  PROVE  \/ Tame(Sas(s, t), Sas(s, t)')
         \/ Begins(s, t)
         \/ \E m \in net : Brings(m, s, t)
<1>1. CASE AllTame
  BY <1>1 DEF AllTame
<1>2. ASSUME NEW o \in Side, NEW u \in Txn, Begins(o, u)
      PROVE  Tame(Sas(s, t), Sas(s, t)') \/ Begins(s, t)
  BY <1>2 DEF Begins
<1>3. ASSUME NEW m \in net, Learns(m)
      PROVE  Tame(Sas(s, t), Sas(s, t)') \/ Brings(m, s, t)
  <2>1. m.to \in Side /\ m.txn \in Txn /\ Sas(m.to, m.txn) \in SasObject
    BY MessageFields, ObjectType DEF IInv, Typed
  <2> DEFINE q == [Sas(m.to, m.txn) EXCEPT !.theirs = m.key, !.state = "key_received"]
  <2>2. Sas(s, t)' = IF s = m.to /\ t = m.txn THEN q ELSE Sas(s, t)
    BY <1>3, <2>1 DEF Learns, IInv, Objects, SetSas, Sas
  <2>3. q.key = Sas(m.to, m.txn).key /\ q.theirs = m.key
    BY <2>1 DEF SasObject
  <2> HIDE DEF q
  <2> QED BY <1>3, <2>2, <2>3 DEF Brings, Learns, Tame
<1> QED BY <1>1, <1>2, <1>3, StepKinds

\* A key message that was not there before tells the key of its sender's object.
LEMMA KeysSent ==
  ASSUME IInv, [Next]_vars, NEW n \in Message, Sent(n)', n.type = "key", ~Sent(n)
  PROVE  Has(Other(n.to), n.txn) /\ n.key = Sas(Other(n.to), n.txn).key
<1>1. ASSUME NEW s \in Side, UserStep(s) PROVE FALSE
  <2>1. CASE UNCHANGED <<net, outgoing>>
    BY <2>1 DEF Sent
  <2>2. CASE \E m : Send(m) /\ m.type # "key" /\ UNCHANGED outgoing
    BY <2>2, SendSent
  <2> QED BY <1>1, <2>1, <2>2 DEF UserStep, StartVerification, AcceptKeyVerification,
             ConfirmShortAuthString, CancelKeyVerification, Cancellation
<1>2. ASSUME NEW s \in Side, SyncStep(s) \/ NewToken(s) PROVE FALSE
  <2>1. CASE UNCHANGED <<net, outgoing>>
    BY <2>1 DEF Sent
  <2>2. ASSUME NEW m \in outgoing[s], SendQueued(s, m) PROVE FALSE
    BY <2>2 DEF SendQueued, Sent, IInv, Typed
  <2> QED BY <1>2, <2>1, <2>2 DEF SyncStep, DeviceQueried, NewToken
\* Cancellations tell no key.
<1>3. ASSUME NEW s \in Side, NEW T \in SUBSET Txn, Queue(s, {Cancellation(s, t) : t \in T}),
             net' \subseteq net
      PROVE  FALSE
  <2>1. NoSas \in SasObject
    BY NewSound DEF Sound
  <2>2. {Cancellation(s, t) : t \in T} \in SUBSET Message
    BY <2>1, AnswerType
  <2>3. n \in {Cancellation(s, t) : t \in T}
    BY <1>3, <2>2, QueueSent
  <2> QED BY <2>3 DEF Cancellation
<1>4. ASSUME NEW s \in Side, ClearVerifications(s) PROVE FALSE
  BY <1>3, <1>4 DEF ClearVerifications
<1>5. ASSUME NEW m \in net, Deliver(m)
      PROVE  Has(Other(n.to), n.txn) /\ n.key = Sas(Other(n.to), n.txn).key
  <2> DEFINE s == m.to
             t == m.txn
             p == Sas(s, t)
  <2>1. /\ m \in Message /\ s \in Side /\ t \in Txn /\ p \in SasObject /\ net' \subseteq net
        /\ Other(Other(s)) = s
    BY <1>5, MessageFields, ObjectType, OtherSide DEF IInv, Typed, Deliver
  <2>2. CASE UNCHANGED outgoing
    BY <2>1, <2>2 DEF Sent
  <2>3. CASE \E T \in SUBSET Txn : Queue(s, {Cancellation(s, u) : u \in T})
    BY <1>3, <2>1, <2>3
  <2>4. ASSUME Queue(s, {}) PROVE FALSE
    BY <2>1, <2>4, QueueSent
  <2>5. ASSUME Queue(s, {Cancellation(s, t)}) PROVE FALSE
    <3>1. {Cancellation(s, t)} \in SUBSET Message
      BY <2>1, AnswerType
    <3>2. n = Cancellation(s, t)
      BY <2>1, <2>5, <3>1, QueueSent
    <3> QED BY <3>2 DEF Cancellation
  <2>6. ASSUME NEW sas \in SasObject, sas.key = p.key, Has(s, t), Queue(s, {KeyMessage(s, t, sas)})
        PROVE  Has(Other(n.to), n.txn) /\ n.key = Sas(Other(n.to), n.txn).key
    <3>1. {KeyMessage(s, t, sas)} \in SUBSET Message
      BY <2>1, <2>6, AnswerType
    <3>2. n = KeyMessage(s, t, sas)
      BY <2>1, <2>6, <3>1, QueueSent
    <3> QED BY <2>1, <2>6, <3>2 DEF KeyMessage
  <2>7. CASE m.type = "start" /\ HandleStart(s, m)
    <3>1. ActiveSas(s) \in SUBSET Txn
      BY DEF ActiveSas
    <3> QED BY <2>2, <2>3, <2>5, <2>7, <3>1 DEF HandleStart
  <2>8. CASE m.type = "accept" /\ HandleAccept(s, m)
    <3>1. /\ ReceiveAccept(p, m.known, m.commitment) \in SasObject
          /\ ~Canceled(ReceiveAccept(p, m.known, m.commitment)) =>
                ReceiveAccept(p, m.known, m.commitment).key = p.key
      <4>1. Sound(s, ReceiveAccept(p, m.known, m.commitment))
        BY <2>1, <2>8, MessageFields, AcceptanceSound DEF IInv, Objects
      <4> QED BY <2>1, <4>1 DEF Sound, ReceiveAccept, Canceled, CancelWith, SasObject
    <3> QED BY <2>5, <2>6, <2>8, <3>1 DEF HandleAccept
  <2>9. CASE m.type = "key" /\ HandleKey(s, m)
    <3>1. /\ ReceiveKey(p, m.key) \in SasObject
          /\ ~Canceled(ReceiveKey(p, m.key)) => ReceiveKey(p, m.key).key = p.key
      <4>1. Sound(s, ReceiveKey(p, m.key))
        BY <2>1, <2>9, MessageFields, KeySound DEF IInv, Objects
      <4> QED BY <2>1, <4>1 DEF Sound, ReceiveKey, Canceled, CancelWith, SasObject
    <3> QED BY <2>4, <2>5, <2>6, <2>9, <3>1 DEF HandleKey
  <2>10. CASE m.type = "mac" /\ HandleMac(s, m)
    BY <2>2, <2>4, <2>5, <2>10 DEF HandleMac
  <2> QED BY <1>5, <2>2, <2>7, <2>8, <2>9, <2>10 DEF Deliver, HandleCancel
<1>6. CASE Tick \/ UNCHANGED vars
  BY <1>6 DEF Tick, vars, Sent
<1> QED BY <1>1, <1>2, <1>4, <1>5, <1>6 DEF Next, Timeless

\* k is the ephemeral key of side s in verification t, as its object, the object of
\* the other side or a message says.
KeyOf(k, s, t) ==
  \/ Has(s, t) /\ k = Sas(s, t).key
  \/ Established(Sas(Other(s), t)) /\ k = Sas(Other(s), t).theirs
  \/ \E m \in Message : Sent(m) /\ m.type = "key" /\ m.to = Other(s) /\ m.txn = t /\ k = m.key

OneOwner ==
  \A k \in Nat, s \in Side, t \in Txn : KeyOf(k, s, t) =>
    /\ 0 < k /\ k <= keys
    /\ \A o \in Side, u \in Txn : KeyOf(k, o, u) => o = s /\ u = t

Unasked ==
  /\ \A s \in Side : \A x \in confirmed[s] : x[1] <= keys /\ x[2] <= keys
  /\ \A s \in Side, t \in Txn : Has(s, t) /\ ~Established(Sas(s, t)) =>
       \A x \in confirmed[s] : Sas(s, t).key # x[1] /\ Sas(s, t).key # x[2]

LEMMA KeyOfGrows ==
  ASSUME IInv, IInv', Keyed, [Next]_vars, NEW k \in Nat, NEW s \in Side, NEW t \in Txn,
         KeyOf(k, s, t)'
  PROVE  KeyOf(k, s, t) \/ (Begins(s, t) /\ k = keys + 1)
<1>0. Other(s) \in Side /\ Other(s) # s /\ Other(Other(s)) = s
  BY OtherSide
<1>1. CASE Has(s, t)' /\ k = Sas(s, t)'.key
  <2>1. CASE Tame(Sas(s, t), Sas(s, t)')
    BY <1>1, <2>1 DEF Tame, Has, NoSas, NewSas, KeyOf
  <2>2. CASE Begins(s, t)
    BY <1>1, <2>2 DEF Begins
  <2>3. CASE \E m \in net : Brings(m, s, t)
    BY <1>1, <2>3 DEF Brings, KeyOf
  <2> QED BY <2>1, <2>2, <2>3, ObjectKinds
<1>2. CASE Established(Sas(Other(s), t))' /\ k = Sas(Other(s), t)'.theirs
  <2>1. CASE Tame(Sas(Other(s), t), Sas(Other(s), t)')
    BY <1>2, <2>1 DEF Tame, Established, NoSas, NewSas, KeyOf
  <2>2. CASE Begins(Other(s), t)
    BY <1>2, <2>2 DEF Begins
  <2>3. CASE \E m \in net : Brings(m, Other(s), t)
    <3>1. PICK m \in net : Brings(m, Other(s), t)
      BY <2>3
    <3>2. m \in Message /\ Sent(m)
      BY DEF IInv, Typed, Sent
    <3> QED BY <1>2, <3>1, <3>2 DEF Brings, KeyOf
  <2> QED BY <1>0, <2>1, <2>2, <2>3, ObjectKinds
<1>3. ASSUME NEW m \in Message, Sent(m)', m.type = "key", m.to = Other(s), m.txn = t, k = m.key
      PROVE  KeyOf(k, s, t)
  <2>1. CASE Sent(m)
    BY <1>3, <2>1 DEF KeyOf
  <2>2. CASE ~Sent(m)
    BY <1>0, <1>3, <2>2, KeysSent DEF KeyOf
  <2> QED BY <2>1, <2>2
<1>4. \/ Has(s, t)' /\ k = Sas(s, t)'.key
      \/ Established(Sas(Other(s), t))' /\ k = Sas(Other(s), t)'.theirs
      \/ \E m \in Message :
           Sent(m)' /\ m.type = "key" /\ m.to = Other(s) /\ m.txn = t /\ k = m.key
  BY DEF KeyOf
<1> QED BY <1>1, <1>2, <1>3, <1>4

LEMMA OwnerKept ==
  ASSUME IInv, IInv', Keyed, OneOwner, [Next]_vars
  PROVE  OneOwner'
<1>0. keys \in Nat /\ (keys' = keys \/ keys' = keys + 1)
  BY StepKinds DEF IInv, Typed
<1>1. SUFFICES ASSUME NEW k \in Nat, NEW s \in Side, NEW t \in Txn, KeyOf(k, s, t)'
               PROVE  /\ 0 < k /\ k <= keys'
                      /\ \A o \in Side, u \in Txn : KeyOf(k, o, u)' => o = s /\ u = t
  BY DEF OneOwner
<1>2. KeyOf(k, s, t) \/ (Begins(s, t) /\ k = keys + 1)
  BY <1>1, KeyOfGrows
<1>3. 0 < k /\ k <= keys'
  BY <1>0, <1>2 DEF OneOwner, Begins
<1>4. ASSUME NEW o \in Side, NEW u \in Txn, KeyOf(k, o, u)'
      PROVE  o = s /\ u = t
  <2>1. KeyOf(k, o, u) \/ (Begins(o, u) /\ k = keys + 1)
    BY <1>4, KeyOfGrows
  <2>2. CASE KeyOf(k, s, t) /\ KeyOf(k, o, u)
    BY <2>2 DEF OneOwner
  <2>3. CASE k = keys + 1
    <3>1. ~KeyOf(k, s, t) /\ ~KeyOf(k, o, u)
      BY <1>0, <2>3 DEF OneOwner
    <3>2. Begins(s, t) /\ Begins(o, u)
      BY <1>2, <2>1, <3>1
    <3>3. SUFFICES ASSUME o # s \/ u # t PROVE FALSE
      OBVIOUS
    <3>4. Tame(Sas(o, u), Sas(o, u)')
      BY <3>2, <3>3 DEF Begins
    <3>5. Sas(o, u).state = "none" /\ Sas(o, u)'.state # "none"
      BY <3>2 DEF Begins, Has
    <3> QED BY <3>4, <3>5 DEF Tame, NoSas, NewSas
  <2> QED BY <1>2, <2>1, <2>2, <2>3
<1> QED BY <1>3, <1>4

\* A string that is confirmed is that of an object that shows it, and no other.
LEMMA ConfirmKinds ==
  ASSUME [Next]_vars, confirmed' # confirmed
  PROVE  \E s \in Side, t \in Txn : ConfirmShortAuthString(s, t)
BY DEF Next, Timeless, UserStep, SyncStep, StartVerification, AcceptKeyVerification,
       CancelKeyVerification, SendQueued, DeviceQueried, Deliver, NewToken, ClearVerifications,
       Tick, vars

LEMMA UnaskedKept ==
  ASSUME IInv, IInv', Keyed, OneOwner, Unasked, [Next]_vars
  PROVE  Unasked'
<1>0. /\ keys \in Nat /\ keys' \in Nat /\ (keys' = keys \/ keys' = keys + 1)
      /\ confirmed \in [Side -> SUBSET (Nat \X Nat)]
      /\ \A s \in Side, t \in Txn : Sas(s, t) \in SasObject
  BY StepKinds, ObjectType DEF IInv, Typed
\* An object without a string was one before, or is new.
<1>1. ASSUME NEW s \in Side, NEW t \in Txn, Has(s, t)', ~Established(Sas(s, t))'
      PROVE  \/ Has(s, t) /\ ~Established(Sas(s, t)) /\ Sas(s, t)'.key = Sas(s, t).key
             \/ Begins(s, t)
  <2>1. CASE Tame(Sas(s, t), Sas(s, t)')
    BY <1>1, <2>1 DEF Tame, Has, Established, NoSas, NewSas
  <2>2. CASE \E m \in net : Brings(m, s, t)
    BY <1>1, <2>2 DEF Brings
  <2> QED BY <2>1, <2>2, ObjectKinds
<1>2. CASE confirmed' = confirmed
  <2>1. \A s \in Side : \A x \in confirmed'[s] : x[1] <= keys' /\ x[2] <= keys'
    BY <1>0, <1>2 DEF Unasked
  <2>2. ASSUME NEW s \in Side, NEW t \in Txn, Has(s, t)', ~Established(Sas(s, t))',
               NEW x \in confirmed'[s]
        PROVE  Sas(s, t)'.key # x[1] /\ Sas(s, t)'.key # x[2]
    <3>1. x \in confirmed[s] /\ x[1] \in Nat /\ x[2] \in Nat /\ x[1] <= keys /\ x[2] <= keys
      BY <1>0, <1>2 DEF Unasked
    <3>2. CASE Has(s, t) /\ ~Established(Sas(s, t)) /\ Sas(s, t)'.key = Sas(s, t).key
      BY <3>1, <3>2 DEF Unasked
    <3>3. CASE Begins(s, t)
      BY <1>0, <3>1, <3>3 DEF Begins
    <3> QED BY <1>1, <2>2, <3>2, <3>3
  <2> QED BY <2>1, <2>2 DEF Unasked
<1>3. ASSUME NEW o \in Side, NEW u \in Txn, ConfirmShortAuthString(o, u)
      PROVE  Unasked'
  <2> DEFINE p == Sas(o, u)
             y == Secret(AcceptSas(p))
  <2>1. /\ y = Secret(p) /\ Has(o, u) /\ Established(p) /\ keys' = keys /\ p \in SasObject
        /\ confirmed' = [confirmed EXCEPT ![o] = @ \cup {y}]
    BY <1>0, <1>3 DEF ConfirmShortAuthString, CanConfirm, AcceptSas, Secret, SasObject
  <2>2. {y[1], y[2]} = {p.key, p.theirs} /\ p.key \in Nat /\ p.theirs \in Nat
    BY <2>1 DEF Secret, SasObject
  <2>3. KeyOf(p.key, o, u) /\ KeyOf(p.theirs, Other(o), u) /\ Other(o) \in Side /\ Other(o) # o
    BY <2>1, OtherSide DEF KeyOf
  <2>4. y[1] <= keys /\ y[2] <= keys
    BY <2>2, <2>3 DEF OneOwner
  <2>5. \A s \in Side : \A x \in confirmed'[s] : x \in confirmed[s] \/ (s = o /\ x = y)
    BY <1>0, <2>1
  <2>6. ASSUME NEW s \in Side, NEW t \in Txn, Has(s, t)', ~Established(Sas(s, t))',
               NEW x \in confirmed'[s]
        PROVE  Sas(s, t)'.key # x[1] /\ Sas(s, t)'.key # x[2]
    <3>1. Has(s, t) /\ ~Established(Sas(s, t)) /\ Sas(s, t)'.key = Sas(s, t).key
      BY <1>0, <1>1, <2>1, <2>6 DEF Begins
    <3>2. CASE x \in confirmed[s]
      BY <3>1, <3>2 DEF Unasked
    <3>3. CASE s = o /\ x = y
      <4>1. t # u
        BY <2>1, <3>1, <3>3
      <4>2. KeyOf(Sas(s, t).key, s, t) /\ Sas(s, t).key \in Nat
        BY <1>0, <3>1 DEF KeyOf, SasObject
      <4>3. Sas(s, t).key # p.key /\ Sas(s, t).key # p.theirs
        BY <2>2, <2>3, <3>3, <4>1, <4>2 DEF OneOwner
      <4> QED BY <2>2, <3>1, <3>3, <4>3
    <3> QED BY <2>5, <2>6, <3>2, <3>3
  <2> QED BY <2>1, <2>4, <2>5, <2>6 DEF Unasked
<1> QED BY <1>2, <1>3, ConfirmKinds

LEMMA FreshInvariant == Spec => [](OneOwner /\ Unasked)
<1>1. Init => OneOwner /\ Unasked
  <2> SUFFICES ASSUME Init PROVE OneOwner /\ Unasked
    OBVIOUS
  <2>1. \A s \in Side, t \in Txn : Sas(s, t) = NoSas /\ Other(s) \in Side
    BY OtherSide DEF Init, Sas
  <2>2. NoSas.state = "none" /\ NoSas.theirs = 0
    BY DEF NoSas, NewSas
  <2>3. \A m \in Message : ~Sent(m)
    BY DEF Init, Sent
  <2>4. \A s \in Side : confirmed[s] = {}
    BY DEF Init
  <2> QED BY <2>1, <2>2, <2>3, <2>4 DEF OneOwner, KeyOf, Has, Established, Unasked
<1>2. IInv /\ IInv' /\ Keyed /\ OneOwner /\ Unasked /\ [Next]_vars => (OneOwner /\ Unasked)'
  BY OwnerKept, UnaskedKept
<1> QED BY <1>1, <1>2, Invariant, KeysInvariant, PTL DEF Spec

-----------------------------------------------------------------------------
(* KeyVerification implements VerificationGoal: a key that is accepted is  *)
(* a Show, a user's confirmation a Confirm, a MAC received after it a      *)
(* Verify; canceling, clearing and all the rest is a Close.                *)

Strings == (Nat \ {0}) \X (Nat \ {0})
shown   == [s \in Side |-> [t \in Txn |-> Shown(s, t)]]
Goal    == INSTANCE VerificationGoal

\* What a tame object shows, it showed before.
LEMMA TameShown ==
  ASSUME NEW s \in Side, NEW t \in Txn, Tame(Sas(s, t), Sas(s, t)')
  PROVE  Shown(s, t)' \in {Shown(s, t), NoString}
<1>1. CASE Sas(s, t)' = NoSas
  BY <1>1 DEF Shown, Active, Has, NoSas, NewSas
<1>2. CASE Sas(s, t)' # NoSas
  BY <1>2 DEF Tame, Shown, Active, Has, Established, Secret
<1> QED BY <1>1, <1>2

LEMMA GoalClose ==
  ASSUME \A s \in Side, t \in Txn : Shown(s, t)' \in {Shown(s, t), NoString},
         UNCHANGED <<confirmed, verified>>
  PROVE  Goal!Close
<1> DEFINE P == {p \in Side \X Txn : Shown(p[1], p[2])' = NoString}
<1>1. P \in SUBSET (Side \X Txn)
  OBVIOUS
<1>2. shown' = [s \in Side |-> [t \in Txn |-> IF <<s, t>> \in P THEN NoString ELSE shown[s][t]]]
  BY DEF shown
<1> HIDE DEF P
<1> QED BY <1>1, <1>2 DEF Goal!Close

LEMMA GoalShow ==
  ASSUME IInv, IInv', KeyAgreement', OneOwner, Unasked, NEW m \in net, Learns(m)
  PROVE  Goal!Show(m.to, m.txn)
<1> DEFINE s == m.to
           t == m.txn
           p == Sas(s, t)
           q == [p EXCEPT !.theirs = m.key, !.state = "key_received"]
           x == Secret(q)
<1>1. /\ m \in Message /\ Sent(m) /\ s \in Side /\ t \in Txn /\ p \in SasObject /\ m.key \in Nat
      /\ Other(s) \in Side /\ Other(Other(s)) = s /\ \A o \in Side : o = s \/ o = Other(s)
  BY MessageFields, ObjectType, OtherSide DEF IInv, Typed, Sent, Learns
<1>2. \A o \in Side, u \in Txn : Sas(o, u)' = IF o = s /\ u = t THEN q ELSE Sas(o, u)
  BY <1>1 DEF Learns, IInv, Objects, SetSas, Sas
<1>3. /\ q.key = p.key /\ q.theirs = m.key /\ q.state = "key_received" /\ p.key \in Nat
      /\ q.weStarted = p.weStarted
  BY <1>1 DEF SasObject
<1>4. KeyOf(p.key, s, t) /\ KeyOf(m.key, Other(s), t)
  BY <1>1 DEF KeyOf, Learns
<1>5. 0 < p.key /\ 0 < m.key
  BY <1>1, <1>3, <1>4 DEF OneOwner
<1>6. Shown(s, t) = NoString
  BY DEF Learns, Shown
<1>7. Shown(s, t)' = x /\ Established(Sas(s, t))' /\ Sas(s, t)' = q
  <2>1. Sas(s, t)' = q
    BY <1>1, <1>2
  <2>2. Established(q) /\ q.state # "none" /\ ~Canceled(q)
    BY <1>1, <1>3, <1>5 DEF Canceled, Established
  <2> QED BY <2>1, <2>2 DEF Shown, Active, Has
<1>8. x \in Strings /\ p.key \in {x[1], x[2]}
  BY <1>1, <1>3, <1>5 DEF Secret, Strings
<1>9. x \notin confirmed[s]
  BY <1>1, <1>8 DEF Unasked, Learns
<1>10. ASSUME NEW o \in Side
       PROVE  Shown(o, t) \in {x, NoString}
  <2>1. CASE o = s
    BY <1>6, <2>1
  <2>2. CASE o # s /\ Established(Sas(o, t))
    <3>1. Established(Sas(o, t))' /\ Sas(o, t)' = Sas(o, t)
      BY <1>1, <1>2, <2>2
    <3>2. (Secret(Sas(s, t)) = Secret(Sas(o, t)))'
      BY <1>1, <1>7, <2>2, <3>1 DEF KeyAgreement
    <3> QED BY <1>7, <3>1, <3>2 DEF Shown
  <2>3. CASE ~Established(Sas(o, t))
    BY <2>3 DEF Shown
  <2> QED BY <2>1, <2>2, <2>3
<1>11. ASSUME NEW o \in Side, NEW u \in Txn, Shown(o, u) = x
       PROVE  u = t
  <2>1. Established(Sas(o, u)) /\ Active(o, u) /\ x = Secret(Sas(o, u))
    BY <1>8, <1>11 DEF Shown, NoString, Strings
  <2>2. p.key = Sas(o, u).key \/ p.key = Sas(o, u).theirs
    BY <1>8, <2>1 DEF Secret
  <2>3. Other(o) \in Side /\ Other(Other(o)) = o
    BY OtherSide
  <2>4. KeyOf(p.key, o, u) \/ KeyOf(p.key, Other(o), u)
    BY <2>1, <2>2, <2>3 DEF KeyOf, Active
  <2> QED BY <1>1, <1>3, <1>4, <2>3, <2>4 DEF OneOwner
<1>12. shown' = [shown EXCEPT ![s][t] = x]
  <2>1. \A o \in Side, u \in Txn :
          Shown(o, u)' = IF o = s /\ u = t THEN x ELSE Shown(o, u)
    BY <1>2, <1>7 DEF Shown, Active, Has
  <2> HIDE DEF x, s, t
  <2> QED BY <1>1, <2>1 DEF shown
<1>13. shown'[s][t] = x
  BY <1>1, <1>7 DEF shown
<1>14. \A o \in Side, u \in Txn : shown[o][u] = Shown(o, u)
  BY DEF shown
<1>15. /\ shown[s][t] = NoString /\ x \in Strings /\ x \notin confirmed[s]
       /\ (\A o \in Side : shown[o][t] \in {x, NoString})
       /\ (\A o \in Side, u \in Txn : shown[o][u] = x => u = t)
       /\ UNCHANGED <<confirmed, verified>>
  <2> HIDE DEF x
  <2> QED BY <1>1, <1>6, <1>8, <1>9, <1>10, <1>11, <1>14 DEF Learns
<1> HIDE DEF x
<1> QED BY <1>12, <1>13, <1>15 DEF Goal!Show

\* An object keeps what it shows.
LEMMA SameShown ==
  ASSUME IInv, NEW s \in Side, NEW t \in Txn, NEW sas, SetSas(s, t, sas), Has(s, t),
         ~Canceled(Sas(s, t)), sas.state # "none", ~Canceled(sas),
         sas.key = Sas(s, t).key, sas.weStarted = Sas(s, t).weStarted,
         sas.theirs = Sas(s, t).theirs
  PROVE  shown' = shown
<1>1. \A o \in Side, u \in Txn : Sas(o, u)' = IF o = s /\ u = t THEN sas ELSE Sas(o, u)
  BY DEF IInv, Objects, SetSas, Sas
<1>2. \A o \in Side, u \in Txn : Shown(o, u)' = Shown(o, u)
  BY <1>1 DEF Shown, Active, Has, Established, Secret
<1> QED BY <1>2 DEF shown

LEMMA GoalConfirm ==
  ASSUME IInv, IInv', NEW s \in Side, NEW t \in Txn, ConfirmShortAuthString(s, t)
  PROVE  Goal!Confirm(s, t)
<1> DEFINE p == Sas(s, t)
           sas == AcceptSas(p)
           x == Secret(sas)
<1>1. /\ x \in Nat \X Nat /\ Sound(s, p) /\ x = Secret(p) /\ sas.state = p.state
      /\ sas.key = p.key /\ sas.weStarted = p.weStarted /\ sas.theirs = p.theirs
  <2>1. Sound(s, p)
    BY DEF IInv, Objects
  <2> QED BY <2>1, SecretType DEF Sound, AcceptSas, SasObject, Secret
<1>2. confirmed' = [confirmed EXCEPT ![s] = @ \cup {x}]
  BY DEF ConfirmShortAuthString
<1>3. Has(s, t) /\ ~Canceled(p) /\ Established(p) /\ SetSas(s, t, sas)
  BY DEF ConfirmShortAuthString, CanConfirm
<1>4. shown[s][t] = x /\ x # NoString
  BY <1>1, <1>3 DEF shown, Shown, Active, Established, Secret, NoString
<1>5. UNCHANGED shown
  BY <1>1, <1>3, SameShown DEF Has, Canceled
<1>6. \/ UNCHANGED verified
      \/ (\A o \in Side : x \in confirmed'[o]) /\ verified' = [verified EXCEPT ![s] = @ \cup {x}]
  <2>1. CASE Verified(sas) /\ verified' = [verified EXCEPT ![s] = @ \cup {x}]
    <3>1. x \in confirmed[Other(s)]
      BY <1>1, <2>1 DEF Verified, Sound, Checked
    <3>2. \A o \in Side : x \in confirmed'[o]
      BY <1>2, <3>1, OtherSide DEF IInv, Typed
    <3> QED BY <2>1, <3>2
  <2> QED BY <2>1 DEF ConfirmShortAuthString, MarkVerified
<1> HIDE DEF x
<1> QED BY <1>2, <1>4, <1>5, <1>6 DEF Goal!Confirm, Goal!Agreed

LEMMA GoalVerify ==
  ASSUME IInv, NEW m \in net, m.type = "mac", HandleMac(m.to, m), UNCHANGED confirmed,
         verified' # verified
  PROVE  Goal!Verify(m.to, m.txn)
<1> DEFINE s == m.to
           t == m.txn
           p == Sas(s, t)
           sas == ReceiveMac(p, m.secret, m.keys)
           x == Secret(sas)
<1>1. s \in Side /\ t \in Txn /\ m.secret \in confirmed[Other(s)] /\ p \in SasObject
  BY MessageFields, ObjectType DEF MacSound, IInv, Typed, Messages
<1>2. Sound(s, sas)
  BY <1>1, MacReceiptSound DEF IInv, Objects
<1>3. /\ Verified(sas) /\ verified' = [verified EXCEPT ![s] = @ \cup {x}]
      /\ SetSas(s, t, sas) /\ Has(s, t)
  BY DEF HandleMac, MarkVerified
<1>4. /\ ~Canceled(p) /\ sas.key = p.key /\ sas.weStarted = p.weStarted /\ sas.theirs = p.theirs
      /\ sas.state = "mac_received"
  <2>1. Tame(p, sas)
    BY <1>1, <1>3, MethodsTame DEF Has
  <2>2. sas.state = "mac_received" /\ sas # NoSas
    BY <1>3 DEF Verified, NoSas, NewSas
  <2> QED BY <2>1, <2>2 DEF Tame, Canceled
<1>5. Established(p) /\ x = Secret(p)
  BY <1>2, <1>3, <1>4 DEF Verified, Sound, Accepted, Established, Secret
<1>6. shown[s][t] = x /\ x # NoString
  BY <1>1, <1>3, <1>4, <1>5 DEF shown, Shown, Active, Established, Secret, NoString, SasObject
<1>7. UNCHANGED shown
  BY <1>1, <1>3, <1>4, SameShown DEF Canceled
<1>8. \A o \in Side : x \in confirmed[o]
  BY <1>1, <1>2, <1>3, VerifiedAgreed
<1> HIDE DEF x
<1> QED BY <1>3, <1>6, <1>7, <1>8 DEF Goal!Verify, Goal!Agreed

LEMMA VerifyKinds ==
  ASSUME [Next]_vars, verified' # verified
  PROVE  \/ \E s \in Side, t \in Txn : ConfirmShortAuthString(s, t)
         \/ \E m \in net : m.type = "mac" /\ HandleMac(m.to, m) /\ UNCHANGED confirmed
<1>1. ASSUME NEW m \in net, Deliver(m)
      PROVE  m.type = "mac" /\ HandleMac(m.to, m) /\ UNCHANGED confirmed
  BY <1>1 DEF Deliver, HandleAccept, HandleKey, HandleCancel
<1> QED BY <1>1 DEF Next, Timeless, UserStep, SyncStep, StartVerification,
       AcceptKeyVerification, CancelKeyVerification, SendQueued, DeviceQueried, NewToken,
       ClearVerifications, Tick, vars

LEMMA GoalNext ==
  ASSUME IInv, IInv', Keyed, KeyAgreement', OneOwner, Unasked, [Next]_vars
  PROVE  Goal!Next
<1>1. CASE \E s \in Side, t \in Txn : ConfirmShortAuthString(s, t)
  BY <1>1, GoalConfirm DEF Goal!Next
<1>2. CASE \E m \in net : /\ m.type = "mac" /\ HandleMac(m.to, m) /\ UNCHANGED confirmed
                          /\ verified' # verified
  BY <1>2, GoalVerify, MessageFields DEF Goal!Next, IInv, Typed
<1>3. CASE UNCHANGED <<confirmed, verified>>
  <2>1. CASE AllTame
    BY <1>3, <2>1, TameShown, GoalClose DEF AllTame, Goal!Next
  <2>2. ASSUME NEW s \in Side, NEW t \in Txn, Begins(s, t)
        PROVE  Goal!Next
    <3>1. \A o \in Side, u \in Txn : Shown(o, u)' \in {Shown(o, u), NoString}
      BY <2>2, TameShown DEF Begins, Shown
    <3> QED BY <1>3, <3>1, GoalClose DEF Goal!Next
  <2>3. ASSUME NEW m \in net, Learns(m)
        PROVE  Goal!Next
    <3>1. m.to \in Side /\ m.txn \in Txn
      BY MessageFields DEF IInv, Typed
    <3>2. Goal!Show(m.to, m.txn)
      BY <2>3, GoalShow
    <3> QED BY <3>1, <3>2 DEF Goal!Next
  <2> QED BY <2>1, <2>2, <2>3, StepKinds
<1> QED BY <1>1, <1>2, <1>3, ConfirmKinds, VerifyKinds

\* Seen from outside, verifications show strings that are always new, confirmations
\* count for the string on show, and a device is marked under it after both.
THEOREM ImplementsGoal == Spec => Goal!Spec
<1>1. Init => Goal!Init
  <2> SUFFICES ASSUME Init PROVE Goal!Init
    OBVIOUS
  <2>1. \A s \in Side, t \in Txn : Shown(s, t) = NoString
    BY DEF Init, Shown, Active, Has, Sas, NoSas, NewSas
  <2>2. shown = [s \in Side |-> [t \in Txn |-> NoString]]
    BY <2>1 DEF shown
  <2> QED BY <2>2 DEF Init, Goal!Init
<1>2. IInv /\ IInv' /\ Keyed /\ KeyAgreement' /\ OneOwner /\ Unasked /\ [Next]_vars
        => [Goal!Next]_Goal!vars
  BY GoalNext
<1> QED BY <1>1, <1>2, Invariant, KeysInvariant, KeysAgree, FreshInvariant, PTL DEF Spec, Goal!Spec
=============================================================================
