-------------------------- MODULE KeyVerification ---------------------------
(***************************************************************************)
(* Two devices verify each other with short authentication strings:        *)
(* Olm.handle_key_verification and clear_verifications, and the methods of *)
(* AsyncClient with which the two users drive a verification.              *)
(*                                                                         *)
(* Answers to received events are queued in outgoing_to_device_messages    *)
(* and sent by the sync loop, all at once, so they overtake one another;   *)
(* a message that gets an error response stays queued and goes out again   *)
(* even when the server had taken it.  What a user does is sent directly   *)
(* and is lost when the request fails, after the state has changed.        *)
(***************************************************************************)
EXTENDS Sas, FiniteSets

CONSTANTS
  Side,         \* the two devices
  MaxLife,      \* Olm._max_sas_life, in ticks
  MacKeys,      \* the key ids that a device's MAC message may list
  Known,        \* may start and accept messages offer only unknown methods
  MaxTxn,       \* bound: verifications started
  MaxCalls,     \* bound: calls the users make
  MaxFaults     \* bound: requests that fail

ASSUME SideAssumption == \E x, y \in Side : x # y /\ Side = {x, y}
ASSUME LimitAssumption ==
  /\ MaxLife \in Nat /\ MaxAge < MaxLife /\ Known \subseteq BOOLEAN
  /\ MaxTxn \in Nat /\ MaxCalls \in Nat /\ MaxFaults \in Nat
  /\ MacKeys \subseteq SUBSET MacKey

VARIABLES
  verifications, \* Olm.key_verifications of each side, NoSas where absent
  outgoing,      \* Olm.outgoing_to_device_messages
  net,           \* messages the server has, not yet in a sync response
  knows,         \* is the other device in the device store
  news,          \* is a side handling a sync response with a new next_batch
  verified,      \* history: secrets under which a side verified the other
  confirmed,     \* history: secrets whose string the user of a side confirmed
  started,       \* verifications started, and with it the transaction ids
  keys,          \* ephemeral keys made
  calls, faults

vars == <<verifications, outgoing, net, knows, news, verified, confirmed, started, keys,
          calls, faults>>

Txn == 1..MaxTxn
Other(s) == CHOOSE o \in Side : o # s

Message ==
       [type : {"start"}, to : Side, txn : Txn, known : BOOLEAN]
  \cup [type : {"accept"}, to : Side, txn : Txn, known : BOOLEAN, commitment : Nat]
  \cup [type : {"key"}, to : Side, txn : Txn, key : Nat]
  \cup [type : {"mac"}, to : Side, txn : Txn, secret : Nat \X Nat, keys : SUBSET MacKey]
  \cup [type : {"cancel"}, to : Side, txn : Txn]

KeyMessage(s, t, sas) == [type |-> "key", to |-> Other(s), txn |-> t, key |-> sas.key]
Cancellation(s, t)    == [type |-> "cancel", to |-> Other(s), txn |-> t]

Sas(s, t)    == verifications[s][t]
Has(s, t)    == Sas(s, t).state # "none"
Active(s, t) == Has(s, t) /\ ~Canceled(Sas(s, t))

\* The short authentication string of a verification that is going on: what
\* get_emoji returns and accept_sas accepts.
NoString == <<0, 0>>
Shown(s, t) ==
  IF Active(s, t) /\ Established(Sas(s, t)) THEN Secret(Sas(s, t)) ELSE NoString

\* get_active_sas: the newest object that is not canceled, if there is one.
ActiveSas(s) == {t \in Txn : Active(s, t) /\ \A u \in Txn :
                               Active(s, u) => Sas(s, u).key <= Sas(s, t).key}

Init ==
  /\ verifications = [s \in Side |-> [t \in Txn |-> NoSas]]
  /\ outgoing = [s \in Side |-> {}] /\ net = {}
  /\ knows \in [Side -> BOOLEAN] /\ news \in [Side -> BOOLEAN]
  /\ verified = [s \in Side |-> {}] /\ confirmed = [s \in Side |-> {}]
  /\ started = 0 /\ keys = 0 /\ calls = 0 /\ faults = 0

-----------------------------------------------------------------------------
(* The users.                                                              *)

Call == calls < MaxCalls /\ calls' = calls + 1

SetSas(s, t, sas) == verifications' = [verifications EXCEPT ![s][t] = sas]

\* await self.to_device(message): the request succeeds, or fails and returns an
\* error to the application.
Send(m) ==
  \/ net' = net \cup {m} /\ UNCHANGED faults
  \/ faults < MaxFaults /\ faults' = faults + 1 /\ UNCHANGED net

\* start_key_verification: a new object with a fresh transaction id.
StartVerification(s) ==
  /\ Call /\ started < MaxTxn /\ knows[s]
  /\ started' = started + 1 /\ keys' = keys + 1
  /\ SetSas(s, started', NewSas(keys'))
  /\ \E k \in Known :
       Send([type |-> "start", to |-> Other(s), txn |-> started', known |-> k])
  /\ UNCHANGED <<outgoing, knows, news, verified, confirmed>>

\* accept_key_verification.
AcceptKeyVerification(s, t) ==
  LET sas == AcceptVerification(Sas(s, t))
  IN /\ Call /\ Has(s, t) /\ CanAccept(Sas(s, t))
     /\ SetSas(s, t, sas)
     /\ \E k \in Known :
          Send([type |-> "accept", to |-> Other(s), txn |-> t, known |-> k,
                commitment |-> sas.commitment])
     /\ UNCHANGED <<outgoing, knows, news, verified, confirmed, started, keys>>

\* The user compares the strings: the other device shows, or its user has
\* confirmed, the one shown here.
StringsMatch(s, t) ==
  LET mine == Secret(Sas(s, t))
  IN \/ \E u \in Txn : Established(Sas(Other(s), u)) /\ Secret(Sas(Other(s), u)) = mine
     \/ mine \in confirmed[Other(s)]

\* Olm.verify_device for the device of sas, when it is verified.
MarkVerified(s, sas) ==
  verified' = IF Verified(sas) THEN [verified EXCEPT ![s] = @ \cup {Secret(sas)}] ELSE verified

\* confirm_short_auth_string: accept_sas, get_mac, verify_device when the MAC of
\* the other side is there already.  get_mac asserts that a method was chosen.
ConfirmShortAuthString(s, t) ==
  LET sas == AcceptSas(Sas(s, t))
  IN /\ Call /\ Has(s, t) /\ CanConfirm(Sas(s, t)) /\ StringsMatch(s, t)
     /\ SetSas(s, t, sas)
     /\ confirmed' = [confirmed EXCEPT ![s] = @ \cup {Secret(sas)}]
     /\ IF sas.method
        THEN /\ \E k \in MacKeys :
                  Send([type |-> "mac", to |-> Other(s), txn |-> t,
                        secret |-> Secret(sas), keys |-> k])
             /\ MarkVerified(s, sas)
        ELSE UNCHANGED <<net, faults, verified>>
     /\ UNCHANGED <<outgoing, knows, news, started, keys>>

\* cancel_key_verification, with reject or without.
CancelKeyVerification(s, t) ==
  /\ Call /\ Has(s, t)
  /\ \/ SetSas(s, t, CancelSas(Sas(s, t)))
     \/ Established(Sas(s, t)) /\ SetSas(s, t, RejectSas(Sas(s, t)))
  /\ Send(Cancellation(s, t))
  /\ UNCHANGED <<outgoing, knows, news, verified, confirmed, started, keys>>

-----------------------------------------------------------------------------
(* handle_key_verification.                                                *)

Queue(s, M) == outgoing' = [outgoing EXCEPT ![s] = @ \cup M]

\* A start event: unknown device, unsupported methods, or a new object that
\* takes the place of the active one with the same device.
HandleStart(s, m) ==
  LET new == FromStart(keys + 1, m.known)
      old == ActiveSas(s)
  IN \/ /\ ~knows[s]
        /\ UNCHANGED <<verifications, outgoing, keys>>
     \/ /\ knows[s] /\ Canceled(new)
        /\ Queue(s, {Cancellation(s, m.txn)})
        /\ keys' = keys + 1
        /\ UNCHANGED verifications
     \/ /\ knows[s] /\ ~Canceled(new)
        /\ verifications' =
             [verifications EXCEPT ![s] =
                [t \in Txn |-> IF t = m.txn THEN new
                               ELSE IF t \in old THEN CancelSas(Sas(s, t)) ELSE Sas(s, t)]]
        /\ Queue(s, {Cancellation(s, t) : t \in old})
        /\ keys' = keys + 1

HandleAccept(s, m) ==
  LET sas == ReceiveAccept(Sas(s, m.txn), m.known, m.commitment)
  IN /\ Has(s, m.txn)
     /\ SetSas(s, m.txn, sas)
     /\ Queue(s, {IF Canceled(sas) THEN Cancellation(s, m.txn) ELSE KeyMessage(s, m.txn, sas)})
     /\ UNCHANGED <<keys, verified>>

HandleKey(s, m) ==
  LET sas == ReceiveKey(Sas(s, m.txn), m.key)
  IN /\ Has(s, m.txn)
     /\ SetSas(s, m.txn, sas)
     /\ Queue(s, IF Canceled(sas) THEN {Cancellation(s, m.txn)}
                 ELSE IF sas.weStarted THEN {} ELSE {KeyMessage(s, m.txn, sas)})
     /\ UNCHANGED <<keys, verified>>

\* The assertion on the chosen method raises before anything has changed.
HandleMac(s, m) ==
  LET was == Sas(s, m.txn)
      sas == ReceiveMac(was, m.secret, m.keys)
  IN /\ Has(s, m.txn)
     /\ IF was.state = "key_received" /\ ~was.method
        THEN UNCHANGED <<verifications, outgoing, verified>>
        ELSE /\ SetSas(s, m.txn, sas)
             /\ Queue(s, IF Canceled(sas) THEN {Cancellation(s, m.txn)} ELSE {})
             /\ MarkVerified(s, sas)
     /\ UNCHANGED keys

HandleCancel(s, m) ==
  /\ Has(s, m.txn)
  /\ SetSas(s, m.txn, NoSas)
  /\ UNCHANGED <<outgoing, keys, verified>>

\* One to-device event of a sync response that is not the last one again.
Deliver(m) ==
  /\ m \in net /\ net' = net \ {m}
  /\ news[m.to]
  /\ \/ m.type = "start" /\ HandleStart(m.to, m) /\ UNCHANGED verified
     \/ m.type = "accept" /\ HandleAccept(m.to, m)
     \/ m.type = "key" /\ HandleKey(m.to, m)
     \/ m.type = "mac" /\ HandleMac(m.to, m)
     \/ m.type = "cancel" /\ HandleCancel(m.to, m)
     \/ /\ m.type # "start" /\ ~Has(m.to, m.txn)
        /\ UNCHANGED <<verifications, outgoing, keys, verified>>
  /\ UNCHANGED <<knows, news, confirmed, started, calls, faults>>

\* One message of send_to_device_messages: it leaves the queue with the response;
\* an error leaves it there, to be sent again, and the server may have it.
SendQueued(s, m) ==
  /\ m \in outgoing[s] /\ net' = net \cup {m}
  /\ \/ outgoing' = [outgoing EXCEPT ![s] = @ \ {m}] /\ UNCHANGED faults
     \/ faults < MaxFaults /\ faults' = faults + 1 /\ UNCHANGED outgoing
  /\ UNCHANGED <<verifications, knows, news, verified, confirmed, started, keys, calls>>

\* A sync response has arrived.  One with the next_batch of the last is dropped at
\* once, to-device events and clean-up included, and is no step here.
NewToken(s) ==
  /\ ~news[s] /\ news' = [news EXCEPT ![s] = TRUE]
  /\ UNCHANGED <<verifications, outgoing, net, knows, verified, confirmed, started, keys,
                 calls, faults>>

\* clear_verifications, near the end of handling such a response: timed out objects
\* go with a message, old canceled or verified ones without.
Outlived(sas) == (Canceled(sas) \/ Verified(sas)) /\ sas.age > MaxLife
ClearVerifications(s) ==
  LET late == {t \in Txn : Has(s, t) /\ TimedOut(Sas(s, t))}
      done == {t \in Txn : Has(s, t) /\ Outlived(Sas(s, t))}
  IN /\ news[s] /\ news' = [news EXCEPT ![s] = FALSE]
     /\ verifications' = [verifications EXCEPT ![s] =
          [t \in Txn |-> IF t \in late \cup done THEN NoSas ELSE Sas(s, t)]]
     /\ Queue(s, {Cancellation(s, t) : t \in late})
     /\ UNCHANGED <<net, knows, verified, confirmed, started, keys, calls, faults>>

\* The key query for an unknown device brings it into the device store.
DeviceQueried(s) ==
  /\ ~knows[s] /\ knows' = [knows EXCEPT ![s] = TRUE]
  /\ UNCHANGED <<verifications, outgoing, net, news, verified, confirmed, started, keys,
                 calls, faults>>

\* Time passes; clocks beyond the last limit make no difference.
Later(n) == IF n > MaxLife THEN n ELSE n + 1
Tick ==
  /\ \E s \in Side, t \in Txn : Has(s, t) /\ Sas(s, t).age <= MaxLife
  /\ verifications' = [s \in Side |-> [t \in Txn |->
       IF Has(s, t) THEN [Sas(s, t) EXCEPT !.age = Later(@)] ELSE NoSas]]
  /\ UNCHANGED <<outgoing, net, knows, news, verified, confirmed, started, keys, calls, faults>>

-----------------------------------------------------------------------------
UserStep(s) ==
  \/ StartVerification(s)
  \/ \E t \in Txn : \/ AcceptKeyVerification(s, t) \/ ConfirmShortAuthString(s, t)
                    \/ CancelKeyVerification(s, t)
SyncStep(s) == (\E m \in outgoing[s] : SendQueued(s, m)) \/ DeviceQueried(s)

\* Without time nothing is ever cleared, and one response can go on for ever.
Timeless ==
  \/ \E s \in Side : UserStep(s) \/ SyncStep(s)
  \/ \E m \in net : Deliver(m)
Next == Timeless \/ Tick \/ \E s \in Side : NewToken(s) \/ ClearVerifications(s)
Spec == Init /\ [][Next]_vars

\* Time passes, and the handling of a response gets to the clean-up (no callback
\* raises).  Nobody has to answer, and nothing new ever has to come in a sync.
Fairness == WF_vars(Tick) /\ \A s \in Side : WF_vars(ClearVerifications(s))
FairSpec == Spec /\ Fairness

-----------------------------------------------------------------------------
(* Properties.                                                             *)

TypeOK ==
  /\ verifications \in [Side -> [Txn -> SasObject]]
  /\ outgoing \in [Side -> SUBSET Message] /\ net \in SUBSET Message
  /\ knows \in [Side -> BOOLEAN] /\ news \in [Side -> BOOLEAN]
  /\ verified \in [Side -> SUBSET (Nat \X Nat)]
  /\ confirmed \in [Side -> SUBSET (Nat \X Nat)]
  /\ started \in 0..MaxTxn /\ keys \in Nat /\ calls \in 0..MaxCalls /\ faults \in 0..MaxFaults

\* A device is marked as verified only under a string that both users have
\* confirmed, whatever was lost, repeated, overtaken or started anew.
MutualConfirmation ==
  \A s, o \in Side : verified[s] \subseteq confirmed[o]

\* Two objects of one verification that have exchanged keys have agreed: they
\* show the same emoji, and a MAC method was chosen, so that the assertions of
\* get_mac and receive_mac_event hold.
KeyAgreement ==
  \A s, o \in Side, t \in Txn :
    Established(Sas(s, t)) /\ Established(Sas(o, t)) =>
      Secret(Sas(s, t)) = Secret(Sas(o, t)) /\ Sas(s, t).method /\ Sas(o, t).method

\* An object that was canceled never verifies anything: it stays canceled for as
\* long as it is kept.
CancelIsFinal ==
  [][\A s \in Side, t \in Txn :
       Canceled(Sas(s, t)) /\ Sas(s, t)'.key = Sas(s, t).key => Canceled(Sas(s, t)')]_vars

\* "Is the device verified and the request done" (Sas.verified): a verified
\* object has checked the key of the other device and has no cancel code.  Does
\* not hold when the other side's MACs leave its device key out.
VerifiedChecksDevice ==
  \A s \in Side, t \in Txn :
    Verified(Sas(s, t)) => Sas(s, t).verifiedDevice /\ Sas(s, t).code = ""

Undecided(s, t) == Active(s, t) /\ ~Verified(Sas(s, t))

\* Every verification is decided in the end, which the limits of timed_out are for.
\* Does not hold: the clean-up is skipped as long as sync responses repeat the
\* token, as they may when the account gets nothing new.
EveryVerificationEnds == \A s \in Side, t \in Txn : Undecided(s, t) ~> ~Undecided(s, t)

\* What does hold: on a side that goes on getting sync responses with a new token
\* no verification stays undecided for ever, even when the other side is silent.
VerificationsEnd ==
  \A s \in Side, t \in Txn :
    []<>news[s] => (Undecided(s, t) ~> ~Undecided(s, t))

=============================================================================
