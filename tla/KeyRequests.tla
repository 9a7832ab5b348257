---------------------------- MODULE KeyRequests -----------------------------
(***************************************************************************)
(* Requests of other devices for room keys: how Olm queues them, shares the *)
(* key with verified devices of the own user, claims one-time keys for the  *)
(* devices it has no Olm session with, shows the others to the application, *)
(* and what a cancellation or the application's decision does in between.   *)
(* The trust state is TrustStore's.                                         *)
(*                                                                          *)
(* A request is named by its device and its request id.  nio uses the id of *)
(* the wanted session as request id, so the requests of two devices for one *)
(* session have the same id; the queues are dictionaries over it.           *)
(*                                                                          *)
(* Left out: requests with an unknown algorithm, which are only logged, and *)
(* callbacks of the application that raise.                                 *)
(*                                                                          *)
(* A definition headed "Slip" is a wrong version of the one after it, for   *)
(* mutation tests of the properties; nothing uses it.                       *)
(***************************************************************************)
EXTENDS TrustStore

CONSTANTS
  Id,        \* request ids, which are session ids
  Nobody,    \* no device
  MaxEvents, \* bound: requests and cancellations received, decisions taken
  MaxFaults  \* bound: failed claims and messages, restarts

ASSUME NobodyAssumption == Nobody \notin Device
ASSUME BoundsAssumption == MaxEvents \in Nat /\ MaxFaults \in Nat

VARIABLES
  own,        \* the devices that are of the own user; the others are foreign
  known,      \* devices of the device store
  olm,        \* devices with an Olm session
  have,       \* sessions of the inbound_group_store
  received,   \* received_key_requests
  waiting,    \* key_requests_waiting_for_session: per device, request ids
  noSession,  \* key_request_devices_no_session
  untrusted,  \* key_request_from_untrusted: the device by request id
  claim,      \* devices of the keys_claim in flight
  outgoing,   \* outgoing_to_device_messages: forwarded keys
  shown,      \* what the application was told is waiting for it, by request id
  status,     \* history: what became of each request
  events, faults

vars == <<own, trustVars, known, olm, have, received, waiting, noSession, untrusted,
          claim, outgoing, shown, status, events, faults>>
queues == <<received, waiting, noSession, untrusted, outgoing, shown>>

Request == Device \X Id
NoEvent == [kind |-> "none", device |-> Nobody]
Event   == [kind : {"request", "cancellation"}, device : Device] \cup {NoEvent}

\* A request is open from its arrival until it is answered; cancelled by its
\* device; declined by the application; void when it cannot be answered; lost
\* when a restart or another device's event with the same id removed it.
Status == {"none", "open", "sent", "cancelled", "declined", "void", "lost"}
Mark1(S, s) == [r \in Request |-> IF r \in S THEN s ELSE status[r]]

Init ==
  /\ TrustInit /\ own \in SUBSET Device
  /\ known \in SUBSET Device /\ olm = {} /\ have \in SUBSET Id
  /\ received = [i \in Id |-> NoEvent]
  /\ waiting = [d \in Device |-> {}] /\ noSession = {}
  /\ untrusted = [i \in Id |-> Nobody]
  /\ claim = {} /\ outgoing = {}
  /\ shown = untrusted
  /\ status = [r \in Request |-> "none"]
  /\ events = 0 /\ faults = 0

CountEvent == events < MaxEvents /\ events' = events + 1
Fault      == faults < MaxFaults /\ faults' = faults + 1

\* Open requests with the same id that a dictionary entry for r replaces.
Displaced(i, d, queue) == {<<e, i>> : e \in {x \in Device : x # d /\ status[<<x, i>>] = "open" /\ x = queue}}

-----------------------------------------------------------------------------
(* To-device events of a sync response: _handle_key_requests.              *)

RequestArrives(d, i) ==
  /\ CountEvent
  /\ received' = [received EXCEPT ![i] = [kind |-> "request", device |-> d]]
  /\ status' = [r \in Request |->
       IF r = <<d, i>> THEN "open"
       ELSE IF r \in Displaced(i, d, received[i].device) THEN "lost" ELSE status[r]]
  /\ UNCHANGED <<own, trustVars, known, olm, have, waiting, noSession, untrusted, claim, outgoing,
                 shown, faults>>

\* The cancelled request no longer waits for an Olm session with its device.
NotWaiting(W, d, i) == [W EXCEPT ![d] = @ \ {i}]

\* The application was shown the request, so it is shown the cancellation too.
Forwarded(i) == untrusted[i] # Nobody

CancellationArrives(d, i) ==
  /\ CountEvent
  /\ waiting' = NotWaiting(waiting, d, i)
  /\ noSession' = IF waiting'[d] = {} /\ d \in known THEN noSession \ {d} ELSE noSession
  /\ untrusted' = IF Forwarded(i) THEN [untrusted EXCEPT ![i] = Nobody] ELSE untrusted
  /\ received' = [received EXCEPT ![i] =
       IF Forwarded(i) THEN [kind |-> "cancellation", device |-> d] ELSE NoEvent]
  /\ status' = [r \in Request |->
       IF r = <<d, i>> /\ status[r] # "none" THEN "cancelled"
       ELSE IF r \in Displaced(i, d, received[i].device) \cup Displaced(i, d, untrusted[i])
       THEN "lost" ELSE status[r]]
  /\ UNCHANGED <<own, trustVars, known, olm, have, claim, outgoing, shown, faults>>

-----------------------------------------------------------------------------
(* Sharing: share_with_ourselves through _collect_single_key_share.        *)

\* Slip: a device with a session is served before its trust is looked at.
OutcomeAnyTrust(d, i) ==
  CASE d \notin own \/ i \notin have \/ d \notin known -> "void"
    [] d \in own /\ i \in have /\ d \in known /\ d \notin olm -> "wait"
    [] OTHER -> "send"
\* The checks in their order: own user, session, device, Olm session, trust.
Outcome(d, i) ==
  CASE d \notin own \/ i \notin have \/ d \notin known -> "void"
    [] d \in own /\ i \in have /\ d \in known /\ d \notin olm -> "wait"
    [] d \in own /\ i \in have /\ d \in known \cap olm /\ trust[d] # "verified" -> "untrusted"
    [] OTHER -> "send"

\* The request events among the dictionary R whose outcome is o.
WithOutcome(R, o) ==
  {<<R[i].device, i>> : i \in {j \in Id : R[j].kind = "request" /\ Outcome(R[j].device, j) = o}}
DevicesOf(S) == {r[1] : r \in S}

Settled(S, T) == [r \in Request |->
  IF r \in S THEN "sent" ELSE IF r \in T THEN "void" ELSE status[r]]

\* What the application knows after the events for it: the requests ask, and
\* the cancellations.
ShownAfter(ask) ==
  [i \in Id |-> IF <<received[i].device, i>> \in ask THEN received[i].device
               ELSE IF received[i].kind = "cancellation" THEN Nobody ELSE shown[i]]

\* collect_key_requests, at the end of every sync response.
CollectKeyRequests ==
  LET wait == WithOutcome(received, "wait")
      sent == WithOutcome(received, "send")
      ask  == WithOutcome(received, "untrusted")
  IN /\ \E i \in Id : received[i] # NoEvent
     /\ waiting' = [d \in Device |-> waiting[d] \cup {i \in Id : <<d, i>> \in wait}]
     /\ noSession' = noSession \cup DevicesOf(wait)
     /\ outgoing' = outgoing \cup sent
     /\ untrusted' = [i \in Id |-> IF <<received[i].device, i>> \in ask THEN received[i].device
                                   ELSE untrusted[i]]
     /\ shown' = ShownAfter(ask)
     /\ received' = [i \in Id |-> NoEvent]
     /\ status' = [r \in Request |->
          IF r \in UNION {Displaced(i, received[i].device, untrusted[i]) :
                            i \in {j \in Id : <<received[j].device, j>> \in ask}}
          THEN "lost" ELSE Settled(sent, WithOutcome(received, "void"))[r]]
     /\ UNCHANGED <<own, trustVars, known, olm, have, claim, events, faults>>

\* continue_key_share, for a request the application was shown.  It raises when
\* the request is not in the queue and leaves a device that is still not trusted.
ContinueKeyShare(i) ==
  LET d == untrusted[i]
      o == Outcome(d, i)
  IN /\ CountEvent
     /\ d # Nobody /\ d = shown[i] /\ o # "untrusted"
     /\ waiting' = IF o = "wait" THEN [waiting EXCEPT ![d] = @ \cup {i}] ELSE waiting
     /\ noSession' = IF o = "wait" THEN noSession \cup {d} ELSE noSession
     /\ outgoing' = IF o = "send" THEN outgoing \cup {<<d, i>>} ELSE outgoing
     /\ untrusted' = [untrusted EXCEPT ![i] = Nobody]
     /\ shown' = [shown EXCEPT ![i] = Nobody]
     /\ status' = Settled(IF o = "send" THEN {<<d, i>>} ELSE {}, IF o = "void" THEN {<<d, i>>} ELSE {})
     /\ UNCHANGED <<own, trustVars, known, olm, have, received, claim, faults>>

\* cancel_key_share takes the request by its id.
CancelKeyShare(i) ==
  /\ CountEvent
  /\ shown[i] # Nobody /\ untrusted[i] # Nobody
  /\ status' = [status EXCEPT ![<<untrusted[i], i>>] = "declined"]
  /\ untrusted' = [untrusted EXCEPT ![i] = Nobody]
  /\ shown' = [shown EXCEPT ![i] = Nobody]
  /\ UNCHANGED <<own, trustVars, known, olm, have, received, waiting, noSession, claim, outgoing, faults>>

-----------------------------------------------------------------------------
(* Olm sessions for the devices that wait.                                 *)

\* Slip: devices that got a session in another way are passed over.
Sessionless == noSession \ olm
\* get_users_for_key_claiming
Claimable == noSession

\* sync_forever claims when should_claim_keys.
ClaimKeys ==
  /\ claim = {} /\ Claimable # {}
  /\ claim' = Claimable
  /\ UNCHANGED <<own, trustVars, known, olm, have, queues, status, events, faults>>

\* Slip: they are dropped instead.
NotReinstated(pick) == received
\* The requests that waited are received again; pick is the device whose request
\* with each id came last.
Reinstated(pick) == [i \in Id |-> IF pick[i] = Nobody THEN received[i]
                                 ELSE [kind |-> "request", device |-> pick[i]]]
Unlisted(S) == noSession \ S

\* _handle_key_claiming, for the devices S whose one-time key was there and
\* properly signed: the requests that waited are received again.
KeysClaimed ==
  \E S \in SUBSET (claim \cap known) :
    LET released == S \cap noSession
    IN /\ claim # {} /\ claim' = {}
       /\ S = claim \/ faults < MaxFaults
       /\ faults' = IF S = claim THEN faults ELSE faults + 1
       /\ olm' = olm \cup S
       /\ noSession' = Unlisted(released)
       /\ \E pick \in [Id -> released \cup {Nobody}] :
            /\ \A i \in Id :
                 /\ pick[i] # Nobody => i \in waiting[pick[i]]
                 /\ pick[i] = Nobody => \A d \in released : i \notin waiting[d]
            /\ received' = Reinstated(pick)
            /\ status' = [r \in Request |->
                 IF status[r] = "open" /\ pick[r[2]] \notin {Nobody, r[1]}
                    /\ (r[1] = received[r[2]].device \/ (r[1] \in released /\ r[2] \in waiting[r[1]]))
                 THEN "lost" ELSE status[r]]
       /\ waiting' = [d \in Device |-> IF d \in released THEN {} ELSE waiting[d]]
       /\ UNCHANGED <<own, trustVars, known, have, untrusted, outgoing, shown, events>>

ClaimFails ==
  /\ Fault /\ claim # {} /\ claim' = {}
  /\ UNCHANGED <<own, trustVars, known, olm, have, queues, status, events>>

\* The device sends an Olm message of its own; nothing releases what waits.
OlmSessionAppears(d) ==
  /\ d \in known \ olm /\ olm' = olm \cup {d}
  /\ UNCHANGED <<own, trustVars, known, have, queues, claim, status, events, faults>>

-----------------------------------------------------------------------------
(* The rest of the client.                                                 *)

DeviceListed(d) ==
  /\ d \notin known /\ known' = known \cup {d}
  /\ UNCHANGED <<own, trustVars, olm, have, queues, claim, status, events, faults>>

KeyArrives(i) ==
  /\ i \notin have /\ have' = have \cup {i}
  /\ UNCHANGED <<own, trustVars, known, olm, queues, claim, status, events, faults>>

TrustChanges ==
  /\ \/ \E d \in known, m \in Mark : SetTrust(d, m) \/ UnsetTrust(d, m)
     \/ \E D \in SUBSET known : IgnoreDevices(D)
  /\ UNCHANGED <<own, known, olm, have, queues, claim, status, events, faults>>

\* send_to_device_messages: the message leaves the list when it was answered.
MessageSent(m) ==
  /\ m \in outgoing /\ outgoing' = outgoing \ {m}
  /\ UNCHANGED <<own, trustVars, known, olm, have, received, waiting, noSession, untrusted, claim,
                 shown, status, events, faults>>

\* Only the store survives: sessions, devices and their trust.
Restart ==
  /\ Fault
  /\ \/ Reload
     \/ \E d \in known, m \in Mark : ReloadHalfway(d, m)
  /\ received' = [i \in Id |-> NoEvent] /\ waiting' = [d \in Device |-> {}] /\ noSession' = {}
  /\ untrusted' = [i \in Id |-> Nobody] /\ claim' = {} /\ outgoing' = {} /\ shown' = untrusted'
  /\ status' = Mark1({r \in Request : status[r] = "open"}, "lost")
  /\ UNCHANGED <<own, known, olm, have, events>>

-----------------------------------------------------------------------------
Decision(i) == ContinueKeyShare(i) \/ CancelKeyShare(i)
Next ==
  \/ \E d \in Device, i \in Id : RequestArrives(d, i) \/ CancellationArrives(d, i)
  \/ CollectKeyRequests \/ ClaimKeys \/ KeysClaimed \/ ClaimFails
  \/ \E i \in Id : Decision(i) \/ KeyArrives(i)
  \/ \E d \in Device : OlmSessionAppears(d) \/ DeviceListed(d)
  \/ \E m \in outgoing : MessageSent(m)
  \/ TrustChanges \/ Restart
Spec == Init /\ [][Next]_vars

\* sync_forever goes on: each turn collects the requests and claims keys, and
\* the server answers.  The application and the other devices may do nothing.
Fairness == WF_vars(CollectKeyRequests) /\ WF_vars(ClaimKeys) /\ WF_vars(KeysClaimed)
FairSpec == Spec /\ Fairness

-----------------------------------------------------------------------------
(* Properties.                                                             *)

TypeOK ==
  /\ TrustTypeOK
  /\ own \in SUBSET Device /\ known \in SUBSET Device /\ olm \in SUBSET Device /\ have \in SUBSET Id
  /\ received \in [Id -> Event]
  /\ waiting \in [Device -> SUBSET Id] /\ noSession \in SUBSET Device
  /\ untrusted \in [Id -> Device \cup {Nobody}] /\ shown \in [Id -> Device \cup {Nobody}]
  /\ claim \in SUBSET Device /\ outgoing \in SUBSET Request
  /\ status \in [Request -> Status]
  /\ events \in 0..MaxEvents /\ faults \in 0..MaxFaults

\* A key is forwarded only to a verified device of the own user that asked for
\* it, and not for a request that its device has cancelled: whichever of the
\* queues it was in and whatever came between.
SharedOnlyOnRequest ==
  [][\A m \in outgoing' \ outgoing :
       /\ m[1] \in own /\ trust[m[1]] = "verified"
       /\ status[m] \notin {"none", "cancelled"}]_vars

\* An open request is where something will be done about it.
Pending(d, i) ==
  \/ received[i].kind = "request" /\ received[i].device = d
  \/ i \in waiting[d] /\ d \in noSession
  \/ untrusted[i] = d
NoneForgotten == \A d \in Device, i \in Id : status[<<d, i>>] = "open" => Pending(d, i)

\* A device is on the list of devices to claim keys for exactly as long as a
\* request of it waits for that.
ClaimedForRequests == \A d \in Device : d \in noSession <=> waiting[d] # {}

\* The application knows of every request that only it can bring further.
AwaitedIsShown == \A i \in Id : untrusted[i] # Nobody => shown[i] = untrusted[i]

\* The four queues and the application agree on each request, in whatever order
\* it is cancelled, continued, displaced by another one or waits for a session.
QueuesAgree == TypeOK /\ NoneForgotten /\ ClaimedForRequests /\ AwaitedIsShown

\* No request stays between the queues: it is answered or withdrawn, lost, or
\* waits for a decision of the application.
RequestsSettle ==
  \A d \in Device, i \in Id :
    d \in own /\ status[<<d, i>>] = "open" ~> status[<<d, i>>] # "open" \/ untrusted[i] = d
=============================================================================
