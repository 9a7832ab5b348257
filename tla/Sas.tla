-------------------------------- MODULE Sas ---------------------------------
(***************************************************************************)
(* The Sas object of crypto/sas.py: one device's side of one interactive   *)
(* verification, as a record and one operator per method that changes it.  *)
(*                                                                         *)
(* Keys are numbers: each object has a fresh ephemeral key.  A commitment  *)
(* is the key it commits to, and the shared secret of a Diffie-Hellman     *)
(* exchange is the pair of keys, starter first, so that two objects show   *)
(* the same emoji exactly when their secrets are equal.                    *)
(*                                                                         *)
(* A definition headed "Slip" is a wrong version of the one after it, for  *)
(* mutation tests of the properties; nothing uses it.                      *)
(***************************************************************************)
EXTENDS Naturals

CONSTANTS
  EventTimeout,  \* Sas._max_event_timeout, in ticks
  MaxAge         \* Sas._max_age

ASSUME TimeoutAssumption ==
  EventTimeout \in Nat \ {0} /\ MaxAge \in Nat /\ EventTimeout < MaxAge

SasState == {"created", "started", "accepted", "key_received", "mac_received", "canceled"}
Code == {"", "m.user", "m.timeout", "m.unknown_method", "m.unexpected_message",
         "m.key_mismatch", "m.invalid_message", "m.mismatched_commitment",
         "m.mismatched_sas"}

(* age counts ticks since creation_time.  verified_devices is either empty  *)
(* or the other device, as a BOOLEAN.  "none" is the state of no object.   *)
SasObject ==
  [state : SasState \cup {"none"}, weStarted : BOOLEAN, accepted : BOOLEAN,
   code : Code, key : Nat, commitment : Nat, theirs : Nat, method : BOOLEAN,
   verifiedDevice : BOOLEAN, age : Nat]

NewSas(k) ==
  [state |-> "created", weStarted |-> TRUE, accepted |-> FALSE, code |-> "",
   key |-> k, commitment |-> 0, theirs |-> 0, method |-> FALSE,
   verifiedDevice |-> FALSE, age |-> 0]
NoSas == [NewSas(0) EXCEPT !.state = "none"]

Canceled(s)    == s.state = "canceled"
Established(s) == s.theirs # 0
\* Slip: the MAC alone verifies, whatever the user said.
VerifiedOnMac(s) == s.state = "mac_received"
Verified(s)    == s.state = "mac_received" /\ s.accepted
\* Slip: the own key first on either side.
SecretOursFirst(s) == <<s.key, s.theirs>>
Secret(s)      == IF s.weStarted THEN <<s.key, s.theirs>> ELSE <<s.theirs, s.key>>

\* Slip: state and cancel_code swapped.
CancelCodeFirst(s, why) == [s EXCEPT !.state = why, !.code = "canceled"]
\* Set state, cancel_code and cancel_reason together.
CancelWith(s, why) == [s EXCEPT !.state = "canceled", !.code = why]

\* from_key_verification_start, for a start event whose methods are supported
\* or not.  The commitment is to the object's own key.
FromStart(k, known) ==
  LET s == [NewSas(k) EXCEPT !.weStarted = FALSE, !.state = "started", !.commitment = k]
  IN IF known THEN s ELSE CancelWith(s, "m.unknown_method")

\* Slip: no time limit once keys are exchanged.
TimedOutUntilKeys(s) ==
  ~Established(s) /\ ~Canceled(s) /\ (s.age >= MaxAge \/ s.age >= EventTimeout)
\* The property timed_out.  Nothing moves _last_event_time after the
\* constructor, so both limits run from there.
TimedOut(s) ==
  ~Verified(s) /\ ~Canceled(s) /\ (s.age >= MaxAge \/ s.age >= EventTimeout)

\* accept_verification of the device that did not start.
CanAccept(s) == ~s.weStarted /\ ~Canceled(s)
AcceptVerification(s) == [s EXCEPT !.method = TRUE]

\* accept_sas, reject_sas and cancel.
\* Slip: accept_sas of a canceled object.
CanConfirmCanceled(s) == Established(s)
CanConfirm(s) == ~Canceled(s) /\ Established(s)
AcceptSas(s)  == [s EXCEPT !.accepted = TRUE]
RejectSas(s)  == CancelWith(s, "m.mismatched_sas")
CancelSas(s)  == CancelWith(s, "m.user")

\* receive_accept_event (transaction and sender are those of the object).
ReceiveAccept(s, known, commitment) ==
  CASE Canceled(s) -> s
    [] ~Canceled(s) /\ s.state # "created" -> CancelWith(s, "m.unexpected_message")
    [] s.state = "created" /\ ~known -> CancelWith(s, "m.unknown_method")
    [] s.state = "created" /\ known ->
         [s EXCEPT !.commitment = commitment, !.method = TRUE, !.state = "accepted"]

\* Slip: the state is not looked at.
ReceiveKeyAnytime(s, key) ==
  IF Established(s) \/ (s.weStarted /\ s.commitment # key)
  THEN CancelWith(s, "m.unexpected_message")
  ELSE [s EXCEPT !.theirs = key, !.state = "key_received"]
\* receive_key_event: even a canceled object is canceled again.
ReceiveKey(s, key) ==
  CASE Established(s) \/ s.state \notin {"started", "accepted"} ->
         CancelWith(s, "m.unexpected_message")
    [] ~Established(s) /\ s.state \in {"started", "accepted"} ->
         IF s.weStarted /\ s.commitment # key
         THEN CancelWith(s, "m.mismatched_commitment")
         ELSE [s EXCEPT !.theirs = key, !.state = "key_received"]

\* The key ids of a MAC message: "device" the one of the other device, "wrong" the
\* same with the MAC of another key, "other" any other Ed25519 key, "malformed" and
\* "foreign" an id that does not parse or is of another type.
MacKey == {"device", "wrong", "other", "malformed", "foreign"}

\* receive_mac_event, for the key ids keys, a subset of MacKey.  Nothing verified
\* sets the state twice: the last assignment of the method wins.
ReceiveMac(s, secret, keys) ==
  CASE Verified(s) \/ Canceled(s) -> s
    [] ~Verified(s) /\ ~Canceled(s) /\ s.state # "key_received" ->
         CancelWith(s, "m.unexpected_message")
    [] s.state = "key_received" /\ secret # Secret(s) -> CancelWith(s, "m.key_mismatch")
    [] s.state = "key_received" /\ secret = Secret(s) ->
         IF "malformed" \in keys THEN CancelWith(s, "m.invalid_message")
         ELSE IF keys \cap {"foreign", "wrong"} # {} THEN CancelWith(s, "m.key_mismatch")
         ELSE [s EXCEPT !.verifiedDevice = "device" \in keys,
                        !.state = "mac_received",
                        !.code = IF "device" \in keys THEN @ ELSE "m.key_mismatch"]
=============================================================================
