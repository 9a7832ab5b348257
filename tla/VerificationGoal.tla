-------------------------- MODULE VerificationGoal --------------------------
(***************************************************************************)
(* What interactive verification promises the two users, without any       *)
(* protocol: which short authentication strings their devices show, which  *)
(* of them they have confirmed, and under which a device was verified.     *)
(*                                                                         *)
(* A string is good for one verification.  The devices agree on it, show   *)
(* it to each user at most once, and forget it for good when they cancel   *)
(* or clear the verification; no user is asked about a string seen in      *)
(* another one, so an old agreement verifies nothing new.  A string counts *)
(* only while it is on show, both for a confirmation and for verifying.    *)
(***************************************************************************)
CONSTANTS
  Side,     \* the two devices and their users
  Txn,      \* the verifications
  Strings,  \* short authentication strings
  NoString  \* nothing on show; not in Strings

VARIABLES shown, confirmed, verified
vars == <<shown, confirmed, verified>>

Init ==
  /\ shown     = [s \in Side |-> [t \in Txn |-> NoString]]
  /\ confirmed = [s \in Side |-> {}]
  /\ verified  = [s \in Side |-> {}]

Agreed(x) == \A s \in Side : x \in confirmed[s]

\* A device shows a string of verification t, new to its user, and the same as the
\* other device if that shows one.
Show(s, t) ==
  LET x == shown'[s][t]
  IN /\ shown[s][t] = NoString /\ x \in Strings /\ x \notin confirmed[s]
     /\ \A o \in Side : shown[o][t] \in {x, NoString}
     /\ \A o \in Side, u \in Txn : shown[o][u] = x => u = t
     /\ shown' = [shown EXCEPT ![s][t] = x]
     /\ UNCHANGED <<confirmed, verified>>

\* Verifications are canceled or cleared: some strings are no longer on show.
Close ==
  /\ UNCHANGED <<confirmed, verified>>
  /\ \E P \in SUBSET (Side \X Txn) :
       shown' = [s \in Side |-> [t \in Txn |-> IF <<s, t>> \in P THEN NoString ELSE shown[s][t]]]

\* The user of s confirms the string on show; if that completes the agreement, s
\* may already have what it needs to verify the other side.
Confirm(s, t) ==
  LET x == shown[s][t]
  IN /\ x # NoString
     /\ confirmed' = [confirmed EXCEPT ![s] = @ \cup {x}]
     /\ \/ UNCHANGED verified
        \/ Agreed(x)' /\ verified' = [verified EXCEPT ![s] = @ \cup {x}]
     /\ UNCHANGED shown

Verify(s, t) ==
  LET x == shown[s][t]
  IN /\ x # NoString /\ Agreed(x)
     /\ verified' = [verified EXCEPT ![s] = @ \cup {x}]
     /\ UNCHANGED <<shown, confirmed>>

Next ==
  \/ \E s \in Side, t \in Txn : Show(s, t) \/ Confirm(s, t) \/ Verify(s, t)
  \/ Close
Spec == Init /\ [][Next]_vars
=============================================================================
