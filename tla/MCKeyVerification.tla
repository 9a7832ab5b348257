------------------------- MODULE MCKeyVerification --------------------------
(* Small instances of KeyVerification.                                     *)
EXTENDS KeyVerification, TLC
CONSTANTS a, b

MCSides     == Permutations({a, b})
MCNioMacs   == {{"device"}}
MCOtherMacs == {{"other"}, {"device", "other"}, {"device", "malformed"}, {"wrong"}}

\* Both devices are in each other's device store and handle a sync response, or b
\* has not queried a yet.
MCKnown     == Init /\ \A s \in Side : knows[s] /\ news[s]
MCHalfKnown == Init /\ knows[a]

\* The quick specification leaves time out, and with it the ends of sync responses.
MCQuickSpec == MCKnown /\ [][Timeless]_vars
MCFairSpec  == MCHalfKnown /\ [][Next]_vars /\ Fairness

\* What KeyVerification looks like from outside.
Goal == INSTANCE VerificationGoal WITH
          shown <- [s \in Side |-> [t \in Txn |-> Shown(s, t)]],
          Strings <- (1..6) \X (1..6)
GoalSpec == Goal!Spec
=============================================================================
