--------------------------- MODULE MCGroupSession ---------------------------
(* Small rooms for GroupSession.                                           *)
EXTENDS GroupSession, TLC
CONSTANTS u1, u2, d1, d2, t1, t2
MCOwner == d1 :> u1 @@ d2 :> u2
MCTasks == Permutations({t1, t2})

\* d1 is a trusted device of a member; everything is open for d2 and its owner,
\* and for how much of the room the client has loaded.
MCInit ==
  /\ Init
  /\ u1 \in members /\ state[d1] = "active" /\ trust[d1] = "verified"

\* Everybody is there, trusted, and an Olm session is missing with d2.
KnownRoom ==
  /\ Init
  /\ members = User /\ membersSynced
  /\ \A d \in Device : state[d] = "active" /\ trust[d] = "verified"
  /\ olm = {d1}

MCSpec      == MCInit /\ [][Next]_vars
MCFairSpec  == KnownRoom /\ [][Next]_vars /\ Fairness
=============================================================================
