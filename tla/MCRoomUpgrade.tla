---------------------------- MODULE MCRoomUpgrade ----------------------------
(* A small instance of RoomUpgrade and of the calls it is made of.          *)
EXTENDS RoomUpgrade
CONSTANTS a1, a2

\* Both limits are set or none is, and who is logged in has a store.
MCInit == Init /\ max429 = maxTimeouts /\ hasStore = loggedIn
MCSpec == MCInit /\ [][Next]_vars /\ Fairness
=============================================================================
