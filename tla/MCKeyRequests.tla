--------------------------- MODULE MCKeyRequests ----------------------------
(* A small instance of KeyRequests: two devices want one session; the first *)
(* is of the own user, the second of the own or of another user.            *)
EXTENDS KeyRequests
CONSTANTS d1, d2, s1

MCInit == Init /\ d1 \in own
MCSpec == MCInit /\ [][Next]_vars /\ Fairness
=============================================================================
