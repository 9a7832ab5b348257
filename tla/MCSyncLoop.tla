----------------------------- MODULE MCSyncLoop -----------------------------
(* A small instance of SyncLoop: three events and one turn for the worse,   *)
(* or two of each.                                                          *)
EXTENDS SyncLoop
CONSTANTS u1, n1

MCSpec == Init /\ [][Next /\ Len(stream') + turns' <= 4]_vars
=============================================================================
