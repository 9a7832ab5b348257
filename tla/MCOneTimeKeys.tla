--------------------------- MODULE MCOneTimeKeys ----------------------------
(* A small instance of OneTimeKeys: an account that keeps two keys on the   *)
(* server.                                                                 *)
EXTENDS OneTimeKeys, TLC
CONSTANT none
=============================================================================
