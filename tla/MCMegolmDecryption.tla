------------------------- MODULE MCMegolmDecryption -------------------------
(* A small instance of MegolmDecryption.                                    *)
EXTENDS MegolmDecryption, TLC
CONSTANTS s1, e1, e2
=============================================================================
