------------------------------ MODULE MCReceipt ------------------------------
(* An instance of Receipt for TLC: audio around the 526 milliseconds that    *)
(* the tolerance of the factor needs, and times whose halves are rounded.    *)
EXTENDS Receipt

MCLies == {-2, 1, 3}
=============================================================================
