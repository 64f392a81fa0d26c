------------------------------ MODULE MC_Keyset ------------------------------
(* Keyset with ties in the first column and an id that a float64 cannot hold. *)
EXTENDS Keyset
=============================================================================
