------------------------------ MODULE MC_Issuer ------------------------------
(* Issuer on small sets of requests and families. *)
EXTENDS Issuer, TLC

Symm == Permutations(Requests) \cup Permutations(Fids)
=============================================================================
