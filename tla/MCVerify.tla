------------------------------ MODULE MCVerify ------------------------------
(* Instance of Verify for TLC: outputs can be exchanged for one another.     *)
EXTENDS Verify, TLC

Symmetric == Permutations(Output)
=============================================================================
