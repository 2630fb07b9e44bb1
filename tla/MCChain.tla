------------------------------ MODULE MCChain ------------------------------
(* Instance of Chain for TLC: any block may be the first one of the chain.   *)
EXTENDS Chain, TLC

Symmetry == Permutations(Block) \cup Permutations(Iterator)
=============================================================================
