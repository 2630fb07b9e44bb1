---------------------------- MODULE MCPyObjects ----------------------------
(***************************************************************************)
(* Instance of PyObjects for TLC.  Five Python objects: bytes, what is     *)
(* made of them, a slice of that and a slice of the slice, and one more.   *)
(***************************************************************************)
EXTENDS PyObjects, TLC

Symmetry == Permutations(Obj) \cup Permutations(Impl)
=============================================================================
