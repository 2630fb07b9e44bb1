----------------------------- MODULE MCObjects -----------------------------
(* Instance of Objects for TLC: model values for everything that two threads *)
(* handle.  There is no symmetry, which TLC may not use for liveness.         *)
EXTENDS Objects
=============================================================================
