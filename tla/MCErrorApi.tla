---------------------------- MODULE MCErrorApi ----------------------------
(* Two threads; the codes of two different errors.                         *)
EXTENDS ErrorApi, TLC

Symmetry == Permutations(Thread)
=============================================================================
