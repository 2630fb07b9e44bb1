------------------------------ MODULE MCSlices ------------------------------
(***************************************************************************)
(* Objects of up to three items, slices and slices of them with every      *)
(* start and stop on, before and behind an item, forwards and backwards,   *)
(* by one and by two.                                                      *)
(***************************************************************************)
EXTENDS Slices

Bounds == -4..4
Steps == {-2, -1, 1, 2}
=============================================================================
