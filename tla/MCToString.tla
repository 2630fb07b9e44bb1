---------------------------- MODULE MCToString ----------------------------
(***************************************************************************)
(* The table of the source, and memory for the longest text of a           *)
(* combination of flags (88 characters) and some room behind it.           *)
(***************************************************************************)
EXTENDS ToString

\* P2SH, DERSIG, NULLDUMMY, CHECKLOCKTIMEVERIFY, CHECKSEQUENCEVERIFY, WITNESS, TAPROOT
Table == <<4, 6, 9, 19, 19, 7, 7>>

Lengths == {0, 1, 5}
=============================================================================
