--------------------------- MODULE MCBytesWriter ---------------------------
(***************************************************************************)
(* A small buffer of 6 bytes, growth by a quarter and sizes up to 40, with *)
(* pieces that fill the small buffer exactly, outgrow it at once, outgrow  *)
(* the object several times over and run into the largest size.            *)
(***************************************************************************)
EXTENDS BytesWriter

Pieces == {0, 1, 4, 5, 13, 40}
=============================================================================
