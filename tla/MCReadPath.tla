----------------------------- MODULE MCReadPath -----------------------------
(***************************************************************************)
(* A small instance of ReadPath: two blocks, so that an answer can be for  *)
(* the wrong one.                                                          *)
(***************************************************************************)
EXTENDS ReadPath

CONSTANTS blk1, blk2
=============================================================================
