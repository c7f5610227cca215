---------------------------- MODULE MCNotaryCore ----------------------------
(***************************************************************************)
(* Small instances of NotaryCore for TLC.                                  *)
(***************************************************************************)
EXTENDS NotaryCore, TLC

RequestSymmetry == Permutations(Requests)
=============================================================================
