----------------------------- MODULE MCReceipts -----------------------------
(***************************************************************************)
(* Small instances of Receipts for TLC.                                    *)
(***************************************************************************)
EXTENDS Receipts, TLC

RequestSymmetry == Permutations(Requests)
=============================================================================
