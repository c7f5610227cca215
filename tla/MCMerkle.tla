------------------------------ MODULE MCMerkle ------------------------------
(***************************************************************************)
(* An instance with two halves: a behaviour either runs the ledger of      *)
(* Receipts, or grows the list of MerkleLists.                             *)
(***************************************************************************)
EXTENDS MCReceipts, MerkleLists

MInit == RInit /\ ListInit

MNext ==
  \/ leaves = <<>> /\ RNext /\ UNCHANGED leaves
  \/ RInit /\ GrowList /\ UNCHANGED allVars

MSpec == MInit /\ [][MNext]_<<allVars, leaves>>
=============================================================================
