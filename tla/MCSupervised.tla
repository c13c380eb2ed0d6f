---------------------------- MODULE MCSupervised ----------------------------
(***************************************************************************)
(* SupervisedPublishing on a small instance.                               *)
(***************************************************************************)
EXTENDS SupervisedPublishing, TLC

PacketSymmetry == Permutations(PacketIds)
=============================================================================
