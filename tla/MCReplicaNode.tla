---------------------------- MODULE MCReplicaNode ----------------------------
(***************************************************************************)
(* Instances of ReplicaNode: three founders and two further IDs.           *)
(***************************************************************************)
EXTENDS ReplicaNodeInv, TLC

CONSTANTS n1, n2, n3, n4, n5

FoundersMC == {n1, n2, n3}
Symmetric == Permutations(FoundersMC) \cup Permutations(Ids \ FoundersMC)
=============================================================================
