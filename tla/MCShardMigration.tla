-------------------------- MODULE MCShardMigration --------------------------
(* Instances of ShardMigration for TLC.                                     *)
EXTENDS ShardMigrationInv, TLC

\* Moves are issued in the order of their identities: command IDs are fresh,
\* so which unused one a move gets does not matter.
MoveSymmetry == Permutations(MoveIds)
WriteSymmetry == Permutations(Writes)
Symmetric == MoveSymmetry \cup WriteSymmetry
=============================================================================
