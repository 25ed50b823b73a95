---------------------------- MODULE MCBlockPool ----------------------------
(* Instances of BlockPool for TLC.                                         *)
EXTENDS BlockPool, TLC

Symmetry == Permutations(Handle) \cup Permutations(Pool)
              \cup Permutations(BlockPools)
=============================================================================
