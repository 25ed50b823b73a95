------------------------------ MODULE MCRsync ------------------------------
(* Chunks, mountpoints and threads of a step are alike. *)
EXTENDS Rsync, TLC

Alike == UNION {Permutations(S) : S \in {Chunks, Mountpoints, Senders, Receivers}}

=============================================================================
