------------------------------ MODULE MCChain ------------------------------
(* Instances of Chain for TLC.                                             *)
EXTENDS Chain

\* A row of steps, the second of which has two threads.
MiddleTwo == [s \in Steps |-> IF s = 2 THEN 2 ELSE 1]
OneEach == [s \in Steps |-> 1]
=============================================================================
