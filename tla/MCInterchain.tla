---------------------------- MODULE MCInterchain ----------------------------
(* Instances of Interchain for TLC.                                        *)
EXTENDS Interchain

\* One command for each chain, or the two that a user gives one after the other.
StopOnly == [r \in Readers |-> <<"stop">>]
FlushThenStop == [r \in Readers |-> <<"flush", "stop">>]
=============================================================================
