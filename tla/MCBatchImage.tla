---------------------------- MODULE MCBatchImage ----------------------------
(* Small instances of BatchImage for TLC. *)
EXTENDS BatchImage

CONSTANTS u1

MCUsers == {u1}
MCOwner == [b \in Jobs |-> u1]
MCHold == [b \in Jobs |-> 1]
\* A balance for one hold per job, or for one hold less.
MCAllHolds == {[u \in MCUsers |-> Cardinality(Jobs)]}
MCScarce == MCAllHolds \union {[u \in MCUsers |-> Cardinality(Jobs) - 1]}

=============================================================================
