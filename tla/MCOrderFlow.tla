---------------------------- MODULE MCOrderFlow ----------------------------
(* Two orders of one partition. *)
EXTENDS OrderFlow

CONSTANTS o1, o2

MCPartitionOf == [o \in Orders |-> 1]
============================================================================
