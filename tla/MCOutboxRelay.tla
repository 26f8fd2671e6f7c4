--------------------------- MODULE MCOutboxRelay ---------------------------
(* Small instances of OutboxRelay. *)
EXTENDS OutboxRelay, TLC

CONSTANTS r1, r2, k1, k2

MCKeyOf == [e \in Events |-> IF e = 3 THEN k2 ELSE k1]
OneKey == [e \in Events |-> k1]
============================================================================
