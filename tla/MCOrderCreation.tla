--------------------------- MODULE MCOrderCreation ---------------------------
(* Small instances of OrderCreation. *)
EXTENDS OrderCreation, TLC

CONSTANTS q1, q2, q3, k1, k2, b1, b2

==============================================================================
