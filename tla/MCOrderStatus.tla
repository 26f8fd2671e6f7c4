---------------------------- MODULE MCOrderStatus ----------------------------
(* Small instances of OrderStatus. *)
EXTENDS OrderStatus, TLC

CONSTANTS h1, h2, h3, o1, o2, e1, e2, e3, e4

\* Two contradicting decisions for one order, two agreeing ones for another.
MCEventOrder == [e \in Events |-> IF e \in {e3, e4} THEN o2 ELSE o1]
MCEventStatus == [e \in Events |-> IF e = e2 THEN "rejected" ELSE "accepted"]
==============================================================================
