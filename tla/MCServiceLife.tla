---------------------------- MODULE MCServiceLife ----------------------------
(* Two replicas; r2 runs an image with another text for the second version. *)
EXTENDS ServiceLife

CONSTANTS r1, r2, a, b

File(n, t) == [name |-> n, version |-> n, text |-> t]

MCDir == [r \in {r1, r2} |-> IF r = r1 THEN {File(1, a), File(2, a)}
                                       ELSE {File(1, a), File(2, b), File(3, a)}]
==============================================================================
