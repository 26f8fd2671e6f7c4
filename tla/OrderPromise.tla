---------------------------- MODULE OrderPromise ----------------------------
(***************************************************************************)
(* What the platform promises the user of an order, without services,      *)
(* topics or failures: an order is placed, at most one decision of the     *)
(* restaurant is taken for it, and what the user is shown is that          *)
(* decision, sooner or later.  Nothing is promised about an order that no  *)
(* decision is taken for.  OrderFlow implements this module.               *)
(***************************************************************************)

CONSTANTS Orders

VARIABLES
    shown,      \* status GET /v1/orders/{id} answers with
    decision    \* decision partner-service has taken from the restaurant

promiseVars == <<shown, decision>>

Decisions == {"accepted", "rejected"}

PromiseInit ==
    /\ shown = [o \in Orders |-> "none"]
    /\ decision = [o \in Orders |-> "none"]

Place(o) ==
    /\ shown[o] = "none"
    /\ shown' = [shown EXCEPT ![o] = "pending"]
    /\ UNCHANGED decision

Take(o, d) ==
    /\ shown[o] = "pending"
    /\ decision[o] = "none"
    /\ decision' = [decision EXCEPT ![o] = d]
    /\ UNCHANGED shown

Show(o) ==
    /\ shown[o] = "pending"
    /\ decision[o] \in Decisions
    /\ shown' = [shown EXCEPT ![o] = decision[o]]
    /\ UNCHANGED decision

PromiseNext == \E o \in Orders : Place(o) \/ Show(o) \/ \E d \in Decisions : Take(o, d)

PromiseSpec == PromiseInit /\ [][PromiseNext]_promiseVars

PromiseFairSpec == PromiseSpec /\ \A o \in Orders : WF_promiseVars(Show(o))
=============================================================================
