---------------------------- MODULE StatusPromise ----------------------------
(***************************************************************************)
(* What order-service promises about partner events, without transactions, *)
(* locks or redeliveries: an event is applied at one moment, to the order  *)
(* as it is stored then, if the domain allows it (internal/order/domain/   *)
(* status.go, order.go), and it is applied once.  OrderStatus implements   *)
(* this module; OrderFlow takes ApplyPartnerEvent as such a step.          *)
(***************************************************************************)
EXTENDS Naturals

CONSTANTS
    Orders,         \* stored orders
    Events,         \* partner events (event ids)
    EventOrder,     \* aggregate of each event
    EventStatus     \* status each event asks for

VARIABLES
    order,        \* committed status and version of each order
    inbox         \* committed rows of orders.inbox_messages

promiseVars == <<order, inbox>>

-----------------------------------------------------------------------------
(* The domain *)

Statuses == {"pending", "accepted", "rejected", "preparing", "ready", "completed", "cancelled"}

OrderRows == [status : Statuses, version : Nat \ {0}]

Created == [status |-> "pending", version |-> 1]

Allowed == [s \in Statuses |->
    CASE s = "pending"   -> {"accepted", "rejected", "cancelled"}
      [] s = "accepted"  -> {"preparing", "cancelled"}
      [] s = "preparing" -> {"ready", "cancelled"}
      [] s = "ready"     -> {"completed"}
      [] OTHER           -> {}]

CanTransition(from, to) == to \in Allowed[from]

\* TransitionTo: the same status again is accepted and changes nothing.
Transition(row, next) ==
    IF row.status = next THEN row ELSE [status |-> next, version |-> row.version + 1]

\* Broken variant: the domain is not asked.
Bug_AnyTransition(row, next) == FALSE

TransitionFails(row, next) == row.status # next /\ ~CanTransition(row.status, next)

-----------------------------------------------------------------------------
(* The promise *)

PromiseInit ==
    /\ order = [o \in Orders |-> Created]
    /\ inbox = {}

Apply(e) ==
    LET o == EventOrder[e]
    IN /\ e \notin inbox
       /\ ~TransitionFails(order[o], EventStatus[e])
       /\ order' = [order EXCEPT ![o] = Transition(order[o], EventStatus[e])]
       /\ inbox' = inbox \cup {e}

PromiseNext == \E e \in Events : Apply(e)

PromiseSpec == PromiseInit /\ [][PromiseNext]_promiseVars
==============================================================================
