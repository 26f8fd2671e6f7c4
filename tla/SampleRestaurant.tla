--------------------------- MODULE SampleRestaurant ---------------------------
(***************************************************************************)
(* The restaurant's side of a decision: sample-restaurant keeps delivered  *)
(* orders in memory and tells the platform an operator's decision by an    *)
(* HTTP callback (internal/sample/httpapi/handler.go, internal/sample/     *)
(* partnerclient/client.go); partner-service applies a callback in one     *)
(* transaction (internal/partner/postgres/callbacks.go).                   *)
(*                                                                         *)
(* The handler holds its mutex before and after the callback, not during   *)
(* it: another request, a lost answer, a late delivery or a restart may    *)
(* come in between.  Every operator request happens at a time of its own;  *)
(* the clock also serves as the source of fresh callback ids.  Statements  *)
(* of one callback transaction are one step: the row of the submission is  *)
(* locked from the first look at it to the commit.                         *)
(***************************************************************************)
EXTENDS Naturals, FiniteSets

CONSTANTS
    Orders,        \* orders of the restaurant
    Operators,     \* concurrent requests that change an order's status
    MaxRequests,   \* bound: operator requests that send a callback
    MaxRestarts,   \* bound: restarts of the restaurant's process
    NoMessage

ASSUME RestaurantAssumption ==
    /\ MaxRequests \in Nat
    /\ MaxRestarts \in Nat

VARIABLES
    orders,      \* h.orders: what the restaurant remembers
    op,          \* each operator request: where it is, the callback it sends
    clock,       \* time
    wire,        \* callbacks sent and neither delivered nor lost
    submission,  \* status of partner-service's submissions
    received,    \* partner.partner_callbacks, one outbox event each
    conflicts,   \* history: orders a callback was refused for (409)
    restarts     \* restarts so far

vars == <<orders, op, clock, wire, submission, received, conflicts, restarts>>

-----------------------------------------------------------------------------

Decisions == {"accepted", "rejected"}

StoredOrders == [status   : {"absent", "pending"} \cup Decisions,
                 callback : Nat,          \* 0: no StatusCallbackID yet
                 at       : Nat,          \* callbackOccurredAt
                 acked    : BOOLEAN,      \* CallbackAcknowledged
                 inFlight : BOOLEAN]

\* n tells the HTTP requests apart; partner-service does not see it.
Messages == [id : Nat \ {0}, order : Orders, status : Decisions, at : Nat, n : Nat]

OperatorStates == [pc : {"idle", "sending", "told", "failed"}, msg : Messages \cup {NoMessage}]

Payload(m) == [id |-> m.id, order |-> m.order, status |-> m.status, at |-> m.at]

TypeOK ==
    /\ orders \in [Orders -> StoredOrders]
    /\ op \in [Operators -> OperatorStates]
    /\ clock \in Nat
    /\ wire \subseteq Messages
    /\ submission \in [Orders -> {"open"} \cup Decisions]
    /\ received \subseteq [id : Nat \ {0}, order : Orders, status : Decisions, at : Nat]
    /\ conflicts \subseteq Orders
    /\ restarts \in Nat

Unknown == [status |-> "absent", callback |-> 0, at |-> 0, acked |-> FALSE, inFlight |-> FALSE]

Idle == [pc |-> "idle", msg |-> NoMessage]

Init ==
    /\ orders = [o \in Orders |-> Unknown]
    /\ op = [h \in Operators |-> Idle]
    /\ clock = 1
    /\ wire = {}
    /\ submission = [o \in Orders |-> "open"]
    /\ received = {}
    /\ conflicts = {}
    /\ restarts = 0

-----------------------------------------------------------------------------
(* The restaurant *)

\* The dispatcher's POST /orders.  A repetition is answered from the memory
\* and changes nothing; after a restart it is a new order.
ReceiveOrder(o) ==
    /\ orders[o].status = "absent"
    /\ orders' = [orders EXCEPT ![o].status = "pending"]
    /\ UNCHANGED <<op, clock, wire, submission, received, conflicts, restarts>>

NewId == clock

\* The first decision draws the callback's identity and time; a repetition
\* keeps both.
Decided(o, s) ==
    IF orders[o].status = "pending"
    THEN [orders[o] EXCEPT !.status = s, !.callback = NewId, !.at = clock]
    ELSE orders[o]

\* Everything else is answered without a callback: order not found, another
\* decision (409), already acknowledged (200), already in flight (409).
MaySend(o, s) ==
    /\ orders[o].status \in {"pending", s}
    /\ ~orders[o].acked
    /\ ~orders[o].inFlight

\* Broken variant: every send carries the time it is sent at.
Bug_TimeOfSend(row, o) ==
    [id |-> row.callback, order |-> o, status |-> row.status, at |-> clock, n |-> clock]

\* Broken variant: every send carries an id of its own.
Bug_IdPerSend(row, o) ==
    [id |-> clock, order |-> o, status |-> row.status, at |-> row.at, n |-> clock]

Callback(row, o) ==
    [id |-> row.callback, order |-> o, status |-> row.status, at |-> row.at, n |-> clock]

\* changeOrderStatus up to the send.
ChangeOrderStatus(h, o, s) ==
    /\ op[h].pc = "idle"
    /\ clock <= MaxRequests
    /\ MaySend(o, s)
    /\ orders' = [orders EXCEPT ![o] = [Decided(o, s) EXCEPT !.inFlight = TRUE]]
    /\ op' = [op EXCEPT ![h] = [pc |-> "sending", msg |-> Callback(Decided(o, s), o)]]
    /\ wire' = wire \cup {Callback(Decided(o, s), o)}
    /\ clock' = clock + 1
    /\ UNCHANGED <<submission, received, conflicts, restarts>>

\* Send returns an error of its own (timeout, client gone, no connection, 5xx):
\* the callback is lost, or still on its way.
SendFails(h) ==
    /\ op[h].pc = "sending"
    /\ op' = [op EXCEPT ![h].pc = "failed"]
    /\ wire' \in {wire, wire \ {op[h].msg}}
    /\ UNCHANGED <<orders, clock, submission, received, conflicts, restarts>>

\* Broken variant: an unclear result counts as acknowledged.
Bug_AckOnError(h) ==
    [orders[op[h].msg.order] EXCEPT !.inFlight = FALSE, !.acked = TRUE]

\* Broken variant: only a success takes the callback out of flight.
Bug_StuckInFlight(h) ==
    IF op[h].pc = "told"
    THEN [orders[op[h].msg.order] EXCEPT !.inFlight = FALSE, !.acked = TRUE]
    ELSE orders[op[h].msg.order]

\* What changeOrderStatus writes after the send, if the order still has the
\* callback it sent.
Finished(h) ==
    LET row == orders[op[h].msg.order]
    IN IF row.callback = op[h].msg.id
       THEN [row EXCEPT !.inFlight = FALSE, !.acked = @ \/ op[h].pc = "told"]
       ELSE row

Finish(h) ==
    /\ op[h].pc \in {"told", "failed"}
    /\ orders' = [orders EXCEPT ![op[h].msg.order] = Finished(h)]
    /\ op' = [op EXCEPT ![h] = Idle]
    /\ UNCHANGED <<clock, wire, submission, received, conflicts, restarts>>

\* The memory is gone, and with it every request that is being served.
Restart ==
    /\ restarts < MaxRestarts
    /\ restarts' = restarts + 1
    /\ orders' = [o \in Orders |-> Unknown]
    /\ op' = [h \in Operators |-> Idle]
    /\ UNCHANGED <<clock, wire, submission, received, conflicts>>

-----------------------------------------------------------------------------
(* partner-service *)

\* The answer reaches the request that waits for it, or nobody.
Answered(m, pc) ==
    op' \in {op} \cup {[op EXCEPT ![h].pc = pc] :
                           h \in {g \in Operators : op[g].pc = "sending" /\ op[g].msg = m}}

\* authorizeCallbackSubmission and lookupCallback: another decision stands, or
\* the callback id was used with another payload.
Refused(m) ==
    \/ submission[m.order] \in Decisions \ {m.status}
    \/ \E r \in received : r.id = m.id /\ r # Payload(m)

\* ReceiveStatusCallback.  An exact repetition is answered 200 and inserts
\* nothing, a first callback is stored with its event, a conflict gets 409.
ReceiveStatusCallback(m) ==
    /\ m \in wire
    /\ wire' = wire \ {m}
    /\ IF Refused(m)
       THEN /\ conflicts' = conflicts \cup {m.order}
            /\ Answered(m, "failed")
            /\ UNCHANGED <<submission, received>>
       ELSE /\ received' = received \cup {Payload(m)}
            /\ submission' = [submission EXCEPT ![m.order] = m.status]
            /\ Answered(m, "told")
            /\ UNCHANGED conflicts
    /\ UNCHANGED <<orders, clock, restarts>>

-----------------------------------------------------------------------------

Next ==
    \/ \E o \in Orders : ReceiveOrder(o)
    \/ \E h \in Operators, o \in Orders, s \in Decisions : ChangeOrderStatus(h, o, s)
    \/ \E h \in Operators : SendFails(h) \/ Finish(h)
    \/ \E m \in wire : ReceiveStatusCallback(m)
    \/ Restart

Spec == Init /\ [][Next]_vars

\* Send returns (the HTTP client has a timeout), a handler runs to its end.
FairSpec == Spec /\ \A h \in Operators : WF_vars(SendFails(h)) /\ WF_vars(Finish(h))

-----------------------------------------------------------------------------
(* Properties *)

\* callback_acknowledged is true only of a decision the platform has stored,
\* as it was sent, whichever delivery was answered.
AckedIsTold ==
    \A o \in Orders : orders[o].acked =>
        /\ submission[o] = orders[o].status
        /\ [id |-> orders[o].callback, order |-> o,
            status |-> orders[o].status, at |-> orders[o].at] \in received

\* As long as the restaurant remembers, repeating a decision is safe: the
\* repeated callback has the same id and time and the platform never refuses it
\* (sample-restaurant-api.yaml:117, README.md:1113), in whatever order the
\* deliveries arrive.
RepeatIsSafe == restarts = 0 => conflicts = {}

\* The platform stores one callback, and tells order-service once, for every
\* decision the restaurant's memory loses or keeps.
OneCallbackPerDecision ==
    \A o \in Orders : Cardinality({r \in received : r.order = o}) <= 1 + restarts

\* No callback stays in flight: an order whose callback failed can be repeated.
NeverStuckInFlight ==
    \A o \in Orders : orders[o].inFlight ~> ~orders[o].inFlight
==============================================================================
