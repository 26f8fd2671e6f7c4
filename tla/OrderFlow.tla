----------------------------- MODULE OrderFlow -----------------------------
(***************************************************************************)
(* An order from POST /v1/orders to the decision its user sees: order-     *)
(* service, its outbox and topic, partner-service's consumer, the          *)
(* submission and its dispatch, the restaurant, its callback, partner-     *)
(* service's outbox and topic, order-service's consumer.                   *)
(*                                                                         *)
(* The services are put together from what their own modules show: one     *)
(* order per request (OrderCreation), events in the topic at least once    *)
(* and again after a fault (OutboxRelay), records in order, each until it  *)
(* is handled, and again after a fault (KafkaConsumer), a submission       *)
(* submitted or failed in the end (PartnerDispatch), callbacks repeated    *)
(* with the same identity while the restaurant remembers (SampleRestaurant),*)
(* one transaction per applied event (OrderStatus).                        *)
(***************************************************************************)
EXTENDS Naturals, Sequences

CONSTANTS
    Orders,
    Partitions,    \* of both topics
    PartitionOf,   \* by the key, which is the order id
    MaxFaults      \* bound: repeated publications, redeliveries, restarts

ASSUME FlowAssumption ==
    /\ PartitionOf \in [Orders -> Partitions]
    /\ MaxFaults \in Nat

VARIABLES
    status,      \* orders.orders: status of each order
    outbox,      \* orders.outbox_messages: orders with an OrderCreated event
    created,     \* topic of OrderCreated: a log per partition
    submission,  \* partner_order_submissions; each row stands for its inbox row
    mapped,      \* restaurant_integrations: orders whose restaurant has a row
    reached,     \* history: orders whose request reached the restaurant
    restaurant,  \* what the restaurant remembers of each order
    life,        \* which life of the restaurant's process this is
    wire,        \* callbacks on their way
    events,      \* partner_callbacks and partner's outbox, one event for each
    decided,     \* topic of OrderAccepted and OrderRejected
    inbox,       \* orders.inbox_messages
    next,        \* per topic and partition: records the consumer is through with
    committed,   \* per topic and partition: the committed offset
    faults

vars == <<status, outbox, created, submission, mapped, reached, restaurant, life, wire,
          events, decided, inbox, next, committed, faults>>

-----------------------------------------------------------------------------

Decisions == {"accepted", "rejected"}

\* A callback's id is drawn once per order and life of the restaurant.
Callbacks == [order : Orders, status : Decisions, life : Nat]

Topics == {"created", "decided"}

TypeOK ==
    /\ status \in [Orders -> {"none", "pending"} \cup Decisions]
    /\ outbox \subseteq Orders
    /\ created \in [Partitions -> Seq(Orders)]
    /\ submission \in [Orders -> {"absent", "pending", "submitted", "failed"} \cup Decisions]
    /\ mapped \subseteq Orders
    /\ reached \subseteq Orders
    /\ restaurant \in [Orders -> {"unknown", "asked"} \cup Decisions]
    /\ life \in Nat
    /\ wire \subseteq Callbacks
    /\ events \subseteq Callbacks
    /\ decided \in [Partitions -> Seq(Callbacks)]
    /\ inbox \subseteq Callbacks
    /\ next \in [Topics \X Partitions -> Nat]
    /\ committed \in [Topics \X Partitions -> Nat]
    /\ faults \in 0..MaxFaults

Init ==
    /\ status = [o \in Orders |-> "none"]
    /\ outbox = {}
    /\ created = [p \in Partitions |-> <<>>]
    /\ submission = [o \in Orders |-> "absent"]
    /\ mapped \in SUBSET Orders
    /\ reached = {}
    /\ restaurant = [o \in Orders |-> "unknown"]
    /\ life = 0
    /\ wire = {}
    /\ events = {}
    /\ decided = [p \in Partitions |-> <<>>]
    /\ inbox = {}
    /\ next = [q \in Topics \X Partitions |-> 0]
    /\ committed = [q \in Topics \X Partitions |-> 0]
    /\ faults = 0

-----------------------------------------------------------------------------

Fault == faults < MaxFaults /\ faults' = faults + 1

Log(topic, p) == IF topic = "created" THEN created[p] ELSE decided[p]

InLog(log, e) == \E i \in DOMAIN log : log[i] = e

\* The record the consumer of a partition is at.
AtHead(topic, p, e) ==
    /\ next[<<topic, p>>] < Len(Log(topic, p))
    /\ Log(topic, p)[next[<<topic, p>>] + 1] = e

Passed(topic, p) == next' = [next EXCEPT ![<<topic, p>>] = @ + 1]

Broker == <<created, decided>>
Consumers == <<next, committed>>
OrderService == <<status, outbox, inbox>>
PartnerService == <<submission, mapped, events>>
Restaurant == <<reached, restaurant, life, wire>>

-----------------------------------------------------------------------------
(* order-service *)

\* Broken variant: two commits, of which one may be missing.
Bug_TwoCommits(o) ==
    \/ outbox' = outbox \cup {o} /\ UNCHANGED status
    \/ outbox' = outbox \cup {o} /\ status' = [status EXCEPT ![o] = "pending"]

Stored(o) == outbox' = outbox \cup {o} /\ status' = [status EXCEPT ![o] = "pending"]

CreateOrder(o) ==
    /\ status[o] = "none" /\ o \notin outbox
    /\ Stored(o)
    /\ UNCHANGED <<inbox, Broker, Consumers, PartnerService, Restaurant, faults>>

PublishCreated(o) ==
    /\ o \in outbox
    /\ InLog(created[PartitionOf[o]], o) => Fault
    /\ ~InLog(created[PartitionOf[o]], o) => UNCHANGED faults
    /\ created' = [created EXCEPT ![PartitionOf[o]] = Append(@, o)]
    /\ UNCHANGED <<OrderService, decided, Consumers, PartnerService, Restaurant>>

\* ApplyPartnerEvent: seen before, applied, or an error without end.
ApplyPartnerEvent(p, e) ==
    /\ AtHead("decided", p, e)
    /\ IF e \in inbox THEN UNCHANGED <<status, inbox>>
       ELSE /\ status[e.order] \in {"pending", e.status}
            /\ status' = [status EXCEPT ![e.order] = e.status]
            /\ inbox' = inbox \cup {e}
    /\ Passed("decided", p)
    /\ UNCHANGED <<outbox, Broker, committed, PartnerService, Restaurant, faults>>

-----------------------------------------------------------------------------
(* partner-service *)

\* HandleOrderCreated: seen before, stored, or an error while the restaurant
\* has no integration.
ReceiveOrder(p, o) ==
    /\ AtHead("created", p, o)
    /\ IF submission[o] # "absent" THEN UNCHANGED submission
       ELSE o \in mapped /\ submission' = [submission EXCEPT ![o] = "pending"]
    /\ Passed("created", p)
    /\ UNCHANGED <<OrderService, Broker, committed, mapped, events, Restaurant, faults>>

\* A request reaches the restaurant, whatever becomes of its answer; that of a
\* dispatcher whose lease ran out may come after the mark of another one, or
\* after the decision (Reach of SubmissionPromise).
Send(o) ==
    /\ submission[o] # "absent"
    /\ submission[o] # "pending" => Fault
    /\ submission[o] = "pending" => UNCHANGED faults
    /\ reached' = reached \cup {o}
    /\ restaurant' = [restaurant EXCEPT ![o] = IF @ = "unknown" THEN "asked" ELSE @]
    /\ UNCHANGED <<OrderService, Broker, Consumers, PartnerService, life, wire>>

\* The dispatcher's mark; failed ones may have reached the restaurant too.
Settle(o) ==
    /\ submission[o] = "pending"
    /\ \/ o \in reached /\ submission' = [submission EXCEPT ![o] = "submitted"]
       \/ submission' = [submission EXCEPT ![o] = "failed"]
    /\ UNCHANGED <<OrderService, Broker, Consumers, mapped, events, Restaurant, faults>>

\* Broken variant: the last decision stands.
Bug_LastDecisionWins(m) == \A e \in events : [e EXCEPT !.status = m.status] # m

\* 409 for another decision than the one that stands; the same callback again
\* changes nothing.
Taken(m) == submission[m.order] \notin Decisions \ {m.status} /\ m \notin events

StatusCallback(m) ==
    /\ m \in wire
    /\ wire' = wire \ {m}
    /\ IF Taken(m)
       THEN /\ events' = events \cup {m}
            /\ submission' = [submission EXCEPT ![m.order] = m.status]
       ELSE UNCHANGED <<events, submission>>
    /\ UNCHANGED <<OrderService, Broker, Consumers, mapped, reached, restaurant, life, faults>>

PublishDecided(e) ==
    /\ e \in events
    /\ InLog(decided[PartitionOf[e.order]], e) => Fault
    /\ ~InLog(decided[PartitionOf[e.order]], e) => UNCHANGED faults
    /\ decided' = [decided EXCEPT ![PartitionOf[e.order]] = Append(@, e)]
    /\ UNCHANGED <<OrderService, created, Consumers, PartnerService, Restaurant>>

\* Somebody adds the missing integration.
AddIntegration(o) ==
    /\ o \notin mapped
    /\ mapped' = mapped \cup {o}
    /\ UNCHANGED <<OrderService, Broker, Consumers, submission, events, Restaurant, faults>>

-----------------------------------------------------------------------------
(* The restaurant *)

\* An operator decides, or repeats a decision.
Decide(o, d) ==
    /\ restaurant[o] \in {"asked", d}
    /\ restaurant' = [restaurant EXCEPT ![o] = d]
    /\ wire' = wire \cup {[order |-> o, status |-> d, life |-> life]}
    /\ UNCHANGED <<OrderService, Broker, Consumers, PartnerService, reached, life, faults>>

LoseCallback(m) ==
    /\ m \in wire
    /\ wire' = wire \ {m}
    /\ UNCHANGED <<OrderService, Broker, Consumers, PartnerService, reached, restaurant, life,
                   faults>>

Restart ==
    /\ Fault
    /\ restaurant' = [o \in Orders |-> "unknown"]
    /\ life' = life + 1
    /\ UNCHANGED <<OrderService, Broker, Consumers, PartnerService, reached, wire>>

-----------------------------------------------------------------------------
(* The consumers *)

\* Broken variant: the record being handled is committed with the others.
Bug_CommitAhead(topic, p) ==
    IF next[<<topic, p>>] < Len(Log(topic, p)) THEN next[<<topic, p>>] + 1 ELSE next[<<topic, p>>]

Offset(topic, p) == next[<<topic, p>>]

Commit(topic, p) ==
    /\ committed' = [committed EXCEPT ![<<topic, p>>] = Offset(topic, p)]
    /\ UNCHANGED <<OrderService, Broker, next, PartnerService, Restaurant, faults>>

\* A consumer stops, or its partition moves: the next one starts where the
\* committed offset is.
Reassign(topic, p) ==
    /\ Fault
    /\ next' = [next EXCEPT ![<<topic, p>>] = committed[<<topic, p>>]]
    /\ UNCHANGED <<OrderService, Broker, committed, PartnerService, Restaurant>>

-----------------------------------------------------------------------------

Next ==
    \/ \E o \in Orders :
          \/ CreateOrder(o) \/ PublishCreated(o) \/ Send(o) \/ Settle(o) \/ AddIntegration(o)
          \/ \E d \in Decisions : Decide(o, d)
    \/ \E m \in wire : StatusCallback(m) \/ LoseCallback(m)
    \/ \E e \in events : PublishDecided(e)
    \/ \E p \in Partitions :
          \/ \E o \in Orders : ReceiveOrder(p, o)
          \/ \E e \in events : ApplyPartnerEvent(p, e)
          \/ \E topic \in Topics : Commit(topic, p) \/ Reassign(topic, p)
    \/ Restart

Spec == Init /\ [][Next]_vars

\* What the parts' own liveness properties give: stored events are published,
\* consumers go on, a submission is settled.  Nothing is said of the restaurant,
\* its operators, or those who add integrations.
Fairness ==
    /\ \A o \in Orders : /\ WF_vars(~InLog(created[PartitionOf[o]], o) /\ PublishCreated(o))
                         /\ WF_vars(Settle(o))
    /\ WF_vars(\E e \in events : ~InLog(decided[PartitionOf[e.order]], e) /\ PublishDecided(e))
    /\ \A p \in Partitions : /\ WF_vars(\E o \in Orders : ReceiveOrder(p, o))
                             /\ WF_vars(\E e \in events : ApplyPartnerEvent(p, e))

FairSpec == Spec /\ Fairness

-----------------------------------------------------------------------------
(* Properties *)

Decision == [o \in Orders |-> IF submission[o] \in Decisions THEN submission[o] ELSE "none"]

Promise == INSTANCE OrderPromise WITH shown <- status, decision <- Decision

PromiseSpec == Promise!PromiseSpec

\* Across both services the user is shown one decision at most, the one partner-
\* service has taken, never before it is taken and always in the end, through
\* lost, repeated and late messages and a restaurant that forgets.
ImplementsPromise == Promise!PromiseFairSpec

\* No event of partner-service is one that order-service refuses, which would
\* block its partition for ever (kafkaconsume/consumer.go): the order exists, and
\* no decision contradicts it.
NoDecisionBlocks ==
    \A p \in Partitions : \A i \in DOMAIN decided[p] :
        decided[p][i] \in inbox \/ status[decided[p][i].order] \in {"pending", decided[p][i].status}

\* An order may be pending for ever (dispatcher.go:74: a submission that fails for
\* good produces no event), but no order is forgotten: unless one ahead of it in
\* its partition waits for an integration, it is decided, or submitted to the
\* restaurant, or given up.
NoOrderIsForgotten ==
    \A o \in Orders :
        (\A q \in Orders : PartitionOf[q] = PartitionOf[o] => q \in mapped)
            /\ status[o] = "pending"
        ~> submission[o] \in {"submitted", "failed"} \cup Decisions
============================================================================
