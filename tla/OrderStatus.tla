----------------------------- MODULE OrderStatus -----------------------------
(***************************************************************************)
(* ApplyPartnerEvent of order-service: one READ COMMITTED transaction per  *)
(* delivered partner event (internal/order/postgres/store.go), guarded by  *)
(* an advisory lock on the event id, an inbox row, and SELECT ... FOR      *)
(* UPDATE on the order.                                                    *)
(*                                                                         *)
(* Events are delivered at least once, to any handler: two members of the  *)
(* consumer group may hold the same record around a rebalance, and the     *)
(* records of one order may come from different partner replicas.          *)
(* Whatever they do, it is one of the atomic steps of StatusPromise.       *)
(***************************************************************************)
EXTENDS StatusPromise

CONSTANTS
    Handlers,       \* concurrent Handle calls
    MaxAborts,      \* bound: transactions cut short in a run
    NoOne,          \* lock is free
    NoEvent         \* handler has no event

ASSUME StatusAssumption ==
    /\ EventOrder \in [Events -> Orders]
    /\ EventStatus \in [Events -> {"accepted", "rejected"}]
    /\ NoOne \notin Handlers
    /\ MaxAborts \in Nat
    /\ NoEvent \notin Events

VARIABLES
    eventLock,    \* pg_advisory_xact_lock on each event id
    rowLock,      \* FOR UPDATE lock on each order
    call,         \* each handler: where it is, its event, the order it read
    aborts        \* aborts left (bound)

vars == <<order, inbox, eventLock, rowLock, call, aborts>>

-----------------------------------------------------------------------------

CallStates == [pc    : {"idle", "begin", "inbox", "load", "transition", "commit"},
               event : Events \cup {NoEvent},
               read  : OrderRows]

TypeOK ==
    /\ order \in [Orders -> OrderRows]
    /\ inbox \subseteq Events
    /\ eventLock \in [Events -> Handlers \cup {NoOne}]
    /\ rowLock \in [Orders -> Handlers \cup {NoOne}]
    /\ call \in [Handlers -> CallStates]
    /\ aborts \in Nat

Init ==
    /\ PromiseInit
    /\ eventLock = [e \in Events |-> NoOne]
    /\ rowLock = [o \in Orders |-> NoOne]
    /\ call = [h \in Handlers |-> [pc |-> "idle", event |-> NoEvent, read |-> Created]]
    /\ aborts = MaxAborts

-----------------------------------------------------------------------------
(* The transaction *)

Ev(h) == call[h].event
Ord(h) == EventOrder[Ev(h)]

\* The order after the update statement, which is skipped if nothing changes.
Updated(h) ==
    IF call[h].read.status = EventStatus[Ev(h)] THEN order
    ELSE [order EXCEPT ![Ord(h)] = Transition(call[h].read, EventStatus[Ev(h)])]

Goto(h, pc) == call' = [call EXCEPT ![h].pc = pc]

Return(h) == call' = [call EXCEPT ![h].pc = "idle"]

\* COMMIT or ROLLBACK: the locks of the transaction go.
Release(h) ==
    /\ eventLock' = [e \in Events |-> IF eventLock[e] = h THEN NoOne ELSE eventLock[e]]
    /\ rowLock' = [o \in Orders |-> IF rowLock[o] = h THEN NoOne ELSE rowLock[o]]

\* A record is delivered, for the first time or again.
Deliver(h, e) ==
    /\ call[h].pc = "idle"
    /\ call' = [call EXCEPT ![h].pc = "begin", ![h].event = e]
    /\ UNCHANGED <<order, inbox, eventLock, rowLock, aborts>>

LockEvent(h) ==
    /\ call[h].pc = "begin"
    /\ eventLock[Ev(h)] = NoOne
    /\ eventLock' = [eventLock EXCEPT ![Ev(h)] = h]
    /\ Goto(h, "inbox")
    /\ UNCHANGED <<order, inbox, rowLock, aborts>>

\* An event in the inbox is a duplicate and is acknowledged as it is.
LookupInbox(h) ==
    /\ call[h].pc = "inbox"
    /\ IF Ev(h) \in inbox
       THEN Return(h) /\ Release(h)
       ELSE Goto(h, "load") /\ UNCHANGED <<eventLock, rowLock>>
    /\ UNCHANGED <<order, inbox, aborts>>

\* Broken variant: SELECT without FOR UPDATE.
Bug_NoRowLock(h) ==
    /\ call[h].pc = "load"
    /\ call' = [call EXCEPT ![h].pc = "transition", ![h].read = order[Ord(h)]]
    /\ UNCHANGED <<order, inbox, eventLock, rowLock, aborts>>

\* SELECT ... FOR UPDATE waits for the row lock, then reads what is committed.
LoadForUpdate(h) ==
    /\ call[h].pc = "load"
    /\ rowLock[Ord(h)] = NoOne
    /\ rowLock' = [rowLock EXCEPT ![Ord(h)] = h]
    /\ call' = [call EXCEPT ![h].pc = "transition", ![h].read = order[Ord(h)]]
    /\ UNCHANGED <<order, inbox, eventLock, aborts>>

\* An impossible transition is an error: rolled back, redelivered, never acked.
TransitionTo(h) ==
    /\ call[h].pc = "transition"
    /\ IF TransitionFails(call[h].read, EventStatus[Ev(h)])
       THEN Return(h) /\ Release(h)
       ELSE Goto(h, "commit") /\ UNCHANGED <<eventLock, rowLock>>
    /\ UNCHANGED <<order, inbox, aborts>>

\* Broken variant: the inbox row is not written.
Bug_NoInboxRow(h) ==
    /\ call[h].pc = "commit"
    /\ order' = Updated(h)
    /\ Return(h)
    /\ Release(h)
    /\ UNCHANGED <<inbox, aborts>>

\* The update computed from the row that was read, and the inbox row, together.
Commit(h) ==
    /\ call[h].pc = "commit"
    /\ order' = Updated(h)
    /\ inbox' = inbox \cup {Ev(h)}
    /\ Return(h)
    /\ Release(h)
    /\ UNCHANGED aborts

\* Broken variant: an error path without rollback.
Bug_NoRollback(h) ==
    /\ call[h].pc # "idle"
    /\ aborts > 0
    /\ aborts' = aborts - 1
    /\ Return(h)
    /\ UNCHANGED <<order, inbox, eventLock, rowLock>>

\* Shutdown, crash, database error: rolled back.
Abort(h) ==
    /\ call[h].pc # "idle"
    /\ aborts > 0
    /\ aborts' = aborts - 1
    /\ Return(h)
    /\ Release(h)
    /\ UNCHANGED <<order, inbox>>

Work(h) ==
    LockEvent(h) \/ LookupInbox(h) \/ LoadForUpdate(h) \/ TransitionTo(h) \/ Commit(h)

Next ==
    \E h \in Handlers : Work(h) \/ Abort(h) \/ \E e \in Events : Deliver(h, e)

Spec == Init /\ [][Next]_vars

\* handleUntilSuccess delivers a record again until Handle returns nil, and a
\* transaction that has begun goes on.
Fairness ==
    /\ \A h \in Handlers : WF_vars(Work(h))
    /\ \A e \in Events : SF_vars(e \notin inbox /\ \E h \in Handlers : Deliver(h, e))

FairSpec == Spec /\ Fairness

-----------------------------------------------------------------------------
(* Properties *)

\* Every change of a stored status is one the domain allows, and exactly the
\* changes count a version: two decisions that race for one order are not both
\* applied to the row they read (the FOR UPDATE lock).
StatusFollowsDomain ==
    [][\A o \in Orders :
          /\ order'[o].status # order[o].status => CanTransition(order[o].status, order'[o].status)
          /\ order'[o].version = order[o].version
                + (IF order'[o].status # order[o].status THEN 1 ELSE 0)]_vars

\* An acknowledged event is visible: the inbox never swallows an event whose
\* status the order does not show.
InboxIsApplied ==
    \A e \in inbox : order[EventOrder[e]].status = EventStatus[e]

\* A status other than the initial one comes from an acknowledged event, so
\* a lost answer cannot leave a change without its inbox row.
ChangeIsInInbox ==
    \A o \in Orders :
        order[o].status # "pending" => \E e \in inbox : EventOrder[e] = o

\* Unless partner events contradict each other, every event that was delivered
\* is applied in the end, whatever is aborted; the two locks never block it.
EventuallyApplied ==
    \A e \in Events :
        (\A f \in Events : EventOrder[f] = EventOrder[e] => EventStatus[f] = EventStatus[e])
            => <>(e \in inbox)
==============================================================================
