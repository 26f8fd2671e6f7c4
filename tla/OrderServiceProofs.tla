------------------------- MODULE OrderServiceProofs -------------------------
(***************************************************************************)
(* Proofs about the two ends of order-service: OrderStatus, for any number *)
(* of orders, events and handlers, and OrderEntry (with OrderRules), for   *)
(* any catalogs, bodies, calls and width of an integer.                    *)
(*                                                                         *)
(* The sums of OrderRules are recursive functions.  What they add up to is *)
(* proved by induction over the positions, with a set for the predicate.   *)
(***************************************************************************)
EXTENDS OrderStatus, OrderEntry, FiniteSetTheorems, WellFoundedInduction, TLAPS

-----------------------------------------------------------------------------
(* ApplyPartnerEvent: the inductive invariant *)

\* A transaction works on an event and holds its advisory lock.
EventIsHeld ==
    \A h \in Handlers :
        /\ call[h].pc # "idle" => call[h].event \in Events
        /\ call[h].pc \in {"inbox", "load", "transition", "commit"} =>
              eventLock[call[h].event] = h

\* What it read is what is stored, for as long as it holds the row.
RowIsHeld ==
    \A h \in Handlers :
        call[h].pc \in {"transition", "commit"} =>
            /\ rowLock[EventOrder[call[h].event]] = h
            /\ call[h].read = order[EventOrder[call[h].event]]

\* Nothing is committed that the domain refuses.
CommitIsAllowed ==
    \A h \in Handlers :
        call[h].pc = "commit" => ~TransitionFails(call[h].read, EventStatus[call[h].event])

StatusInv == TypeOK /\ EventIsHeld /\ RowIsHeld /\ CommitIsAllowed

-----------------------------------------------------------------------------
(* The domain *)

\* A partner's decision is only possible for a pending order.
LEMMA DecisionsComeFirst ==
    ASSUME NEW s \in Statuses, NEW d \in {"accepted", "rejected"}, CanTransition(s, d)
    PROVE  s = "pending"
BY DEF CanTransition, Allowed, Statuses

LEMMA EventFacts ==
    ASSUME NEW e \in Events
    PROVE  /\ EventOrder[e] \in Orders
           /\ EventStatus[e] \in {"accepted", "rejected"}
           /\ EventStatus[e] \in Statuses
BY StatusAssumption DEF Statuses

LEMMA TransitionType ==
    ASSUME NEW row \in OrderRows, NEW s \in Statuses
    PROVE  Transition(row, s) \in OrderRows
BY DEF Transition, OrderRows

-----------------------------------------------------------------------------
(* Steps of one transaction *)

Step(h) == Work(h) \/ Abort(h) \/ \E e \in Events : Deliver(h, e)

LEMMA GotoFacts ==
    ASSUME TypeOK, NEW h \in Handlers,
           NEW pc \in {"inbox", "commit", "load"}, Goto(h, pc)
    PROVE  /\ call' \in [Handlers -> CallStates]
           /\ \A g \in Handlers \ {h} : call'[g] = call[g]
           /\ call'[h].pc = pc
           /\ call'[h].event = call[h].event
           /\ call'[h].read = call[h].read
BY DEF TypeOK, CallStates, Goto

LEMMA ReturnFacts ==
    ASSUME TypeOK, NEW h \in Handlers, Return(h)
    PROVE  /\ call' \in [Handlers -> CallStates]
           /\ \A g \in Handlers \ {h} : call'[g] = call[g]
           /\ call'[h].pc = "idle"
BY DEF TypeOK, CallStates, Return

LEMMA ReleaseFacts ==
    ASSUME TypeOK, NEW h \in Handlers, Release(h)
    PROVE  /\ eventLock' \in [Events -> Handlers \cup {NoOne}]
           /\ rowLock' \in [Orders -> Handlers \cup {NoOne}]
           /\ \A e \in Events : eventLock[e] # h => eventLock'[e] = eventLock[e]
           /\ \A o \in Orders : rowLock[o] # h => rowLock'[o] = rowLock[o]
BY DEF TypeOK, Release

LEMMA UpdatedType ==
    ASSUME TypeOK, NEW h \in Handlers, call[h].event \in Events
    PROVE  Updated(h) \in [Orders -> OrderRows]
<1>1. call[h].read \in OrderRows
  BY DEF TypeOK, CallStates
<1> QED
  BY <1>1, EventFacts, TransitionType DEF TypeOK, Updated, Ev, Ord

\* One transaction moves, its locks and its order's row may change, everything
\* the others hold stays as it is.
LEMMA Frame ==
    ASSUME StatusInv, NEW h \in Handlers, Step(h)
    PROVE  /\ TypeOK'
           /\ \A g \in Handlers \ {h} :
                 /\ call'[g] = call[g]
                 /\ \A e \in Events : eventLock[e] = g => eventLock'[e] = g
                 /\ \A o \in Orders : rowLock[o] = g => rowLock'[o] = g
           /\ \A o \in Orders :
                 order'[o] # order[o] => call[h].pc = "commit" /\ o = EventOrder[call[h].event]
           /\ order' # order => order' = Updated(h) /\ call[h].pc = "commit"
           /\ inbox' # inbox => /\ inbox' = inbox \cup {call[h].event}
                                /\ order' = Updated(h)
                                /\ call[h].pc = "commit"
<1> USE StatusAssumption DEF StatusInv
<1>1. CASE \E e \in Events : Deliver(h, e)
  <2>1. PICK e \in Events : Deliver(h, e)
    BY <1>1
  <2>2. call' \in [Handlers -> CallStates] /\ \A g \in Handlers \ {h} : call'[g] = call[g]
    <3>1. [call[h] EXCEPT !.pc = "begin", !.event = e] \in CallStates
      BY DEF TypeOK, CallStates
    <3>2. call' = [call EXCEPT ![h] = [call[h] EXCEPT !.pc = "begin", !.event = e]]
      BY <2>1 DEF Deliver
    <3> QED
      BY <3>1, <3>2 DEF TypeOK
  <2> QED
    BY <2>1, <2>2 DEF TypeOK, Deliver
<1>2. CASE LockEvent(h)
  <2>1. call[h].event \in Events
    BY <1>2 DEF LockEvent, EventIsHeld
  <2> QED
    BY <1>2, <2>1, GotoFacts DEF TypeOK, LockEvent, Ev
<1>3. CASE LookupInbox(h)
  <2>1. CASE Ev(h) \in inbox
    BY <1>3, <2>1, ReturnFacts, ReleaseFacts DEF TypeOK, LookupInbox
  <2>2. CASE Ev(h) \notin inbox
    BY <1>3, <2>2, GotoFacts DEF TypeOK, LookupInbox
  <2> QED
    BY <2>1, <2>2
<1>4. CASE LoadForUpdate(h)
  <2>1. call[h].event \in Events /\ Ord(h) \in Orders
    BY <1>4, EventFacts DEF LoadForUpdate, EventIsHeld, Ev, Ord
  <2>2. call' \in [Handlers -> CallStates] /\ \A g \in Handlers \ {h} : call'[g] = call[g]
    <3>1. [call[h] EXCEPT !.pc = "transition", !.read = order[Ord(h)]] \in CallStates
      BY <2>1 DEF TypeOK, CallStates
    <3>2. call' = [call EXCEPT ![h] = [call[h] EXCEPT !.pc = "transition", !.read = order[Ord(h)]]]
      BY <1>4 DEF LoadForUpdate
    <3> QED
      BY <3>1, <3>2 DEF TypeOK
  <2> QED
    BY <1>4, <2>1, <2>2 DEF TypeOK, LoadForUpdate
<1>5. CASE TransitionTo(h)
  <2>1. CASE TransitionFails(call[h].read, EventStatus[Ev(h)])
    BY <1>5, <2>1, ReturnFacts, ReleaseFacts DEF TypeOK, TransitionTo
  <2>2. CASE ~TransitionFails(call[h].read, EventStatus[Ev(h)])
    BY <1>5, <2>2, GotoFacts DEF TypeOK, TransitionTo
  <2> QED
    BY <2>1, <2>2
<1>6. CASE Commit(h)
  <2>1. call[h].event \in Events
    BY <1>6 DEF Commit, EventIsHeld
  <2>2. \A o \in Orders : Updated(h)[o] # order[o] => o = EventOrder[call[h].event]
    BY <2>1, EventFacts DEF TypeOK, Updated, Ev, Ord
  <2> QED
    BY <1>6, <2>1, <2>2, UpdatedType, ReturnFacts, ReleaseFacts DEF TypeOK, Commit, Ev
<1>7. CASE Abort(h)
  BY <1>7, ReturnFacts, ReleaseFacts DEF TypeOK, Abort
<1> QED
  BY <1>1, <1>2, <1>3, <1>4, <1>5, <1>6, <1>7 DEF Step, Work

\* Where the moving transaction stands after its step.
LEMMA OwnStep ==
    ASSUME StatusInv, NEW h \in Handlers, Step(h)
    PROVE  /\ call'[h].pc # "idle" => call'[h].event \in Events
           /\ call'[h].pc \in {"inbox", "load", "transition", "commit"} =>
                 eventLock'[call'[h].event] = h
           /\ call'[h].pc \in {"transition", "commit"} =>
                 /\ rowLock'[EventOrder[call'[h].event]] = h
                 /\ call'[h].read = order'[EventOrder[call'[h].event]]
           /\ call'[h].pc = "commit" =>
                 ~TransitionFails(call'[h].read, EventStatus[call'[h].event])
<1> USE DEF StatusInv
<1>1. CASE \E e \in Events : Deliver(h, e)
  BY <1>1 DEF TypeOK, CallStates, Deliver
<1>2. CASE LockEvent(h)
  BY <1>2, GotoFacts DEF TypeOK, LockEvent, EventIsHeld, Ev
<1>3. CASE LookupInbox(h)
  BY <1>3, GotoFacts, ReturnFacts DEF LookupInbox, EventIsHeld
<1>4. CASE LoadForUpdate(h)
  <2>1. call[h].event \in Events /\ Ord(h) \in Orders /\ eventLock[call[h].event] = h
    BY <1>4, EventFacts DEF LoadForUpdate, EventIsHeld, Ev, Ord
  <2>2. /\ call'[h].pc = "transition" /\ call'[h].event = call[h].event
        /\ call'[h].read = order[Ord(h)]
    BY <1>4 DEF TypeOK, CallStates, LoadForUpdate
  <2> QED
    BY <1>4, <2>1, <2>2 DEF TypeOK, LoadForUpdate, Ev, Ord
<1>5. CASE TransitionTo(h)
  <2>1. CASE TransitionFails(call[h].read, EventStatus[Ev(h)])
    BY <1>5, <2>1, ReturnFacts DEF TransitionTo
  <2>2. CASE ~TransitionFails(call[h].read, EventStatus[Ev(h)])
    <3>1. /\ call'[h].pc = "commit" /\ call'[h].event = call[h].event
          /\ call'[h].read = call[h].read
          /\ UNCHANGED <<eventLock, rowLock, order>>
      BY <1>5, <2>2, GotoFacts DEF TransitionTo
    <3> QED
      BY <1>5, <2>2, <3>1 DEF TransitionTo, EventIsHeld, RowIsHeld, TransitionFails, Ev
  <2> QED
    BY <2>1, <2>2
<1>6. CASE Commit(h) \/ Abort(h)
  BY <1>6, ReturnFacts DEF Commit, Abort
<1> QED
  BY <1>1, <1>2, <1>3, <1>4, <1>5, <1>6 DEF Step, Work

-----------------------------------------------------------------------------

LEMMA InitInv == Init => StatusInv
BY StatusAssumption
   DEF Init, PromiseInit, StatusInv, TypeOK, CallStates, OrderRows, Created, Statuses, EventIsHeld, RowIsHeld,
       CommitIsAllowed

LEMMA InvInductive ==
    ASSUME StatusInv, [Next]_vars
    PROVE  StatusInv'
<1> USE DEF StatusInv
<1>1. CASE UNCHANGED vars
  BY <1>1 DEF vars, TypeOK, EventIsHeld, RowIsHeld, CommitIsAllowed, TransitionFails
<1>2. ASSUME NEW h \in Handlers, Step(h)
      PROVE  StatusInv'
  <2>1. TypeOK'
    BY <1>2, Frame
  <2>2. EventIsHeld'
    BY <1>2, Frame, OwnStep DEF EventIsHeld
  <2>3. RowIsHeld'
    <3> SUFFICES ASSUME NEW g \in Handlers, call'[g].pc \in {"transition", "commit"}
                 PROVE  /\ rowLock'[EventOrder[call'[g].event]] = g
                        /\ call'[g].read = order'[EventOrder[call'[g].event]]
      BY DEF RowIsHeld
    <3>1. CASE g = h
      BY <1>2, <3>1, OwnStep
    <3>2. CASE g # h
      <4>1. call'[g] = call[g] /\ call[g].event \in Events
        BY <1>2, <3>2, Frame DEF EventIsHeld
      <4> DEFINE o == EventOrder[call[g].event]
      <4>2. o \in Orders /\ rowLock[o] = g /\ call[g].read = order[o]
        BY <4>1, EventFacts DEF RowIsHeld
      <4>3. rowLock'[o] = g
        BY <1>2, <3>2, <4>2, Frame
      <4>4. order'[o] = order[o]
        <5> SUFFICES ASSUME order'[o] # order[o]
                     PROVE  FALSE
          OBVIOUS
        <5>1. call[h].pc = "commit" /\ o = EventOrder[call[h].event]
          BY <1>2, <4>2, Frame
        <5> QED
          BY <3>2, <4>2, <5>1 DEF RowIsHeld
      <4> QED
        BY <4>1, <4>2, <4>3, <4>4
    <3> QED
      BY <3>1, <3>2
  <2>4. CommitIsAllowed'
    BY <1>2, Frame, OwnStep DEF CommitIsAllowed, TransitionFails
  <2> QED
    BY <2>1, <2>2, <2>3, <2>4
<1> QED
  BY <1>1, <1>2 DEF Next, Step

\* Every reachable state is well typed, and every transaction holds the event
\* and the row it works on.
THEOREM StatusInvariant == Spec => []StatusInv
<1>1. StatusInv /\ [Next]_vars => StatusInv'
  BY InvInductive
<1> QED
  BY InitInv, <1>1, PTL DEF Spec

\* Calls, locks, orders and the inbox keep their types through every
\* interleaving of ApplyPartnerEvent's statements.
THEOREM TypeCorrect == Spec => []TypeOK
BY StatusInvariant, PTL DEF StatusInv

-----------------------------------------------------------------------------
(* Correctness *)

\* What a commit does to the order of its event.
LEMMA CommitFacts ==
    ASSUME StatusInv, NEW h \in Handlers, call[h].pc = "commit", order' = Updated(h)
    PROVE  LET o == EventOrder[call[h].event]
               s == EventStatus[call[h].event]
           IN /\ o \in Orders /\ s \in {"accepted", "rejected"}
              /\ \A p \in Orders \ {o} : order'[p] = order[p]
              /\ order'[o].status = s
              /\ \/ order[o].status = s /\ order'[o] = order[o]
                 \/ /\ order[o].status # s
                    /\ CanTransition(order[o].status, s)
                    /\ order[o].status = "pending"
                    /\ order'[o].version = order[o].version + 1
<1> USE DEF StatusInv
<1> DEFINE o == EventOrder[call[h].event]
           s == EventStatus[call[h].event]
<1>1. o \in Orders /\ s \in {"accepted", "rejected"}
  BY EventFacts DEF EventIsHeld
<1>2. call[h].read = order[o] /\ ~TransitionFails(call[h].read, s)
  BY DEF RowIsHeld, CommitIsAllowed
<1>3. order[o].status \in Statuses
  BY <1>1 DEF TypeOK, OrderRows
<1>4. CASE order[o].status = s
  BY <1>1, <1>2, <1>4 DEF Updated, Ev
<1>5. CASE order[o].status # s
  <2>1. CanTransition(order[o].status, s) /\ order[o].status = "pending"
    BY <1>1, <1>2, <1>3, <1>5, DecisionsComeFirst DEF TransitionFails
  <2>2. order' = [order EXCEPT ![o] = [status |-> s, version |-> order[o].version + 1]]
    BY <1>2, <1>5 DEF Updated, Transition, Ev, Ord
  <2> QED
    BY <1>1, <1>5, <2>1, <2>2 DEF TypeOK
<1> QED
  BY <1>1, <1>4, <1>5

\* Two decisions that race for one order are not both applied to the row they
\* read: every change is one the domain allows and counts one version.
THEOREM StatusAlwaysFollowsDomain == Spec => StatusFollowsDomain
<1> DEFINE Follows(o) ==
      /\ order'[o].status # order[o].status => CanTransition(order[o].status, order'[o].status)
      /\ order'[o].version = order[o].version
            + (IF order'[o].status # order[o].status THEN 1 ELSE 0)
<1>1. ASSUME StatusInv, [Next]_vars, NEW o \in Orders
      PROVE  Follows(o)
  <2>1. order[o].version \in Nat
    BY <1>1 DEF StatusInv, TypeOK, OrderRows
  <2>2. CASE order'[o] = order[o]
    BY <2>1, <2>2
  <2>3. CASE order'[o] # order[o]
    <3>1. PICK h \in Handlers : Step(h)
      BY <1>1, <2>3 DEF Next, Step, vars
    <3>2. call[h].pc = "commit" /\ o = EventOrder[call[h].event] /\ order' = Updated(h)
      BY <1>1, <2>3, <3>1, Frame
    <3> QED
      BY <1>1, <2>1, <2>3, <3>2, CommitFacts
  <2> QED
    BY <2>2, <2>3
<1>2. StatusInv /\ [Next]_vars => [\A o \in Orders : Follows(o)]_vars
  BY <1>1
<1> QED
  BY StatusInvariant, <1>2, PTL DEF Spec, StatusFollowsDomain

LEMMA InboxInductive ==
    ASSUME StatusInv, InboxIsApplied, ChangeIsInInbox, [Next]_vars
    PROVE  InboxIsApplied' /\ ChangeIsInInbox'
<1> USE DEF StatusInv
<1>1. CASE order' = order /\ inbox' = inbox
  BY <1>1 DEF InboxIsApplied, ChangeIsInInbox
<1>2. CASE ~(order' = order /\ inbox' = inbox)
  <2>1. PICK h \in Handlers : Step(h)
    BY <1>2 DEF Next, Step, vars
  <2>2. Commit(h)
    BY <1>2, <2>1 DEF Step, Work, LockEvent, LookupInbox, LoadForUpdate, TransitionTo, Abort, Deliver
  <2>3. /\ call[h].pc = "commit" /\ order' = Updated(h)
        /\ inbox' = inbox \cup {call[h].event}
    BY <2>2 DEF Commit, Ev
  <2> QED
    BY <2>3, CommitFacts, EventFacts DEF InboxIsApplied, ChangeIsInInbox, TypeOK
<1> QED
  BY <1>1, <1>2

\* The inbox never swallows an event whose status its order does not show.
THEOREM InboxIsAlwaysApplied == Spec => []InboxIsApplied
<1>1. Init => InboxIsApplied /\ ChangeIsInInbox
  BY DEF Init, PromiseInit, InboxIsApplied, ChangeIsInInbox, Created
<1>2. StatusInv /\ InboxIsApplied /\ ChangeIsInInbox /\ [Next]_vars
         => InboxIsApplied' /\ ChangeIsInInbox'
  BY InboxInductive
<1> QED
  BY StatusInvariant, <1>1, <1>2, PTL DEF Spec

\* No order leaves its first status without an acknowledged event.
THEOREM ChangeIsAlwaysInInbox == Spec => []ChangeIsInInbox
<1>1. Init => InboxIsApplied /\ ChangeIsInInbox
  BY DEF Init, PromiseInit, InboxIsApplied, ChangeIsInInbox, Created
<1>2. StatusInv /\ InboxIsApplied /\ ChangeIsInInbox /\ [Next]_vars
         => InboxIsApplied' /\ ChangeIsInInbox'
  BY InboxInductive
<1> QED
  BY StatusInvariant, <1>1, <1>2, PTL DEF Spec

-----------------------------------------------------------------------------
(* The transactions are the atomic steps of StatusPromise *)

\* Past its look into the inbox, a transaction works on an event that is not there.
EventIsNew ==
    \A h \in Handlers :
        call[h].pc \in {"load", "transition", "commit"} => call[h].event \notin inbox

LEMMA EventIsNewInductive ==
    ASSUME StatusInv, EventIsNew, [Next]_vars
    PROVE  EventIsNew'
<1> USE DEF StatusInv
<1>1. CASE UNCHANGED vars
  BY <1>1 DEF vars, EventIsNew
<1>2. ASSUME NEW h \in Handlers, Step(h),
             NEW g \in Handlers, call'[g].pc \in {"load", "transition", "commit"}
      PROVE  call'[g].event \notin inbox'
  <2>1. CASE g # h
    <3>1. /\ call'[g] = call[g] /\ call[g].event \notin inbox
          /\ eventLock[call[g].event] = g
      BY <1>2, <2>1, Frame DEF EventIsNew, EventIsHeld
    <3>2. ASSUME inbox' # inbox PROVE call[g].event # call[h].event
      <4>1. call[h].pc = "commit"
        BY <1>2, <3>2, Frame
      <4> QED
        BY <2>1, <3>1, <4>1 DEF EventIsHeld
    <3>3. inbox' # inbox => inbox' = inbox \cup {call[h].event}
      BY <1>2, Frame
    <3> QED
      BY <3>1, <3>2, <3>3
  <2>2. CASE g = h
    <3>1. CASE \E e \in Events : Deliver(h, e)
      BY <1>2, <2>2, <3>1 DEF Deliver, TypeOK, CallStates
    <3>2. CASE LockEvent(h)
      BY <1>2, <2>2, <3>2, GotoFacts DEF LockEvent
    <3>3. CASE LookupInbox(h)
      BY <1>2, <2>2, <3>3, GotoFacts, ReturnFacts DEF LookupInbox, Ev
    <3>4. CASE LoadForUpdate(h)
      BY <2>2, <3>4 DEF LoadForUpdate, EventIsNew, TypeOK, CallStates
    <3>5. CASE TransitionTo(h)
      BY <1>2, <2>2, <3>5, GotoFacts, ReturnFacts DEF TransitionTo, EventIsNew
    <3>6. CASE Commit(h) \/ Abort(h)
      BY <1>2, <2>2, <3>6, ReturnFacts DEF Commit, Abort
    <3> QED
      BY <1>2, <3>1, <3>2, <3>3, <3>4, <3>5, <3>6 DEF Step, Work
  <2> QED
    BY <2>1, <2>2
<1> QED
  BY <1>1, <1>2 DEF Next, Step, EventIsNew

\* However the statements of ApplyPartnerEvent interleave, are cut short or are
\* repeated, the tables change as if each event were applied at one moment, to the
\* order as stored, and once.
THEOREM StatusImplementsPromise == Spec => PromiseSpec
<1>1. ASSUME StatusInv, EventIsNew, [Next]_vars PROVE [PromiseNext]_promiseVars
  <2> USE <1>1 DEF StatusInv
  <2>1. CASE order' = order /\ inbox' = inbox
    BY <2>1 DEF promiseVars
  <2>2. CASE ~(order' = order /\ inbox' = inbox)
    <3>1. PICK h \in Handlers : Step(h)
      BY <2>2 DEF Next, Step, vars
    <3>2. Commit(h)
      BY <2>2, <3>1 DEF Step, Work, LockEvent, LookupInbox, LoadForUpdate, TransitionTo, Abort,
                        Deliver
    <3> DEFINE e == call[h].event
               o == EventOrder[e]
    <3>3. /\ call[h].pc = "commit" /\ order' = Updated(h)
          /\ inbox' = inbox \cup {e}
      BY <3>2 DEF Commit, Ev
    <3>4. e \in Events /\ e \notin inbox /\ o \in Orders
      BY <3>3, EventFacts DEF EventIsHeld, EventIsNew
    <3>5. call[h].read = order[o] /\ ~TransitionFails(order[o], EventStatus[e])
      BY <3>3 DEF RowIsHeld, CommitIsAllowed
    <3>6. order' = [order EXCEPT ![o] = Transition(order[o], EventStatus[e])]
      <4>1. CASE order[o].status = EventStatus[e]
        <5>1. Transition(order[o], EventStatus[e]) = order[o] /\ order' = order
          BY <3>3, <3>5, <4>1 DEF Updated, Transition, Ev
        <5> QED
          BY <3>4, <5>1 DEF TypeOK
      <4>2. CASE order[o].status # EventStatus[e]
        BY <3>3, <3>5, <4>2 DEF Updated, Ev, Ord
      <4> QED
        BY <4>1, <4>2
    <3> QED
      BY <3>3, <3>4, <3>5, <3>6 DEF PromiseNext, Apply
  <2> QED
    BY <2>1, <2>2
<1>2. Init => PromiseInit /\ EventIsNew
  BY DEF Init, EventIsNew
<1>3. StatusInv /\ EventIsNew /\ [Next]_vars => EventIsNew'
  BY EventIsNewInductive
<1>4. StatusInv /\ EventIsNew /\ [Next]_vars => [PromiseNext]_promiseVars
  BY <1>1
<1> QED
  BY StatusInvariant, <1>2, <1>3, <1>4, PTL DEF Spec, PromiseSpec

-----------------------------------------------------------------------------
(* Induction, with a set for the predicate *)

LessThan == {p \in Nat \X Nat : p[1] < p[2]}

LEMMA LeastNumber ==
    ASSUME NEW T \in SUBSET Nat, T # {}
    PROVE  \E x \in T : \A y \in T : x <= y
<1>1. IsWellFoundedOn(LessThan, Nat)
  <2>1. OpToRel(<, Nat) = LessThan
    BY DEF OpToRel, LessThan
  <2> QED
    BY <2>1, NatLessThanWellFounded
<1>2. PICK x \in T : \A y \in T : ~(<<y, x>> \in LessThan)
  BY <1>1, WFMin, Zenon
<1>3. ASSUME NEW y \in T PROVE x <= y
  <2>1. <<y, x>> \in Nat \X Nat /\ ~(y < x)
    BY <1>2 DEF LessThan
  <2> QED
    BY <2>1
<1> QED
  BY <1>3

LEMMA Induction ==
    ASSUME NEW n \in Nat, NEW S, 0 \in S,
           \A k \in 1..n : k - 1 \in S => k \in S
    PROVE  0..n \subseteq S
<1> SUFFICES ASSUME 0..n \ S # {} PROVE FALSE
  OBVIOUS
<1> DEFINE T == 0..n \ S
<1>1. PICK x \in T : \A y \in T : x <= y
  <2>1. T \in SUBSET Nat /\ T # {}
    OBVIOUS
  <2> HIDE DEF T
  <2> QED
    BY <2>1, LeastNumber
<1>2. x # 0 /\ x - 1 \in 0..n /\ x \in 1..n
  BY <1>1
<1>3. x - 1 \in S
  BY <1>1, <1>2
<1> QED
  BY <1>1, <1>2, <1>3

-----------------------------------------------------------------------------
(* Integers with a width *)

LEMMA HalfIsPositive == Half \in Nat \ {0}
<1>1. Width - 1 \in Nat
  BY RulesAssumption
<1>2. IsFiniteSet(1..(Width - 1)) /\ Cardinality(1..(Width - 1)) = Width - 1
  BY <1>1, FS_Interval
<1>3. /\ IsFiniteSet(SUBSET (1..(Width - 1)))
      /\ Cardinality(SUBSET (1..(Width - 1))) = 2 ^ (Width - 1)
  BY <1>2, FS_SUBSET
<1>4. Cardinality(SUBSET (1..(Width - 1))) \in Nat
  BY <1>3, FS_CardinalityType
<1>5. Cardinality(SUBSET (1..(Width - 1))) # 0
  BY <1>3, FS_EmptySet
<1> QED
  BY <1>3, <1>4, <1>5 DEF Half

LEMMA Multiple ==
    ASSUME NEW m \in Nat, NEW q \in Nat \ {0}
    PROVE  q * m >= m
<1>1. q - 1 \in Nat /\ (q - 1) * m \in Nat
  OBVIOUS
<1>2. q * m = (q - 1) * m + m
  OBVIOUS
<1> QED
  BY <1>1, <1>2

LEMMA Division ==
    ASSUME NEW m \in Nat \ {0}, NEW x \in Int
    PROVE  \E q \in Int : x = q * m + (x % m)
<1>1. x = (x \div m) * m + (x % m) /\ x \div m \in Int
  OBVIOUS
<1> QED
  BY <1>1

LEMMA OneRemainder ==
    ASSUME NEW m \in Nat \ {0}, NEW q \in Int,
           NEW a \in 0..(m - 1), NEW b \in 0..(m - 1), a = b + q * m
    PROVE  a = b
<1>1. CASE q = 0
  BY <1>1
<1>2. CASE q > 0
  <2>1. q * m >= m
    BY <1>2, Multiple
  <2> QED
    BY <2>1
<1>3. CASE q < 0
  <2>1. (-q) * m >= m
    BY <1>3, Multiple
  <2>2. (-q) * m = -(q * m)
    OBVIOUS
  <2> QED
    BY <2>1, <2>2
<1> QED
  BY <1>1, <1>2, <1>3

LEMMA SameRemainder ==
    ASSUME NEW m \in Nat \ {0}, NEW q \in Int, NEW x \in Int, NEW y \in Int, x = y + q * m
    PROVE  x % m = y % m
<1>1. PICK s \in Int : x = s * m + (x % m)
  BY Division
<1>2. PICK t \in Int : y = t * m + (y % m)
  BY Division
<1>3. x % m \in 0..(m - 1) /\ y % m \in 0..(m - 1)
  OBVIOUS
<1>4. (t + q - s) * m = t * m + q * m - s * m /\ t + q - s \in Int
  OBVIOUS
<1>5. x % m = (y % m) + (t + q - s) * m
  BY <1>1, <1>2, <1>3, <1>4
<1> QED
  BY <1>3, <1>4, <1>5, OneRemainder

LEMMA SmallRemainder ==
    ASSUME NEW m \in Nat \ {0}, NEW a \in 0..(m - 1)
    PROVE  a % m = a
OBVIOUS

LEMMA Int64IsInt == Int64 \subseteq Int
BY HalfIsPositive DEF Int64

LEMMA WrapFits ==
    ASSUME NEW x \in Int
    PROVE  Wrap(x) \in Int64
<1>1. (x + Half) % (2 * Half) \in 0..(2 * Half - 1) /\ Half \in Nat
  BY HalfIsPositive
<1> QED
  BY <1>1 DEF Wrap, Int64

\* What fits is kept.
LEMMA WrapKeeps ==
    ASSUME NEW x \in Int64
    PROVE  Wrap(x) = x
<1>1. x + Half \in 0..(2 * Half - 1) /\ Half \in Nat \ {0}
  BY HalfIsPositive DEF Int64
<1>2. 2 * Half \in Nat \ {0}
  BY <1>1
<1>3. (x + Half) % (2 * Half) = x + Half
  BY <1>1, <1>2, SmallRemainder
<1> QED
  BY <1>1, <1>3 DEF Wrap, Int64

\* What does not fit is off by a multiple of the range.
LEMMA WrapOff ==
    ASSUME NEW x \in Int
    PROVE  \E q \in Int : Wrap(x) = x + q * (2 * Half)
<1>1. 2 * Half \in Nat \ {0} /\ Half \in Nat
  BY HalfIsPositive
<1> DEFINE m == 2 * Half
           y == x + Half
<1>2. m \in Nat \ {0} /\ y \in Int
  BY <1>1
<1> HIDE DEF m, y
<1>3. PICK q \in Int : y = q * m + (y % m)
  BY <1>2, Division
<1>4. (-q) * m = -(q * m) /\ q * m \in Int /\ y % m \in Int
  BY <1>2
<1>5. Wrap(x) = (y % m) - Half
  BY DEF Wrap, m, y
<1>6. Wrap(x) = x + (-q) * m
  BY <1>1, <1>3, <1>4, <1>5 DEF y
<1> QED
  BY <1>6 DEF m

LEMMA SameWrap ==
    ASSUME NEW x \in Int, NEW y \in Int, NEW q \in Int, x = y + q * (2 * Half)
    PROVE  Wrap(x) = Wrap(y)
<1>1. 2 * Half \in Nat \ {0} /\ Half \in Nat
  BY HalfIsPositive
<1> DEFINE m == 2 * Half
           u == x + Half
           v == y + Half
<1>2. q * m \in Int
  BY <1>1
<1>3. m \in Nat \ {0} /\ u \in Int /\ v \in Int /\ u = v + q * m
  BY <1>1, <1>2
<1>4. Wrap(x) = (u % m) - Half /\ Wrap(y) = (v % m) - Half
  BY DEF Wrap
<1> HIDE DEF m, u, v
<1>5. u % m = v % m
  <2>1. m \in Nat \ {0}
    BY <1>3
  <2>2. u \in Int
    BY <1>3
  <2>3. v \in Int
    BY <1>3
  <2>4. u = v + q * m
    BY <1>3
  <2> QED
    BY <2>1, <2>2, <2>3, <2>4, SameRemainder, Zenon
<1> QED
  BY <1>4, <1>5

\* It does not matter whether the parts of a sum are wrapped already.
LEMMA WrapAdds ==
    ASSUME NEW x \in Int, NEW y \in Int
    PROVE  Wrap(Wrap(x) + Wrap(y)) = Wrap(x + y)
<1>1. PICK s \in Int : Wrap(x) = x + s * (2 * Half)
  BY WrapOff
<1>2. PICK t \in Int : Wrap(y) = y + t * (2 * Half)
  BY WrapOff
<1>3. /\ (s + t) * (2 * Half) = s * (2 * Half) + t * (2 * Half)
      /\ s * (2 * Half) \in Int /\ t * (2 * Half) \in Int /\ s + t \in Int
  BY HalfIsPositive
<1>4. Wrap(x) + Wrap(y) = (x + y) + (s + t) * (2 * Half) /\ Wrap(x) + Wrap(y) \in Int
  BY <1>1, <1>2, <1>3
<1> QED
  BY <1>3, <1>4, SameWrap

-----------------------------------------------------------------------------
(* Sums of a sequence *)

\* f gives the sum of the first k amounts, for each k.
Adds(f, base, a) ==
    /\ f \in [0..Len(a) -> Int]
    /\ f[0] = base
    /\ \A k \in 1..Len(a) : f[k] = f[k - 1] + a[k]

LEMMA AddsExists ==
    ASSUME NEW a \in Seq(Int), NEW base \in Int
    PROVE  \E f : Adds(f, base, a)
<1> DEFINE Upto(f, n) == f \in [0..n -> Int] /\ f[0] = base
                         /\ \A k \in 1..n : f[k] = f[k - 1] + a[k]
           S == {n \in 0..Len(a) : \E f : Upto(f, n)}
<1>1. Len(a) \in Nat
  OBVIOUS
<1>2. 0 \in S
  <2>1. Upto([k \in 0..0 |-> base], 0)
    OBVIOUS
  <2> HIDE DEF Upto
  <2>2. 0 \in 0..Len(a) /\ \E f : Upto(f, 0)
    BY <1>1, <2>1
  <2> QED
    BY <2>2
<1>3. ASSUME NEW n \in 1..Len(a), n - 1 \in S PROVE n \in S
  <2>1. PICK f : Upto(f, n - 1)
    BY <1>3
  <2> DEFINE g == [k \in 0..n |-> IF k = n THEN f[n - 1] + a[n] ELSE f[k]]
  <2>2. a[n] \in Int /\ f[n - 1] \in Int
    BY <1>1, <2>1
  <2>3. g \in [0..n -> Int]
    BY <2>1, <2>2
  <2>4. g[0] = base
    BY <2>1
  <2>5. \A k \in 1..n : g[k] = g[k - 1] + a[k]
    BY <1>1, <2>1
  <2>6. Upto(g, n)
    BY <2>3, <2>4, <2>5
  <2> HIDE DEF Upto, g
  <2>7. n \in 0..Len(a) /\ \E x : Upto(x, n)
    BY <1>1, <2>6
  <2> QED
    BY <2>7
<1> HIDE DEF S
<1>4. 0..Len(a) \subseteq S
  BY <1>1, <1>2, <1>3, Induction
<1>5. Len(a) \in S
  BY <1>1, <1>4
<1> QED
  BY <1>5 DEF S, Adds

\* Two functions that start alike and go on alike are alike.
LEMMA SameSteps ==
    ASSUME NEW n \in Nat, NEW f, NEW g, f[0] = g[0],
           \A k \in 1..n : f[k - 1] = g[k - 1] => f[k] = g[k]
    PROVE  \A k \in 0..n : f[k] = g[k]
<1> DEFINE S == {k \in 0..n : f[k] = g[k]}
<1>1. 0 \in S
  OBVIOUS
<1>2. \A k \in 1..n : k - 1 \in S => k \in S
  OBVIOUS
<1> HIDE DEF S
<1>3. 0..n \subseteq S
  BY <1>1, <1>2, Induction
<1> QED
  BY <1>3 DEF S

LEMMA SumIs ==
    ASSUME NEW a \in Seq(Int), NEW base, NEW f, Adds(f, base, a)
    PROVE  Sum(base, a) = f[Len(a)]
<1> DEFINE g == CHOOSE g : g = [k \in 0..Len(a) |-> IF k = 0 THEN base ELSE g[k - 1] + a[k]]
<1>1. Len(a) \in Nat
  OBVIOUS
<1>2. f = [k \in 0..Len(a) |-> IF k = 0 THEN base ELSE f[k - 1] + a[k]]
  BY DEF Adds
<1>3. g = [k \in 0..Len(a) |-> IF k = 0 THEN base ELSE g[k - 1] + a[k]]
  BY <1>2
<1>4. Sum(base, a) = g[Len(a)]
  BY DEF Sum
<1> HIDE DEF g
<1>5. g[0] = f[0]
  BY <1>1, <1>3 DEF Adds
<1>6. ASSUME NEW k \in 1..Len(a), g[k - 1] = f[k - 1] PROVE g[k] = f[k]
  <2>1. g[k] = g[k - 1] + a[k]
    BY <1>1, <1>3
  <2> QED
    BY <1>6, <2>1 DEF Adds
<1>7. \A k \in 0..Len(a) : g[k] = f[k]
  BY <1>1, <1>5, <1>6, SameSteps
<1> QED
  BY <1>1, <1>4, <1>7

\* What the code adds up is the wrapped sum, whether or not the amounts are wrapped.
LEMMA WrappedSumIs ==
    ASSUME NEW a \in Seq(Int), NEW b \in Seq(Int), Len(b) = Len(a),
           \A k \in 1..Len(a) : Wrap(b[k]) = Wrap(a[k]),
           NEW base \in Int64, NEW f, Adds(f, base, a)
    PROVE  WrappedSum(base, b) = Wrap(f[Len(a)])
<1> DEFINE h == [k \in 0..Len(b) |-> Wrap(f[k])]
           g == CHOOSE g : g = [k \in 0..Len(b) |->
                                   IF k = 0 THEN base ELSE Wrap(g[k - 1] + b[k])]
<1>1. Len(a) \in Nat /\ base \in Int
  BY Int64IsInt
<1>2. h[0] = base
  BY <1>1, WrapKeeps DEF Adds
<1>3. ASSUME NEW k \in 1..Len(a) PROVE h[k] = Wrap(h[k - 1] + b[k])
  <2>1. k - 1 \in 0..Len(a) /\ k \in 0..Len(a) /\ b[k] \in Int /\ a[k] \in Int
    BY <1>1
  <2>2. f[k - 1] \in Int /\ f[k] = f[k - 1] + a[k]
    BY <2>1 DEF Adds
  <2>3. Wrap(f[k - 1]) \in Int64 /\ Wrap(f[k - 1]) \in Int
    <3>1. Wrap(f[k - 1]) \in Int64
      BY <2>2, WrapFits
    <3> QED
      BY <3>1, Int64IsInt
  <2>4. Wrap(Wrap(f[k - 1]) + b[k]) = Wrap(Wrap(Wrap(f[k - 1])) + Wrap(b[k]))
    <3>1. Wrap(Wrap(Wrap(f[k - 1])) + Wrap(b[k])) = Wrap(Wrap(f[k - 1]) + b[k])
      BY <2>1, <2>3, WrapAdds
    <3> QED
      BY <3>1
  <2>5. Wrap(Wrap(f[k - 1])) = Wrap(f[k - 1])
    BY <2>3, WrapKeeps
  <2>6. Wrap(Wrap(f[k - 1]) + Wrap(a[k])) = Wrap(f[k])
    BY <2>1, <2>2, WrapAdds
  <2>7. Wrap(b[k]) = Wrap(a[k])
    OBVIOUS
  <2>8. h[k] = Wrap(f[k]) /\ h[k - 1] = Wrap(f[k - 1])
    BY <2>1
  <2> QED
    BY <2>4, <2>5, <2>6, <2>7, <2>8
<1>4. h = [k \in 0..Len(b) |-> IF k = 0 THEN base ELSE Wrap(h[k - 1] + b[k])]
  <2>1. ASSUME NEW k \in 0..Len(b)
        PROVE  h[k] = IF k = 0 THEN base ELSE Wrap(h[k - 1] + b[k])
    <3>1. k = 0 \/ k \in 1..Len(a)
      BY <1>1
    <3> HIDE DEF h
    <3> QED
      BY <1>2, <1>3, <3>1
  <2>2. h = [k \in 0..Len(b) |-> h[k]]
    OBVIOUS
  <2> HIDE DEF h
  <2> QED
    BY <2>1, <2>2
<1> HIDE DEF h
<1>5. g = [k \in 0..Len(b) |-> IF k = 0 THEN base ELSE Wrap(g[k - 1] + b[k])]
  BY <1>4
<1>6. WrappedSum(base, b) = g[Len(b)]
  BY DEF WrappedSum
<1> HIDE DEF g
<1>7. g[0] = h[0]
  BY <1>1, <1>2, <1>5
<1>8. ASSUME NEW k \in 1..Len(a), g[k - 1] = h[k - 1] PROVE g[k] = h[k]
  <2>1. g[k] = Wrap(g[k - 1] + b[k])
    <3>1. k \in 0..Len(b) /\ k # 0
      BY <1>1
    <3> QED
      BY <1>5, <3>1
  <2> QED
    BY <1>3, <1>8, <2>1
<1>9. \A k \in 0..Len(a) : g[k] = h[k]
  <2> DEFINE n == Len(a)
  <2>1. n \in Nat
    BY <1>1
  <2>2. \A k \in 1..n : g[k - 1] = h[k - 1] => g[k] = h[k]
    BY <1>8
  <2> HIDE DEF n
  <2> DEFINE S == {k \in 0..n : g[k] = h[k]}
  <2>3. 0 \in S
    BY <1>7, <2>1
  <2>4. \A k \in 1..n : k - 1 \in S => k \in S
    BY <2>1, <2>2
  <2> HIDE DEF S
  <2>5. 0..n \subseteq S
    BY <2>1, <2>3, <2>4, Induction
  <2> QED
    BY <2>5 DEF S, n
<1>10. g[Len(a)] = h[Len(a)] /\ h[Len(a)] = Wrap(f[Len(a)])
  BY <1>1, <1>9 DEF h
<1> QED
  BY <1>6, <1>10

\* Of positive amounts each is at most the sum.
LEMMA SumBounds ==
    ASSUME NEW a \in Seq(Int), \A k \in 1..Len(a) : a[k] > 0,
           NEW f, Adds(f, 0, a)
    PROVE  /\ \A k \in 1..Len(a) : a[k] <= f[Len(a)]
           /\ f[Len(a)] \in Nat
           /\ Len(a) > 0 => f[Len(a)] > 0
<1> DEFINE S == {k \in 0..Len(a) : f[k] \in Nat /\ \A j \in 1..k : a[j] <= f[k]}
<1>1. Len(a) \in Nat
  OBVIOUS
<1>2. 0 \in S
  BY <1>1 DEF Adds
<1>3. ASSUME NEW k \in 1..Len(a), k - 1 \in S PROVE k \in S
  <2>1. /\ f[k] = f[k - 1] + a[k] /\ a[k] \in Nat /\ f[k - 1] \in Nat
        /\ \A j \in 1..(k - 1) : a[j] <= f[k - 1] /\ a[j] \in Int
    BY <1>1, <1>3 DEF Adds
  <2>2. ASSUME NEW j \in 1..k PROVE a[j] <= f[k]
    <3>1. CASE j = k
      BY <2>1, <3>1
    <3>2. CASE j \in 1..(k - 1)
      BY <2>1, <3>2
    <3> QED
      BY <1>1, <3>1, <3>2
  <2>3. f[k] \in Nat
    BY <2>1
  <2> QED
    BY <1>1, <2>2, <2>3
<1> HIDE DEF S
<1>4. 0..Len(a) \subseteq S
  BY <1>1, <1>2, <1>3, Induction
<1>5. Len(a) \in S
  BY <1>1, <1>4
<1>6. f[Len(a)] \in Nat /\ \A j \in 1..Len(a) : a[j] <= f[Len(a)]
  BY <1>5 DEF S
<1>7. ASSUME Len(a) > 0 PROVE f[Len(a)] > 0
  <2>1. Len(a) \in 1..Len(a)
    BY <1>1, <1>7
  <2>2. a[Len(a)] > 0 /\ a[Len(a)] <= f[Len(a)] /\ a[Len(a)] \in Int
    BY <1>6, <2>1
  <2> QED
    BY <1>6, <2>2
<1> QED
  BY <1>6, <1>7

-----------------------------------------------------------------------------
(* What an order may contain and what it costs *)

LEMMA LineFields ==
    ASSUME NEW line \in CallLine
    PROVE  /\ line.item \in Ids /\ line.qty \in Int /\ line.mods \in Seq(Ids)
           /\ Len(line.mods) \in Nat /\ DOMAIN line.mods = 1..Len(line.mods)
BY DEF CallLine

LEMMA CatalogFields ==
    ASSUME NEW c \in Catalogs
    PROVE  /\ \A i \in Items : c.price[i] \in Int64 /\ c.price[i] \in Int
           /\ c.delta \in [Mods -> Int]
<1>1. c \in Catalog /\ \A i \in Items : c.price[i] \in 1..(Half - 1)
  BY RulesAssumption
<1>2. \A x \in 1..(Half - 1) : x \in Int64 /\ x \in Int
  BY HalfIsPositive DEF Int64
<1> QED
  BY <1>1, <1>2 DEF Catalog

LEMMA MenuFields ==
    ASSUME NEW c, NEW i \in Items
    PROVE  /\ DOMAIN Menu(c) = Items
           /\ Menu(c)[i].price = c.price[i]
           /\ Menu(c)[i].available = (c.available[i] /\ ~c.stopped[i])
           /\ DOMAIN Menu(c)[i].mods = {m \in Mods : ItemOf[m] = i}
           /\ \A m \in Mods : ItemOf[m] = i =>
                 /\ Menu(c)[i].mods[m].delta = c.delta[m]
                 /\ Menu(c)[i].mods[m].available = c.offered[m]
BY DEF Menu

\* The loop over the requested items and the rule on the tables say the same.
LEMMA LoopIsRule ==
    ASSUME NEW c, NEW line, line.qty > 0
    PROVE  LineOK(Menu(c), line) <=> Orderable(c, line)
<1>1. DOMAIN Menu(c) = Items
  BY DEF Menu
<1>2. CASE line.item \notin Items
  BY <1>1, <1>2 DEF LineOK, Orderable
<1>3. CASE line.item \in Items
  <2>1. ASSUME NEW m
        PROVE  (/\ m \in DOMAIN Menu(c)[line.item].mods
                /\ Menu(c)[line.item].mods[m].available)
               <=> m \in Mods /\ ItemOf[m] = line.item /\ c.offered[m]
    <3>1. DOMAIN Menu(c)[line.item].mods = {x \in Mods : ItemOf[x] = line.item}
      BY <1>3, MenuFields
    <3>2. ASSUME m \in Mods, ItemOf[m] = line.item
          PROVE  Menu(c)[line.item].mods[m].available = c.offered[m]
      BY <1>3, <3>2, MenuFields
    <3> QED
      BY <3>1, <3>2
  <2>2. Menu(c)[line.item].available <=> c.available[line.item] /\ ~c.stopped[line.item]
    BY <1>3 DEF Menu
  <2> QED
    BY <1>1, <1>3, <2>1, <2>2, Zenon DEF LineOK, Orderable
<1> QED
  BY <1>2, <1>3

\* The price of a line, apart from its width.
LEMMA PriceIsExact ==
    ASSUME NEW c \in Catalogs, NEW line \in CallLine, Orderable(c, line)
    PROVE  /\ UnitPrice(Menu(c), line) = Wrap(ExactPrice(c, line))
           /\ UnitPrice(Menu(c), line) \in Int64
<1> DEFINE a == [k \in DOMAIN line.mods |-> c.delta[line.mods[k]]]
           b == [k \in DOMAIN line.mods |-> Menu(c)[line.item].mods[line.mods[k]].delta]
           base == c.price[line.item]
<1>1. line.item \in Items /\ \A k \in DOMAIN line.mods :
         line.mods[k] \in Mods /\ ItemOf[line.mods[k]] = line.item
  BY DEF Orderable
<1>2. a = b
  BY <1>1, MenuFields
<1>3. a \in Seq(Int)
  <2>1. \A k \in DOMAIN line.mods : c.delta[line.mods[k]] \in Int
    BY <1>1, CatalogFields
  <2>2. DOMAIN line.mods = 1..Len(line.mods) /\ Len(line.mods) \in Nat
    BY LineFields
  <2> QED
    BY <2>1, <2>2
<1>4. base \in Int64 /\ base \in Int
  BY <1>1, CatalogFields
<1>5. Menu(c)[line.item].price = base
  BY <1>1, MenuFields
<1>6. UnitPrice(Menu(c), line) = WrappedSum(base, b) /\ ExactPrice(c, line) = Sum(base, a)
  BY <1>5 DEF UnitPrice, ExactPrice
<1> HIDE DEF a, b, base
<1>7. PICK f : Adds(f, base, a)
  BY <1>3, <1>4, AddsExists
<1>8. Sum(base, a) = f[Len(a)]
  BY <1>3, <1>7, SumIs
<1>9. WrappedSum(base, a) = Wrap(f[Len(a)])
  BY <1>3, <1>4, <1>7, WrappedSumIs
<1>10. Wrap(f[Len(a)]) \in Int64
  <2>1. Len(a) \in 0..Len(a)
    BY <1>3
  <2>2. f[Len(a)] \in Int
    BY <1>7, <2>1 DEF Adds
  <2> QED
    BY <2>2, WrapFits
<1> QED
  BY <1>2, <1>6, <1>8, <1>9, <1>10

-----------------------------------------------------------------------------
(* The order made of the lines *)

\* A line, before its total gets a width.
Priced(line) ==
    /\ line.qty \in Nat \ {0} /\ line.unit \in Nat \ {0}
    /\ line.total = LineTotal(line.unit, line.qty)

LEMMA TotalsType ==
    ASSUME NEW lines, NEW n \in Nat, DOMAIN lines = 1..n,
           \A k \in 1..n : Priced(lines[k])
    PROVE  LET a == [k \in DOMAIN lines |-> lines[k].unit * lines[k].qty]
               b == [k \in DOMAIN lines |-> LineTotal(lines[k].unit, lines[k].qty)]
           IN /\ a \in Seq(Int) /\ Len(a) = n
              /\ b \in Seq(Int) /\ Len(b) = n
              /\ \A k \in 1..n : a[k] > 0 /\ b[k] = Wrap(a[k]) /\ Wrap(b[k]) = Wrap(a[k])
<1> DEFINE a == [k \in DOMAIN lines |-> lines[k].unit * lines[k].qty]
           b == [k \in DOMAIN lines |-> LineTotal(lines[k].unit, lines[k].qty)]
<1>1. ASSUME NEW k \in 1..n
      PROVE  /\ lines[k].unit * lines[k].qty \in Nat \ {0}
             /\ LineTotal(lines[k].unit, lines[k].qty) = Wrap(lines[k].unit * lines[k].qty)
  <2>1. \A x, y \in Nat \ {0} : x * y \in Nat \ {0}
    OBVIOUS
  <2> QED
    BY <2>1 DEF Priced, LineTotal
<1>2. ASSUME NEW x \in Int PROVE Wrap(x) \in Int /\ Wrap(Wrap(x)) = Wrap(x)
  BY WrapFits, WrapKeeps, Int64IsInt
<1>3. \A k \in 1..n : a[k] \in Nat \ {0} /\ b[k] = Wrap(a[k])
  BY <1>1
<1>4. \A k \in 1..n : b[k] \in Int /\ Wrap(b[k]) = Wrap(a[k])
  BY <1>2, <1>3
<1>5. a = [k \in 1..n |-> a[k]] /\ b = [k \in 1..n |-> b[k]]
  OBVIOUS
<1> HIDE DEF a, b
<1>6. a \in Seq(Int) /\ Len(a) = n
  BY <1>3, <1>5
<1>7. b \in Seq(Int) /\ Len(b) = n
  BY <1>4, <1>5
<1> QED
  BY <1>3, <1>4, <1>6, <1>7 DEF a, b

\* A total has its width; one that fits is exact, and then so is each line's.
LEMMA TotalIsExact ==
    ASSUME NEW lines, NEW n \in Nat \ {0}, DOMAIN lines = 1..n,
           \A k \in 1..n : Priced(lines[k])
    PROVE  LET made == NewOrder(lines)
           IN /\ made.total \in Int64
              /\ ExactTotal(made) \in Int
              /\ ExactTotal(made) < Half =>
                    /\ made.total = ExactTotal(made)
                    /\ StoreAccepts(made)
                    /\ PartnerAccepts(made)
<1> DEFINE made == NewOrder(lines)
           a == [k \in DOMAIN lines |-> lines[k].unit * lines[k].qty]
           b == [k \in DOMAIN lines |-> LineTotal(lines[k].unit, lines[k].qty)]
<1>1. made.lines = lines /\ made.total = Total(lines)
  BY DEF NewOrder
<1>2. /\ a \in Seq(Int) /\ Len(a) = n
      /\ b \in Seq(Int) /\ Len(b) = n
      /\ \A k \in 1..n : a[k] > 0 /\ b[k] = Wrap(a[k]) /\ Wrap(b[k]) = Wrap(a[k])
  BY TotalsType
<1>3. Total(lines) = WrappedSum(0, b) /\ ExactTotal(made) = Sum(0, a)
  BY <1>1 DEF Total, ExactTotal
<1>4. \A k \in 1..n : lines[k].total = b[k]
  BY DEF Priced
<1>5. [k \in DOMAIN made.lines |-> made.lines[k].total] = b
  BY <1>1, <1>4
<1> HIDE DEF a, b, made
<1>6. 0 \in Int64
  BY HalfIsPositive DEF Int64
<1>7. PICK f : Adds(f, 0, a)
  BY <1>2, AddsExists
<1>8. ExactTotal(made) = f[n]
  BY <1>2, <1>3, <1>7, SumIs
<1>9. made.total = Wrap(f[n])
  BY <1>1, <1>2, <1>3, <1>6, <1>7, WrappedSumIs
<1>10. f[n] \in Nat /\ f[n] > 0 /\ \A k \in 1..n : a[k] <= f[n]
  <2>1. Len(a) = n /\ a \in Seq(Int) /\ \A k \in 1..Len(a) : a[k] > 0
    BY <1>2
  <2>2. /\ \A k \in 1..Len(a) : a[k] <= f[Len(a)]
        /\ f[Len(a)] \in Nat
        /\ Len(a) > 0 => f[Len(a)] > 0
    BY <1>7, <2>1, SumBounds
  <2>3. n > 0
    OBVIOUS
  <2> QED
    BY <2>1, <2>2, <2>3
<1>11. made.total \in Int64
  BY <1>9, <1>10, WrapFits
<1>12. ASSUME f[n] < Half
       PROVE  made.total = f[n] /\ StoreAccepts(made) /\ PartnerAccepts(made)
  <2>1. f[n] \in Int64
    BY <1>10, <1>12, HalfIsPositive DEF Int64
  <2>2. made.total = f[n]
    BY <1>9, <2>1, WrapKeeps
  <2>3. ASSUME NEW k \in 1..n PROVE b[k] = a[k] /\ b[k] > 0
    <3>1. a[k] \in Int64
      <4>1. a[k] \in Int
        BY <1>2
      <4> QED
        BY <1>2, <1>10, <1>12, <4>1, HalfIsPositive DEF Int64
    <3> QED
      BY <1>2, <3>1, WrapKeeps
  <2>4. \A k \in DOMAIN made.lines :
           /\ made.lines[k].unit > 0 /\ made.lines[k].qty > 0
           /\ made.lines[k].total > 0
           /\ made.lines[k].total = Wrap(made.lines[k].unit * made.lines[k].qty)
    BY <1>1, <1>4, <2>3 DEF Priced, LineTotal
  <2>5. made.lines # <<>>
    BY <1>1
  <2>6. made.total = WrappedSum(0, [k \in DOMAIN made.lines |-> made.lines[k].total])
    BY <1>1, <1>3, <1>5
  <2> QED
    BY <1>10, <2>2, <2>4, <2>5, <2>6 DEF StoreAccepts, PartnerAccepts
<1>13. f[n] \in Int
  BY <1>10
<1> QED
  BY <1>8, <1>11, <1>12, <1>13 DEF made

-----------------------------------------------------------------------------
(* The inductive invariant of a call *)

Asked(q) == q.body \in Bodies /\ WellFormed(q.body)

WasOpen(q) == \E x \in q.seen : x.open

\* The order in the call is the one made from the menu of x.
MadeFrom(q, x) ==
    /\ \A k \in DOMAIN q.body : LineOK(Menu(x), q.body[k])
    /\ NewOrderOK(Lines(Menu(x), q.body))
    /\ q.order = NewOrder(Lines(Menu(x), q.body))

\* StatusIsTrue, of one call: the two statuses that put the blame somewhere.
WasImpossible(q) ==
    \/ ~WellFormed(q.body)
    \/ \E c \in q.seen : ~c.exists \/ ~c.open
    \/ \E c \in q.seen : \E k \in DOMAIN q.body : ~Orderable(c, q.body[k])

WasOurFault(q) ==
    \/ q.failed
    \/ \E c \in q.seen : \E k \in DOMAIN q.body :
          Orderable(c, q.body[k]) /\ Wrap(ExactPrice(c, q.body[k])) <= 0
    \/ q.order # Nothing /\ ExactTotal(q.order) >= Half

TrueStatus(q) ==
    /\ q.status = 201 => q.stored
    /\ q.stored => q.status = 201 \/ q.failed
    /\ q.status = 400 => WasImpossible(q)
    /\ q.status = 500 => WasOurFault(q)

\* What is true of a call while the catalog holds c.
Sound(q, c) ==
    /\ q.pc = "new" => q.order = Nothing
    /\ q.pc \notin {"new", "done"} => c \in q.seen /\ Asked(q)
    /\ q.pc \in {"exists", "menu", "price", "store"} \/ q.stored => WasOpen(q)
    /\ q.pc = "price" => \E x \in q.seen : q.menu = Menu(x)
    /\ q.order # Nothing => Asked(q) /\ \E x \in q.seen : MadeFrom(q, x)
    /\ q.pc = "store" => q.order # Nothing
    /\ q.stored => q.pc = "done" /\ q.order # Nothing /\ StoreAccepts(q.order)
    /\ q.pc = "done" => TrueStatus(q)

EntryInv == EntryTypeOK /\ \A r \in Requests : Sound(req[r], cat)

LEMMA BodyFields ==
    ASSUME NEW body \in Bodies, WellFormed(body)
    PROVE  /\ Len(body) \in Nat \ {0} /\ DOMAIN body = 1..Len(body)
           /\ \A k \in DOMAIN body : body[k] \in CallLine /\ body[k].qty > 0
<1>1. body \in Seq(CallLine) /\ body # <<>>
  BY EntryAssumption DEF WellFormed
<1>2. Len(body) \in Nat /\ DOMAIN body = 1..Len(body) /\ Len(body) # 0
  BY <1>1
<1>3. \A k \in DOMAIN body : body[k] \in CallLine
  BY <1>1
<1>4. \A k \in DOMAIN body : body[k].qty > 0
  BY DEF WellFormed
<1> QED
  BY <1>2, <1>3, <1>4

\* One line of the order made from the menu of c.
LEMMA LineMade ==
    ASSUME NEW c \in Catalogs, NEW body \in Bodies, WellFormed(body),
           NEW k \in DOMAIN body, LineOK(Menu(c), body[k])
    PROVE  LET line == Lines(Menu(c), body)[k]
           IN /\ Orderable(c, body[k])
              /\ line \in OrderLine
              /\ line.item = body[k].item /\ line.mods = body[k].mods
              /\ line.qty = body[k].qty
              /\ line.unit = Wrap(ExactPrice(c, body[k]))
              /\ line.total = LineTotal(line.unit, line.qty)
<1> DEFINE asked == body[k]
           unit == UnitPrice(Menu(c), asked)
           line == Lines(Menu(c), body)[k]
<1>1. asked \in CallLine /\ asked.qty > 0
  BY BodyFields
<1>2. Orderable(c, asked)
  BY <1>1, LoopIsRule
<1>3. line = [item |-> asked.item, mods |-> asked.mods, qty |-> asked.qty,
              unit |-> unit, total |-> LineTotal(unit, asked.qty)]
  BY DEF Lines
<1> HIDE DEF asked, line, unit
<1>4. unit = Wrap(ExactPrice(c, asked)) /\ unit \in Int64
  BY <1>1, <1>2, PriceIsExact DEF unit
<1>5. asked.item \in Ids /\ asked.mods \in Seq(Ids) /\ asked.qty \in Int
  BY <1>1, LineFields
<1>6. LineTotal(unit, asked.qty) \in Int64
  <2>1. unit * asked.qty \in Int
    <3>1. \A x, y \in Int : x * y \in Int
      OBVIOUS
    <3> QED
      BY <1>4, <1>5, <3>1, Int64IsInt
  <2> QED
    BY <2>1, WrapFits DEF LineTotal
<1>7. line \in OrderLine
  BY <1>3, <1>4, <1>5, <1>6 DEF OrderLine
<1>8. /\ line.item = asked.item /\ line.mods = asked.mods /\ line.qty = asked.qty
      /\ line.unit = unit /\ line.total = LineTotal(line.unit, line.qty)
  BY <1>3
<1> QED
  BY <1>2, <1>4, <1>7, <1>8 DEF asked, line

\* The order: what NewOrder refuses has a price that is not positive, and what it
\* accepts is an order whose lines and total have the columns' types.
LEMMA OrderMade ==
    ASSUME NEW c \in Catalogs, NEW body \in Bodies, WellFormed(body),
           \A k \in DOMAIN body : LineOK(Menu(c), body[k])
    PROVE  LET lines == Lines(Menu(c), body)
           IN /\ ~NewOrderOK(lines) =>
                    \E k \in DOMAIN body :
                       Orderable(c, body[k]) /\ Wrap(ExactPrice(c, body[k])) <= 0
              /\ NewOrderOK(lines) =>
                    /\ NewOrder(lines) \in PricedOrders
                    /\ DOMAIN lines = 1..Len(body)
                    /\ \A k \in 1..Len(body) : Priced(lines[k])
<1> DEFINE lines == Lines(Menu(c), body)
           n == Len(body)
<1>1. n \in Nat \ {0} /\ DOMAIN body = 1..n
      /\ \A k \in 1..n : body[k] \in CallLine /\ body[k].qty > 0
  BY BodyFields
<1>2. DOMAIN lines = 1..n /\ lines = [k \in 1..n |-> lines[k]]
  BY <1>1 DEF Lines
<1> HIDE DEF n
<1>3. ASSUME NEW k \in 1..n
      PROVE  /\ Orderable(c, body[k])
             /\ lines[k] \in OrderLine
             /\ lines[k].qty = body[k].qty
             /\ lines[k].unit = Wrap(ExactPrice(c, body[k]))
             /\ lines[k].total = LineTotal(lines[k].unit, lines[k].qty)
  <2>1. k \in DOMAIN body /\ LineOK(Menu(c), body[k])
    BY <1>1
  <2> QED
    BY <2>1, LineMade
<1>4. \A k \in 1..n : lines[k].unit \in Int /\ lines[k].qty \in Int /\ lines[k].qty > 0
  BY <1>1, <1>3, Int64IsInt DEF OrderLine
<1>5. lines # <<>>
  BY <1>1, <1>2
<1> HIDE DEF lines
<1>6. ASSUME ~NewOrderOK(lines)
      PROVE  \E k \in DOMAIN body :
                Orderable(c, body[k]) /\ Wrap(ExactPrice(c, body[k])) <= 0
  <2>1. PICK k \in 1..n : ~(lines[k].qty > 0 /\ lines[k].unit > 0)
    BY <1>2, <1>5, <1>6 DEF NewOrderOK
  <2>2. lines[k].unit <= 0
    BY <1>4, <2>1
  <2> QED
    BY <1>1, <1>3, <2>2
<1>7. ASSUME NewOrderOK(lines)
      PROVE  NewOrder(lines) \in PricedOrders /\ \A k \in 1..n : Priced(lines[k])
  <2>1. \A k \in 1..n : Priced(lines[k])
    BY <1>2, <1>3, <1>4, <1>7 DEF NewOrderOK, Priced
  <2>2. lines \in Seq(OrderLine)
    BY <1>1, <1>2, <1>3
  <2>3. NewOrder(lines).total \in Int64
    BY <1>1, <1>2, <2>1, TotalIsExact
  <2> QED
    BY <2>1, <2>2, <2>3 DEF NewOrder, PricedOrders
<1> QED
  BY <1>2, <1>6, <1>7 DEF lines, n

\* The statuses of the errors, through all the tables.
LEMMA StatusTable ==
    /\ OrderStatusOf("ErrInvalidCreateOrder") = 400
    /\ OrderStatusOf("ErrIdempotencyConflict") = 409
    /\ OrderStatusOf("ErrInvalidOrderItem") = 500
    /\ OrderStatusOf("CheckViolation") = 500
    /\ OrderStatusOf("Unavailable") = 500
    /\ CatalogStatusOf("ErrRestaurantNotFound") = 400
    /\ CatalogStatusOf("ErrRestaurantClosed") = 400
    /\ CatalogStatusOf("ErrInvalidMenuRequest") = 400
<1>1. /\ OrderServerCode("ErrInvalidCreateOrder") = "InvalidArgument"
      /\ OrderServerCode("ErrIdempotencyConflict") = "AlreadyExists"
      /\ OrderServerCode("ErrInvalidOrderItem") = "Internal"
      /\ OrderServerCode("CheckViolation") = "Internal"
      /\ OrderServerCode("Unavailable") = "Internal"
  BY DEF OrderServerCode, Lookup
<1>2. /\ OrderClientError("InvalidArgument") = "ErrInvalidCreateOrder"
      /\ OrderClientError("AlreadyExists") = "ErrIdempotencyConflict"
      /\ OrderClientError("Internal") = "Internal"
  BY DEF OrderClientError, Lookup
<1>3. /\ KitchenStatus("ErrInvalidCreateOrder") = 400
      /\ KitchenStatus("ErrIdempotencyConflict") = 409
      /\ KitchenStatus("Internal") = 500
  BY DEF KitchenStatus, Lookup
<1>4. /\ CatalogServerCode("ErrRestaurantNotFound") = "NotFound"
      /\ CatalogServerCode("ErrRestaurantClosed") = "InvalidArgument"
      /\ CatalogServerCode("ErrInvalidMenuRequest") = "InvalidArgument"
  BY DEF CatalogServerCode, Lookup
<1>5. /\ CatalogClientError("NotFound") = "ErrInvalidCreateOrder"
      /\ CatalogClientError("InvalidArgument") = "ErrInvalidCreateOrder"
  BY DEF CatalogClientError
<1> QED
  BY <1>1, <1>2, <1>3, <1>4, <1>5 DEF OrderStatusOf, CatalogStatusOf

-----------------------------------------------------------------------------
(* Steps of one call *)

Stages == {"new", "open", "exists", "menu", "price", "store", "done"}
Texts == Bodies \cup {<<>>}
Menus == {Menu(c) : c \in Catalogs} \cup {Nothing}
PricedOrNone == PricedOrders \cup {Nothing}
Histories == SUBSET Catalogs
AnyAnswer == Answers \cup {0}
Flags == BOOLEAN

LEMMA CallFields ==
    Calls = [pc : Stages, body : Texts, menu : Menus, order : PricedOrNone, stored : Flags,
             seen : Histories, failed : Flags, status : AnyAnswer]
BY DEF Calls, Stages, Texts, Menus, PricedOrNone, Histories, AnyAnswer, Flags

\* What the body, the order and what was seen decide.
LEMMA SameFacts ==
    ASSUME NEW p, NEW q, p.body = q.body, p.order = q.order, p.seen = q.seen
    PROVE  /\ Asked(p) <=> Asked(q)
           /\ WasOpen(p) <=> WasOpen(q)
           /\ \A x : MadeFrom(p, x) <=> MadeFrom(q, x)
           /\ WasImpossible(p) <=> WasImpossible(q)
           /\ p.failed = q.failed => (WasOurFault(p) <=> WasOurFault(q))
<1>1. (Asked(p) <=> Asked(q)) /\ (WasOpen(p) <=> WasOpen(q))
  BY DEF Asked, WasOpen
<1>2. \A x : MadeFrom(p, x) <=> MadeFrom(q, x)
  BY DEF MadeFrom
<1>3. WasImpossible(p) <=> WasImpossible(q)
  BY DEF WasImpossible
<1>4. p.failed = q.failed => (WasOurFault(p) <=> WasOurFault(q))
  BY DEF WasOurFault
<1> QED
  BY <1>1, <1>2, <1>3, <1>4

\* A step that leaves the catalog and the other calls alone.
LEMMA OneCall ==
    ASSUME EntryInv, NEW r \in Requests, NEW q \in Calls, Sound(q, cat),
           req' = [req EXCEPT ![r] = q], Fixed
    PROVE  EntryInv'
<1>1. req \in [Requests -> Calls] /\ \A s \in Requests : Sound(req[s], cat)
  BY DEF EntryInv, EntryTypeOK
<1>2. cat' = cat /\ changes' = changes
  BY DEF Fixed
<1>3. EntryTypeOK'
  BY <1>1, <1>2 DEF EntryInv, EntryTypeOK
<1>4. ASSUME NEW s \in Requests PROVE Sound(req[s], cat)'
  <2>1. req'[s] = IF s = r THEN q ELSE req[s]
    BY <1>1
  <2>2. Sound(req'[s], cat)
    BY <1>1, <2>1
  <2>3. Sound(req[s], cat)' <=> Sound(req'[s], cat')
    BY DEF Sound, Asked, WasOpen, MadeFrom, TrueStatus, WasImpossible, WasOurFault
  <2> QED
    BY <1>2, <2>2, <2>3
<1> QED
  BY <1>3, <1>4 DEF EntryInv

\* An answer that stores nothing: who is to blame must be so.
LEMMA Replied ==
    ASSUME EntryInv, NEW r \in Requests, NEW status \in Answers \ {201},
           req[r].pc \notin {"new", "done"}, Reply(r, status), Fixed,
           status = 400 => WasImpossible(req[r]),
           status = 500 => WasOurFault(req[r])
    PROVE  EntryInv'
<1> DEFINE q == req[r]
           p == [q EXCEPT !.pc = "done", !.status = status]
<1>1. req \in [Requests -> Calls] /\ q \in Calls /\ Sound(q, cat)
  BY DEF EntryInv, EntryTypeOK
<1>2. req' = [req EXCEPT ![r] = p]
  BY <1>1 DEF Reply
<1>3. "done" \in Stages /\ status \in AnyAnswer
  BY DEF Stages, AnyAnswer
<1> HIDE DEF q
<1>4. p \in Calls
  BY <1>1, <1>3, CallFields
<1>5. /\ p.body = q.body /\ p.order = q.order /\ p.stored = q.stored /\ p.seen = q.seen
      /\ p.failed = q.failed /\ p.pc = "done" /\ p.status = status
  BY <1>1, <1>3, CallFields
<1> HIDE DEF p
<1>6. ~q.stored /\ (q.order # Nothing => Asked(q) /\ \E x \in q.seen : MadeFrom(q, x))
  BY <1>1 DEF Sound, q
<1>7. /\ status = 400 => WasImpossible(q)
      /\ status = 500 => WasOurFault(q)
  BY DEF q
<1>8. /\ Asked(p) <=> Asked(q)
      /\ \A x : MadeFrom(p, x) <=> MadeFrom(q, x)
      /\ WasImpossible(p) <=> WasImpossible(q)
      /\ WasOurFault(p) <=> WasOurFault(q)
  BY <1>5, SameFacts
<1>9. TrueStatus(p)
  BY <1>5, <1>6, <1>7, <1>8 DEF TrueStatus
<1>10. p.order # Nothing => Asked(p) /\ \E x \in p.seen : MadeFrom(p, x)
  BY <1>5, <1>6, <1>8
<1>11. Sound(p, cat)
  BY <1>5, <1>6, <1>9, <1>10 DEF Sound
<1> QED
  BY <1>2, <1>4, <1>11, OneCall

\* A call that goes on, with what it read.
LEMMA Proceeded ==
    ASSUME EntryInv, NEW r \in Requests, req[r].pc \notin {"new", "done"},
           NEW pc \in {"exists", "menu", "price"},
           NEW menu \in {Menu(c) : c \in Catalogs} \cup {Nothing},
           req' = [req EXCEPT ![r].pc = pc, ![r].menu = menu], Fixed,
           WasOpen(req[r]), pc = "price" => menu = Menu(cat)
    PROVE  EntryInv'
<1> DEFINE q == req[r]
           p == [q EXCEPT !.pc = pc, !.menu = menu]
<1>1. req \in [Requests -> Calls] /\ q \in Calls /\ Sound(q, cat)
  BY DEF EntryInv, EntryTypeOK
<1>2. req' = [req EXCEPT ![r] = p]
  BY <1>1
<1>3. pc \in Stages /\ menu \in Menus
  BY DEF Stages, Menus
<1> HIDE DEF q
<1>4. p \in Calls
  BY <1>1, <1>3, CallFields
<1>5. /\ p.body = q.body /\ p.order = q.order /\ p.stored = q.stored /\ p.seen = q.seen
      /\ p.pc = pc /\ p.menu = menu
  BY <1>1, <1>3, CallFields
<1> HIDE DEF p
<1>6. /\ ~q.stored /\ cat \in q.seen /\ Asked(q) /\ WasOpen(q)
      /\ q.order # Nothing => \E x \in q.seen : MadeFrom(q, x)
  BY <1>1 DEF Sound, q
<1>7. /\ Asked(p) <=> Asked(q)
      /\ WasOpen(p) <=> WasOpen(q)
      /\ \A x : MadeFrom(p, x) <=> MadeFrom(q, x)
  BY <1>5, SameFacts
<1>8. p.order # Nothing => \E x \in p.seen : MadeFrom(p, x)
  BY <1>5, <1>6, <1>7
<1>9. p.pc = "price" => \E x \in p.seen : p.menu = Menu(x)
  BY <1>5, <1>6
<1>10. Sound(p, cat)
  BY <1>5, <1>6, <1>7, <1>8, <1>9 DEF Sound
<1> QED
  BY <1>2, <1>4, <1>10, OneCall

LEMMA ArriveSafe ==
    ASSUME EntryInv, NEW r \in Requests, NEW body \in Bodies, Arrive(r, body)
    PROVE  EntryInv'
<1> DEFINE q == req[r]
           seen == {cat}
           open == "open"
           done == "done"
           bad == 400
           asked == [q EXCEPT !.body = body, !.seen = seen, !.pc = open]
           refused == [q EXCEPT !.body = body, !.seen = seen, !.pc = done, !.status = bad]
<1>1. /\ req \in [Requests -> Calls] /\ q \in Calls /\ Sound(q, cat)
      /\ q.pc = "new" /\ Fixed /\ cat \in Catalogs
  BY DEF EntryInv, EntryTypeOK, Arrive
<1>2. q.order = Nothing /\ ~q.stored
  BY <1>1 DEF Sound
<1>3. /\ body \in Texts /\ seen \in Histories
      /\ open \in Stages /\ done \in Stages /\ bad \in AnyAnswer
  BY <1>1 DEF Texts, Histories, Stages, AnyAnswer, Answers
<1>4. CASE WellFormed(body)
  <2>1. req' = [req EXCEPT ![r] = asked]
    BY <1>4 DEF Arrive
  <2> HIDE DEF q, open, seen
  <2>2. asked \in Calls
    BY <1>1, <1>3, CallFields
  <2>3. /\ asked.body = body /\ asked.order = q.order /\ asked.stored = q.stored
        /\ asked.pc = open /\ asked.seen = seen
    BY <1>1, <1>3, CallFields
  <2> HIDE DEF asked
  <2>4. Sound(asked, cat)
    BY <1>2, <1>4, <2>3 DEF Sound, Asked, open, seen
  <2> QED
    BY <1>1, <2>1, <2>2, <2>4, OneCall
<1>5. CASE ~WellFormed(body)
  <2>1. req' = [req EXCEPT ![r] = refused]
    BY <1>5, StatusTable DEF Arrive
  <2> HIDE DEF q, done, bad, seen
  <2>2. refused \in Calls
    BY <1>1, <1>3, CallFields
  <2>3. /\ refused.body = body /\ refused.order = q.order /\ refused.stored = q.stored
        /\ refused.pc = done /\ refused.status = bad
    BY <1>1, <1>3, CallFields
  <2> HIDE DEF refused
  <2>4. TrueStatus(refused)
    <3>1. refused.status = 400 /\ refused.body = body /\ ~refused.stored
      BY <1>2, <2>3 DEF bad
    <3>2. WasImpossible(refused)
      BY <1>5, <3>1 DEF WasImpossible
    <3> QED
      BY <3>1, <3>2 DEF TrueStatus
  <2>5. Sound(refused, cat)
    BY <1>2, <2>3, <2>4 DEF Sound, done
  <2> QED
    BY <1>1, <2>1, <2>2, <2>5, OneCall
<1> QED
  BY <1>4, <1>5

LEMMA ReadsSafe ==
    ASSUME EntryInv, NEW r \in Requests, ReadOpen(r) \/ ReadExists(r) \/ ReadMenu(r)
    PROVE  EntryInv'
<1> DEFINE q == req[r]
<1>1. /\ req \in [Requests -> Calls] /\ q \in Calls /\ Sound(q, cat)
      /\ cat \in Catalogs /\ cat \in Catalog
  BY RulesAssumption DEF EntryInv, EntryTypeOK
<1>2. q.pc \in {"open", "exists", "menu"} /\ Fixed
  BY DEF ReadOpen, ReadExists, ReadMenu
<1>3. cat \in q.seen /\ (q.pc # "open" => WasOpen(q))
  BY <1>1, <1>2 DEF Sound
<1>4. q.menu \in Menus /\ Menu(cat) \in Menus
  BY <1>1, CallFields DEF Menus
<1>5. 400 \in Answers \ {201}
  BY DEF Answers
<1>6. ASSUME Reply(r, 400), WasImpossible(q) PROVE EntryInv'
  BY <1>2, <1>5, <1>6, Replied
<1>7. ASSUME NEW pc \in {"exists", "menu"}, Proceed(r, pc), WasOpen(q) PROVE EntryInv'
  <2>1. req' = [req EXCEPT ![r].pc = pc, ![r].menu = q.menu]
    BY <1>1, <1>7, CallFields DEF Proceed
  <2>2. q.menu \in {Menu(c) : c \in Catalogs} \cup {Nothing}
    BY <1>4 DEF Menus
  <2> QED
    BY <1>2, <1>7, <2>1, <2>2, Proceeded
<1>8. ~cat.exists \/ ~cat.open => WasImpossible(q)
  BY <1>3 DEF WasImpossible
<1>9. cat.open => WasOpen(q)
  BY <1>3 DEF WasOpen
<1>10. CASE ReadOpen(r)
  <2>1. CASE ~cat.exists \/ ~cat.open
    BY <1>6, <1>8, <1>10, <2>1, StatusTable DEF ReadOpen
  <2>2. CASE cat.exists /\ cat.open
    BY <1>7, <1>9, <1>10, <2>2 DEF ReadOpen
  <2> QED
    BY <2>1, <2>2
<1>11. CASE ReadExists(r)
  <2>1. CASE ~cat.exists
    BY <1>6, <1>8, <1>11, <2>1, StatusTable DEF ReadExists
  <2>2. CASE cat.exists
    <3>1. WasOpen(q) /\ Proceed(r, "menu")
      BY <1>3, <1>11, <2>2 DEF ReadExists
    <3> QED
      BY <1>7, <3>1
  <2> QED
    BY <2>1, <2>2
<1>12. CASE ReadMenu(r)
  <2>1. req' = [req EXCEPT ![r].pc = "price", ![r].menu = Menu(cat)] /\ WasOpen(q)
    BY <1>3, <1>12 DEF ReadMenu
  <2>2. Menu(cat) \in {Menu(c) : c \in Catalogs} \cup {Nothing}
    BY <1>1
  <2> QED
    BY <1>2, <2>1, <2>2, Proceeded
<1> QED
  BY <1>10, <1>11, <1>12

LEMMA PriceSafe ==
    ASSUME EntryInv, NEW r \in Requests, Price(r)
    PROVE  EntryInv'
<1> DEFINE q == req[r]
           lines == Lines(q.menu, q.body)
           made == NewOrder(lines)
           next == "store"
           p == [q EXCEPT !.pc = next, !.order = made]
<1>1. /\ req \in [Requests -> Calls] /\ q \in Calls /\ Sound(q, cat)
      /\ q.pc = "price" /\ Fixed
  BY DEF EntryInv, EntryTypeOK, Price
<1>2. /\ cat \in q.seen /\ WasOpen(q) /\ ~q.stored
      /\ q.body \in Bodies /\ WellFormed(q.body)
  BY <1>1 DEF Sound, Asked
<1>3. PICK x \in q.seen : q.menu = Menu(x)
  BY <1>1 DEF Sound
<1>4. x \in Catalogs
  BY <1>1, CallFields DEF Histories
<1>5. 400 \in Answers \ {201} /\ 500 \in Answers \ {201}
  BY DEF Answers
<1>6. CASE ~\A k \in DOMAIN q.body : LineOK(q.menu, q.body[k])
  <2>1. PICK k \in DOMAIN q.body : ~LineOK(Menu(x), q.body[k])
    BY <1>3, <1>6
  <2>2. q.body[k].qty > 0
    BY <1>2 DEF WellFormed
  <2>3. ~Orderable(x, q.body[k])
    BY <2>1, <2>2, LoopIsRule
  <2>4. WasImpossible(q)
    BY <2>3 DEF WasImpossible
  <2>5. Reply(r, 400)
    BY <1>6, StatusTable DEF Price
  <2> QED
    BY <1>1, <1>5, <2>4, <2>5, Replied
<1>7. CASE /\ \A k \in DOMAIN q.body : LineOK(q.menu, q.body[k])
           /\ ~NewOrderOK(lines)
  <2>1. \E k \in DOMAIN q.body :
           Orderable(x, q.body[k]) /\ Wrap(ExactPrice(x, q.body[k])) <= 0
    BY <1>2, <1>3, <1>4, <1>7, OrderMade
  <2>2. WasOurFault(q)
    BY <2>1 DEF WasOurFault
  <2>3. Reply(r, 500)
    BY <1>7, StatusTable DEF Price
  <2> QED
    BY <1>1, <1>5, <2>2, <2>3, Replied
<1>8. CASE /\ \A k \in DOMAIN q.body : LineOK(q.menu, q.body[k])
           /\ NewOrderOK(lines)
  <2>1. NewOrder(lines) \in PricedOrders
    BY <1>2, <1>3, <1>4, <1>8, OrderMade
  <2>2. req' = [req EXCEPT ![r] = p]
    BY <1>1, <1>8 DEF Price
  <2>3. next \in Stages /\ made \in PricedOrNone
    BY <2>1 DEF Stages, PricedOrNone
  <2>4. made = NewOrder(Lines(Menu(x), q.body)) /\ NewOrderOK(Lines(Menu(x), q.body))
    BY <1>3, <1>8
  <2> HIDE DEF q, lines, made, next
  <2>5. p \in Calls
    BY <1>1, <2>3, CallFields
  <2>6. /\ p.body = q.body /\ p.order = made /\ p.stored = q.stored /\ p.seen = q.seen
        /\ p.pc = next
    BY <1>1, <2>3, CallFields
  <2> HIDE DEF p
  <2>7. made # Nothing
    BY <2>1, EntryAssumption DEF made
  <2>8. MadeFrom(p, x) /\ Asked(p) /\ WasOpen(p)
    BY <1>2, <1>3, <1>8, <2>4, <2>6 DEF MadeFrom, Asked, WasOpen
  <2>9. Sound(p, cat)
    BY <1>2, <1>3, <2>6, <2>7, <2>8 DEF Sound, next
  <2> QED
    BY <1>1, <2>2, <2>5, <2>9, OneCall
<1> QED
  BY <1>6, <1>7, <1>8

\* What is at hand when a call stores: the order, from one menu, and its total.
LEMMA AtStore ==
    ASSUME NEW q \in Calls, NEW c, Sound(q, c), q.order # Nothing
    PROVE  /\ ExactTotal(q.order) \in Int
           /\ ExactTotal(q.order) < Half =>
                 /\ q.order.total = ExactTotal(q.order)
                 /\ StoreAccepts(q.order)
                 /\ PartnerAccepts(q.order)
<1>1. q.body \in Bodies /\ WellFormed(q.body) /\ \E x \in q.seen : MadeFrom(q, x)
  BY DEF Sound, Asked
<1>2. PICK x \in Catalogs : MadeFrom(q, x)
  BY <1>1, CallFields DEF Histories
<1> DEFINE lines == Lines(Menu(x), q.body)
<1>3. /\ \A k \in DOMAIN q.body : LineOK(Menu(x), q.body[k])
      /\ NewOrderOK(lines) /\ q.order = NewOrder(lines)
  BY <1>2 DEF MadeFrom
<1>4. Len(q.body) \in Nat \ {0}
  BY <1>1, BodyFields
<1>5. DOMAIN lines = 1..Len(q.body) /\ \A k \in 1..Len(q.body) : Priced(lines[k])
  BY <1>1, <1>3, OrderMade
<1> HIDE DEF lines
<1> QED
  BY <1>3, <1>4, <1>5, TotalIsExact

LEMMA StoreSafe ==
    ASSUME EntryInv, NEW r \in Requests, Store(r)
    PROVE  EntryInv'
<1> DEFINE q == req[r]
           yes == TRUE
           done == "done"
           created == 201
           p == [q EXCEPT !.stored = yes, !.pc = done, !.status = created]
<1>1. /\ req \in [Requests -> Calls] /\ q \in Calls /\ Sound(q, cat)
      /\ q.pc = "store" /\ Fixed
  BY DEF EntryInv, EntryTypeOK, Store
<1>2. /\ q.order # Nothing /\ WasOpen(q) /\ Asked(q) /\ \E x \in q.seen : MadeFrom(q, x)
  BY <1>1 DEF Sound
<1>3. CASE ~StoreAccepts(q.order)
  <2>1. ExactTotal(q.order) >= Half
    BY <1>1, <1>2, <1>3, AtStore, HalfIsPositive
  <2>2. WasOurFault(q)
    BY <1>2, <2>1 DEF WasOurFault
  <2>3. Reply(r, 500) /\ 500 \in Answers \ {201}
    BY <1>3, StatusTable DEF Store, Answers
  <2> QED
    BY <1>1, <2>2, <2>3, Replied
<1>4. CASE StoreAccepts(q.order)
  <2>1. req' = [req EXCEPT ![r] = p]
    BY <1>1, <1>4 DEF Store
  <2>2. done \in Stages /\ created \in AnyAnswer /\ yes \in Flags
    BY DEF Flags, Stages, AnyAnswer, Answers
  <2> HIDE DEF q, yes, done, created
  <2>3. p \in Calls
    BY <1>1, <2>2, CallFields
  <2>4. /\ p.body = q.body /\ p.order = q.order /\ p.seen = q.seen
        /\ p.pc = done /\ p.stored = yes /\ p.status = created
    BY <1>1, <2>2, CallFields
  <2> HIDE DEF p
  <2>5. Asked(p) /\ WasOpen(p) /\ \E x \in p.seen : MadeFrom(p, x)
    BY <1>2, <2>4, SameFacts
  <2>6. Sound(p, cat)
    BY <1>2, <1>4, <2>4, <2>5 DEF Sound, TrueStatus, done, created, yes
  <2> QED
    BY <1>1, <2>1, <2>3, <2>6, OneCall
<1> QED
  BY <1>3, <1>4

LEMMA KeyKnownSafe ==
    ASSUME EntryInv, NEW r \in Requests, KeyKnown(r)
    PROVE  EntryInv'
<1>1. PICK status \in {200, 409} : Reply(r, status)
  BY StatusTable DEF KeyKnown
<1>2. status \in Answers \ {201} /\ status # 400 /\ status # 500
  BY DEF Answers
<1>3. req[r].pc \notin {"new", "done"} /\ Fixed
  BY DEF KeyKnown
<1> QED
  BY <1>1, <1>2, <1>3, Replied

LEMMA FailSafe ==
    ASSUME EntryInv, NEW r \in Requests, Fail(r)
    PROVE  EntryInv'
<1> DEFINE q == req[r]
           done == "done"
           internal == 500
           yes == TRUE
<1>1. /\ req \in [Requests -> Calls] /\ q \in Calls /\ Sound(q, cat)
      /\ q.pc \notin {"new", "done"} /\ Fixed
  BY DEF EntryInv, EntryTypeOK, Fail
<1>2. done \in Stages /\ internal \in AnyAnswer /\ yes \in Flags
  BY DEF Stages, AnyAnswer, Answers, Flags
<1>3. PICK s \in Flags :
         /\ s => q.pc = "store" /\ StoreAccepts(q.order)
         /\ req' = [req EXCEPT ![r].pc = done, ![r].failed = yes, ![r].stored = s,
                               ![r].status = internal]
  <2>1. OrderStatusOf("Unavailable") = internal
    BY StatusTable
  <2> HIDE DEF internal
  <2> QED
    BY <2>1 DEF Fail, Flags
<1>4. /\ q.order # Nothing => Asked(q) /\ \E x \in q.seen : MadeFrom(q, x)
      /\ s => WasOpen(q) /\ q.order # Nothing /\ StoreAccepts(q.order)
  BY <1>1, <1>3 DEF Sound
<1> DEFINE p == [q EXCEPT !.pc = done, !.failed = yes, !.stored = s, !.status = internal]
<1> HIDE DEF done, internal, yes
<1>5. req' = [req EXCEPT ![r] = p]
  <2>1. req' = [req EXCEPT ![r].pc = done, ![r].failed = yes, ![r].stored = s,
                           ![r].status = internal]
    BY <1>3
  <2> QED
    BY <1>1, <2>1
<1> HIDE DEF q
<1>6. /\ p \in Calls
      /\ p.body = q.body /\ p.order = q.order /\ p.seen = q.seen
      /\ p.pc = done /\ p.stored = s /\ p.failed = yes /\ p.status = internal
  <2>1. s \in Flags
    BY <1>3
  <2>2. p \in Calls
    BY <1>1, <1>2, <2>1, CallFields
  <2>3. /\ p.body = q.body /\ p.order = q.order /\ p.seen = q.seen
        /\ p.pc = done /\ p.stored = s /\ p.failed = yes /\ p.status = internal
    BY <1>1, <1>2, <2>1, CallFields
  <2> QED
    BY <2>2, <2>3
<1> HIDE DEF p
<1>7. /\ Asked(p) <=> Asked(q)
      /\ WasOpen(p) <=> WasOpen(q)
      /\ \A x : MadeFrom(p, x) <=> MadeFrom(q, x)
  BY <1>6, SameFacts
<1>8. TrueStatus(p)
  <2>1. p.failed = TRUE /\ p.status = 500
    BY <1>6 DEF yes, internal
  <2> QED
    BY <2>1 DEF TrueStatus, WasOurFault
<1>9. p.order # Nothing => Asked(p) /\ \E x \in p.seen : MadeFrom(p, x)
  BY <1>4, <1>6, <1>7
<1>10. p.stored => WasOpen(p) /\ p.order # Nothing /\ StoreAccepts(p.order)
  BY <1>4, <1>6, <1>7
<1>11. p.pc = "done"
  BY <1>6 DEF done
<1>12. Sound(p, cat)
  BY <1>8, <1>9, <1>10, <1>11 DEF Sound
<1> QED
  BY <1>1, <1>5, <1>6, <1>12, OneCall

LEMMA ChangeSafe ==
    ASSUME EntryInv, Change
    PROVE  EntryInv'
<1>1. /\ req \in [Requests -> Calls] /\ changes \in 0..MaxChanges /\ cat \in Catalogs
      /\ \A r \in Requests : Sound(req[r], cat)
  BY DEF EntryInv, EntryTypeOK
<1>2. cat' \in Catalogs /\ changes' \in 0..MaxChanges
  BY <1>1, EntryAssumption DEF Change
<1>3. req' = [r \in Requests |-> IF req[r].pc \in {"new", "done"} THEN req[r]
                                 ELSE [req[r] EXCEPT !.seen = req[r].seen \cup {cat'}]]
  BY DEF Change
<1>4. ASSUME NEW r \in Requests PROVE req'[r] \in Calls /\ Sound(req'[r], cat')
  <2> DEFINE q == req[r]
             seen == q.seen \cup {cat'}
             p == [q EXCEPT !.seen = seen]
  <2>1. q \in Calls /\ Sound(q, cat)
    BY <1>1
  <2>2. CASE q.pc \in {"new", "done"}
    <3>1. req'[r] = q
      BY <1>3, <2>2
    <3>2. Sound(q, cat')
      BY <2>1, <2>2 DEF Sound
    <3> QED
      BY <2>1, <3>1, <3>2
  <2>3. CASE q.pc \notin {"new", "done"}
    <3>1. req'[r] = p
      BY <1>3, <2>3
    <3>2. seen \in Histories /\ cat' \in seen /\ q.seen \subseteq seen
      BY <1>2, <2>1, CallFields DEF Histories
    <3> HIDE DEF q, seen
    <3>3. p \in Calls
      BY <2>1, <3>2, CallFields
    <3>4. /\ p.pc = q.pc /\ p.body = q.body /\ p.menu = q.menu /\ p.order = q.order
          /\ p.stored = q.stored /\ p.seen = seen
      BY <2>1, <3>2, CallFields
    <3> HIDE DEF p
    <3>5. Asked(p) <=> Asked(q)
      BY <3>4 DEF Asked
    <3>6. WasOpen(q) => WasOpen(p)
      BY <3>2, <3>4 DEF WasOpen
    <3>7. \A x : MadeFrom(q, x) => MadeFrom(p, x)
      BY <3>4 DEF MadeFrom
    <3>8. (\E x \in q.seen : MadeFrom(q, x)) => \E x \in p.seen : MadeFrom(p, x)
      BY <3>2, <3>4, <3>7
    <3>9. (\E x \in q.seen : q.menu = Menu(x)) => \E x \in p.seen : p.menu = Menu(x)
      BY <3>2, <3>4
    <3>10. Sound(p, cat')
      BY <2>1, <2>3, <3>2, <3>4, <3>5, <3>6, <3>8, <3>9 DEF Sound
    <3> QED
      BY <3>1, <3>3, <3>10
  <2> QED
    BY <2>2, <2>3
<1>5. req' \in [Requests -> Calls]
  <2>1. req' = [r \in Requests |-> req'[r]]
    BY <1>3
  <2> QED
    BY <1>4, <2>1
<1>6. EntryTypeOK'
  BY <1>2, <1>5 DEF EntryTypeOK
<1>7. ASSUME NEW r \in Requests PROVE Sound(req[r], cat)'
  <2>1. Sound(req'[r], cat')
    BY <1>4
  <2> QED
    BY <2>1 DEF Sound, Asked, WasOpen, MadeFrom, TrueStatus, WasImpossible, WasOurFault
<1> QED
  BY <1>6, <1>7 DEF EntryInv

LEMMA EntryInitSafe == EntryInit => EntryInv
<1> SUFFICES ASSUME EntryInit PROVE EntryInv
  OBVIOUS
<1> DEFINE q == [pc |-> "new", body |-> <<>>, menu |-> Nothing, order |-> Nothing,
                 stored |-> FALSE, seen |-> {}, failed |-> FALSE, status |-> 0]
<1>1. cat \in Catalogs /\ changes = 0 /\ req = [r \in Requests |-> q]
  BY DEF EntryInit
<1>2. changes \in 0..MaxChanges
  BY <1>1, EntryAssumption
<1>3. q \in Calls
  <2>1. /\ "new" \in Stages /\ <<>> \in Texts /\ Nothing \in Menus /\ Nothing \in PricedOrNone
        /\ FALSE \in Flags /\ {} \in Histories /\ 0 \in AnyAnswer
    BY DEF Stages, Texts, Menus, PricedOrNone, Flags, Histories, AnyAnswer
  <2> QED
    BY <2>1, CallFields
<1>4. Sound(q, cat)
  BY DEF Sound
<1> HIDE DEF q
<1>5. EntryTypeOK
  BY <1>1, <1>2, <1>3 DEF EntryTypeOK
<1>6. \A r \in Requests : Sound(req[r], cat)
  BY <1>1, <1>4
<1> QED
  BY <1>5, <1>6 DEF EntryInv

LEMMA EntryStepSafe == EntryInv /\ [EntryNext]_entryVars => EntryInv'
<1> SUFFICES ASSUME EntryInv, [EntryNext]_entryVars PROVE EntryInv'
  OBVIOUS
<1>1. CASE Change
  BY <1>1, ChangeSafe
<1>2. ASSUME NEW r \in Requests, NEW body \in Bodies, Arrive(r, body) PROVE EntryInv'
  BY <1>2, ArriveSafe
<1>3. ASSUME NEW r \in Requests, KeyKnown(r) PROVE EntryInv'
  BY <1>3, KeyKnownSafe
<1>4. ASSUME NEW r \in Requests, ReadOpen(r) \/ ReadExists(r) \/ ReadMenu(r) PROVE EntryInv'
  BY <1>4, ReadsSafe
<1>5. ASSUME NEW r \in Requests, Price(r) PROVE EntryInv'
  BY <1>5, PriceSafe
<1>6. ASSUME NEW r \in Requests, Store(r) PROVE EntryInv'
  BY <1>6, StoreSafe
<1>7. ASSUME NEW r \in Requests, Fail(r) PROVE EntryInv'
  BY <1>7, FailSafe
<1>8. CASE UNCHANGED entryVars
  BY <1>8 DEF entryVars, EntryInv, EntryTypeOK, Sound, Asked, WasOpen, MadeFrom, TrueStatus,
              WasImpossible, WasOurFault
<1> QED
  BY <1>1, <1>2, <1>3, <1>4, <1>5, <1>6, <1>7, <1>8 DEF EntryNext

-----------------------------------------------------------------------------
(* Theorems *)

\* Whatever the catalog does while calls of POST /v1/orders run, each call is in a
\* state the handlers, the two services and their statements can bring it to.
THEOREM EntryInvariant == EntrySpec => []EntryInv
<1> QED
  BY EntryInitSafe, EntryStepSafe, PTL DEF EntrySpec

\* The variables have their types: every order made has its columns' widths.
THEOREM EntryTypeCorrect == EntrySpec => []EntryTypeOK
<1>1. EntryInv => EntryTypeOK
  BY DEF EntryInv
<1> QED
  BY <1>1, EntryInvariant, PTL

\* All lines of a stored order were orderable, at the prices stored, at one moment
\* since the call arrived, though the catalog is read in three statements outside
\* any transaction (service.go, CreateOrder).
THEOREM AlwaysPricedFromOneMenu == EntrySpec => []PricedFromOneMenu
<1>1. EntryInv => PricedFromOneMenu
  <2> SUFFICES ASSUME EntryInv, NEW r \in Requests, req[r].stored
               PROVE  /\ \E c \in req[r].seen : c.open
                      /\ \E c \in req[r].seen : \A k \in DOMAIN req[r].order.lines :
                            LET line == req[r].order.lines[k]
                            IN Orderable(c, line) /\ line.unit = Wrap(ExactPrice(c, line))
    BY DEF PricedFromOneMenu
  <2> DEFINE q == req[r]
  <2>1. q \in Calls /\ Sound(q, cat)
    BY DEF EntryInv, EntryTypeOK
  <2>2. WasOpen(q) /\ Asked(q) /\ \E x \in q.seen : MadeFrom(q, x)
    BY <2>1 DEF Sound
  <2>3. PICK x \in q.seen : MadeFrom(q, x)
    BY <2>2
  <2>4. x \in Catalogs /\ q.body \in Bodies /\ WellFormed(q.body)
    BY <2>1, <2>2, CallFields DEF Histories, Asked
  <2>5. ASSUME NEW k \in DOMAIN q.order.lines
        PROVE  LET line == q.order.lines[k]
               IN Orderable(x, line) /\ line.unit = Wrap(ExactPrice(x, line))
    <3> DEFINE line == Lines(Menu(x), q.body)[k]
    <3>1. q.order.lines = Lines(Menu(x), q.body)
      BY <2>3 DEF MadeFrom, NewOrder
    <3>2. k \in DOMAIN q.body
      BY <3>1 DEF Lines
    <3>3. LineOK(Menu(x), q.body[k])
      BY <2>3, <3>2 DEF MadeFrom
    <3>4. /\ Orderable(x, q.body[k]) /\ line.item = q.body[k].item
          /\ line.mods = q.body[k].mods /\ line.unit = Wrap(ExactPrice(x, q.body[k]))
      BY <2>4, <3>2, <3>3, LineMade
    <3> HIDE DEF line
    <3>5. Orderable(x, line)
      BY <3>4 DEF Orderable
    <3>6. ExactPrice(x, line) = ExactPrice(x, q.body[k])
      BY <3>4 DEF ExactPrice
    <3> QED
      BY <3>1, <3>4, <3>5, <3>6 DEF line
  <2> QED
    BY <2>2, <2>3, <2>5 DEF WasOpen
<1> QED
  BY <1>1, EntryInvariant, PTL

\* An order whose exact total fits is stored with that total, and partner-service's
\* validatePayload accepts the event made from it.
THEOREM StoredIsAlwaysDeliverable == EntrySpec => []StoredIsDeliverable
<1>1. EntryInv => StoredIsDeliverable
  <2> SUFFICES ASSUME EntryInv, NEW r \in Requests, req[r].stored,
                      ExactTotal(req[r].order) < Half
               PROVE  /\ req[r].order.total = ExactTotal(req[r].order)
                      /\ PartnerAccepts(req[r].order)
    BY DEF StoredIsDeliverable
  <2>1. req[r] \in Calls /\ Sound(req[r], cat)
    BY DEF EntryInv, EntryTypeOK
  <2>2. req[r].order # Nothing
    BY <2>1 DEF Sound
  <2> QED
    BY <2>1, <2>2, AtStore
<1> QED
  BY <1>1, EntryInvariant, PTL

\* The statuses kitchen-api answers blame the client for what was not orderable at a
\* moment of the call, and the services for the rest; 201 is the stored order.
THEOREM StatusIsAlwaysTrue == EntrySpec => []StatusIsTrue
<1>1. EntryInv => StatusIsTrue
  <2>1. ASSUME EntryInv, NEW r \in Requests, req[r].pc = "done" PROVE TrueStatus(req[r])
    BY <2>1 DEF EntryInv, Sound
  <2> QED
    BY <2>1 DEF StatusIsTrue, TrueStatus, WasImpossible, WasOurFault
<1> QED
  BY <1>1, EntryInvariant, PTL
=============================================================================
