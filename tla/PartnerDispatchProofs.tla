------------------------ MODULE PartnerDispatchProofs ------------------------
(***************************************************************************)
(* Proofs about PartnerDispatch, for any number of dispatchers, orders,    *)
(* callbacks, attempts and faults.                                         *)
(***************************************************************************)
EXTENDS PartnerDispatch, FiniteSetTheorems, TLAPS

USE DEF Me

-----------------------------------------------------------------------------
(* Type correctness *)

\* The shape of RunOnce: only a submission of the batch is current, and only
\* between its request and its mark; nothing is held between two calls.
LoopShape ==
    \A d \in Dispatchers :
        /\ ToMark(d) => disp[d].cur \in Orders /\ disp[d].attempt[disp[d].cur] > 0
        /\ disp[d].pc \in {"idle", "sending"} => disp[d].cur = NoOrder
        /\ disp[d].pc = "idle" => \A o \in Orders : disp[d].attempt[o] = 0

LEMMA IdleType == Idle \in DispatcherStates
BY DEF Idle, DispatcherStates

LEMMA MarkedType ==
    ASSUME NEW d \in Dispatchers, NEW o \in Orders, TypeOK, ToMark(d)
    PROVE  Marked(d, o) \in Submissions
<1>1. sub[o] \in Submissions
  BY DEF TypeOK
<1>2. CASE disp[d].pc = "retry"
  BY <1>1, <1>2 DEF Marked, Submissions
<1>3. CASE disp[d].pc \in {"ok", "terminal"}
  <2>1. Marked(d, o).due = TRUE /\ Marked(d, o).status \in {"submitted", "failed"}
    BY <1>1, <1>3 DEF Marked, Submissions
  <2> QED
    BY <1>1, <1>3, <2>1 DEF Marked, Submissions
<1> QED
  BY <1>2, <1>3 DEF ToMark

LEMMA AdvanceFacts ==
    ASSUME NEW d \in Dispatchers, TypeOK, LoopShape, ToMark(d), disp' = Advance(d)
    PROVE  /\ disp' \in [Dispatchers -> DispatcherStates]
           /\ \A e \in Dispatchers \ {d} : disp'[e] = disp[e]
           /\ disp'[d].pc \in {"idle", "sending"} /\ disp'[d].cur = NoOrder
           /\ disp'[d].pc = "idle" => \A o \in Orders : disp'[d].attempt[o] = 0
           /\ \A o \in Orders :
                 disp'[d].attempt[o] = IF o = disp[d].cur THEN 0 ELSE disp[d].attempt[o]
<1> DEFINE rest == [disp[d].attempt EXCEPT ![disp[d].cur] = 0]
           next == [pc |-> "sending", attempt |-> rest, cur |-> NoOrder]
<1>1. disp[d].attempt \in [Orders -> Nat] /\ disp[d].cur \in Orders
  BY DEF TypeOK, DispatcherStates, LoopShape
<1>2. rest \in [Orders -> Nat]
  BY <1>1
<1>3. next \in DispatcherStates
  BY <1>2 DEF DispatcherStates
<1>4. CASE Batch(d) = {disp[d].cur}
  <2>1. disp' = [disp EXCEPT ![d] = Idle]
    BY <1>4 DEF Advance
  <2>2. \A o \in Orders : o # disp[d].cur => disp[d].attempt[o] = 0
    BY <1>1, <1>4 DEF Batch
  <2> QED
    BY <2>1, <2>2, IdleType DEF TypeOK, Idle
<1>5. CASE Batch(d) # {disp[d].cur}
  <2>1. disp' = [disp EXCEPT ![d] = next]
    BY <1>5 DEF Advance
  <2>2. next.pc = "sending" /\ next.cur = NoOrder
    OBVIOUS
  <2>3. \A o \in Orders : next.attempt[o] = IF o = disp[d].cur THEN 0 ELSE disp[d].attempt[o]
    BY <1>1
  <2> HIDE DEF next
  <2> QED
    BY <1>3, <2>1, <2>2, <2>3 DEF TypeOK
<1> QED
  BY <1>4, <1>5

LEMMA AbandonFacts ==
    ASSUME NEW d \in Dispatchers, TypeOK, disp' = Abandon(d)
    PROVE  /\ disp' \in [Dispatchers -> DispatcherStates]
           /\ \A e \in Dispatchers \ {d} : disp'[e] = disp[e]
           /\ disp'[d].pc = "idle" /\ disp'[d].cur = NoOrder
           /\ \A o \in Orders : disp'[d].attempt[o] = 0
BY IdleType DEF TypeOK, Abandon, Idle

LEMMA LeasedFacts ==
    ASSUME NEW d \in Dispatchers, NEW S, TypeOK
    PROVE  /\ Leased(d, S) \in [Orders -> Submissions]
           /\ \A o \in Orders : o \notin S => Leased(d, S)[o] = sub[o]
           /\ \A o \in S \cap Orders :
                 /\ Leased(d, S)[o].attempts = sub[o].attempts + 1
                 /\ Leased(d, S)[o].status = sub[o].status
<1> DEFINE x(o) == [sub[o] EXCEPT !.owner = Me(d), !.lease = "live", !.attempts = @ + 1]
<1>1. ASSUME NEW o \in Orders
      PROVE  /\ x(o) \in Submissions
             /\ x(o).attempts = sub[o].attempts + 1
             /\ x(o).status = sub[o].status
  <2>1. sub[o] \in Submissions
    BY DEF TypeOK
  <2>2. Me(d) \in Dispatchers \X Nat /\ sub[o].attempts + 1 \in Nat
    BY <2>1 DEF TypeOK, Submissions
  <2> QED
    BY <2>1, <2>2 DEF Submissions
<1>2. Leased(d, S) = [o \in Orders |-> IF o \in S THEN x(o) ELSE sub[o]]
  BY DEF Leased
<1> HIDE DEF x
<1> QED
  BY <1>1, <1>2 DEF TypeOK

LEMMA ClaimFacts ==
    ASSUME NEW d \in Dispatchers, TypeOK, Claim(d)
    PROVE  LET S == Oldest(Claimable)
           IN /\ S \subseteq Claimable
              /\ disp' \in [Dispatchers -> DispatcherStates]
              /\ \A e \in Dispatchers \ {d} : disp'[e] = disp[e]
              /\ disp'[d].pc = "sending" /\ disp'[d].cur = NoOrder
              /\ \A o \in Orders :
                    disp'[d].attempt[o] = IF o \in S THEN sub[o].attempts + 1 ELSE 0
<1> DEFINE S == Oldest(Claimable)
           a == [o \in Orders |-> IF o \in S THEN sub[o].attempts + 1 ELSE 0]
           next == [pc |-> "sending", attempt |-> a, cur |-> NoOrder]
<1>1. S \subseteq Claimable
  BY DEF Oldest
<1> HIDE DEF S
<1>2. a \in [Orders -> Nat]
  BY DEF TypeOK, Submissions
<1>3. disp' = [disp EXCEPT ![d] = next]
  BY DEF Claim, S
<1>4. \A o \in Orders : a[o] = IF o \in S THEN sub[o].attempts + 1 ELSE 0
  OBVIOUS
<1> HIDE DEF a
<1>5. next \in DispatcherStates /\ next.pc = "sending" /\ next.cur = NoOrder /\ next.attempt = a
  BY <1>2 DEF DispatcherStates
<1> HIDE DEF next
<1> QED
  BY <1>1, <1>3, <1>4, <1>5 DEF TypeOK, S

LEMMA SentFacts ==
    ASSUME NEW d \in Dispatchers, NEW o \in Orders, TypeOK, LoopShape,
           NEW pc \in {"ok", "retry", "terminal"}, Sent(d, o, pc)
    PROVE  /\ disp' \in [Dispatchers -> DispatcherStates]
           /\ sends' \in [Orders -> Nat]
           /\ \A e \in Dispatchers \ {d} : disp'[e] = disp[e]
           /\ disp'[d].pc = pc /\ disp'[d].cur = o /\ disp'[d].attempt = disp[d].attempt
           /\ disp[d].pc = "sending" /\ disp[d].cur = NoOrder /\ disp[d].attempt[o] > 0
<1>1. disp[d].cur = NoOrder /\ disp[d].attempt[o] > 0 /\ disp[d].pc = "sending"
  BY DEF Sent, LoopShape, Batch
<1>2. disp' = [disp EXCEPT ![d] = [disp[d] EXCEPT !.pc = pc, !.cur = o]]
  BY DEF Sent
<1>3. [disp[d] EXCEPT !.pc = pc, !.cur = o] \in DispatcherStates
  BY DEF TypeOK, DispatcherStates
<1> QED
  BY <1>1, <1>2, <1>3 DEF TypeOK, DispatcherStates, Sent

\* What a mark can make of a submission: an undecided one again.
MarkSets(d, o, status) ==
    /\ ToMark(d) /\ o = disp[d].cur
    /\ status = CASE disp[d].pc = "ok" -> "submitted"
                  [] disp[d].pc = "retry" -> "pending"
                  [] disp[d].pc = "terminal" -> "failed"

\* The steps of one dispatcher.
Dispatch(d) == Claim(d) \/ ClaimAnswerLost(d) \/ Mark(d) \/ Crash(d) \/ \E o \in Orders : Send(d, o)

\* The steps that only touch rows.
RowStep ==
    \/ \E o \in Orders : Receive(o) \/ LeaseExpires(o) \/ LeaseOverrun(o) \/ BecomesDue(o)
    \/ \E c \in Callbacks, o \in Orders, s \in Decisions : StatusCallback(c, o, s)

LEMMA NextCases == Next => RowStep \/ \E d \in Dispatchers : Dispatch(d)
BY DEF Next, RowStep, Dispatch

\* A dispatcher never lowers the attempts of a submission, and changes only the
\* status of a pending one, to what its request was worth.
LEMMA DispatchRows ==
    ASSUME TypeOK, LoopShape, NEW d \in Dispatchers, Dispatch(d)
    PROVE  /\ sub' \in [Orders -> Submissions]
           /\ \A o \in Orders :
                 /\ sub'[o].attempts >= sub[o].attempts
                 /\ \/ sub'[o].status = sub[o].status
                    \/ sub[o].status = "pending" /\ MarkSets(d, o, sub'[o].status)
<1>1. \A o \in Orders : sub[o].attempts \in Nat
  BY DEF TypeOK, Submissions
<1>2. CASE Claim(d) \/ ClaimAnswerLost(d)
  <2>1. sub' = Leased(d, Oldest(Claimable))
    BY <1>2 DEF Claim, ClaimAnswerLost
  <2>2. Oldest(Claimable) \subseteq Orders
    BY DEF Oldest, Claimable
  <2> QED
    BY <1>1, <2>1, <2>2, LeasedFacts
<1>3. CASE MarkDone(d) \/ MarkAnswerLost(d)
  <2> DEFINE c == disp[d].cur
  <2>1. ToMark(d) /\ c \in Orders /\ sub[c].status = "pending"
        /\ sub' = [sub EXCEPT ![c] = Marked(d, c)]
    BY <1>3 DEF MarkDone, MarkAnswerLost, LoopShape, Owned
  <2>2. Marked(d, c) \in Submissions
    BY <2>1, MarkedType
  <2>3. Marked(d, c).attempts = sub[c].attempts /\ MarkSets(d, c, Marked(d, c).status)
    <3>1. sub[c] \in Submissions
      BY <2>1 DEF TypeOK
    <3>2. CASE disp[d].pc = "ok"
      BY <2>1, <3>1, <3>2 DEF Submissions, Marked, MarkSets
    <3>3. CASE disp[d].pc = "retry"
      BY <2>1, <3>1, <3>3 DEF Submissions, Marked, MarkSets
    <3>4. CASE disp[d].pc = "terminal"
      BY <2>1, <3>1, <3>4 DEF Submissions, Marked, MarkSets
    <3> QED
      BY <2>1, <3>2, <3>3, <3>4 DEF ToMark
  <2> QED
    BY <1>1, <2>1, <2>2, <2>3 DEF TypeOK
<1>4. CASE UNCHANGED sub
  BY <1>1, <1>4 DEF TypeOK
<1> QED
  BY <1>2, <1>3, <1>4
     DEF Dispatch, Mark, MarkNotOwned, MarkError, Crash, Send, SendOK, SendTransient, SendPermanent, Sent

\* What a step on the rows can make of one of them.
RowBecomes(o, x) ==
    /\ sub' = [sub EXCEPT ![o] = x]
    /\ x \in Submissions
    /\ x.attempts = sub[o].attempts
    /\ \/ x.status = sub[o].status
       \/ sub[o].status = "absent" /\ x.status = "pending"
       \/ x.status \in Decisions /\ (sub[o].status \in Decisions => x.status = sub[o].status)

LEMMA OneRowStep ==
    ASSUME TypeOK, RowStep
    PROVE  \E o \in Orders, x \in Submissions : RowBecomes(o, x)
<1>1. \A o \in Orders : sub[o] \in Submissions
  BY DEF TypeOK
<1>2. ASSUME NEW o \in Orders, Receive(o)
      PROVE  RowBecomes(o, [sub[o] EXCEPT !.status = "pending"])
  BY <1>1, <1>2 DEF Receive, RowBecomes, Submissions
<1>3. ASSUME NEW o \in Orders, LeaseExpires(o) \/ LeaseOverrun(o)
      PROVE  RowBecomes(o, [sub[o] EXCEPT !.lease = "expired"])
  BY <1>1, <1>3 DEF LeaseExpires, LeaseOverrun, RowBecomes, Submissions
<1>4. ASSUME NEW o \in Orders, BecomesDue(o)
      PROVE  RowBecomes(o, [sub[o] EXCEPT !.due = TRUE])
  BY <1>1, <1>4 DEF BecomesDue, RowBecomes, Submissions
<1>5. ASSUME NEW c \in Callbacks, NEW o \in Orders, NEW s \in Decisions, StatusCallback(c, o, s)
      PROVE  RowBecomes(o, [sub[o] EXCEPT !.status = s])
  BY <1>1, <1>5 DEF StatusCallback, RowBecomes, Submissions
<1>6. \A o \in Orders : \A x : RowBecomes(o, x) => x \in Submissions
  BY DEF RowBecomes
<1>7. CASE \E o \in Orders : Receive(o) \/ LeaseExpires(o) \/ LeaseOverrun(o) \/ BecomesDue(o)
  <2>1. PICK o \in Orders : Receive(o) \/ LeaseExpires(o) \/ LeaseOverrun(o) \/ BecomesDue(o)
    BY <1>7
  <2>2. \E x : RowBecomes(o, x)
    BY <1>2, <1>3, <1>4, <2>1
  <2> QED
    BY <1>6, <2>2
<1>8. CASE \E c \in Callbacks, o \in Orders, s \in Decisions : StatusCallback(c, o, s)
  <2>1. PICK c \in Callbacks, o \in Orders, s \in Decisions : StatusCallback(c, o, s)
    BY <1>8
  <2>2. \E x : RowBecomes(o, x)
    BY <1>5, <2>1
  <2> QED
    BY <1>6, <2>2
<1> QED
  BY <1>7, <1>8 DEF RowStep

LEMMA RowStepRows ==
    ASSUME TypeOK, RowStep
    PROVE  /\ sub' \in [Orders -> Submissions]
           /\ \A o \in Orders :
                 /\ sub'[o].attempts = sub[o].attempts
                 /\ \/ sub'[o].status = sub[o].status
                    \/ sub[o].status = "absent" /\ sub'[o].status = "pending"
                    \/ sub'[o].status \in Decisions /\ sub[o].status \notin Decisions
<1>1. PICK o \in Orders, x \in Submissions : RowBecomes(o, x)
  BY OneRowStep
<1> QED
  BY <1>1 DEF TypeOK, RowBecomes

\* A row step leaves the dispatchers alone; a dispatcher leaves the others
\* alone and keeps the shape of its loop.
LEMMA DispatchShape ==
    ASSUME TypeOK, LoopShape, NEW d \in Dispatchers, Dispatch(d)
    PROVE  /\ disp' \in [Dispatchers -> DispatcherStates]
           /\ \A e \in Dispatchers \ {d} : disp'[e] = disp[e]
           /\ LoopShape'
           /\ received' = received
<1>1. CASE Claim(d)
  BY <1>1, ClaimFacts DEF Claim, LoopShape, ToMark
<1>2. CASE ClaimAnswerLost(d)
  BY <1>2 DEF ClaimAnswerLost, LoopShape, ToMark, TypeOK
<1>3. CASE MarkDone(d)
  BY <1>3, AdvanceFacts DEF MarkDone, LoopShape, ToMark
<1>4. CASE MarkNotOwned(d) \/ MarkAnswerLost(d) \/ MarkError(d) \/ Crash(d)
  BY <1>4, AbandonFacts DEF MarkNotOwned, MarkAnswerLost, MarkError, Crash, LoopShape, ToMark
<1>5. CASE \E o \in Orders : Send(d, o)
  <2>1. PICK o \in Orders, pc \in {"ok", "retry", "terminal"} : Sent(d, o, pc)
    BY <1>5 DEF Send, SendOK, SendTransient, SendPermanent
  <2>2. received' = received
    BY <2>1 DEF Sent
  <2>3. LoopShape'
    BY <2>1, SentFacts DEF LoopShape, ToMark
  <2> QED
    BY <2>1, <2>2, <2>3, SentFacts
<1> QED
  BY <1>1, <1>2, <1>3, <1>4, <1>5 DEF Dispatch, Mark

LEMMA RowStepShape ==
    ASSUME RowStep
    PROVE  UNCHANGED <<disp, epoch, delivered, refused, sends>>
BY DEF RowStep, Receive, LeaseExpires, LeaseOverrun, BecomesDue, StatusCallback

LEMMA TypeInductive ==
    ASSUME TypeOK, LoopShape, [Next]_vars
    PROVE  TypeOK' /\ LoopShape'
<1>1. CASE UNCHANGED vars
  BY <1>1 DEF vars, TypeOK, LoopShape, ToMark
<1>2. CASE RowStep
  <2>1. received' \subseteq [id : Callbacks, order : Orders, status : Decisions] /\ budget' \in Nat
    BY <1>2 DEF RowStep, Receive, LeaseExpires, LeaseOverrun, BecomesDue, StatusCallback, Fault, TypeOK
  <2>2. LoopShape'
    BY <1>2, RowStepShape DEF LoopShape, ToMark
  <2> QED
    BY <1>2, <2>1, <2>2, RowStepRows, RowStepShape DEF TypeOK
<1>3. ASSUME NEW d \in Dispatchers, Dispatch(d)
      PROVE  TypeOK' /\ LoopShape'
  <2> DEFINE Others == /\ budget' \in Nat /\ epoch' \in [Dispatchers -> Nat]
                       /\ delivered' \subseteq Orders /\ refused' \subseteq Orders
                       /\ sends' \in [Orders -> Nat]
  <2>1. Others
    <3>1. CASE Claim(d) \/ ClaimAnswerLost(d)
      BY <3>1 DEF TypeOK, Claim, ClaimAnswerLost, Fault
    <3>2. CASE Mark(d)
      BY <3>2 DEF TypeOK, Mark, MarkDone, MarkNotOwned, MarkAnswerLost, MarkError, Fault
    <3>3. CASE Crash(d)
      BY <3>3 DEF TypeOK, Crash, Fault
    <3>4. CASE \E o \in Orders : Send(d, o)
      <4>1. PICK o \in Orders : Send(d, o)
        BY <3>4
      <4> QED
        BY <4>1 DEF TypeOK, Send, SendOK, SendTransient, SendPermanent, Sent
    <3> QED
      BY <1>3, <3>1, <3>2, <3>3, <3>4 DEF Dispatch
  <2> QED
    BY <1>3, <2>1, DispatchRows, DispatchShape DEF TypeOK
<1> QED
  BY <1>1, <1>2, <1>3, NextCases

LEMMA InitType == Init => TypeOK /\ LoopShape
BY DispatchAssumption DEF Init, TypeOK, Submissions, DispatcherStates, Idle, LoopShape, ToMark

\* Every reachable state is well typed, and every busy dispatcher is where its
\* loop says.
THEOREM TypeCorrect == Spec => [](TypeOK /\ LoopShape)
<1>1. TypeOK /\ LoopShape /\ [Next]_vars => TypeOK' /\ LoopShape'
  BY TypeInductive
<1> QED
  BY InitType, <1>1, PTL DEF Spec

-----------------------------------------------------------------------------
(* A decision of the restaurant stands *)

LEMMA DecisionStandsStep ==
    ASSUME TypeOK, LoopShape, [Next]_vars, NEW o \in Orders, sub[o].status \in Decisions
    PROVE  sub'[o].status = sub[o].status
<1>1. sub[o].status # "pending" /\ sub[o].status # "absent"
  BY DEF Decisions
<1>2. CASE UNCHANGED vars
  BY <1>2 DEF vars
<1>3. CASE RowStep
  BY <1>1, <1>3, RowStepRows
<1>4. ASSUME NEW d \in Dispatchers, Dispatch(d)
      PROVE  sub'[o].status = sub[o].status
  BY <1>1, <1>4, DispatchRows
<1> QED
  BY <1>2, <1>3, <1>4, NextCases

\* Once a callback has decided a submission, neither a dispatcher that still
\* holds it nor another callback changes the decision.
THEOREM DecisionAlwaysStands == Spec => DecisionStands
<1>1. TypeOK /\ LoopShape /\ [Next]_vars
        => [\A o \in Orders : sub[o].status \in Decisions => sub'[o].status = sub[o].status]_vars
  BY DecisionStandsStep
<1> QED
  BY TypeCorrect, <1>1, PTL DEF Spec, DecisionStands

\* What the order service has been told of an order.
Told(o) == {r.status : r \in {x \in received : x.order = o}}

\* What it should have been told.
ToTell(o) == IF sub[o].status \in Decisions THEN {sub[o].status} ELSE {}

LEMMA EventsAgreeInit == Init => EventsAgree
BY DEF Init, EventsAgree, Decisions

LEMMA EventsAgreeStep ==
    ASSUME TypeOK, LoopShape, EventsAgree, [Next]_vars
    PROVE  EventsAgree'
<1>1. \A o \in Orders : Told(o) = ToTell(o)
  BY DEF EventsAgree, Told, ToTell
<1>2. SUFFICES ASSUME NEW o \in Orders
               PROVE  Told(o)' = ToTell(o)'
  BY DEF EventsAgree, Told, ToTell
<1>3. CASE UNCHANGED vars
  BY <1>1, <1>3 DEF vars, Told, ToTell
<1>4. ASSUME NEW d \in Dispatchers, Dispatch(d)
      PROVE  Told(o)' = ToTell(o)'
  <2>1. Told(o)' = Told(o)
    BY <1>4, DispatchShape DEF Told
  <2>2. \/ sub'[o].status = sub[o].status
        \/ sub[o].status \notin Decisions /\ sub'[o].status \notin Decisions
    BY <1>4, DispatchRows DEF MarkSets, Decisions, ToMark
  <2> QED
    BY <1>1, <2>1, <2>2 DEF ToTell
<1>5. CASE \E p \in Orders : Receive(p) \/ LeaseExpires(p) \/ LeaseOverrun(p) \/ BecomesDue(p)
  <2>1. PICK p \in Orders : Receive(p) \/ LeaseExpires(p) \/ LeaseOverrun(p) \/ BecomesDue(p)
    BY <1>5
  <2>2. Told(o)' = Told(o)
    BY <2>1 DEF Told, Receive, LeaseExpires, LeaseOverrun, BecomesDue
  <2>3. sub[o] \in Submissions /\ sub[p] \in Submissions
    BY DEF TypeOK
  <2>4. \/ sub'[o].status = sub[o].status
        \/ sub[o].status = "absent" /\ sub'[o].status = "pending"
    BY <2>1, <2>3 DEF TypeOK, Submissions, Receive, LeaseExpires, LeaseOverrun, BecomesDue
  <2> QED
    BY <1>1, <2>2, <2>4 DEF ToTell, Decisions
<1>6. CASE \E c \in Callbacks, p \in Orders, s \in Decisions : StatusCallback(c, p, s)
  <2>1. PICK c \in Callbacks, p \in Orders, s \in Decisions : StatusCallback(c, p, s)
    BY <1>6
  <2> DEFINE new == [id |-> c, order |-> p, status |-> s]
  <2>2. received' = received \cup {new} /\ new.order = p /\ new.status = s
    BY <2>1 DEF StatusCallback
  <2>3. sub' = [sub EXCEPT ![p] = [sub[p] EXCEPT !.status = s]] /\ sub[p] \in Submissions
    BY <2>1 DEF StatusCallback, TypeOK
  <2> HIDE DEF new
  <2>4. CASE o # p
    <3>1. {x \in received' : x.order = o} = {x \in received : x.order = o}
      BY <2>2, <2>4
    <3> QED
      BY <1>1, <2>3, <2>4, <3>1 DEF Told, ToTell, TypeOK
  <2>5. CASE o = p
    <3>1. Told(o)' = Told(o) \cup {s}
      BY <2>2, <2>5 DEF Told
    <3>2. sub'[o].status = s
      BY <2>3, <2>5 DEF TypeOK, Submissions
    <3>3. Told(o) = {} \/ Told(o) = {s}
      BY <1>1, <2>1, <2>5 DEF ToTell, StatusCallback
    <3> QED
      BY <3>1, <3>2, <3>3 DEF ToTell
  <2> QED
    BY <2>4, <2>5
<1> QED
  BY <1>3, <1>4, <1>5, <1>6, NextCases DEF RowStep

\* The order service is told of a submission exactly the decision it shows.
THEOREM EventsAlwaysAgree == Spec => []EventsAgree
<1>1. TypeOK /\ LoopShape /\ EventsAgree /\ [Next]_vars => EventsAgree'
  BY EventsAgreeStep
<1> QED
  BY TypeCorrect, EventsAgreeInit, <1>1, PTL DEF Spec

-----------------------------------------------------------------------------
(* What submitted and failed mean *)

\* What RunOnce is about to write is true: the restaurant has the order, or
\* refused it, or the attempt of the claim was the last one.
ResultKnown ==
    \A d \in Dispatchers :
        LET o == disp[d].cur
        IN /\ disp[d].pc = "ok" => o \in delivered
           /\ disp[d].pc = "terminal" => o \in refused \/ disp[d].attempt[o] >= MaxAttempts

\* The attempt a dispatcher works with may be out of date, never ahead.
AttemptsKnown ==
    \A d \in Dispatchers, o \in Orders : disp[d].attempt[o] <= sub[o].attempts

\* Dispatchers that claimed o and have not sent it yet.
ToSend(o) == {d \in Dispatchers : disp[d].attempt[o] > 0 /\ disp[d].cur # o}

\* Every request was counted by a claim, one request for each claim.
SendsBudget ==
    \A o \in Orders : sends[o] + Cardinality(ToSend(o)) <= sub[o].attempts

FailedForAReason ==
    \A o \in Orders :
        sub[o].status = "failed" => o \in refused \/ sub[o].attempts >= MaxAttempts

Typed == TypeOK /\ LoopShape

DispatchInv ==
    Typed /\ ResultKnown /\ AttemptsKnown /\ SubmittedWasDelivered /\ FailedForAReason /\ SendsBudget

LEMMA DispatchInit == Init => DispatchInv
<1> SUFFICES ASSUME Init
             PROVE  DispatchInv
  OBVIOUS
<1>1. Typed
  BY InitType DEF Typed
<1>2. ResultKnown /\ AttemptsKnown /\ SubmittedWasDelivered /\ FailedForAReason
  BY DEF Init, Idle, ResultKnown, AttemptsKnown, SubmittedWasDelivered, FailedForAReason
<1>3. \A o \in Orders : ToSend(o) = {}
  BY DEF Init, Idle, ToSend
<1>4. Cardinality({}) = 0
  BY FS_EmptySet
<1>5. SendsBudget
  BY <1>3, <1>4 DEF Init, SendsBudget
<1> QED
  BY <1>1, <1>2, <1>5 DEF DispatchInv

\* Attempts are only counted up, what was delivered or refused stays so.
LEMMA Monotone ==
    ASSUME TypeOK, LoopShape, RowStep \/ \E d \in Dispatchers : Dispatch(d)
    PROVE  /\ delivered \subseteq delivered' /\ refused \subseteq refused'
           /\ \A o \in Orders : sub'[o].attempts >= sub[o].attempts
<1>1. CASE RowStep
  BY <1>1, RowStepShape, RowStepRows DEF TypeOK, Submissions
<1>2. ASSUME NEW d \in Dispatchers, Dispatch(d)
      PROVE  delivered \subseteq delivered' /\ refused \subseteq refused'
  BY <1>2 DEF Dispatch, Claim, ClaimAnswerLost, Mark, MarkDone, MarkNotOwned, MarkAnswerLost,
              MarkError, Crash, Send, SendOK, SendTransient, SendPermanent
<1> QED
  BY <1>1, <1>2, DispatchRows

\* A request came back: which order, and what is now known of it.
LEMMA SendKnows ==
    ASSUME TypeOK, NEW d \in Dispatchers, NEW o \in Orders, Send(d, o)
    PROVE  \E pc \in {"ok", "retry", "terminal"} :
              /\ Sent(d, o, pc)
              /\ pc = "ok" => o \in delivered'
              /\ pc = "terminal" => o \in refused' \/ disp[d].attempt[o] >= MaxAttempts
BY DEF Send, SendOK, SendTransient, SendPermanent

LEMMA AttemptsKnownStep ==
    ASSUME TypeOK, TypeOK', LoopShape, AttemptsKnown, NEW d \in Dispatchers, Dispatch(d)
    PROVE  AttemptsKnown'
<1>1. \A o \in Orders : sub[o].attempts \in Nat /\ sub'[o].attempts \in Nat
  BY DEF TypeOK, Submissions
<1>2. \A e \in Dispatchers, o \in Orders : disp[e].attempt[o] \in Nat /\ disp'[e].attempt[o] \in Nat
  BY DEF TypeOK, DispatcherStates
<1>3. \A e \in Dispatchers \ {d}, o \in Orders : disp'[e].attempt[o] <= sub'[o].attempts
  BY <1>1, <1>2, DispatchShape, DispatchRows DEF AttemptsKnown
<1>4. ASSUME NEW o \in Orders
      PROVE  disp'[d].attempt[o] <= sub'[o].attempts
  <2>1. CASE Claim(d)
    <3>1. sub' = Leased(d, Oldest(Claimable))
      BY <2>1 DEF Claim
    <3>2. o \in Oldest(Claimable) => sub'[o].attempts = sub[o].attempts + 1
      BY <3>1, LeasedFacts
    <3> QED
      BY <1>1, <2>1, <3>2, ClaimFacts
  <2>2. CASE disp'[d].attempt[o] \in {0, disp[d].attempt[o]}
    BY <1>1, <1>2, <2>2, DispatchRows DEF AttemptsKnown
  <2>3. CASE ClaimAnswerLost(d)
    BY <2>2, <2>3 DEF ClaimAnswerLost
  <2>4. CASE Mark(d) \/ Crash(d)
    BY <2>2, <2>4, AdvanceFacts, AbandonFacts
       DEF Mark, MarkDone, MarkNotOwned, MarkAnswerLost, MarkError, Crash
  <2>5. CASE \E p \in Orders : Send(d, p)
    BY <2>2, <2>5, SendKnows, SentFacts
  <2> QED
    BY <1>4, <2>1, <2>3, <2>4, <2>5 DEF Dispatch
<1> QED
  BY <1>3, <1>4 DEF AttemptsKnown

LEMMA ResultKnownStep ==
    ASSUME TypeOK, LoopShape, ResultKnown, NEW d \in Dispatchers, Dispatch(d)
    PROVE  ResultKnown'
<1>1. delivered \subseteq delivered' /\ refused \subseteq refused'
  BY Monotone
<1>2. ASSUME NEW e \in Dispatchers \ {d}
      PROVE  LET o == disp'[e].cur
             IN /\ disp'[e].pc = "ok" => o \in delivered'
                /\ disp'[e].pc = "terminal" => o \in refused' \/ disp'[e].attempt[o] >= MaxAttempts
  BY <1>1, <1>2, DispatchShape DEF ResultKnown
<1>3. LET o == disp'[d].cur
      IN /\ disp'[d].pc = "ok" => o \in delivered'
         /\ disp'[d].pc = "terminal" => o \in refused' \/ disp'[d].attempt[o] >= MaxAttempts
  <2>1. CASE disp'[d].pc \in {"idle", "sending"}
    BY <2>1
  <2>2. CASE Claim(d)
    BY <2>1, <2>2, ClaimFacts
  <2>3. CASE ClaimAnswerLost(d)
    BY <1>1, <2>3 DEF ResultKnown, ClaimAnswerLost
  <2>4. CASE Mark(d) \/ Crash(d)
    BY <2>1, <2>4, AdvanceFacts, AbandonFacts
       DEF Mark, MarkDone, MarkNotOwned, MarkAnswerLost, MarkError, Crash
  <2>5. CASE \E p \in Orders : Send(d, p)
    <3>1. PICK p \in Orders, pc \in {"ok", "retry", "terminal"} :
                /\ Sent(d, p, pc)
                /\ pc = "ok" => p \in delivered'
                /\ pc = "terminal" => p \in refused' \/ disp[d].attempt[p] >= MaxAttempts
      BY <2>5, SendKnows
    <3>2. disp'[d].pc = pc /\ disp'[d].cur = p /\ disp'[d].attempt = disp[d].attempt
      BY <3>1, SentFacts
    <3> QED
      BY <3>1, <3>2
  <2> QED
    BY <2>2, <2>3, <2>4, <2>5 DEF Dispatch
<1> QED
  BY <1>2, <1>3 DEF ResultKnown

\* The status a submission is left with has its reason.
LEMMA StatusHasReason ==
    ASSUME TypeOK, TypeOK', LoopShape, ResultKnown, AttemptsKnown, SubmittedWasDelivered,
           FailedForAReason, RowStep \/ \E d \in Dispatchers : Dispatch(d)
    PROVE  SubmittedWasDelivered' /\ FailedForAReason'
<1>1. delivered \subseteq delivered' /\ refused \subseteq refused'
  BY Monotone
<1>2. \A o \in Orders : /\ sub[o].attempts \in Nat /\ sub'[o].attempts \in Nat
                        /\ sub'[o].attempts >= sub[o].attempts
  BY Monotone DEF TypeOK, Submissions
<1>3. MaxAttempts \in Nat
  BY DispatchAssumption
<1> SUFFICES ASSUME NEW o \in Orders
             PROVE  /\ sub'[o].status = "submitted" => o \in delivered'
                    /\ sub'[o].status = "failed"
                         => o \in refused' \/ sub'[o].attempts >= MaxAttempts
  BY DEF SubmittedWasDelivered, FailedForAReason
<1>4. CASE sub'[o].status = sub[o].status
  BY <1>1, <1>2, <1>3, <1>4 DEF SubmittedWasDelivered, FailedForAReason
<1>5. CASE sub'[o].status \in {"pending"} \cup Decisions
  BY <1>5 DEF Decisions
<1>6. CASE RowStep
  BY <1>4, <1>5, <1>6, RowStepRows
<1>7. ASSUME NEW d \in Dispatchers, MarkSets(d, o, sub'[o].status)
      PROVE  /\ sub'[o].status = "submitted" => o \in delivered'
             /\ sub'[o].status = "failed"
                  => o \in refused' \/ sub'[o].attempts >= MaxAttempts
  <2>1. o = disp[d].cur /\ disp[d].attempt[o] \in Nat /\ disp[d].attempt[o] <= sub[o].attempts
    BY <1>7 DEF MarkSets, AttemptsKnown, TypeOK, DispatcherStates
  <2>2. CASE disp[d].pc = "ok"
    <3>1. o \in delivered /\ sub'[o].status = "submitted"
      BY <1>7, <2>1, <2>2 DEF MarkSets, ResultKnown
    <3> QED
      BY <1>1, <3>1
  <2>3. CASE disp[d].pc = "retry"
    BY <1>7, <2>3 DEF MarkSets
  <2>4. CASE disp[d].pc = "terminal"
    <3>1. o \in refused \/ disp[d].attempt[o] >= MaxAttempts
      BY <2>1, <2>4 DEF ResultKnown
    <3>2. sub'[o].status = "failed"
      BY <1>7, <2>4 DEF MarkSets
    <3> QED
      BY <1>1, <1>2, <1>3, <2>1, <3>1, <3>2
  <2> QED
    BY <1>7, <2>2, <2>3, <2>4 DEF MarkSets, ToMark
<1> QED
  BY <1>4, <1>6, <1>7, DispatchRows

LEMMA ToSendFinite ==
    ASSUME NEW o \in Orders
    PROVE  IsFiniteSet(ToSend(o)) /\ Cardinality(ToSend(o)) \in Nat
BY DispatchAssumption, FS_Subset, FS_CardinalityType DEF ToSend

\* What the budget of one order comes down to in one step of a dispatcher: it
\* sends none, or one it had claimed, or claims one.
LEMMA SendsBudgetOf ==
    ASSUME TypeOK, TypeOK', SendsBudget, NEW d \in Dispatchers, NEW o \in Orders,
           \/ /\ ToSend(o)' = ToSend(o) \/ ToSend(o)' = ToSend(o) \ {d}
              /\ sends'[o] = sends[o]
              /\ sub'[o].attempts >= sub[o].attempts
           \/ /\ d \in ToSend(o) /\ ToSend(o)' = ToSend(o) \ {d}
              /\ sends'[o] = sends[o] + 1
              /\ sub'[o].attempts >= sub[o].attempts
           \/ /\ ToSend(o)' = ToSend(o) \cup {d}
              /\ sends'[o] = sends[o]
              /\ sub'[o].attempts >= sub[o].attempts + 1
    PROVE  sends'[o] + Cardinality(ToSend(o)') <= sub'[o].attempts
<1> DEFINE n == Cardinality(ToSend(o))
           m == Cardinality(ToSend(o)')
<1>1. n \in Nat
  BY ToSendFinite
<1>2. sends[o] \in Nat /\ sends'[o] \in Nat /\ sub[o].attempts \in Nat /\ sub'[o].attempts \in Nat
  BY DEF TypeOK, Submissions
<1>3. sends[o] + n <= sub[o].attempts
  BY DEF SendsBudget
<1>4. ToSend(o)' = ToSend(o) => m = n
  OBVIOUS
<1>5. ToSend(o)' = ToSend(o) \ {d} /\ d \in ToSend(o) => m = n - 1
  BY ToSendFinite, FS_RemoveElement
<1>6. ToSend(o)' = ToSend(o) \ {d} /\ d \notin ToSend(o) => m = n
  <2>1. d \notin ToSend(o) => ToSend(o) \ {d} = ToSend(o)
    OBVIOUS
  <2> QED
    BY <1>4, <2>1
<1>7. ToSend(o)' = ToSend(o) \cup {d} => m \in {n, n + 1}
  BY ToSendFinite, FS_AddElement
<1> HIDE DEF n, m
<1>8. sends'[o] + m <= sub'[o].attempts
  BY <1>1, <1>2, <1>3, <1>4, <1>5, <1>6, <1>7
<1> QED
  BY <1>8 DEF m

LEMMA SendsBudgetDispatch ==
    ASSUME TypeOK, TypeOK', LoopShape, SendsBudget, NEW d \in Dispatchers, Dispatch(d)
    PROVE  SendsBudget'
<1> SUFFICES ASSUME NEW o \in Orders
             PROVE  sends'[o] + Cardinality(ToSend(o)') <= sub'[o].attempts
  BY DEF SendsBudget
<1>1. \A e \in Dispatchers \ {d} : disp'[e] = disp[e]
  BY DispatchShape
<1>2. sub'[o].attempts >= sub[o].attempts
  BY DispatchRows
<1>3. NoOrder \notin Orders
  BY DispatchAssumption
<1>4. /\ sub[o].attempts \in Nat /\ disp[d].attempt[o] \in Nat
      /\ disp'[d].attempt[o] \in Nat
  BY DEF TypeOK, Submissions, DispatcherStates
<1>5. CASE Claim(d)
  <2> DEFINE S == Oldest(Claimable)
  <2>1. sends'[o] = sends[o] /\ sub' = Leased(d, S) /\ disp[d].pc = "idle"
    BY <1>5 DEF Claim
  <2>2. disp[d].attempt[o] = 0 /\ disp'[d].cur = NoOrder
    BY <1>5, <2>1, ClaimFacts DEF LoopShape
  <2>3. disp'[d].attempt[o] = IF o \in S THEN sub[o].attempts + 1 ELSE 0
    BY <1>5, ClaimFacts
  <2>4. o \in S => sub'[o].attempts = sub[o].attempts + 1
    BY <2>1, LeasedFacts
  <2> HIDE DEF S
  <2>5. CASE o \in S
    <3>1. ToSend(o)' = ToSend(o) \cup {d}
      BY <1>1, <1>3, <1>4, <2>2, <2>3, <2>5 DEF ToSend
    <3>2. sub'[o].attempts >= sub[o].attempts + 1
      BY <1>4, <2>4, <2>5
    <3>3. sends'[o] = sends[o]
      BY <2>1
    <3> QED
      BY <3>1, <3>2, <3>3, SendsBudgetOf
  <2>6. CASE o \notin S
    <3>1. ToSend(o)' = ToSend(o)
      BY <1>1, <2>2, <2>3, <2>6 DEF ToSend
    <3> QED
      BY <1>2, <2>1, <3>1, SendsBudgetOf
  <2> QED
    BY <2>5, <2>6
<1>6. CASE ClaimAnswerLost(d)
  <2>1. sends'[o] = sends[o] /\ ToSend(o)' = ToSend(o)
    BY <1>6 DEF ClaimAnswerLost, ToSend
  <2> QED
    BY <1>2, <2>1, SendsBudgetOf
<1>7. CASE MarkDone(d)
  <2>1. sends'[o] = sends[o] /\ ToMark(d) /\ disp' = Advance(d)
    BY <1>7 DEF MarkDone
  <2>2. /\ disp'[d].cur = NoOrder
        /\ disp'[d].attempt[o] = IF o = disp[d].cur THEN 0 ELSE disp[d].attempt[o]
    BY <2>1, AdvanceFacts
  <2>3. ToSend(o)' = ToSend(o)
    BY <1>1, <1>3, <2>2 DEF ToSend
  <2> QED
    BY <1>2, <2>1, <2>3, SendsBudgetOf
<1>8. CASE MarkNotOwned(d) \/ MarkAnswerLost(d) \/ MarkError(d) \/ Crash(d)
  <2>1. sends'[o] = sends[o] /\ disp' = Abandon(d)
    BY <1>8 DEF MarkNotOwned, MarkAnswerLost, MarkError, Crash
  <2>2. disp'[d].attempt[o] = 0
    BY <2>1, AbandonFacts
  <2>3. ToSend(o)' = ToSend(o) \ {d}
    BY <1>1, <2>2 DEF ToSend
  <2> QED
    BY <1>2, <2>1, <2>3, SendsBudgetOf
<1>9. CASE \E p \in Orders : Send(d, p)
  <2>1. PICK p \in Orders, pc \in {"ok", "retry", "terminal"} : Sent(d, p, pc)
    BY <1>9, SendKnows
  <2>2. /\ disp'[d].cur = p /\ disp'[d].attempt = disp[d].attempt
        /\ disp[d].cur = NoOrder /\ disp[d].attempt[p] > 0
    BY <2>1, SentFacts
  <2>3. sends' = [sends EXCEPT ![p] = @ + 1]
    BY <2>1 DEF Sent
  <2>4. CASE o = p
    <3>1. d \in ToSend(o) /\ ToSend(o)' = ToSend(o) \ {d}
      BY <1>1, <1>3, <2>2, <2>4 DEF ToSend
    <3> QED
      BY <1>2, <2>3, <2>4, <3>1, SendsBudgetOf DEF TypeOK
  <2>5. CASE o # p
    <3>1. ToSend(o)' = ToSend(o)
      BY <1>1, <1>3, <2>2, <2>5 DEF ToSend
    <3> QED
      BY <1>2, <2>3, <2>5, <3>1, SendsBudgetOf DEF TypeOK
  <2> QED
    BY <2>4, <2>5
<1> QED
  BY <1>5, <1>6, <1>7, <1>8, <1>9 DEF Dispatch, Mark

LEMMA DispatchInvStep ==
    ASSUME DispatchInv, [Next]_vars
    PROVE  DispatchInv'
<1>1. TypeOK /\ LoopShape /\ TypeOK' /\ LoopShape'
  BY TypeInductive DEF DispatchInv, Typed
<1>2. CASE UNCHANGED vars
  <2>1. \A o \in Orders : ToSend(o)' = ToSend(o)
    BY <1>2 DEF vars, ToSend
  <2>2. SendsBudget'
    BY <1>2, <2>1 DEF vars, DispatchInv, SendsBudget
  <2>3. ResultKnown' /\ AttemptsKnown'
    BY <1>2 DEF vars, DispatchInv, ResultKnown, AttemptsKnown
  <2>4. SubmittedWasDelivered' /\ FailedForAReason'
    BY <1>2 DEF vars, DispatchInv, SubmittedWasDelivered, FailedForAReason
  <2> QED
    BY <1>1, <2>2, <2>3, <2>4 DEF DispatchInv, Typed
<1>3. CASE RowStep
  <2>1. \A o \in Orders : sub'[o].attempts = sub[o].attempts /\ ToSend(o)' = ToSend(o)
    BY <1>1, <1>3, RowStepRows, RowStepShape DEF ToSend
  <2>2. ResultKnown' /\ AttemptsKnown' /\ SendsBudget'
    BY <1>3, <2>1, RowStepShape DEF DispatchInv, ResultKnown, AttemptsKnown, SendsBudget
  <2> QED
    BY <1>1, <1>3, <2>2, StatusHasReason DEF DispatchInv, Typed
<1>4. ASSUME NEW d \in Dispatchers, Dispatch(d)
      PROVE  DispatchInv'
  BY <1>1, <1>4, AttemptsKnownStep, ResultKnownStep, SendsBudgetDispatch, StatusHasReason
     DEF DispatchInv, Typed
<1> QED
  BY <1>2, <1>3, <1>4, NextCases

\* The inductive invariant of the dispatch holds in every reachable state.
THEOREM DispatchInvariant == Spec => []DispatchInv
<1>1. DispatchInv /\ [Next]_vars => DispatchInv'
  BY DispatchInvStep
<1> QED
  BY DispatchInit, <1>1, PTL DEF Spec

\* A submission is shown as submitted only when its request reached the
\* restaurant.
THEOREM SubmittedAlwaysDelivered == Spec => []SubmittedWasDelivered
BY DispatchInvariant, PTL DEF DispatchInv

\* Delivery is given up only when the restaurant refused the order for good or
\* the counted attempts are used up, and a counted attempt pays for one request.
THEOREM FailedAlwaysJustified == Spec => []FailedIsJustified
<1>1. DispatchInv => FailedIsJustified
  <2> SUFFICES ASSUME DispatchInv, NEW o \in Orders
               PROVE  sends[o] <= sub[o].attempts
    BY DEF DispatchInv, FailedForAReason, FailedIsJustified
  <2>1. sends[o] \in Nat /\ sub[o].attempts \in Nat /\ Cardinality(ToSend(o)) \in Nat
    BY ToSendFinite DEF DispatchInv, Typed, TypeOK, Submissions
  <2>2. sends[o] + Cardinality(ToSend(o)) <= sub[o].attempts
    BY DEF DispatchInv, SendsBudget
  <2> QED
    BY <2>1, <2>2
<1> QED
  BY DispatchInvariant, <1>1, PTL

\* What a submission's status says of the restaurant is so (dispatcher.go:70).
THEOREM MarksAlwaysTrue == Spec => []MarksAreTrue
<1>1. SubmittedWasDelivered /\ FailedIsJustified => MarksAreTrue
  BY DEF MarksAreTrue
<1> QED
  BY SubmittedAlwaysDelivered, FailedAlwaysJustified, <1>1, PTL
-----------------------------------------------------------------------------
(* The refinement of SubmissionPromise *)

\* What the promise sees of the table changes in one row at most.
LEMMA ShownOf ==
    ASSUME NEW o \in Orders, \A p \in Orders \ {o} : sub'[p].status = sub[p].status
    PROVE  ShownStatus' = [ShownStatus EXCEPT ![o] = sub'[o].status]
BY DEF ShownStatus

LEMMA NothingShown ==
    ASSUME \A o \in Orders : sub'[o].status = sub[o].status
    PROVE  UNCHANGED ShownStatus
BY DEF ShownStatus

LEMMA NothingCounted ==
    ASSUME \A o \in Orders : sub'[o].attempts = sub[o].attempts
    PROVE  UNCHANGED CountedAttempts
BY DEF CountedAttempts

\* A consumed OrderCreated is accepted, and time is not seen.
LEMMA RowRefines ==
    ASSUME TypeOK, NEW o \in Orders,
           Receive(o) \/ LeaseExpires(o) \/ LeaseOverrun(o) \/ BecomesDue(o)
    PROVE  Promise!Accept(o) \/ UNCHANGED Promise!promiseVars
<1>1. sub \in [Orders -> Submissions] /\ sub[o] \in Submissions
  BY DEF TypeOK
<1>2. UNCHANGED <<received, delivered, refused>>
  BY DEF Receive, LeaseExpires, LeaseOverrun, BecomesDue
<1>3. CASE Receive(o)
  <2>1. sub' = [sub EXCEPT ![o] = [sub[o] EXCEPT !.status = "pending"]] /\ sub[o].status = "absent"
    BY <1>1, <1>3 DEF Receive
  <2>2. /\ sub'[o].status = "pending" /\ sub'[o].attempts = sub[o].attempts
        /\ \A p \in Orders \ {o} : sub'[p] = sub[p]
    BY <1>1, <2>1 DEF Submissions
  <2>3. UNCHANGED CountedAttempts
    BY <2>2, NothingCounted
  <2>4. ShownStatus' = [ShownStatus EXCEPT ![o] = "pending"] /\ ShownStatus[o] = "absent"
    BY <2>1, <2>2, ShownOf DEF ShownStatus
  <2> QED
    BY <1>2, <2>3, <2>4 DEF Promise!Accept
<1>4. CASE LeaseExpires(o) \/ LeaseOverrun(o) \/ BecomesDue(o)
  <2>1. \/ sub' = [sub EXCEPT ![o] = [sub[o] EXCEPT !.lease = "expired"]]
        \/ sub' = [sub EXCEPT ![o] = [sub[o] EXCEPT !.due = TRUE]]
    BY <1>1, <1>4 DEF LeaseExpires, LeaseOverrun, BecomesDue
  <2>2. \A p \in Orders : sub'[p].status = sub[p].status /\ sub'[p].attempts = sub[p].attempts
    BY <1>1, <2>1 DEF Submissions
  <2>3. UNCHANGED ShownStatus /\ UNCHANGED CountedAttempts
    BY <2>2, NothingShown, NothingCounted
  <2> QED
    BY <1>2, <2>3 DEF Promise!promiseVars
<1> QED
  BY <1>3, <1>4

\* A callback decides at one moment, whatever its submission was shown as.
LEMMA CallbackRefines ==
    ASSUME TypeOK, NEW c \in Callbacks, NEW o \in Orders, NEW s \in Decisions,
           StatusCallback(c, o, s)
    PROVE  Promise!Decide(c, o, s)
<1>1. sub \in [Orders -> Submissions] /\ sub[o] \in Submissions
  BY DEF TypeOK
<1>2. /\ o \in delivered
      /\ sub[o].status \notin {"absent"} \cup (Decisions \ {s})
      /\ \A r \in received : r.id # c
      /\ received' = received \cup {[id |-> c, order |-> o, status |-> s]}
      /\ sub' = [sub EXCEPT ![o] = [sub[o] EXCEPT !.status = s]]
      /\ UNCHANGED <<delivered, refused>>
  BY <1>1 DEF StatusCallback
<1>3. /\ sub'[o].status = s /\ sub'[o].attempts = sub[o].attempts
      /\ \A p \in Orders \ {o} : sub'[p] = sub[p]
  BY <1>1, <1>2 DEF Submissions
<1>4. UNCHANGED CountedAttempts
  BY <1>3, NothingCounted
<1>5. ShownStatus' = [ShownStatus EXCEPT ![o] = s]
  BY <1>3, ShownOf
<1>6. ShownStatus[o] = sub[o].status
  BY DEF ShownStatus
<1> QED
  BY <1>2, <1>4, <1>5, <1>6 DEF Promise!Decide, Promise!Decisions, Decisions

LEMMA ClaimRefines ==
    ASSUME TypeOK, NEW d \in Dispatchers, Claim(d) \/ ClaimAnswerLost(d)
    PROVE  \E S \in SUBSET Orders : Promise!Try(S)
<1> DEFINE S == Oldest(Claimable)
<1>1. sub' = Leased(d, S) /\ UNCHANGED <<received, delivered, refused>>
  BY DEF Claim, ClaimAnswerLost
<1>2. S \subseteq Orders /\ \A o \in S : sub[o].status = "pending"
  BY DEF Oldest, Claimable
<1> HIDE DEF S
<1>3. \A o \in Orders :
         /\ sub'[o].status = sub[o].status
         /\ sub'[o].attempts = IF o \in S THEN sub[o].attempts + 1 ELSE sub[o].attempts
  BY <1>1, LeasedFacts
<1>4. UNCHANGED ShownStatus
  BY <1>3, NothingShown
<1>5. CountedAttempts' = [o \in Orders |-> IF o \in S THEN CountedAttempts[o] + 1
                                                       ELSE CountedAttempts[o]]
  BY <1>3 DEF CountedAttempts
<1>6. \A o \in S : ShownStatus[o] = "pending"
  BY <1>2 DEF ShownStatus
<1> QED
  BY <1>1, <1>2, <1>4, <1>5, <1>6 DEF Promise!Try

\* A request that arrives was paid for by a claim, even if the submission has
\* another owner or a decision by now.
LEMMA SendRefines ==
    ASSUME TypeOK, LoopShape, AttemptsKnown, NEW d \in Dispatchers, NEW o \in Orders, Send(d, o)
    PROVE  Promise!Reach(o) \/ Promise!Refuse(o) \/ UNCHANGED Promise!promiseVars
<1>1. PICK pc \in {"ok", "retry", "terminal"} : Sent(d, o, pc)
  BY DEF Send, SendOK, SendTransient, SendPermanent
<1>2. sub' = sub /\ received' = received /\ disp[d].attempt[o] > 0
  BY <1>1, SentFacts DEF Sent
<1>3. disp[d].attempt[o] \in Nat /\ sub[o].attempts \in Nat
  BY DEF TypeOK, DispatcherStates, Submissions
<1>4. disp[d].attempt[o] <= sub[o].attempts
  BY DEF AttemptsKnown
<1>5. sub[o].attempts > 0
  BY <1>2, <1>3, <1>4
<1>6. CountedAttempts[o] > 0
  BY <1>5 DEF CountedAttempts
<1>7. UNCHANGED ShownStatus /\ UNCHANGED CountedAttempts
  BY <1>2 DEF ShownStatus, CountedAttempts
<1>8. \/ delivered' = delivered \cup {o} /\ UNCHANGED refused
      \/ refused' = refused \cup {o} /\ UNCHANGED delivered
      \/ UNCHANGED <<delivered, refused>>
  BY DEF Send, SendOK, SendTransient, SendPermanent
<1> QED
  BY <1>2, <1>6, <1>7, <1>8 DEF Promise!Reach, Promise!Refuse, Promise!promiseVars

\* A mark that is written makes the row what the request was worth.
LEMMA WrittenRefines ==
    ASSUME DispatchInv, NEW d \in Dispatchers, MarkDone(d) \/ MarkAnswerLost(d)
    PROVE  \/ Promise!Submit(disp[d].cur) \/ Promise!GiveUp(disp[d].cur)
           \/ UNCHANGED Promise!promiseVars
<1> DEFINE o == disp[d].cur
<1>1. /\ ToMark(d) /\ o \in Orders /\ sub[o].status = "pending"
      /\ sub' = [sub EXCEPT ![o] = Marked(d, o)]
      /\ UNCHANGED <<received, delivered, refused>>
  BY DEF MarkDone, MarkAnswerLost, LoopShape, Owned, DispatchInv, Typed
<1>2. sub \in [Orders -> Submissions] /\ sub[o] \in Submissions
  BY <1>1 DEF DispatchInv, Typed, TypeOK
<1>3. /\ disp[d].pc = "ok" => o \in delivered
      /\ disp[d].pc = "terminal" => o \in refused \/ disp[d].attempt[o] >= MaxAttempts
  BY DEF DispatchInv, ResultKnown
<1>4. /\ disp[d].attempt[o] \in Nat /\ sub[o].attempts \in Nat /\ MaxAttempts \in Nat
      /\ disp[d].attempt[o] <= sub[o].attempts
  <2>1. disp[d] \in DispatcherStates
    BY DEF DispatchInv, Typed, TypeOK
  <2>2. disp[d].attempt[o] \in Nat /\ sub[o].attempts \in Nat
    BY <1>1, <1>2, <2>1 DEF DispatcherStates, Submissions
  <2>3. disp[d].attempt[o] <= sub[o].attempts
    BY <1>1 DEF DispatchInv, AttemptsKnown
  <2>4. MaxAttempts \in Nat
    BY DispatchAssumption
  <2> QED
    BY <2>2, <2>3, <2>4
<1>5. /\ Marked(d, o).attempts = sub[o].attempts
      /\ disp[d].pc = "ok" => Marked(d, o).status = "submitted"
      /\ disp[d].pc = "retry" => Marked(d, o).status = "pending"
      /\ disp[d].pc = "terminal" => Marked(d, o).status = "failed"
  BY <1>2 DEF Marked, Submissions
<1> HIDE DEF o
<1>6. /\ sub'[o] = Marked(d, o)
      /\ \A p \in Orders \ {o} : sub'[p] = sub[p]
  BY <1>1, <1>2
<1>7. UNCHANGED CountedAttempts
  BY <1>5, <1>6, NothingCounted
<1>8. ShownStatus' = [ShownStatus EXCEPT ![o] = Marked(d, o).status]
  BY <1>1, <1>6, ShownOf
<1>9. ShownStatus[o] = "pending" /\ CountedAttempts[o] = sub[o].attempts
  BY <1>1 DEF ShownStatus, CountedAttempts
<1>10. CASE disp[d].pc = "ok"
  BY <1>1, <1>3, <1>5, <1>7, <1>8, <1>9, <1>10 DEF Promise!Submit, o
<1>11. CASE disp[d].pc = "retry"
  <2>1. UNCHANGED ShownStatus
    BY <1>1, <1>5, <1>6, <1>11, NothingShown
  <2> QED
    BY <1>1, <1>7, <2>1 DEF Promise!promiseVars
<1>12. CASE disp[d].pc = "terminal"
  <2>1. o \in refused \/ CountedAttempts[o] >= MaxAttempts
    BY <1>3, <1>4, <1>9, <1>12
  <2> QED
    BY <1>1, <1>5, <1>7, <1>8, <1>9, <1>12, <2>1 DEF Promise!GiveUp, o
<1> QED
  BY <1>1, <1>10, <1>11, <1>12 DEF ToMark

\* A mark of a row that is not owned any more, or is decided, is not seen; nor
\* is the end of a batch or of a process.
LEMMA UnseenRefines ==
    ASSUME NEW d \in Dispatchers, MarkNotOwned(d) \/ MarkError(d) \/ Crash(d)
    PROVE  UNCHANGED Promise!promiseVars
<1>1. UNCHANGED <<sub, received, delivered, refused>>
  BY DEF MarkNotOwned, MarkError, Crash
<1> QED
  BY <1>1 DEF Promise!promiseVars, ShownStatus, CountedAttempts

LEMMA StepRefines ==
    ASSUME DispatchInv, [Next]_vars
    PROVE  [Promise!PromiseNext]_Promise!promiseVars
<1>1. TypeOK /\ LoopShape /\ AttemptsKnown
  BY DEF DispatchInv, Typed
<1>2. CASE UNCHANGED vars
  BY <1>2 DEF vars, Promise!promiseVars, ShownStatus, CountedAttempts
<1>3. CASE \E o \in Orders : Receive(o) \/ LeaseExpires(o) \/ LeaseOverrun(o) \/ BecomesDue(o)
  BY <1>1, <1>3, RowRefines DEF Promise!PromiseNext
<1>4. CASE \E c \in Callbacks, o \in Orders, s \in Decisions : StatusCallback(c, o, s)
  BY <1>1, <1>4, CallbackRefines DEF Promise!PromiseNext, Promise!Decisions, Decisions
<1>5. CASE \E d \in Dispatchers, o \in Orders : Send(d, o)
  BY <1>1, <1>5, SendRefines DEF Promise!PromiseNext
<1>6. ASSUME NEW d \in Dispatchers, Claim(d) \/ ClaimAnswerLost(d) \/ Mark(d) \/ Crash(d)
      PROVE  [Promise!PromiseNext]_Promise!promiseVars
  <2>1. CASE Claim(d) \/ ClaimAnswerLost(d)
    BY <1>1, <2>1, ClaimRefines DEF Promise!PromiseNext
  <2>2. CASE MarkDone(d) \/ MarkAnswerLost(d)
    <3>1. disp[d].cur \in Orders
      BY <1>1, <2>2 DEF MarkDone, MarkAnswerLost, LoopShape
    <3> QED
      BY <2>2, <3>1, WrittenRefines DEF Promise!PromiseNext
  <2>3. CASE MarkNotOwned(d) \/ MarkError(d) \/ Crash(d)
    BY <2>3, UnseenRefines
  <2> QED
    BY <1>6, <2>1, <2>2, <2>3 DEF Mark
<1> QED
  BY <1>2, <1>3, <1>4, <1>5, <1>6 DEF Next

\* The dispatchers and the callbacks implement the promise of one submission:
\* with lost leases, abandoned batches and marks that come too late, every step
\* is one of its atomic steps or is not seen (submissions.go, callbacks.go).
THEOREM DispatchImplementsPromise == Spec => ImplementsPromise
<1>1. Init => Promise!PromiseInit
  BY DEF Init, Promise!PromiseInit, ShownStatus, CountedAttempts
<1>2. DispatchInv /\ [Next]_vars => [Promise!PromiseNext]_Promise!promiseVars
  BY StepRefines
<1> QED
  BY <1>1, <1>2, DispatchInvariant, PTL DEF Spec, ImplementsPromise, Promise!PromiseSpec
==============================================================================
