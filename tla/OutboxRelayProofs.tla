-------------------------- MODULE OutboxRelayProofs --------------------------
(***************************************************************************)
(* Proofs about OutboxRelay, for any number of relays, rows and faults.    *)
(***************************************************************************)
EXTENDS OutboxRelay, FiniteSetTheorems, TLAPS

USE DEF Me

-----------------------------------------------------------------------------
(* Type correctness *)

LEMMA MarkedType ==
    ASSUME NEW r \in Relays, NEW e \in Events, TypeOK,
           relay[r].pc \in {"acked", "refused"}
    PROVE  Marked(r, e) \in Rows
BY DEF Marked, FreeRow, Rows

LEMMA AdvanceType ==
    ASSUME NEW r \in Relays, TypeOK
    PROVE  /\ Advance(r) \in [Relays -> RelayStates]
           /\ Abandon(r) \in [Relays -> RelayStates]
BY DEF TypeOK, Advance, Abandon, Idle, RelayStates

LEMMA LeasedType ==
    ASSUME NEW r \in Relays, NEW S, TypeOK
    PROVE  Leased(r, S) \in [Events -> Rows]
BY DEF TypeOK, Leased, Rows

\* The shape of RunOnce: only a message of the batch is current, and only
\* between its Publish and its mark; nothing is held between two calls.
LoopShape ==
    \A r \in Relays :
        /\ relay[r].pc \in {"acked", "refused"} => relay[r].cur \in relay[r].batch
        /\ relay[r].pc \in {"idle", "sending"} => relay[r].cur = NoEvent
        /\ relay[r].pc = "idle" => relay[r].batch = {}

LEMMA AbandonFacts ==
    ASSUME NEW r \in Relays, TypeOK, relay' = Abandon(r)
    PROVE  /\ relay'[r] = Idle
           /\ \A q \in Relays \ {r} : relay'[q] = relay[q]
BY DEF TypeOK, Abandon

LEMMA AdvanceFacts ==
    ASSUME NEW r \in Relays, TypeOK, relay' = Advance(r)
    PROVE  /\ \/ relay'[r] = Idle
              \/ relay'[r].pc = "sending" /\ relay'[r].cur = NoEvent
           /\ \A q \in Relays \ {r} : relay'[q] = relay[q]
<1> DEFINE rest == relay[r].batch \ {relay[r].cur}
           more == [pc |-> "sending", batch |-> rest, cur |-> NoEvent]
<1>1. CASE rest = {}
  <2>1. relay' = [relay EXCEPT ![r] = Idle]
    BY <1>1 DEF Advance
  <2> QED
    BY <2>1 DEF TypeOK
<1>2. CASE rest # {}
  <2>1. relay' = [relay EXCEPT ![r] = more]
    BY <1>2 DEF Advance
  <2>2. more.pc = "sending" /\ more.cur = NoEvent
    OBVIOUS
  <2> HIDE DEF more
  <2> QED
    BY <2>1, <2>2 DEF TypeOK
<1> QED
  BY <1>1, <1>2

LEMMA LoopShapeInductive ==
    ASSUME TypeOK, LoopShape, [Next]_vars
    PROVE  LoopShape'
<1> USE DEF TypeOK, LoopShape, RelayStates
<1>1. CASE UNCHANGED vars
  BY <1>1 DEF vars
<1>2. ASSUME NEW e \in Events, Enqueue(e) \/ LeaseExpires(e) \/ LeaseOverrun(e) \/ BecomesDue(e)
      PROVE  LoopShape'
  BY <1>2 DEF Enqueue, LeaseExpires, LeaseOverrun, BecomesDue
<1>3. ASSUME NEW r \in Relays, Claim(r) \/ ClaimAnswerLost(r)
      PROVE  LoopShape'
  BY <1>3 DEF Claim, ClaimAnswerLost
<1>4. ASSUME NEW r \in Relays, Mark(r) \/ Crash(r)
      PROVE  LoopShape'
  <2>1. relay' = Advance(r) \/ relay' = Abandon(r)
    BY <1>4 DEF Mark, MarkDone, MarkNotOwned, MarkAnswerLost, MarkError, Crash
  <2>2. /\ \/ relay'[r] = Idle
           \/ relay'[r].pc = "sending" /\ relay'[r].cur = NoEvent
        /\ \A q \in Relays \ {r} : relay'[q] = relay[q]
    BY <2>1, AdvanceFacts, AbandonFacts
  <2> QED
    BY <2>2 DEF Idle
<1>5. ASSUME NEW r \in Relays, NEW e \in Events, Publish(r, e)
      PROVE  LoopShape'
  BY <1>5 DEF Publish, PublishAcked, PublishRepeated, PublishRefused, PublishAckLost
<1> QED
  BY <1>1, <1>2, <1>3, <1>4, <1>5 DEF Next

LEMMA TypeInductive ==
    ASSUME TypeOK, LoopShape, [Next]_vars
    PROVE  TypeOK'
<1>1. CASE UNCHANGED vars
  BY <1>1 DEF vars, TypeOK
<1>2. ASSUME NEW e \in Events, Enqueue(e) \/ LeaseExpires(e) \/ LeaseOverrun(e) \/ BecomesDue(e)
      PROVE  TypeOK'
  <2>1. PICK x \in Rows : row' = [row EXCEPT ![e] = x]
    <3>1. CASE Enqueue(e)
      BY <3>1 DEF Enqueue, FreeRow, Rows
    <3>2. CASE LeaseExpires(e) \/ LeaseOverrun(e)
      BY <3>2 DEF LeaseExpires, LeaseOverrun, TypeOK, Rows
    <3>3. CASE BecomesDue(e)
      BY <3>3 DEF BecomesDue, TypeOK, Rows
    <3> QED
      BY <1>2, <3>1, <3>2, <3>3
  <2> QED
    BY <1>2, <2>1 DEF TypeOK, Enqueue, LeaseExpires, LeaseOverrun, BecomesDue
<1>3. ASSUME NEW r \in Relays, Claim(r) \/ ClaimAnswerLost(r)
      PROVE  TypeOK'
  <2>1. Oldest(Claimable) \in SUBSET Events
    BY DEF Oldest, Claimable
  <2>2. row' \in [Events -> Rows]
    BY <1>3, LeasedType DEF Claim, ClaimAnswerLost
  <2>3. relay' \in [Relays -> RelayStates]
    BY <1>3, <2>1 DEF TypeOK, RelayStates, Claim, ClaimAnswerLost
  <2> QED
    BY <1>3, <2>2, <2>3 DEF TypeOK, Claim, ClaimAnswerLost
<1>4. ASSUME NEW r \in Relays, Mark(r)
      PROVE  TypeOK'
  <2>1. relay[r].pc \in {"acked", "refused"} /\ relay[r].cur \in Events
    BY <1>4 DEF Mark, MarkDone, MarkNotOwned, MarkAnswerLost, MarkError, LoopShape, TypeOK, RelayStates
  <2>2. row' \in [Events -> Rows]
    BY <1>4, <2>1, MarkedType DEF TypeOK, Mark, MarkDone, MarkNotOwned, MarkAnswerLost, MarkError
  <2>3. relay' \in [Relays -> RelayStates]
    BY <1>4, AdvanceType DEF Mark, MarkDone, MarkNotOwned, MarkAnswerLost, MarkError
  <2>4. excess' \in [Events -> Nat]
    BY <1>4, <2>1 DEF TypeOK, Unmarked, Mark, MarkDone, MarkNotOwned, MarkAnswerLost, MarkError
  <2> QED
    BY <1>4, <2>2, <2>3, <2>4 DEF TypeOK, Mark, MarkDone, MarkNotOwned, MarkAnswerLost, MarkError
<1>5. ASSUME NEW r \in Relays, Crash(r)
      PROVE  TypeOK'
  <2>1. excess' \in [Events -> Nat]
    BY <1>5 DEF TypeOK, RelayStates, LoopShape, Crash, Unmarked
  <2> QED
    BY <1>5, <2>1, AdvanceType DEF TypeOK, Crash
<1>6. ASSUME NEW r \in Relays, NEW e \in Events, Publish(r, e)
      PROVE  TypeOK'
  BY <1>6 DEF TypeOK, RelayStates, Publish, PublishAcked, PublishRepeated, PublishRefused, PublishAckLost
<1> QED
  BY <1>1, <1>2, <1>3, <1>4, <1>5, <1>6 DEF Next

LEMMA InitType == Init => TypeOK /\ LoopShape
BY RelayAssumption DEF Init, TypeOK, LoopShape, Rows, RelayStates, FreeRow, Idle

\* Type correctness of the outbox table and of every relay, whatever fails.
THEOREM TypeCorrect == Spec => [](TypeOK /\ LoopShape)
BY InitType, TypeInductive, LoopShapeInductive, PTL DEF Spec

-----------------------------------------------------------------------------
(* The outbox keeps its promise *)

\* What the relays know about the topic and the table: an acked message is in
\* the topic, and a batch holds stored rows only.
RelayKnows ==
    \A r \in Relays :
        /\ relay[r].pc = "acked" => copies[relay[r].cur] > 0
        /\ \A e \in relay[r].batch : row[e].status # "absent"

SafetyInv == TypeOK /\ LoopShape /\ PublishedIsInTopic /\ RelayKnows

\* A relay is moved by its own steps only.
LEMMA OwnSteps ==
    ASSUME TypeOK, [Next]_vars, NEW r \in Relays, relay'[r] # relay[r]
    PROVE  \/ Claim(r) \/ Mark(r) \/ Crash(r)
           \/ \E e \in Events : Publish(r, e)
<1> USE DEF TypeOK
<1>1. ~(UNCHANGED vars)
  BY DEF vars
<1>2. ASSUME NEW e \in Events, Enqueue(e) \/ LeaseExpires(e) \/ LeaseOverrun(e) \/ BecomesDue(e)
      PROVE  FALSE
  BY <1>2 DEF Enqueue, LeaseExpires, LeaseOverrun, BecomesDue
<1>3. ASSUME NEW q \in Relays, Claim(q) \/ ClaimAnswerLost(q) \/ Mark(q) \/ Crash(q), q # r
      PROVE  FALSE
  BY <1>3 DEF Claim, ClaimAnswerLost, Mark, MarkDone, MarkNotOwned, MarkAnswerLost, MarkError,
     Crash, Advance, Abandon
<1>4. ASSUME NEW q \in Relays, NEW e \in Events, Publish(q, e), q # r
      PROVE  FALSE
  BY <1>4 DEF Publish, PublishAcked, PublishRepeated, PublishRefused, PublishAckLost
<1>5. ~ClaimAnswerLost(r)
  BY DEF ClaimAnswerLost
<1> QED
  BY <1>1, <1>2, <1>3, <1>4, <1>5 DEF Next

LEMMA CopiesGrow ==
    ASSUME TypeOK, LoopShape, [Next]_vars
    PROVE  \A e \in Events : copies'[e] >= copies[e]
<1> USE DEF TypeOK
<1>1. CASE UNCHANGED vars
  BY <1>1 DEF vars
<1>2. ASSUME NEW r \in Relays, NEW e \in Events, Publish(r, e)
      PROVE  \A f \in Events : copies'[f] >= copies[f]
  BY <1>2 DEF Publish, PublishAcked, PublishRepeated, PublishRefused, PublishAckLost
<1>3. CASE UNCHANGED copies
  BY <1>3
<1> QED
  BY <1>1, <1>2, <1>3 DEF Next, Enqueue, LeaseExpires, LeaseOverrun, BecomesDue, Claim,
     ClaimAnswerLost, Mark, MarkDone, MarkNotOwned, MarkAnswerLost, MarkError, Crash

\* What a claim, a timer or a commit of the business makes of any row.
LEMMA LeasedStatus ==
    ASSUME TypeOK, NEW r \in Relays, NEW S, NEW e \in Events
    PROVE  Leased(r, S)[e].status = row[e].status
<1>1. row[e] \in Rows
  BY DEF TypeOK
<1>2. CASE e \in S
  BY <1>1, <1>2 DEF Leased, Rows
<1>3. CASE e \notin S
  BY <1>3 DEF Leased
<1> QED
  BY <1>2, <1>3

LEMMA TimersStatus ==
    ASSUME TypeOK, NEW f \in Events, NEW e \in Events,
           LeaseExpires(f) \/ LeaseOverrun(f) \/ BecomesDue(f)
    PROVE  row'[e].status = row[e].status
<1>1. row[e] \in Rows /\ row[f] \in Rows
  BY DEF TypeOK
<1>2. CASE LeaseExpires(f) \/ LeaseOverrun(f)
  <2>1. row' = [row EXCEPT ![f] = [row[f] EXCEPT !.lease = "expired"]]
    BY <1>2 DEF LeaseExpires, LeaseOverrun
  <2> QED
    BY <1>1, <2>1 DEF TypeOK, Rows
<1>3. CASE BecomesDue(f)
  <2>1. row' = [row EXCEPT ![f] = [row[f] EXCEPT !.due = TRUE]]
    BY <1>3 DEF BecomesDue
  <2> QED
    BY <1>1, <2>1 DEF TypeOK, Rows
<1> QED
  BY <1>2, <1>3

LEMMA EnqueueStatus ==
    ASSUME TypeOK, NEW f \in Events, NEW e \in Events, Enqueue(f)
    PROVE  /\ e # f => row'[e] = row[e]
           /\ row'[f].status = "pending"
BY DEF TypeOK, Enqueue, FreeRow

LEMMA StoredStays ==
    ASSUME TypeOK, LoopShape, [Next]_vars,
           NEW e \in Events, row[e].status # "absent"
    PROVE  row'[e].status # "absent"
<1> USE DEF TypeOK, Rows
<1>1. CASE UNCHANGED vars \/ \E r \in Relays, f \in Events : Publish(r, f)
  BY <1>1 DEF vars, Publish, PublishAcked, PublishRepeated, PublishRefused, PublishAckLost
<1>2. ASSUME NEW f \in Events, Enqueue(f) \/ LeaseExpires(f) \/ LeaseOverrun(f) \/ BecomesDue(f)
      PROVE  row'[e].status # "absent"
  BY <1>2, TimersStatus, EnqueueStatus
<1>3. ASSUME NEW r \in Relays, Claim(r) \/ ClaimAnswerLost(r) \/ Crash(r)
      PROVE  row'[e].status # "absent"
  <2>1. row' = row \/ row' = Leased(r, Oldest(Claimable))
    BY <1>3 DEF Claim, ClaimAnswerLost, Crash
  <2> QED
    BY <2>1, LeasedStatus
<1>4. ASSUME NEW r \in Relays, Mark(r)
      PROVE  row'[e].status # "absent"
  <2>1. relay[r].pc \in {"acked", "refused"} => Marked(r, relay[r].cur).status # "absent"
    BY DEF Marked, FreeRow
  <2> QED
    BY <1>4, <2>1 DEF Mark, MarkDone, MarkNotOwned, MarkAnswerLost, MarkError
<1> QED
  BY <1>1, <1>2, <1>3, <1>4 DEF Next

LEMMA PublishedInductive ==
    ASSUME SafetyInv, [Next]_vars
    PROVE  PublishedIsInTopic'
<1> USE DEF SafetyInv, PublishedIsInTopic, TypeOK, Rows
<1>1. ASSUME NEW e \in Events, row'[e].status = "published"
      PROVE  row[e].status = "published" \/ copies[e] > 0
  <2>1. CASE UNCHANGED vars \/ \E r \in Relays, f \in Events : Publish(r, f)
    BY <1>1, <2>1 DEF vars, Publish, PublishAcked, PublishRepeated, PublishRefused, PublishAckLost
  <2>2. ASSUME NEW f \in Events, Enqueue(f) \/ LeaseExpires(f) \/ LeaseOverrun(f) \/ BecomesDue(f)
        PROVE  row[e].status = "published"
    BY <1>1, <2>2, TimersStatus, EnqueueStatus
  <2>3. ASSUME NEW r \in Relays, Claim(r) \/ ClaimAnswerLost(r) \/ Crash(r)
        PROVE  row[e].status = "published"
    <3>1. row' = row \/ row' = Leased(r, Oldest(Claimable))
      BY <2>3 DEF Claim, ClaimAnswerLost, Crash
    <3> QED
      BY <1>1, <3>1, LeasedStatus
  <2>4. ASSUME NEW r \in Relays, Mark(r)
        PROVE  row[e].status = "published" \/ copies[e] > 0
    BY <1>1, <2>4 DEF Mark, MarkDone, MarkNotOwned, MarkAnswerLost, MarkError, Marked, FreeRow, RelayKnows
  <2> QED
    BY <1>1, <2>1, <2>2, <2>3, <2>4 DEF Next
<1> QED
  BY <1>1, CopiesGrow, TypeInductive DEF TypeOK

LEMMA RelayKnowsInductive ==
    ASSUME SafetyInv, [Next]_vars
    PROVE  RelayKnows'
<1> USE DEF SafetyInv, TypeOK
<1>1. ASSUME NEW r \in Relays, relay'[r].pc = "acked"
      PROVE  copies'[relay'[r].cur] > 0
  <2>1. CASE relay'[r] = relay[r]
    BY <1>1, <2>1, CopiesGrow, TypeInductive DEF RelayKnows, LoopShape, RelayStates
  <2>2. CASE relay'[r] # relay[r]
    <3>1. PICK e \in Events : PublishAcked(r, e) \/ PublishRepeated(r, e)
      <4>1. ~(Claim(r) \/ Mark(r) \/ Crash(r))
        BY <1>1 DEF Claim, Mark, MarkDone, MarkNotOwned, MarkAnswerLost, MarkError, Crash,
           Advance, Abandon, Idle
      <4>2. PICK e \in Events : Publish(r, e)
        BY <2>2, <4>1, OwnSteps
      <4>3. ~(PublishRefused(r, e) \/ PublishAckLost(r, e))
        BY <1>1 DEF PublishRefused, PublishAckLost, RelayStates
      <4> QED
        BY <4>2, <4>3 DEF Publish
    <3> QED
      BY <3>1 DEF PublishAcked, PublishRepeated, RelayStates
  <2> QED
    BY <2>1, <2>2
<1>2. ASSUME NEW r \in Relays, NEW e \in relay'[r].batch
      PROVE  row'[e].status # "absent"
  <2>1. CASE e \in relay[r].batch
    BY <2>1, StoredStays DEF RelayKnows, RelayStates
  <2>2. CASE e \notin relay[r].batch
    <3>1. Claim(r)
      <4>1. ~(Mark(r) \/ Crash(r) \/ \E f \in Events : Publish(r, f))
        BY <1>2, <2>2 DEF Mark, MarkDone, MarkNotOwned, MarkAnswerLost, MarkError, Crash,
           Advance, Abandon, Idle, Publish, PublishAcked, PublishRepeated, PublishRefused,
           PublishAckLost, RelayStates
      <4> QED
        BY <1>2, <2>2, <4>1, OwnSteps
    <3>2. e \in Claimable
      BY <1>2, <3>1 DEF Claim, Oldest, RelayStates
    <3> QED
      BY <3>1, <3>2, StoredStays DEF Claimable
  <2> QED
    BY <2>1, <2>2
<1> QED
  BY <1>1, <1>2 DEF RelayKnows

LEMMA InitSafety == Init => SafetyInv
<1>1. Init => PublishedIsInTopic /\ RelayKnows
  BY DEF Init, PublishedIsInTopic, RelayKnows, FreeRow, Idle
<1> QED
  BY <1>1, InitType DEF SafetyInv

LEMMA SafetyInductive == SafetyInv /\ [Next]_vars => SafetyInv'
BY TypeInductive, LoopShapeInductive, PublishedInductive, RelayKnowsInductive DEF SafetyInv

LEMMA SafetyAlways == Spec => []SafetyInv
BY InitSafety, SafetyInductive, PTL DEF Spec

\* No event is settled before it is in the topic: nothing committed to the
\* outbox is lost, whatever crashes, times out or answers late.
THEOREM PublishedAlwaysInTopic == Spec => []PublishedIsInTopic
BY SafetyAlways, PTL DEF SafetyInv

-----------------------------------------------------------------------------
(* Duplicates are explained *)

\* Relays that may still send e: it is in their batch and they have not tried.
MayStillSend(e) == {r \in Relays : e \in relay[r].batch /\ relay[r].cur # e}

\* The row can lead to another record through a claim yet to come: it is not
\* settled and no lease protects it, or its holder is about to release it.
OffersCopy(e) ==
    /\ row[e].status # "published"
    /\ \A r \in Relays : Held(r, e) => relay[r].cur = e /\ relay[r].pc = "refused"

\* Records of e, sends still to come and the claim still to come never exceed
\* one plus what faults explain.
CopiesBudget ==
    \A e \in Events :
        copies[e] + Cardinality(MayStillSend(e)) + (IF OffersCopy(e) THEN 1 ELSE 0)
            <= 1 + excess[e]

LEMMA Senders ==
    ASSUME NEW e \in Events
    PROVE  /\ IsFiniteSet(MayStillSend(e))
           /\ Cardinality(MayStillSend(e)) \in Nat
BY RelayAssumption, FS_Subset, FS_CardinalityType DEF MayStillSend

\* What an event's budget comes down to in one step.
LEMMA BudgetStep ==
    ASSUME SafetyInv, SafetyInv', CopiesBudget, NEW e \in Events,
           \/ /\ MayStillSend(e)' = MayStillSend(e)
              /\ copies'[e] = copies[e]
              /\ \/ excess'[e] = excess[e] /\ (OffersCopy(e)' => OffersCopy(e))
                 \/ excess'[e] = excess[e] + 1
           \/ \E r \in MayStillSend(e) :
              /\ MayStillSend(e)' = MayStillSend(e) \ {r}
              /\ \/ /\ copies'[e] = copies[e] /\ excess'[e] >= excess[e]
                 \/ /\ copies'[e] = copies[e] + 1 /\ excess'[e] = excess[e]
                    /\ OffersCopy(e)' => OffersCopy(e)
                 \/ copies'[e] = copies[e] + 1 /\ excess'[e] = excess[e] + 1
                 \/ /\ copies'[e] = copies[e] + 2 /\ excess'[e] = excess[e] + 1
                    /\ OffersCopy(e)' => OffersCopy(e)
           \/ \E r \in Relays :
              /\ MayStillSend(e)' = MayStillSend(e) \cup {r}
              /\ copies'[e] = copies[e] /\ excess'[e] = excess[e]
              /\ OffersCopy(e) /\ ~OffersCopy(e)'
    PROVE  copies'[e] + Cardinality(MayStillSend(e)') + (IF OffersCopy(e)' THEN 1 ELSE 0)
               <= 1 + excess'[e]
<1> DEFINE n == Cardinality(MayStillSend(e))
           m == Cardinality(MayStillSend(e)')
<1>1. n \in Nat /\ copies[e] \in Nat /\ excess[e] \in Nat
  BY Senders DEF SafetyInv, TypeOK
<1>2. copies[e] + n + (IF OffersCopy(e) THEN 1 ELSE 0) <= 1 + excess[e]
  BY DEF CopiesBudget
<1>3. copies'[e] \in Nat /\ excess'[e] \in Nat
  BY DEF SafetyInv, TypeOK
<1>4. ASSUME NEW r \in MayStillSend(e), MayStillSend(e)' = MayStillSend(e) \ {r}
      PROVE  m = n - 1
  BY <1>4, Senders, FS_RemoveElement
<1>5. ASSUME NEW r \in Relays, MayStillSend(e)' = MayStillSend(e) \cup {r}
      PROVE  m \in {n, n + 1}
  BY <1>5, Senders, FS_AddElement
<1>6. MayStillSend(e)' = MayStillSend(e) => m = n
  OBVIOUS
<1> HIDE DEF n, m
<1>7. copies'[e] + m + (IF OffersCopy(e)' THEN 1 ELSE 0) <= 1 + excess'[e]
  BY <1>1, <1>2, <1>3, <1>4, <1>5, <1>6
<1> QED
  BY <1>7 DEF m

\* A lease protects one holder only.
LEMMA OneHolder ==
    ASSUME NEW e \in Events, NEW q \in Relays, NEW r \in Relays, Held(q, e), Owned(r, e)
    PROVE  q = r
BY DEF Held, Owned

LEMMA RowStepsKeepBudget ==
    ASSUME SafetyInv, SafetyInv', CopiesBudget, NEW f \in Events,
           Enqueue(f) \/ LeaseExpires(f) \/ LeaseOverrun(f) \/ BecomesDue(f)
    PROVE  CopiesBudget'
<1> USE DEF SafetyInv, TypeOK, Rows, MayStillSend
<1> SUFFICES ASSUME NEW e \in Events
             PROVE  copies'[e] + Cardinality(MayStillSend(e)') + (IF OffersCopy(e)' THEN 1 ELSE 0)
                        <= 1 + excess'[e]
  BY DEF CopiesBudget
<1>1. MayStillSend(e)' = MayStillSend(e) /\ copies' = copies /\ relay' = relay /\ epoch' = epoch
  BY DEF Enqueue, LeaseExpires, LeaseOverrun, BecomesDue
<1>2. CASE e # f
  <2>1. row'[e] = row[e] /\ excess'[e] = excess[e]
    BY <1>2 DEF Enqueue, LeaseExpires, LeaseOverrun, BecomesDue
  <2>2. OffersCopy(e)' => OffersCopy(e)
    BY <1>1, <2>1 DEF OffersCopy, Held
  <2> QED
    BY <1>1, <2>1, <2>2, BudgetStep
<1>3. CASE e = f /\ Enqueue(f)
  <2>1. OffersCopy(e)
    BY <1>3 DEF OffersCopy, Held, Enqueue, RelayKnows
  <2> QED
    BY <1>1, <1>3, <2>1, BudgetStep DEF Enqueue
<1>4. CASE e = f /\ LeaseExpires(f)
  <2>1. OffersCopy(e)' => OffersCopy(e)
    BY <1>4 DEF OffersCopy, Held, LeaseExpires
  <2> QED
    BY <1>1, <1>4, <2>1, BudgetStep DEF LeaseExpires
<1>5. CASE e = f /\ LeaseOverrun(f)
  BY <1>1, <1>5, BudgetStep DEF LeaseOverrun
<1>6. CASE e = f /\ BecomesDue(f)
  <2>1. OffersCopy(e)' => OffersCopy(e)
    BY <1>1, <1>6 DEF OffersCopy, Held, BecomesDue
  <2> QED
    BY <1>1, <1>6, <2>1, BudgetStep DEF BecomesDue
<1> QED
  BY <1>2, <1>3, <1>4, <1>5, <1>6

LEMMA ClaimsKeepBudget ==
    ASSUME SafetyInv, SafetyInv', CopiesBudget, NEW r \in Relays,
           Claim(r) \/ ClaimAnswerLost(r)
    PROVE  CopiesBudget'
<1> USE DEF SafetyInv, TypeOK, Rows, RelayStates, MayStillSend
<1> SUFFICES ASSUME NEW e \in Events
             PROVE  copies'[e] + Cardinality(MayStillSend(e)') + (IF OffersCopy(e)' THEN 1 ELSE 0)
                        <= 1 + excess'[e]
  BY DEF CopiesBudget
<1> DEFINE S == Oldest(Claimable)
<1>1. /\ copies' = copies /\ excess' = excess /\ epoch' = epoch
      /\ relay[r].batch = {} /\ relay[r].cur = NoEvent
      /\ row' = Leased(r, S)
  BY DEF Claim, ClaimAnswerLost, LoopShape
<1>2. e \in S => OffersCopy(e)
  BY DEF Oldest, Claimable, OffersCopy, Held
<1>3. CASE e \notin S
  <2>1. row'[e] = row[e]
    BY <1>1, <1>3 DEF Leased
  <2>2. \A q \in Relays : relay'[q] = relay[q] \/ (q = r /\ e \notin relay'[q].batch)
    BY <1>3 DEF Claim, ClaimAnswerLost
  <2>3. MayStillSend(e)' = MayStillSend(e)
    BY <1>1, <2>2
  <2>4. OffersCopy(e)' => OffersCopy(e)
    BY <1>1, <2>1, <2>2 DEF OffersCopy, Held
  <2> QED
    BY <1>1, <2>3, <2>4, BudgetStep
<1>4. CASE e \in S /\ Claim(r)
  <2>1. relay'[r] = [pc |-> "sending", batch |-> S, cur |-> NoEvent]
    BY <1>4 DEF Claim
  <2>2. \A q \in Relays \ {r} : relay'[q] = relay[q]
    BY <1>4 DEF Claim
  <2>3. MayStillSend(e)' = MayStillSend(e) \cup {r}
    <3>1. e \in relay'[r].batch /\ relay'[r].cur # e
      BY <1>4, <2>1, RelayAssumption
    <3> QED
      BY <2>2, <3>1
  <2>4. Held(r, e)'
    <3>1. row'[e] = [row[e] EXCEPT !.owner = Me(r), !.lease = "live"]
      BY <1>1, <1>4 DEF Leased
    <3>2. row'[e].owner = Me(r) /\ row'[e].lease = "live"
      BY <3>1
    <3> QED
      BY <1>1, <1>4, <2>1, <3>2 DEF Held
  <2>5. ~OffersCopy(e)'
    BY <2>1, <2>4 DEF OffersCopy
  <2> QED
    BY <1>1, <1>2, <1>4, <2>3, <2>5, BudgetStep
<1>5. CASE e \in S /\ ClaimAnswerLost(r)
  <2>1. MayStillSend(e)' = MayStillSend(e)
    BY <1>5 DEF ClaimAnswerLost
  <2> QED
    BY <1>1, <1>2, <1>5, <2>1, BudgetStep
<1> QED
  BY <1>3, <1>4, <1>5 DEF S

LEMMA PublishKeepsBudget ==
    ASSUME SafetyInv, SafetyInv', CopiesBudget, NEW r \in Relays, NEW f \in Events,
           Publish(r, f)
    PROVE  CopiesBudget'
<1> USE DEF SafetyInv, TypeOK, Rows, RelayStates, MayStillSend,
            PublishAcked, PublishRepeated, PublishRefused, PublishAckLost
<1> SUFFICES ASSUME NEW e \in Events
             PROVE  copies'[e] + Cardinality(MayStillSend(e)') + (IF OffersCopy(e)' THEN 1 ELSE 0)
                        <= 1 + excess'[e]
  BY DEF CopiesBudget
<1>1. /\ row' = row /\ epoch' = epoch
      /\ relay[r].pc = "sending" /\ relay[r].cur = NoEvent /\ f \in relay[r].batch
      /\ relay'[r].batch = relay[r].batch /\ relay'[r].cur = f
      /\ \A q \in Relays \ {r} : relay'[q] = relay[q]
  BY DEF Publish, LoopShape
<1>2. CASE e # f
  <2>1. copies'[e] = copies[e] /\ excess'[e] = excess[e]
    BY <1>2 DEF Publish
  <2>2. MayStillSend(e)' = MayStillSend(e)
    <3>1. e # NoEvent
      BY RelayAssumption
    <3>2. \A q \in Relays : q \in MayStillSend(e)' <=> q \in MayStillSend(e)
      BY <1>1, <1>2, <3>1
    <3> QED
      BY <3>2
  <2>3. OffersCopy(e)' => OffersCopy(e)
    BY <1>1, <1>2, RelayAssumption DEF OffersCopy, Held
  <2> QED
    BY <2>1, <2>2, <2>3, BudgetStep
<1>3. CASE e = f
  <2>1. r \in MayStillSend(e) /\ MayStillSend(e)' = MayStillSend(e) \ {r}
    BY <1>1, <1>3, RelayAssumption
  <2>2. CASE PublishAcked(r, f) \/ PublishRepeated(r, f)
    <3>1. relay'[r].pc = "acked"
      BY <2>2
    <3>2. OffersCopy(e)' => OffersCopy(e)
      BY <1>1, <1>3, <3>1 DEF OffersCopy, Held
    <3> QED
      BY <1>3, <2>1, <2>2, <3>2, BudgetStep
  <2>3. CASE PublishRefused(r, f) \/ PublishAckLost(r, f)
    BY <1>3, <2>1, <2>3, BudgetStep
  <2> QED
    BY <2>2, <2>3 DEF Publish
<1> QED
  BY <1>2, <1>3

\* RunOnce gives up, or the process dies: what was still to be sent is dropped,
\* the claims it held protect nothing any more.
LEMMA GivingUp ==
    ASSUME SafetyInv, SafetyInv', CopiesBudget, NEW r \in Relays, NEW e \in Events,
           relay' = Abandon(r), copies' = copies, row'[e] = row[e],
           \A q \in Relays \ {r} : epoch'[q] = epoch[q],
           excess'[e] \in {excess[e], excess[e] + 1},
           relay[r].cur = e /\ Held(r, e) /\ row[e].status # "published" /\ excess'[e] = excess[e]
              => relay[r].pc = "refused"
    PROVE  copies'[e] + Cardinality(MayStillSend(e)') + (IF OffersCopy(e)' THEN 1 ELSE 0)
               <= 1 + excess'[e]
<1> USE DEF SafetyInv, TypeOK, Rows, RelayStates, MayStillSend
<1>1. /\ relay'[r].batch = {}
      /\ \A q \in Relays \ {r} : relay'[q] = relay[q]
  BY DEF Abandon, Idle
<1>2. MayStillSend(e)' = MayStillSend(e) \ {r}
  <2>1. r \notin MayStillSend(e)'
    BY <1>1
  <2>2. \A q \in Relays \ {r} : q \in MayStillSend(e)' <=> q \in MayStillSend(e)
    BY <1>1
  <2> QED
    BY <2>1, <2>2
<1>3. CASE r \in MayStillSend(e)
  <2>1. excess'[e] >= excess[e] /\ copies'[e] = copies[e]
    OBVIOUS
  <2> HIDE DEF SafetyInv, MayStillSend
  <2> QED
    BY <1>2, <1>3, <2>1, BudgetStep
<1>4. CASE r \notin MayStillSend(e) /\ excess'[e] = excess[e]
  <2>1. Held(r, e) => relay[r].cur = e
    BY <1>4 DEF Held
  <2>2. \A q \in Relays \ {r} : Held(q, e)' <=> Held(q, e)
    BY <1>1 DEF Held
  <2>3. OffersCopy(e)' => OffersCopy(e)
    BY <1>1, <1>4, <2>1, <2>2 DEF OffersCopy
  <2> QED
    BY <1>2, <1>4, <2>3, BudgetStep
<1>5. CASE r \notin MayStillSend(e) /\ excess'[e] = excess[e] + 1
  <2>1. MayStillSend(e)' = MayStillSend(e) /\ copies'[e] = copies[e]
    BY <1>2, <1>5
  <2> HIDE DEF SafetyInv, MayStillSend
  <2> QED
    BY <1>5, <2>1, BudgetStep
<1> QED
  BY <1>3, <1>4, <1>5

\* A mark that takes effect settles the row or offers it again, and the loop
\* goes on or RunOnce returns: in both cases only the marked event is affected,
\* or the sends that are given up.
LEMMA MarkTakesEffect ==
    ASSUME SafetyInv, SafetyInv', CopiesBudget, NEW r \in Relays,
           MarkDone(r) \/ MarkAnswerLost(r)
    PROVE  CopiesBudget'
<1> USE DEF SafetyInv, TypeOK, Rows, RelayStates
<1> SUFFICES ASSUME NEW e \in Events
             PROVE  copies'[e] + Cardinality(MayStillSend(e)') + (IF OffersCopy(e)' THEN 1 ELSE 0)
                        <= 1 + excess'[e]
  BY DEF CopiesBudget
<1> DEFINE c == relay[r].cur
<1>1. /\ copies' = copies /\ excess' = excess /\ epoch' = epoch
      /\ relay[r].pc \in {"acked", "refused"} /\ c \in relay[r].batch /\ Owned(r, c)
      /\ row' = [row EXCEPT ![c] = Marked(r, c)]
      /\ \A q \in Relays \ {r} : relay'[q] = relay[q]
  BY DEF MarkDone, MarkAnswerLost, LoopShape, Advance, Abandon
<1>2. CASE e = c
  <2>1. c \notin relay'[r].batch
    BY <1>1 DEF MarkDone, MarkAnswerLost, Advance, Abandon, Idle
  <2>2. MayStillSend(e)' = MayStillSend(e)
    <3>1. r \notin MayStillSend(e) /\ r \notin MayStillSend(e)'
      BY <1>2, <2>1 DEF MayStillSend
    <3>2. \A q \in Relays \ {r} : q \in MayStillSend(e)' <=> q \in MayStillSend(e)
      BY <1>1 DEF MayStillSend
    <3> QED
      BY <3>1, <3>2 DEF MayStillSend
  <2>3. OffersCopy(e)' => OffersCopy(e)
    <3>1. relay[r].pc = "acked" => ~OffersCopy(e)'
      BY <1>1, <1>2 DEF Marked, FreeRow, OffersCopy
    <3>2. relay[r].pc = "refused" => OffersCopy(e)
      BY <1>1, <1>2, OneHolder DEF OffersCopy, Owned
    <3> QED
      BY <1>1, <3>1, <3>2
  <2> QED
    BY <1>1, <2>2, <2>3, BudgetStep
<1>3. CASE e # c /\ MarkAnswerLost(r)
  BY <1>1, <1>3, GivingUp DEF MarkAnswerLost
<1>4. CASE e # c /\ MarkDone(r)
  <2>1. (e \in relay'[r].batch <=> e \in relay[r].batch) /\ relay'[r].cur # e
    BY <1>1, <1>4, RelayAssumption DEF MarkDone, Advance, Idle
  <2>2. MayStillSend(e)' = MayStillSend(e)
    <3>1. \A q \in Relays : q \in MayStillSend(e)' <=> q \in MayStillSend(e)
      BY <1>1, <1>4, <2>1 DEF MayStillSend
    <3> QED
      BY <3>1 DEF MayStillSend
  <2>3. row'[e] = row[e]
    BY <1>1, <1>4
  <2>4. \A q \in Relays : Held(q, e)' <=> Held(q, e)
    BY <1>1, <2>1, <2>3 DEF Held
  <2>5. OffersCopy(e)' => OffersCopy(e)
    BY <1>1, <2>1, <2>3, <2>4 DEF OffersCopy
  <2> QED
    BY <1>1, <2>2, <2>5, BudgetStep
<1> QED
  BY <1>2, <1>3, <1>4

LEMMA GivingUpKeepsBudget ==
    ASSUME SafetyInv, SafetyInv', CopiesBudget, NEW r \in Relays,
           MarkNotOwned(r) \/ MarkError(r) \/ Crash(r)
    PROVE  CopiesBudget'
<1> USE DEF SafetyInv, TypeOK, Rows, RelayStates
<1> SUFFICES ASSUME NEW e \in Events
             PROVE  copies'[e] + Cardinality(MayStillSend(e)') + (IF OffersCopy(e)' THEN 1 ELSE 0)
                        <= 1 + excess'[e]
  BY DEF CopiesBudget
<1>1. /\ relay' = Abandon(r) /\ copies' = copies /\ row' = row
      /\ \A q \in Relays \ {r} : epoch'[q] = epoch[q]
  BY DEF MarkNotOwned, MarkError, Crash
<1>2. excess' = excess \/ excess' = Unmarked(r)
  BY DEF MarkNotOwned, MarkError, Crash
<1>3. excess'[e] \in {excess[e], excess[e] + 1}
  BY <1>2 DEF Unmarked
<1>4. ASSUME relay[r].cur = e, Held(r, e), row[e].status # "published", excess'[e] = excess[e]
      PROVE  relay[r].pc = "refused"
  <2>1. relay[r].pc \in {"acked", "refused"}
    BY <1>4, RelayAssumption DEF LoopShape
  <2>2. ~MarkNotOwned(r)
    BY <1>4 DEF MarkNotOwned, Held, Owned, RelayKnows
  <2>3. excess' = Unmarked(r)
    BY <2>2 DEF MarkError, Crash
  <2> QED
    BY <1>4, <2>1, <2>3 DEF Unmarked
<1> QED
  BY <1>1, <1>3, <1>4, GivingUp

LEMMA BudgetInductive ==
    ASSUME SafetyInv, CopiesBudget, [Next]_vars
    PROVE  CopiesBudget'
<1>1. SafetyInv'
  BY SafetyInductive
<1>2. CASE UNCHANGED vars
  BY <1>2 DEF vars, CopiesBudget, MayStillSend, OffersCopy, Held
<1>3. CASE Next
  BY <1>1, <1>3, RowStepsKeepBudget, ClaimsKeepBudget, PublishKeepsBudget, MarkTakesEffect,
     GivingUpKeepsBudget DEF Next, Mark
<1> QED
  BY <1>2, <1>3

LEMMA InitBudget == Init => CopiesBudget
<1> SUFFICES ASSUME Init, NEW e \in Events
             PROVE  copies[e] + Cardinality(MayStillSend(e)) + (IF OffersCopy(e) THEN 1 ELSE 0)
                        <= 1 + excess[e]
  BY DEF CopiesBudget
<1>1. MayStillSend(e) = {}
  BY DEF Init, Idle, MayStillSend
<1>2. copies[e] = 0 /\ excess[e] = 0
  BY DEF Init
<1> QED
  BY <1>1, <1>2, FS_EmptySet

\* However many relays drain one table, an event is in the topic at most once
\* more than faults explain; without faults, exactly-once publication.
THEOREM DuplicatesAlwaysExplained == Spec => []DuplicatesExplained
<1>1. SafetyInv /\ CopiesBudget => DuplicatesExplained
  <2> SUFFICES ASSUME SafetyInv, CopiesBudget, NEW e \in Events
               PROVE  copies[e] <= 1 + excess[e]
    BY DEF DuplicatesExplained
  <2> DEFINE n == Cardinality(MayStillSend(e))
  <2>1. n \in Nat /\ copies[e] \in Nat /\ excess[e] \in Nat
    BY Senders DEF SafetyInv, TypeOK
  <2>2. copies[e] + n + (IF OffersCopy(e) THEN 1 ELSE 0) <= 1 + excess[e]
    BY DEF CopiesBudget
  <2> HIDE DEF n
  <2> QED
    BY <2>1, <2>2
<1> QED
  BY <1>1, InitSafety, InitBudget, SafetyInductive, BudgetInductive, PTL DEF Spec

-----------------------------------------------------------------------------
(* A stale claim disturbs nobody *)

\* A leased row was due when it was claimed, and stays so.
LeasedIsDue == \A e \in Events : row[e].lease # "none" => row[e].due

LEMMA LeasedIsDueInductive ==
    ASSUME SafetyInv, LeasedIsDue, [Next]_vars
    PROVE  LeasedIsDue'
<1> USE DEF SafetyInv, TypeOK, Rows
<1> SUFFICES ASSUME NEW e \in Events, row'[e].lease # "none"
             PROVE  row'[e].due
  BY DEF LeasedIsDue
<1>1. CASE row'[e] = row[e]
  BY <1>1 DEF LeasedIsDue
<1>2. ASSUME NEW f \in Events, Enqueue(f) \/ LeaseExpires(f) \/ LeaseOverrun(f) \/ BecomesDue(f)
      PROVE  row'[e].due
  <2>1. CASE Enqueue(f)
    BY <2>1 DEF Enqueue, FreeRow, LeasedIsDue
  <2>2. CASE BecomesDue(f)
    BY <2>2 DEF BecomesDue, LeasedIsDue
  <2>3. CASE LeaseExpires(f) \/ LeaseOverrun(f)
    <3>1. row[f].lease = "live" /\ row' = [row EXCEPT ![f].lease = "expired"]
      BY <2>3 DEF LeaseExpires, LeaseOverrun, Held
    <3> QED
      BY <3>1 DEF LeasedIsDue
  <2> QED
    BY <1>2, <2>1, <2>2, <2>3
<1>3. ASSUME NEW r \in Relays, Claim(r) \/ ClaimAnswerLost(r)
      PROVE  row'[e].due
  <2>1. CASE e \in Oldest(Claimable)
    <3>1. row[e].due
      BY <2>1 DEF Oldest, Claimable
    <3>2. row'[e] = [row[e] EXCEPT !.owner = Me(r), !.lease = "live"]
      BY <1>3, <2>1 DEF Claim, ClaimAnswerLost, Leased
    <3> QED
      BY <3>1, <3>2
  <2>2. CASE e \notin Oldest(Claimable)
    BY <1>1, <1>3, <2>2 DEF Claim, ClaimAnswerLost, Leased
  <2> QED
    BY <2>1, <2>2
<1>4. ASSUME NEW r \in Relays, Mark(r), row'[e] # row[e]
      PROVE  FALSE
  <2>1. /\ relay[r].pc \in {"acked", "refused"}
        /\ row' = [row EXCEPT ![relay[r].cur] = Marked(r, relay[r].cur)]
    BY <1>4 DEF Mark, MarkDone, MarkNotOwned, MarkAnswerLost, MarkError
  <2>2. row'[e].lease = "none"
    BY <1>4, <2>1 DEF Marked, FreeRow
  <2> QED
    BY <2>2
<1>5. CASE UNCHANGED row
  BY <1>1, <1>5
<1> QED
  BY <1>1, <1>2, <1>3, <1>4, <1>5
  DEF Next, vars, Crash, Publish, PublishAcked, PublishRepeated, PublishRefused, PublishAckLost

\* While a lease is live, only the mark of its owner, or time, changes the row:
\* both mark statements check locked_by, the claim skips the row.
THEOREM HolderAlwaysKeepsRow == Spec => HolderKeepsRow
<1>1. ASSUME SafetyInv, LeasedIsDue, [Next]_vars,
             NEW r \in Relays, NEW e \in Events, Held(r, e), row'[e] # row[e]
      PROVE  \/ row'[e] = [row[e] EXCEPT !.lease = "expired"]
             \/ relay[r].cur = e /\ relay'[r] # relay[r]
  <2> USE DEF SafetyInv, TypeOK, Rows
  <2>1. ASSUME UNCHANGED row
        PROVE  FALSE
    BY <1>1, <2>1
  <2>2. ASSUME NEW f \in Events, Enqueue(f) \/ BecomesDue(f)
        PROVE  FALSE
    BY <1>1, <2>2 DEF Enqueue, BecomesDue, Held, RelayKnows, LeasedIsDue
  <2>3. ASSUME NEW f \in Events, LeaseExpires(f) \/ LeaseOverrun(f)
        PROVE  row'[e] = [row[e] EXCEPT !.lease = "expired"]
    BY <1>1, <2>3 DEF LeaseExpires, LeaseOverrun
  <2>4. ASSUME NEW q \in Relays, Claim(q) \/ ClaimAnswerLost(q)
        PROVE  FALSE
    BY <1>1, <2>4 DEF Claim, ClaimAnswerLost, Leased, Oldest, Claimable, Held
  <2>5. ASSUME NEW q \in Relays, Mark(q)
        PROVE  relay[r].cur = e /\ relay'[r] # relay[r]
    <3>1. /\ relay[q].pc \in {"acked", "refused"} /\ Owned(q, relay[q].cur)
          /\ row' = [row EXCEPT ![relay[q].cur] = Marked(q, relay[q].cur)]
          /\ relay' = Advance(q) \/ relay' = Abandon(q)
      BY <1>1, <2>5 DEF Mark, MarkDone, MarkNotOwned, MarkAnswerLost, MarkError
    <3>2. relay[q].cur = e
      BY <1>1, <3>1
    <3>3. q = r
      BY <1>1, <3>1, <3>2, OneHolder
    <3>4. relay'[r].pc \in {"idle", "sending"}
      <4>1. Idle.pc = "idle"
        BY DEF Idle
      <4>2. relay'[r] = Idle \/ relay'[r].pc = "sending"
        BY <1>1, <3>1, <3>3 DEF Advance, Abandon
      <4> QED
        BY <4>1, <4>2
    <3> QED
      BY <3>1, <3>2, <3>3, <3>4
  <2> QED
    BY <1>1, <2>1, <2>2, <2>3, <2>4, <2>5
    DEF Next, vars, Crash, Publish, PublishAcked, PublishRepeated, PublishRefused, PublishAckLost
<1>2. SafetyInv /\ LeasedIsDue /\ [Next]_vars => [\A r \in Relays, e \in Events :
          Held(r, e) /\ row'[e] # row[e] =>
             \/ row'[e] = [row[e] EXCEPT !.lease = "expired"]
             \/ relay[r].cur = e /\ relay'[r] # relay[r]]_vars
  BY <1>1
<1>3. Init => LeasedIsDue
  BY DEF Init, FreeRow, LeasedIsDue
<1>4. SafetyInv /\ LeasedIsDue /\ [Next]_vars => LeasedIsDue'
  BY LeasedIsDueInductive
<1> QED
  BY <1>2, <1>3, <1>4, InitSafety, SafetyInductive, PTL DEF Spec, HolderKeepsRow

-----------------------------------------------------------------------------
(* The relays implement the promise *)

\* Every step of the relays is a step of OutboxPromise or leaves it alone:
\* stored, then in the topic at least once, then settled.
THEOREM ImplementsPromise == Spec => PromiseSpec
<1> USE DEF storedRows, settledRows
<1>1. Init => Promise!PromiseInit
  BY DEF Init, Promise!PromiseInit, FreeRow
<1>2. ASSUME SafetyInv, SafetyInv', [Next]_vars
      PROVE  [Promise!PromiseNext]_Promise!promiseVars
  <2> USE <1>2 DEF SafetyInv, TypeOK
  <2>1. ASSUME copies' = copies, \A e \in Events : row'[e].status = row[e].status
        PROVE  UNCHANGED Promise!promiseVars
    BY <2>1 DEF Promise!promiseVars
  <2>2. ASSUME NEW e \in Events, Enqueue(e)
        PROVE  Promise!Store(e)
    <3>1. /\ row[e].status = "absent" /\ row'[e].status = "pending" /\ copies' = copies
          /\ \A f \in Events \ {e} : row'[f] = row[f]
      BY <2>2 DEF Enqueue, FreeRow
    <3>2. storedRows' = storedRows \cup {e} /\ e \notin storedRows
      BY <3>1
    <3>3. settledRows' = settledRows
      BY <3>1
    <3> QED
      BY <3>1, <3>2, <3>3 DEF Promise!Store
  <2>3. ASSUME NEW e \in Events, LeaseExpires(e) \/ LeaseOverrun(e) \/ BecomesDue(e)
        PROVE  UNCHANGED Promise!promiseVars
    <3>1. copies' = copies /\ \A f \in Events : row'[f].status = row[f].status
      BY <2>3 DEF LeaseExpires, LeaseOverrun, BecomesDue, Rows
    <3> QED
      BY <2>1, <3>1
  <2>4. ASSUME NEW r \in Relays, Claim(r) \/ ClaimAnswerLost(r)
        PROVE  UNCHANGED Promise!promiseVars
    <3>1. copies' = copies /\ row' = Leased(r, Oldest(Claimable))
      BY <2>4 DEF Claim, ClaimAnswerLost
    <3>2. ASSUME NEW f \in Events
          PROVE  row'[f].status = row[f].status
      <4>1. \/ row'[f] = row[f]
            \/ row'[f] = [row[f] EXCEPT !.owner = Me(r), !.lease = "live"]
        BY <3>1 DEF Leased
      <4> QED
        BY <4>1 DEF Rows
    <3> QED
      BY <2>1, <3>1, <3>2
  <2>5. ASSUME NEW r \in Relays, NEW e \in Events, Publish(r, e)
        PROVE  Promise!Append(e) \/ UNCHANGED Promise!promiseVars
    <3>1. row' = row /\ e \in relay[r].batch
      BY <2>5 DEF Publish, PublishAcked, PublishRepeated, PublishRefused, PublishAckLost
    <3>2. storedRows' = storedRows /\ settledRows' = settledRows /\ e \in storedRows
      BY <3>1 DEF RelayKnows
    <3>3. CASE PublishRefused(r, e)
      BY <2>1, <3>1, <3>3 DEF PublishRefused
    <3>4. CASE ~PublishRefused(r, e)
      <4>1. e \notin Poison /\ copies'[e] > copies[e] /\ \A f \in Events \ {e} : copies'[f] = copies[f]
        BY <2>5, <3>4 DEF Publish, PublishAcked, PublishRepeated, PublishAckLost
      <4> QED
        BY <1>2, <3>2, <4>1 DEF Promise!Append
    <3> QED
      BY <3>3, <3>4
  <2>6. ASSUME NEW r \in Relays, MarkDone(r) \/ MarkAnswerLost(r)
        PROVE  Promise!PromiseNext \/ UNCHANGED Promise!promiseVars
    <3> DEFINE c == relay[r].cur
    <3>1. /\ relay[r].pc \in {"acked", "refused"} /\ c \in Events /\ Owned(r, c)
          /\ row' = [row EXCEPT ![c] = Marked(r, c)] /\ copies' = copies
      BY <2>6 DEF MarkDone, MarkAnswerLost, LoopShape, RelayStates
    <3>2. CASE relay[r].pc = "acked"
      <4>1. /\ row[c].status = "pending" /\ row'[c].status = "published"
            /\ \A f \in Events \ {c} : row'[f] = row[f]
        BY <3>1, <3>2 DEF Marked, FreeRow, Owned
      <4>2. storedRows' = storedRows /\ settledRows' = settledRows \cup {c}
        BY <3>1, <4>1
      <4>3. c \in storedRows \ settledRows /\ copies[c] > 0
        BY <3>1, <3>2, <4>1 DEF RelayKnows
      <4> QED
        BY <3>1, <4>2, <4>3 DEF Promise!PromiseNext, Promise!Settle
    <3>3. CASE relay[r].pc = "refused"
      <4>1. \A f \in Events : row'[f].status = row[f].status
        BY <3>1, <3>3 DEF Marked, FreeRow, Owned
      <4> QED
        BY <2>1, <3>1, <4>1
    <3> QED
      BY <3>1, <3>2, <3>3
  <2>7. ASSUME NEW r \in Relays, MarkNotOwned(r) \/ MarkError(r) \/ Crash(r)
        PROVE  UNCHANGED Promise!promiseVars
    BY <2>1, <2>7 DEF MarkNotOwned, MarkError, Crash
  <2>8. UNCHANGED vars => UNCHANGED Promise!promiseVars
    BY <2>1 DEF vars
  <2> QED
    BY <1>2, <2>2, <2>3, <2>4, <2>5, <2>6, <2>7, <2>8 DEF Next, Mark, Promise!PromiseNext
<1> QED
  BY <1>1, <1>2, InitSafety, SafetyInductive, PTL DEF Spec, PromiseSpec, Promise!PromiseSpec
==============================================================================
