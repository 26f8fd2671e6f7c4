--------------------------- MODULE OrderFlowProofs ---------------------------
(***************************************************************************)
(* Proofs about OrderFlow, for any number of orders, partitions and faults. *)
(***************************************************************************)
EXTENDS OrderFlow, FiniteSets, SequenceTheorems, FiniteSetTheorems, TLAPS

-----------------------------------------------------------------------------
(* The inductive invariant *)

\* Nothing is in a topic that no transaction has stored.
TopicsAreStored ==
    /\ \A p \in Partitions : \A i \in 1..Len(created[p]) : created[p][i] \in outbox
    /\ \A p \in Partitions : \A i \in 1..Len(decided[p]) : decided[p][i] \in events

\* An order is known to the services one after the other.
KnownInOrder ==
    /\ \A o \in outbox : status[o] # "none"
    /\ \A o \in Orders : submission[o] # "absent" => o \in outbox
    /\ \A o \in reached : submission[o] # "absent"
    /\ \A o \in Orders : restaurant[o] # "unknown" => o \in reached
    /\ \A m \in wire : m.order \in reached
    /\ \A m \in events : m.order \in reached

\* Every event tells the decision that stands, and the user sees no other.
OneDecision ==
    /\ \A m \in events : submission[m.order] = m.status
    /\ \A o \in Orders : status[o] \in Decisions => submission[o] = status[o]

FlowInv == TypeOK /\ TopicsAreStored /\ KnownInOrder /\ OneDecision

-----------------------------------------------------------------------------

Environment(o) == AddIntegration(o) \/ \E d \in Decisions : Decide(o, d)

ConsumerStep ==
    \E p \in Partitions, topic \in Topics : Commit(topic, p) \/ Reassign(topic, p)

LEMMA AppendFacts ==
    ASSUME NEW S, NEW s \in Seq(S), NEW x \in S
    PROVE  /\ Append(s, x) \in Seq(S)
           /\ \A i \in 1..Len(Append(s, x)) :
                 Append(s, x)[i] = x \/ (i \in 1..Len(s) /\ Append(s, x)[i] = s[i])
<1>1. /\ Append(s, x) \in Seq(S)
      /\ Len(Append(s, x)) = Len(s) + 1
      /\ \A i \in 1..Len(s) : Append(s, x)[i] = s[i]
      /\ Append(s, x)[Len(s) + 1] = x
  BY AppendProperties
<1>2. ASSUME NEW i \in 1..(Len(s) + 1) PROVE i = Len(s) + 1 \/ i \in 1..Len(s)
  OBVIOUS
<1> QED
  BY <1>1, <1>2

LEMMA FaultType ==
    ASSUME faults \in 0..MaxFaults, Fault
    PROVE  faults' \in 0..MaxFaults
BY FlowAssumption DEF Fault

LEMMA PassedType ==
    ASSUME TypeOK, NEW topic \in Topics, NEW p \in Partitions, Passed(topic, p)
    PROVE  next' \in [Topics \X Partitions -> Nat]
<1>1. <<topic, p>> \in Topics \X Partitions
  OBVIOUS
<1>2. next[<<topic, p>>] + 1 \in Nat
  BY <1>1 DEF TypeOK
<1> QED
  BY <1>2 DEF TypeOK, Passed

LEMMA HeadIsInLog ==
    ASSUME TypeOK, NEW topic \in Topics, NEW p \in Partitions, NEW e, AtHead(topic, p, e)
    PROVE  \E i \in 1..Len(Log(topic, p)) : Log(topic, p)[i] = e
<1>1. <<topic, p>> \in Topics \X Partitions
  OBVIOUS
<1>2. next[<<topic, p>>] \in Nat
  BY <1>1 DEF TypeOK
<1>3. Log(topic, p) \in Seq(IF topic = "created" THEN Orders ELSE Callbacks)
  BY DEF TypeOK, Log
<1>4. Len(Log(topic, p)) \in Nat
  BY <1>3, LenProperties
<1>5. next[<<topic, p>>] + 1 \in 1..Len(Log(topic, p))
  BY <1>2, <1>4 DEF AtHead
<1> QED
  BY <1>5 DEF AtHead

LEMMA DecisionTypes ==
    ASSUME NEW m \in Callbacks
    PROVE  m.order \in Orders /\ m.status \in Decisions
BY DEF Callbacks

-----------------------------------------------------------------------------
(* Initially *)

LEMMA InitInv == ASSUME Init PROVE FlowInv
<1> USE DEF Init
<1>1. TypeOK
  <2>1. created \in [Partitions -> Seq(Orders)] /\ decided \in [Partitions -> Seq(Callbacks)]
    OBVIOUS
  <2>2. next \in [Topics \X Partitions -> Nat] /\ committed \in [Topics \X Partitions -> Nat]
    OBVIOUS
  <2>3. faults \in 0..MaxFaults
    BY FlowAssumption
  <2> QED
    BY <2>1, <2>2, <2>3 DEF TypeOK
<1>2. TopicsAreStored
  <2>1. \A p \in Partitions : Len(created[p]) = 0 /\ Len(decided[p]) = 0
    OBVIOUS
  <2> QED
    BY <2>1 DEF TopicsAreStored
<1>3. KnownInOrder /\ OneDecision
  BY DEF KnownInOrder, OneDecision, Decisions
<1> QED
  BY <1>1, <1>2, <1>3 DEF FlowInv

-----------------------------------------------------------------------------
(* One step each *)

LEMMA CreateInv ==
    ASSUME FlowInv, NEW o \in Orders, CreateOrder(o)
    PROVE  FlowInv'
<1> USE DEF FlowInv, CreateOrder, Stored, Broker, Consumers, PartnerService, Restaurant
<1>1. TypeOK'
  BY DEF TypeOK
<1>2. TopicsAreStored'
  BY DEF TopicsAreStored
<1>3. \A q \in Orders : status'[q] = IF q = o THEN "pending" ELSE status[q]
  BY DEF TypeOK
<1>4. KnownInOrder'
  BY <1>3 DEF KnownInOrder, TypeOK
<1>5. OneDecision'
  BY <1>3 DEF OneDecision, Decisions
<1> QED
  BY <1>1, <1>2, <1>4, <1>5

LEMMA PublishCreatedInv ==
    ASSUME FlowInv, NEW o \in Orders, PublishCreated(o)
    PROVE  FlowInv'
<1> USE DEF FlowInv
<1> DEFINE q == PartitionOf[o]
<1>1. q \in Partitions
  BY FlowAssumption
<1>2. created[q] \in Seq(Orders)
  BY <1>1 DEF TypeOK
<1>3. /\ created' = [created EXCEPT ![q] = Append(created[q], o)]
      /\ o \in outbox
      /\ UNCHANGED <<OrderService, decided, Consumers, PartnerService, Restaurant>>
  BY DEF PublishCreated
<1>4. faults' \in 0..MaxFaults
  BY FaultType DEF PublishCreated, TypeOK
<1>5. Append(created[q], o) \in Seq(Orders)
  BY <1>2, AppendFacts
<1>6. TypeOK'
  BY <1>3, <1>4, <1>5 DEF TypeOK, OrderService, Consumers, PartnerService, Restaurant
<1>7. TopicsAreStored'
  <2>1. ASSUME NEW p \in Partitions, NEW i \in 1..Len(created'[p])
        PROVE  created'[p][i] \in outbox'
    <3>1. CASE p # q
      BY <1>3, <2>1, <3>1 DEF TypeOK, TopicsAreStored, OrderService
    <3>2. CASE p = q
      <4>1. created'[q] = Append(created[q], o)
        BY <1>1, <1>3 DEF TypeOK
      <4>2. created'[q][i] = o \/ (i \in 1..Len(created[q]) /\ created'[q][i] = created[q][i])
        BY <1>2, <2>1, <3>2, <4>1, AppendFacts
      <4> QED
        BY <1>1, <1>3, <3>2, <4>2 DEF TopicsAreStored, OrderService
    <3> QED
      BY <3>1, <3>2
  <2> QED
    BY <1>3, <2>1 DEF TopicsAreStored, PartnerService
<1>8. KnownInOrder' /\ OneDecision'
  BY <1>3 DEF KnownInOrder, OneDecision, OrderService, PartnerService, Restaurant
<1> QED
  BY <1>6, <1>7, <1>8

LEMMA PublishDecidedInv ==
    ASSUME FlowInv, NEW e \in events, PublishDecided(e)
    PROVE  FlowInv'
<1> USE DEF FlowInv
<1> DEFINE q == PartitionOf[e.order]
<1>0. e \in Callbacks /\ e.order \in Orders
  BY DecisionTypes DEF TypeOK
<1>1. q \in Partitions
  BY <1>0, FlowAssumption
<1>2. decided[q] \in Seq(Callbacks)
  BY <1>1 DEF TypeOK
<1>3. /\ decided' = [decided EXCEPT ![q] = Append(decided[q], e)]
      /\ UNCHANGED <<OrderService, created, Consumers, PartnerService, Restaurant>>
  BY DEF PublishDecided
<1>4. faults' \in 0..MaxFaults
  BY FaultType DEF PublishDecided, TypeOK
<1>5. Append(decided[q], e) \in Seq(Callbacks)
  BY <1>0, <1>2, AppendFacts
<1>6. TypeOK'
  BY <1>3, <1>4, <1>5 DEF TypeOK, OrderService, Consumers, PartnerService, Restaurant
<1>7. TopicsAreStored'
  <2>1. ASSUME NEW p \in Partitions, NEW i \in 1..Len(decided'[p])
        PROVE  decided'[p][i] \in events'
    <3>1. CASE p # q
      BY <1>3, <2>1, <3>1 DEF TypeOK, TopicsAreStored, PartnerService
    <3>2. CASE p = q
      <4>1. decided'[q] = Append(decided[q], e)
        BY <1>1, <1>3 DEF TypeOK
      <4>2. decided'[q][i] = e \/ (i \in 1..Len(decided[q]) /\ decided'[q][i] = decided[q][i])
        BY <1>0, <1>2, <2>1, <3>2, <4>1, AppendFacts
      <4> QED
        BY <1>1, <1>3, <3>2, <4>2 DEF TopicsAreStored, PartnerService
    <3> QED
      BY <3>1, <3>2
  <2> QED
    BY <1>3, <2>1 DEF TopicsAreStored, OrderService
<1>8. KnownInOrder' /\ OneDecision'
  BY <1>3 DEF KnownInOrder, OneDecision, OrderService, PartnerService, Restaurant
<1> QED
  BY <1>6, <1>7, <1>8

\* An event shows its decision to the user: nothing else was shown before.
LEMMA ApplyInv ==
    ASSUME FlowInv, NEW p \in Partitions, NEW e \in events, ApplyPartnerEvent(p, e)
    PROVE  FlowInv'
<1> USE DEF FlowInv
<1>1. e \in Callbacks /\ e.order \in Orders /\ e.status \in Decisions
  BY DecisionTypes DEF TypeOK
<1>2. \/ UNCHANGED <<status, inbox>>
      \/ /\ status' = [status EXCEPT ![e.order] = e.status]
         /\ inbox' = inbox \cup {e}
  BY DEF ApplyPartnerEvent
<1>3. UNCHANGED <<outbox, Broker, committed, PartnerService, Restaurant, faults>>
  BY DEF ApplyPartnerEvent
<1>4. next' \in [Topics \X Partitions -> Nat]
  BY PassedType DEF ApplyPartnerEvent, Topics
<1>5. status' \in [Orders -> {"none", "pending"} \cup Decisions] /\ inbox' \subseteq Callbacks
  BY <1>1, <1>2 DEF TypeOK
<1>6. TypeOK'
  BY <1>3, <1>4, <1>5 DEF TypeOK, Broker, PartnerService, Restaurant
<1>7. TopicsAreStored'
  BY <1>3 DEF TopicsAreStored, Broker, PartnerService
<1>8. \A o \in Orders : status'[o] = status[o] \/ (o = e.order /\ status'[o] = e.status)
  BY <1>1, <1>2 DEF TypeOK
<1>9. KnownInOrder'
  <2>1. \A o \in outbox : status'[o] # "none"
    BY <1>1, <1>8 DEF KnownInOrder, TypeOK, Decisions
  <2> QED
    BY <1>3, <2>1 DEF KnownInOrder, PartnerService, Restaurant
<1>10. OneDecision'
  BY <1>1, <1>3, <1>8 DEF OneDecision, PartnerService
<1> QED
  BY <1>6, <1>7, <1>9, <1>10

LEMMA ReceiveInv ==
    ASSUME FlowInv, NEW p \in Partitions, NEW o \in Orders, ReceiveOrder(p, o)
    PROVE  FlowInv'
<1> USE DEF FlowInv
<1>1. PICK i \in 1..Len(created[p]) : created[p][i] = o
  <2>1. \E i \in 1..Len(Log("created", p)) : Log("created", p)[i] = o
    BY HeadIsInLog DEF ReceiveOrder, Topics
  <2> QED
    BY <2>1 DEF Log
<1>2. o \in outbox
  BY <1>1 DEF TopicsAreStored
<1>3. \/ UNCHANGED submission
      \/ submission[o] = "absent" /\ submission' = [submission EXCEPT ![o] = "pending"]
  BY DEF ReceiveOrder
<1>4. UNCHANGED <<OrderService, Broker, committed, mapped, events, Restaurant, faults>>
  BY DEF ReceiveOrder
<1>5. next' \in [Topics \X Partitions -> Nat]
  BY PassedType DEF ReceiveOrder, Topics
<1>6. submission' \in [Orders -> {"absent", "pending", "submitted", "failed"} \cup Decisions]
  BY <1>3 DEF TypeOK
<1>7. TypeOK'
  BY <1>4, <1>5, <1>6 DEF TypeOK, OrderService, Broker, Restaurant
<1>8. TopicsAreStored'
  BY <1>4 DEF TopicsAreStored, OrderService, Broker
<1>9. \A q \in Orders : \/ submission'[q] = submission[q]
                        \/ q = o /\ submission[q] = "absent" /\ submission'[q] = "pending"
  BY <1>3 DEF TypeOK
<1>10. KnownInOrder'
  BY <1>2, <1>4, <1>9 DEF KnownInOrder, TypeOK, OrderService, Restaurant
<1>11. OneDecision'
  <2>1. ASSUME NEW m \in events PROVE submission'[m.order] = m.status
    BY <1>9, DecisionTypes DEF OneDecision, KnownInOrder, TypeOK
  <2>2. ASSUME NEW q \in Orders, status[q] \in Decisions PROVE submission'[q] = status[q]
    BY <1>9, <2>2 DEF OneDecision, Decisions
  <2> QED
    BY <1>4, <2>1, <2>2 DEF OneDecision, OrderService
<1> QED
  BY <1>7, <1>8, <1>10, <1>11

LEMMA SendInv ==
    ASSUME FlowInv, NEW o \in Orders, Send(o)
    PROVE  FlowInv'
<1> USE DEF FlowInv
<1>1. /\ submission[o] # "absent"
      /\ reached' = reached \cup {o}
      /\ UNCHANGED <<OrderService, Broker, Consumers, PartnerService, life, wire>>
      /\ faults' \in 0..MaxFaults
  BY FaultType DEF Send, TypeOK
<1>2. restaurant' = [restaurant EXCEPT
                        ![o] = IF restaurant[o] = "unknown" THEN "asked" ELSE restaurant[o]]
  BY DEF Send
<1>3. restaurant' \in [Orders -> {"unknown", "asked"} \cup Decisions]
  BY <1>2 DEF TypeOK
<1>4. TypeOK'
  BY <1>1, <1>3 DEF TypeOK, OrderService, Broker, Consumers, PartnerService
<1>5. TopicsAreStored'
  BY <1>1 DEF TopicsAreStored, OrderService, Broker, PartnerService
<1>6. \A q \in Orders : q # o => restaurant'[q] = restaurant[q]
  BY <1>2 DEF TypeOK
<1>7. KnownInOrder'
  BY <1>1, <1>6 DEF KnownInOrder, OrderService, PartnerService
<1>8. OneDecision'
  BY <1>1 DEF OneDecision, OrderService, PartnerService
<1> QED
  BY <1>4, <1>5, <1>7, <1>8

LEMMA SettleInv ==
    ASSUME FlowInv, NEW o \in Orders, Settle(o)
    PROVE  FlowInv'
<1> USE DEF FlowInv
<1>1. /\ submission[o] = "pending"
      /\ UNCHANGED <<OrderService, Broker, Consumers, mapped, events, Restaurant, faults>>
  BY DEF Settle
<1>2. PICK s \in {"submitted", "failed"} : submission' = [submission EXCEPT ![o] = s]
  BY DEF Settle
<1>3. submission' \in [Orders -> {"absent", "pending", "submitted", "failed"} \cup Decisions]
  BY <1>2 DEF TypeOK
<1>4. TypeOK'
  BY <1>1, <1>3 DEF TypeOK, OrderService, Broker, Consumers, Restaurant
<1>5. TopicsAreStored'
  BY <1>1 DEF TopicsAreStored, OrderService, Broker
<1>6. \A q \in Orders : submission'[q] = IF q = o THEN s ELSE submission[q]
  BY <1>2 DEF TypeOK
<1>7. KnownInOrder'
  BY <1>1, <1>6 DEF KnownInOrder, TypeOK, OrderService, Restaurant
<1>8. OneDecision'
  <2>1. ASSUME NEW m \in events PROVE submission'[m.order] = m.status
    <3>1. m.order \in Orders /\ m.status \in Decisions
      BY DecisionTypes DEF TypeOK
    <3>2. submission[m.order] = m.status
      BY DEF OneDecision
    <3>3. m.order # o
      BY <1>1, <3>1, <3>2 DEF Decisions
    <3> QED
      BY <1>6, <3>1, <3>2, <3>3
  <2>2. ASSUME NEW q \in Orders, status[q] \in Decisions PROVE submission'[q] = status[q]
    BY <1>1, <1>6, <2>2 DEF OneDecision, Decisions
  <2> QED
    BY <1>1, <2>1, <2>2 DEF OneDecision, OrderService
<1> QED
  BY <1>4, <1>5, <1>7, <1>8

\* A callback only ever adds the decision that stands.
LEMMA CallbackInv ==
    ASSUME FlowInv, NEW m \in wire, StatusCallback(m)
    PROVE  FlowInv'
<1> USE DEF FlowInv
<1>0. m \in Callbacks /\ m.order \in Orders /\ m.status \in Decisions
  BY DecisionTypes DEF TypeOK
<1>1. /\ wire' = wire \ {m}
      /\ UNCHANGED <<OrderService, Broker, Consumers, mapped, reached, restaurant, life, faults>>
  BY DEF StatusCallback
<1>2. \/ UNCHANGED <<events, submission>>
      \/ /\ submission[m.order] \notin Decisions \ {m.status}
         /\ events' = events \cup {m}
         /\ submission' = [submission EXCEPT ![m.order] = m.status]
  BY DEF StatusCallback, Taken
<1>3. /\ submission' \in [Orders -> {"absent", "pending", "submitted", "failed"} \cup Decisions]
      /\ events' \subseteq Callbacks
  BY <1>0, <1>2 DEF TypeOK
<1>4. TypeOK'
  BY <1>1, <1>3 DEF TypeOK, OrderService, Broker, Consumers
<1>5. TopicsAreStored'
  <2>1. events \subseteq events'
    BY <1>2
  <2> QED
    BY <1>1, <2>1 DEF TopicsAreStored, OrderService, Broker
<1>6. m.order \in reached /\ submission[m.order] # "absent"
  BY DEF KnownInOrder
<1>7. \A q \in Orders : \/ submission'[q] = submission[q]
                        \/ /\ q = m.order
                           /\ submission'[q] = m.status
                           /\ submission[q] \notin Decisions \ {m.status}
  BY <1>0, <1>2 DEF TypeOK
<1>8. KnownInOrder'
  <2>1. \A q \in Orders : submission'[q] # "absent" => q \in outbox
    BY <1>6, <1>7 DEF KnownInOrder
  <2>2. \A q \in reached : submission'[q] # "absent"
    BY <1>0, <1>7 DEF KnownInOrder, TypeOK, Decisions
  <2>3. \A e \in events' : e.order \in reached
    BY <1>2, <1>6 DEF KnownInOrder
  <2> QED
    BY <1>1, <2>1, <2>2, <2>3 DEF KnownInOrder, OrderService
<1>9. OneDecision'
  <2>1. ASSUME NEW e \in events PROVE submission'[e.order] = e.status
    <3>1. e.order \in Orders /\ e.status \in Decisions
      BY DecisionTypes DEF TypeOK
    <3>2. submission[e.order] = e.status
      BY DEF OneDecision
    <3> QED
      BY <1>7, <3>1, <3>2
  <2>2. m \in events' => submission'[m.order] = m.status
    BY <1>0, <1>2, <2>1 DEF TypeOK
  <2>3. \A q \in Orders : status[q] \in Decisions => submission'[q] = status[q]
    BY <1>7 DEF OneDecision
  <2>4. events' \subseteq events \cup {m}
    BY <1>2
  <2> QED
    BY <1>1, <2>1, <2>2, <2>3, <2>4 DEF OneDecision, OrderService
<1> QED
  BY <1>4, <1>5, <1>8, <1>9

LEMMA RestaurantInv ==
    ASSUME FlowInv,
           \/ \E o \in Orders : Environment(o)
           \/ \E m \in wire : LoseCallback(m)
           \/ Restart
    PROVE  FlowInv'
<1> USE DEF FlowInv
<1>1. UNCHANGED <<status, outbox, inbox, created, decided, next, committed, submission, events,
                  reached>>
  BY DEF Environment, AddIntegration, Decide, LoseCallback, Restart, OrderService, Broker,
         Consumers, PartnerService, Restaurant
<1>2. mapped' \subseteq Orders
  BY DEF TypeOK, Environment, AddIntegration, Decide, LoseCallback, Restart, PartnerService
<1>3. faults' \in 0..MaxFaults
  BY FaultType DEF TypeOK, Environment, AddIntegration, Decide, LoseCallback, Restart
<1>4. life' \in Nat
  BY DEF TypeOK, Environment, AddIntegration, Decide, LoseCallback, Restart, Restaurant
<1>5. \A o \in Orders : \A d \in Decisions :
          Decide(o, d) => /\ restaurant' = [restaurant EXCEPT ![o] = d]
                          /\ wire' = wire \cup {[order |-> o, status |-> d, life |-> life]}
                          /\ o \in reached
                          /\ [order |-> o, status |-> d, life |-> life] \in Callbacks
  BY DEF Decide, KnownInOrder, Decisions, TypeOK, Callbacks
<1>6. \/ restaurant' = restaurant
      \/ restaurant' = [o \in Orders |-> "unknown"]
      \/ \E o \in reached, d \in Decisions : restaurant' = [restaurant EXCEPT ![o] = d]
  BY <1>5 DEF Environment, AddIntegration, LoseCallback, Restart, Restaurant
<1>7. \A m \in wire' : m \in wire \/ (m.order \in reached /\ m \in Callbacks)
  <2>1. \/ wire' \subseteq wire
        \/ \E o \in Orders, d \in Decisions : Decide(o, d)
    BY DEF Environment, AddIntegration, LoseCallback, Restart, Restaurant
  <2>2. ASSUME NEW o \in Orders, NEW d \in Decisions, Decide(o, d), NEW m \in wire'
        PROVE  m \in wire \/ (m.order \in reached /\ m \in Callbacks)
    <3>1. m \in wire \/ m = [order |-> o, status |-> d, life |-> life]
      BY <1>5, <2>2
    <3> QED
      BY <1>5, <2>2, <3>1
  <2> QED
    BY <2>1, <2>2
<1>8. restaurant' \in [Orders -> {"unknown", "asked"} \cup Decisions]
  BY <1>6 DEF TypeOK
<1>9. TypeOK'
  BY <1>1, <1>2, <1>3, <1>4, <1>7, <1>8 DEF TypeOK
<1>10. \A o \in Orders : restaurant'[o] # "unknown" => o \in reached
  BY <1>6 DEF TypeOK, KnownInOrder
<1>11. KnownInOrder'
  BY <1>1, <1>7, <1>10 DEF KnownInOrder
<1>12. TopicsAreStored' /\ OneDecision'
  BY <1>1 DEF TopicsAreStored, OneDecision
<1> QED
  BY <1>9, <1>11, <1>12

LEMMA ConsumerInv ==
    ASSUME FlowInv, ConsumerStep
    PROVE  FlowInv'
<1> USE DEF FlowInv
<1>1. PICK p \in Partitions, topic \in Topics : Commit(topic, p) \/ Reassign(topic, p)
  BY DEF ConsumerStep
<1>2. <<topic, p>> \in Topics \X Partitions
  OBVIOUS
<1>3. next[<<topic, p>>] \in Nat /\ committed[<<topic, p>>] \in Nat
  BY <1>2 DEF TypeOK
<1>4. next' \in [Topics \X Partitions -> Nat] /\ committed' \in [Topics \X Partitions -> Nat]
  BY <1>1, <1>3 DEF TypeOK, Commit, Reassign, Offset
<1>5. UNCHANGED <<OrderService, Broker, PartnerService, Restaurant>> /\ faults' \in 0..MaxFaults
  BY <1>1, FaultType DEF TypeOK, Commit, Reassign
<1>6. TypeOK'
  BY <1>4, <1>5 DEF TypeOK, OrderService, Broker, PartnerService, Restaurant
<1>7. TopicsAreStored' /\ KnownInOrder' /\ OneDecision'
  BY <1>5 DEF TopicsAreStored, KnownInOrder, OneDecision, OrderService, Broker, PartnerService,
              Restaurant
<1> QED
  BY <1>6, <1>7

LEMMA StutterInv == ASSUME FlowInv, UNCHANGED vars PROVE FlowInv'
<1>1. UNCHANGED <<status, outbox, created, submission, mapped, reached, restaurant, life, wire>>
  BY DEF vars
<1>2. UNCHANGED <<events, decided, inbox, next, committed, faults>>
  BY DEF vars
<1> QED
  BY <1>1, <1>2 DEF FlowInv, TypeOK, TopicsAreStored, KnownInOrder, OneDecision

\* Every step is one of those.
LEMMA StepCases ==
    ASSUME Next
    PROVE  \/ \E o \in Orders : CreateOrder(o) \/ PublishCreated(o) \/ Send(o) \/ Settle(o)
           \/ \E m \in wire : StatusCallback(m)
           \/ \E e \in events : PublishDecided(e)
           \/ \E p \in Partitions : \/ \E o \in Orders : ReceiveOrder(p, o)
                                    \/ \E e \in events : ApplyPartnerEvent(p, e)
           \/ ConsumerStep
           \/ \E o \in Orders : Environment(o)
           \/ \E m \in wire : LoseCallback(m)
           \/ Restart
BY DEF Next, ConsumerStep, Environment

LEMMA NextInv == ASSUME FlowInv, [Next]_vars PROVE FlowInv'
<1>1. CASE UNCHANGED vars
  BY <1>1, StutterInv
<1>2. CASE Next
  <2>1. CASE \E o \in Orders : CreateOrder(o) \/ PublishCreated(o) \/ Send(o) \/ Settle(o)
    BY <2>1, CreateInv, PublishCreatedInv, SendInv, SettleInv
  <2>2. CASE \E m \in wire : StatusCallback(m)
    BY <2>2, CallbackInv
  <2>3. CASE \E e \in events : PublishDecided(e)
    BY <2>3, PublishDecidedInv
  <2>4. CASE \E p \in Partitions : \/ \E o \in Orders : ReceiveOrder(p, o)
                                   \/ \E e \in events : ApplyPartnerEvent(p, e)
    BY <2>4, ReceiveInv, ApplyInv
  <2>5. CASE ConsumerStep
    BY <2>5, ConsumerInv
  <2>6. CASE \/ \E o \in Orders : Environment(o)
             \/ \E m \in wire : LoseCallback(m)
             \/ Restart
    BY <2>6, RestaurantInv
  <2> QED
    BY <1>2, <2>1, <2>2, <2>3, <2>4, <2>5, <2>6, StepCases
<1> QED
  BY <1>1, <1>2

-----------------------------------------------------------------------------
(* Theorems *)

\* The invariant of the whole flow: what is in a topic was stored, the services
\* learn of an order one after the other, every event tells the decision that
\* stands.
THEOREM FlowInvariant == Spec => []FlowInv
<1>1. Init => FlowInv
  BY InitInv
<1>2. FlowInv /\ [Next]_vars => FlowInv'
  BY NextInv
<1> QED
  BY <1>1, <1>2, PTL DEF Spec

\* Every reachable state of the flow is well typed.
THEOREM TypeCorrect == Spec => []TypeOK
<1>1. FlowInv => TypeOK
  BY DEF FlowInv
<1> QED
  BY <1>1, FlowInvariant, PTL

\* ApplyPartnerEvent never meets an event it must refuse for ever.
THEOREM NoDecisionEverBlocks == Spec => []NoDecisionBlocks
<1>1. ASSUME FlowInv PROVE NoDecisionBlocks
  <2>1. ASSUME NEW p \in Partitions, NEW i \in DOMAIN decided[p]
        PROVE  status[decided[p][i].order] \in {"pending", decided[p][i].status}
    <3> DEFINE m == decided[p][i]
    <3>0. decided[p] \in Seq(Callbacks)
      BY <1>1 DEF FlowInv, TypeOK
    <3>1. i \in 1..Len(decided[p])
      BY <2>1, <3>0
    <3>2. m \in events
      BY <1>1, <3>1 DEF FlowInv, TopicsAreStored
    <3>3. m.order \in Orders /\ m.status \in Decisions
      BY <1>1, <3>2, DecisionTypes DEF FlowInv, TypeOK
    <3>4. submission[m.order] = m.status
      BY <1>1, <3>2 DEF FlowInv, OneDecision
    <3>5. status[m.order] # "none"
      BY <1>1, <3>3, <3>4 DEF FlowInv, KnownInOrder, Decisions
    <3>6. status[m.order] \in {"none", "pending"} \cup Decisions
      BY <1>1, <3>3 DEF FlowInv, TypeOK
    <3>7. status[m.order] \in Decisions => status[m.order] = m.status
      BY <1>1, <3>3, <3>4 DEF FlowInv, OneDecision
    <3> QED
      BY <3>5, <3>6, <3>7
  <2> QED
    BY <2>1 DEF NoDecisionBlocks
<1> QED
  BY <1>1, FlowInvariant, PTL

-----------------------------------------------------------------------------
(* The flow implements the promise *)

LEMMA DecisionUnchanged == ASSUME UNCHANGED submission PROVE UNCHANGED Decision
BY DEF Decision

LEMMA DecisionStays ==
    ASSUME FlowInv, NEW o \in Orders, NEW s \in {"pending", "submitted", "failed"},
           submission[o] \notin Decisions, submission' = [submission EXCEPT ![o] = s]
    PROVE  UNCHANGED Decision
<1>1. \A q \in Orders : submission'[q] = IF q = o THEN s ELSE submission[q]
  BY DEF FlowInv, TypeOK
<1>2. s \notin Decisions
  BY DEF Decisions
<1>3. \A q \in Orders : (IF submission'[q] \in Decisions THEN submission'[q] ELSE "none")
                      = (IF submission[q] \in Decisions THEN submission[q] ELSE "none")
  BY <1>1, <1>2
<1> QED
  BY <1>3 DEF Decision

\* A callback that is taken is the decision of its order, or repeats it.
LEMMA TakenRefines ==
    ASSUME FlowInv, NEW m \in wire, StatusCallback(m)
    PROVE  Promise!PromiseNext \/ UNCHANGED <<status, Decision>>
<1>0. m.order \in Orders /\ m.status \in Decisions
  BY DecisionTypes DEF FlowInv, TypeOK
<1>1. status' = status
  BY DEF StatusCallback, OrderService
<1>2. CASE UNCHANGED submission
  BY <1>1, <1>2, DecisionUnchanged
<1>3. CASE /\ submission[m.order] \notin Decisions \ {m.status}
           /\ submission' = [submission EXCEPT ![m.order] = m.status]
  <2>1. \A q \in Orders : submission'[q] = IF q = m.order THEN m.status ELSE submission[q]
    BY <1>3 DEF FlowInv, TypeOK
  <2>2. CASE submission[m.order] = m.status
    <3>1. \A q \in Orders : submission'[q] = submission[q]
      BY <2>1, <2>2
    <3>2. UNCHANGED Decision
      BY <3>1 DEF Decision
    <3> QED
      BY <1>1, <3>2
  <2>3. CASE submission[m.order] \notin Decisions
    <3>1. Decision[m.order] = "none"
      BY <1>0, <2>3 DEF Decision
    <3>2. status[m.order] = "pending"
      <4>1. status[m.order] \notin Decisions
        BY <1>0, <2>3 DEF FlowInv, OneDecision
      <4>2. m.order \in outbox
        BY <1>0 DEF FlowInv, KnownInOrder
      <4>3. status[m.order] # "none"
        BY <4>2 DEF FlowInv, KnownInOrder
      <4> QED
        BY <1>0, <4>1, <4>3 DEF FlowInv, TypeOK
    <3>3. Decision' = [Decision EXCEPT ![m.order] = m.status]
      BY <1>0, <2>1 DEF Decision
    <3>4. Promise!Take(m.order, m.status)
      BY <1>1, <3>1, <3>2, <3>3 DEF Promise!Take
    <3>5. m.status \in Promise!Decisions
      BY <1>0 DEF Decisions, Promise!Decisions
    <3> QED
      BY <1>0, <3>4, <3>5 DEF Promise!PromiseNext
  <2> QED
    BY <1>3, <2>2, <2>3
<1> QED
  BY <1>2, <1>3 DEF StatusCallback, Taken

\* Applying an event shows the user the decision that stands.
LEMMA ShownRefines ==
    ASSUME FlowInv, NEW p \in Partitions, NEW e \in events, ApplyPartnerEvent(p, e)
    PROVE  Promise!PromiseNext \/ UNCHANGED <<status, Decision>>
<1>0. e.order \in Orders /\ e.status \in Decisions
  BY DecisionTypes DEF FlowInv, TypeOK
<1>1. UNCHANGED Decision
  BY DecisionUnchanged DEF ApplyPartnerEvent, PartnerService
<1>2. CASE UNCHANGED status
  BY <1>1, <1>2
<1>3. CASE /\ status[e.order] \in {"pending", e.status}
           /\ status' = [status EXCEPT ![e.order] = e.status]
  <2>1. CASE status[e.order] = e.status
    <3>1. UNCHANGED status
      BY <1>3, <2>1 DEF FlowInv, TypeOK
    <3> QED
      BY <1>1, <3>1
  <2>2. CASE status[e.order] = "pending"
    <3>1. Decision[e.order] = e.status
      BY <1>0 DEF FlowInv, OneDecision, Decision
    <3>2. e.status \in Promise!Decisions
      BY <1>0 DEF Decisions, Promise!Decisions
    <3>3. Promise!Show(e.order)
      BY <1>1, <1>3, <2>2, <3>1, <3>2 DEF Promise!Show
    <3> QED
      BY <1>0, <3>3 DEF Promise!PromiseNext
  <2> QED
    BY <1>3, <2>1, <2>2
<1> QED
  BY <1>2, <1>3 DEF ApplyPartnerEvent

LEMMA StepRefines ==
    ASSUME FlowInv, Next
    PROVE  Promise!PromiseNext \/ UNCHANGED <<status, Decision>>
<1>1. ASSUME NEW o \in Orders, CreateOrder(o)
      PROVE  Promise!PromiseNext
  <2>1. UNCHANGED Decision
    BY <1>1, DecisionUnchanged DEF CreateOrder, PartnerService
  <2>2. Promise!Place(o)
    BY <1>1, <2>1 DEF CreateOrder, Stored, Promise!Place
  <2> QED
    BY <2>2 DEF Promise!PromiseNext
<1>2. ASSUME NEW o \in Orders, Settle(o)
      PROVE  UNCHANGED <<status, Decision>>
  <2>1. submission[o] \notin Decisions /\ UNCHANGED status
    BY <1>2 DEF Settle, Decisions, OrderService
  <2>2. PICK s \in {"submitted", "failed"} : submission' = [submission EXCEPT ![o] = s]
    BY <1>2 DEF Settle
  <2> QED
    BY <2>1, <2>2, DecisionStays
<1>3. ASSUME NEW p \in Partitions, NEW o \in Orders, ReceiveOrder(p, o)
      PROVE  UNCHANGED <<status, Decision>>
  <2>1. UNCHANGED status
    BY <1>3 DEF ReceiveOrder, OrderService
  <2>2. CASE UNCHANGED submission
    BY <2>1, <2>2, DecisionUnchanged
  <2>3. CASE submission[o] = "absent" /\ submission' = [submission EXCEPT ![o] = "pending"]
    BY <2>1, <2>3, DecisionStays DEF Decisions
  <2> QED
    BY <1>3, <2>2, <2>3 DEF ReceiveOrder
<1>4. ASSUME NEW o \in Orders, PublishCreated(o) \/ Send(o)
      PROVE  UNCHANGED <<status, submission>>
  BY <1>4 DEF PublishCreated, Send, OrderService, PartnerService
<1>5. ASSUME NEW e \in events, PublishDecided(e)
      PROVE  UNCHANGED <<status, submission>>
  BY <1>5 DEF PublishDecided, OrderService, PartnerService
<1>6. ASSUME ConsumerStep PROVE UNCHANGED <<status, submission>>
  BY <1>6 DEF ConsumerStep, Commit, Reassign, OrderService, PartnerService
<1>7. ASSUME \/ \E o \in Orders : Environment(o)
             \/ \E m \in wire : LoseCallback(m)
             \/ Restart
      PROVE  UNCHANGED <<status, submission>>
  BY <1>7 DEF Environment, AddIntegration, Decide, LoseCallback, Restart, OrderService,
              PartnerService
<1>8. CASE UNCHANGED <<status, submission>>
  BY <1>8, DecisionUnchanged
<1> QED
  BY <1>1, <1>2, <1>3, <1>4, <1>5, <1>6, <1>7, <1>8, StepCases, TakenRefines, ShownRefines

\* Across both services, an order is placed, at most one decision is taken for
\* it, and only that decision is shown.
THEOREM FlowImplementsPromise == Spec => PromiseSpec
<1>1. Init => Promise!PromiseInit
  BY DEF Init, Promise!PromiseInit, Decision, Decisions
<1>2. FlowInv /\ [Next]_vars => [Promise!PromiseNext]_<<status, Decision>>
  <2>1. ASSUME FlowInv, Next PROVE [Promise!PromiseNext]_<<status, Decision>>
    BY <2>1, StepRefines
  <2>2. ASSUME UNCHANGED vars PROVE UNCHANGED <<status, Decision>>
    BY <2>2, DecisionUnchanged DEF vars
  <2> QED
    BY <2>1, <2>2
<1>3. <<status, Decision>> = Promise!promiseVars
  BY DEF Promise!promiseVars
<1> QED
  BY <1>1, <1>2, <1>3, FlowInvariant, PTL
     DEF Spec, PromiseSpec, Promise!PromiseSpec, Promise!promiseVars
-----------------------------------------------------------------------------
(* The flow takes no more of its parts than they promise *)

\* An order as order-service stores it; one that is not stored yet is as good as
\* one without events.
Shows(s) == IF s \in Decisions THEN [status |-> s, version |-> 2]
                               ELSE [status |-> "pending", version |-> 1]

OrderRow == [o \in Orders |-> Shows(status[o])]

Status == INSTANCE StatusPromise
    WITH Events <- Callbacks, order <- OrderRow,
         EventOrder <- [m \in Callbacks |-> m.order],
         EventStatus <- [m \in Callbacks |-> m.status]

\* How often a log holds a record.
Places(log, x) == {i \in 1..Len(log) : log[i] = x}

Copies(log, x) == Cardinality(Places(log, x))

CreatedCopies == [o \in Orders |-> Copies(created[PartitionOf[o]], o)]

DecidedCopies == [m \in Callbacks |-> Copies(decided[PartitionOf[m.order]], m)]

\* The two outboxes.  That a row is settled is nothing the flow can tell.
CreatedOutbox == INSTANCE OutboxPromise
    WITH Events <- Orders, Poison <- {}, stored <- outbox, copies <- CreatedCopies, settled <- {}

DecidedOutbox == INSTANCE OutboxPromise
    WITH Events <- Callbacks, Poison <- {}, stored <- events, copies <- DecidedCopies,
         settled <- {}

\* An event is applied, to the order as it is then, or changes nothing.
LEMMA ApplyIsPromised ==
    ASSUME FlowInv, NEW p \in Partitions, NEW e \in events, ApplyPartnerEvent(p, e)
    PROVE  Status!PromiseNext \/ UNCHANGED <<OrderRow, inbox>>
<1>1. e \in Callbacks /\ e.order \in Orders /\ e.status \in Decisions
  BY DecisionTypes DEF FlowInv, TypeOK
<1>2. CASE UNCHANGED <<status, inbox>>
  BY <1>2 DEF OrderRow
<1>3. CASE /\ e \notin inbox /\ inbox' = inbox \cup {e}
           /\ status[e.order] \in {"pending", e.status}
           /\ status' = [status EXCEPT ![e.order] = e.status]
  <2> DEFINE o == e.order
             row == Shows(status[o])
  <2>1. \A q \in Orders : status'[q] = IF q = o THEN e.status ELSE status[q]
    BY <1>1, <1>3 DEF FlowInv, TypeOK
  <2>2. OrderRow' = [OrderRow EXCEPT ![o] = Shows(e.status)]
    BY <1>1, <2>1 DEF OrderRow
  <2>3. OrderRow[o] = row
    BY <1>1 DEF OrderRow
  <2>4. /\ Shows(e.status).status = e.status /\ Shows(e.status).version = 2
        /\ Shows(e.status) = [status |-> e.status, version |-> 2]
    BY <1>1 DEF Shows
  <2>5. CASE status[o] = e.status
    <3>1. row = Shows(e.status) /\ row.status = e.status
      BY <2>4, <2>5
    <3>2. ~Status!TransitionFails(row, e.status) /\ Status!Transition(row, e.status) = row
      BY <3>1 DEF Status!TransitionFails, Status!Transition
    <3>3. Status!Apply(e)
      BY <1>1, <1>3, <2>2, <2>3, <3>1, <3>2 DEF Status!Apply
    <3> QED
      BY <1>1, <3>3 DEF Status!PromiseNext
  <2>6. CASE status[o] = "pending"
    <3>1. row.status = "pending" /\ row.version = 1
      BY <2>6 DEF Shows, Decisions
    <3>2. e.status \in Status!Allowed["pending"] /\ e.status # "pending"
      BY <1>1 DEF Decisions, Status!Allowed, Status!Statuses
    <3>3. ~Status!TransitionFails(row, e.status)
      BY <3>1, <3>2 DEF Status!TransitionFails, Status!CanTransition
    <3>4. Status!Transition(row, e.status) = Shows(e.status)
      BY <2>4, <3>1, <3>2 DEF Status!Transition
    <3>5. Status!Apply(e)
      BY <1>1, <1>3, <2>2, <2>3, <3>3, <3>4 DEF Status!Apply
    <3> QED
      BY <1>1, <3>5 DEF Status!PromiseNext
  <2> QED
    BY <1>3, <2>5, <2>6
<1> QED
  BY <1>2, <1>3 DEF ApplyPartnerEvent

\* No other step of the flow touches what order-service shows of a stored order.
LEMMA OrdersStay ==
    ASSUME FlowInv, Next, ~ \E p \in Partitions : \E e \in events : ApplyPartnerEvent(p, e)
    PROVE  UNCHANGED <<OrderRow, inbox>>
<1>1. ASSUME NEW o \in Orders, CreateOrder(o)
      PROVE  UNCHANGED <<OrderRow, inbox>>
  <2>1. inbox' = inbox /\ \A q \in Orders : status'[q] = IF q = o THEN "pending" ELSE status[q]
    BY <1>1 DEF CreateOrder, Stored, FlowInv, TypeOK
  <2>2. status[o] = "none" /\ "none" \notin Decisions /\ "pending" \notin Decisions
    BY <1>1 DEF CreateOrder, Decisions
  <2>3. \A q \in Orders : Shows(status'[q]) = Shows(status[q])
    BY <2>1, <2>2 DEF Shows
  <2> QED
    BY <2>1, <2>3 DEF OrderRow
<1>2. CASE UNCHANGED <<status, inbox>>
  BY <1>2 DEF OrderRow
<1>3. ASSUME NEW o \in Orders, PublishCreated(o) \/ Send(o) \/ Settle(o) \/ Environment(o)
      PROVE  UNCHANGED <<status, inbox>>
  BY <1>3 DEF PublishCreated, Send, Settle, Environment, AddIntegration, Decide, OrderService
<1>4. ASSUME \/ \E m \in wire : StatusCallback(m) \/ LoseCallback(m)
             \/ \E e \in events : PublishDecided(e)
             \/ \E p \in Partitions : \E o \in Orders : ReceiveOrder(p, o)
             \/ Restart
      PROVE  UNCHANGED <<status, inbox>>
  BY <1>4 DEF StatusCallback, LoseCallback, PublishDecided, ReceiveOrder, Restart, OrderService
<1>5. ASSUME ConsumerStep PROVE UNCHANGED <<status, inbox>>
  BY <1>5 DEF ConsumerStep, Commit, Reassign, OrderService
<1> QED
  BY <1>1, <1>2, <1>3, <1>4, <1>5, StepCases

\* ApplyPartnerEvent of the flow is the step order-service promises: every event
\* is applied at most once, as the domain allows, and nothing else moves an order.
THEOREM FlowAppliesAsPromised == Spec => Status!PromiseSpec
<1>1. Init => Status!PromiseInit
  <2> SUFFICES ASSUME Init PROVE Status!PromiseInit
    OBVIOUS
  <2>1. Shows("none") = [status |-> "pending", version |-> 1]
    BY DEF Shows, Decisions
  <2> QED
    BY <2>1 DEF Init, Status!PromiseInit, Status!Created, OrderRow
<1>2. FlowInv /\ [Next]_vars => [Status!PromiseNext]_<<OrderRow, inbox>>
  <2>1. ASSUME FlowInv, Next PROVE [Status!PromiseNext]_<<OrderRow, inbox>>
    BY <2>1, ApplyIsPromised, OrdersStay
  <2>2. ASSUME UNCHANGED vars PROVE UNCHANGED <<OrderRow, inbox>>
    BY <2>2 DEF vars, OrderRow
  <2> QED
    BY <2>1, <2>2
<1>3. <<OrderRow, inbox>> = Status!promiseVars
  BY DEF Status!promiseVars
<1> QED
  BY <1>1, <1>2, <1>3, FlowInvariant, PTL DEF Spec, Status!PromiseSpec, Status!promiseVars

LEMMA NoPlaces == \A x : Places(<<>>, x) = {}
BY DEF Places

LEMMA PlacesFinite ==
    ASSUME NEW S, NEW s \in Seq(S), NEW x
    PROVE  IsFiniteSet(Places(s, x)) /\ Copies(s, x) \in Nat
<1>1. 1 \in Int /\ Len(s) \in Int
  BY LenProperties
<1>2. IsFiniteSet(1..Len(s))
  BY <1>1, FS_Interval
<1>3. IsFiniteSet(Places(s, x))
  BY <1>2, FS_Subset DEF Places
<1> QED
  BY <1>3, FS_CardinalityType DEF Copies

\* A record more is a copy more, of that event only.
LEMMA CopiesAppend ==
    ASSUME NEW S, NEW s \in Seq(S), NEW x \in S
    PROVE  /\ Copies(Append(s, x), x) = Copies(s, x) + 1
           /\ \A y \in S \ {x} : Copies(Append(s, x), y) = Copies(s, y)
<1>1. /\ Len(Append(s, x)) = Len(s) + 1 /\ Len(s) \in Nat
      /\ \A i \in 1..Len(s) : Append(s, x)[i] = s[i]
      /\ Append(s, x)[Len(s) + 1] = x
  BY AppendProperties, LenProperties
<1> DEFINE t == Append(s, x)
           n == Len(s)
<1> HIDE DEF t, n
<1>2. \A i \in 1..(n + 1) : i \in 1..n \/ i = n + 1
  BY <1>1 DEF n
<1>3. n + 1 \notin 1..n /\ n + 1 \in 1..(n + 1) /\ 1..n \subseteq 1..(n + 1)
  BY <1>1 DEF n
<1>4. Len(t) = n + 1 /\ t[n + 1] = x /\ \A i \in 1..n : t[i] = s[i]
  BY <1>1 DEF t, n
<1>5. Places(t, x) = Places(s, x) \cup {n + 1} /\ n + 1 \notin Places(s, x)
  BY <1>2, <1>3, <1>4 DEF Places, n
<1>6. \A y \in S \ {x} : Places(t, y) = Places(s, y)
  BY <1>2, <1>3, <1>4 DEF Places, n
<1>7. IsFiniteSet(Places(s, x))
  BY PlacesFinite
<1>8. Copies(t, x) = Copies(s, x) + 1
  BY <1>5, <1>7, FS_AddElement DEF Copies
<1> QED
  BY <1>6, <1>8 DEF Copies, t

LEMMA CopiesTypes ==
    /\ \A C \in [Partitions -> Seq(Orders)] :
          [o \in Orders |-> Copies(C[PartitionOf[o]], o)] \in [Orders -> Nat]
    /\ \A D \in [Partitions -> Seq(Callbacks)] :
          [m \in Callbacks |-> Copies(D[PartitionOf[m.order]], m)] \in [Callbacks -> Nat]
<1>1. ASSUME NEW C \in [Partitions -> Seq(Orders)], NEW o \in Orders
      PROVE  Copies(C[PartitionOf[o]], o) \in Nat
  <2>1. C[PartitionOf[o]] \in Seq(Orders)
    BY FlowAssumption
  <2> QED
    BY <2>1, PlacesFinite
<1>2. ASSUME NEW D \in [Partitions -> Seq(Callbacks)], NEW m \in Callbacks
      PROVE  Copies(D[PartitionOf[m.order]], m) \in Nat
  <2>1. D[PartitionOf[m.order]] \in Seq(Callbacks)
    BY FlowAssumption, DecisionTypes
  <2> QED
    BY <2>1, PlacesFinite
<1> QED
  BY <1>1, <1>2

LEMMA CreatedIsPromised ==
    ASSUME FlowInv, TypeOK', NEW o \in Orders, PublishCreated(o)
    PROVE  CreatedOutbox!Append(o)
<1> DEFINE q == PartitionOf[o]
<1>1. q \in Partitions /\ created \in [Partitions -> Seq(Orders)] /\ created[q] \in Seq(Orders)
  BY FlowAssumption DEF FlowInv, TypeOK
<1>2. o \in outbox /\ UNCHANGED outbox /\ created' = [created EXCEPT ![q] = Append(created[q], o)]
  BY DEF PublishCreated, OrderService
<1>3. CreatedCopies' \in [Orders -> Nat] /\ CreatedCopies \in [Orders -> Nat]
  <2>1. created \in [Partitions -> Seq(Orders)] /\ created' \in [Partitions -> Seq(Orders)]
    BY DEF FlowInv, TypeOK
  <2> QED
    BY <2>1, CopiesTypes DEF CreatedCopies
<1> HIDE DEF q
<1>4. created'[q] = Append(created[q], o) /\ \A r \in Partitions \ {q} : created'[r] = created[r]
  BY <1>1, <1>2
<1>5. /\ Copies(created'[q], o) = Copies(created[q], o) + 1
      /\ \A f \in Orders \ {o} : Copies(created'[q], f) = Copies(created[q], f)
  BY <1>1, <1>4, CopiesAppend
<1>6. CreatedCopies'[o] = CreatedCopies[o] + 1
  BY <1>5 DEF CreatedCopies, q
<1>7. ASSUME NEW f \in Orders \ {o}
      PROVE  CreatedCopies'[f] = CreatedCopies[f]
  <2>1. CASE PartitionOf[f] = q
    BY <1>5, <2>1 DEF CreatedCopies
  <2>2. CASE PartitionOf[f] # q
    BY <1>4, <2>2, FlowAssumption DEF CreatedCopies
  <2> QED
    BY <2>1, <2>2
<1>8. CreatedCopies'[o] > CreatedCopies[o]
  BY <1>3, <1>6
<1> QED
  BY <1>2, <1>3, <1>7, <1>8 DEF CreatedOutbox!Append

LEMMA DecidedIsPromised ==
    ASSUME FlowInv, TypeOK', NEW e \in events, PublishDecided(e)
    PROVE  DecidedOutbox!Append(e)
<1> DEFINE q == PartitionOf[e.order]
<1>0. e \in Callbacks /\ e.order \in Orders
  BY DecisionTypes DEF FlowInv, TypeOK
<1>1. /\ q \in Partitions /\ decided \in [Partitions -> Seq(Callbacks)]
      /\ decided[q] \in Seq(Callbacks)
  BY <1>0, FlowAssumption DEF FlowInv, TypeOK
<1>2. UNCHANGED events /\ decided' = [decided EXCEPT ![q] = Append(decided[q], e)]
  BY DEF PublishDecided, PartnerService
<1>3. DecidedCopies' \in [Callbacks -> Nat] /\ DecidedCopies \in [Callbacks -> Nat]
  <2>1. decided \in [Partitions -> Seq(Callbacks)] /\ decided' \in [Partitions -> Seq(Callbacks)]
    BY DEF FlowInv, TypeOK
  <2> QED
    BY <2>1, CopiesTypes DEF DecidedCopies
<1> HIDE DEF q
<1>4. decided'[q] = Append(decided[q], e) /\ \A r \in Partitions \ {q} : decided'[r] = decided[r]
  BY <1>1, <1>2
<1>5. /\ Copies(decided'[q], e) = Copies(decided[q], e) + 1
      /\ \A f \in Callbacks \ {e} : Copies(decided'[q], f) = Copies(decided[q], f)
  BY <1>0, <1>1, <1>4, CopiesAppend
<1>6. DecidedCopies'[e] = DecidedCopies[e] + 1
  BY <1>0, <1>5 DEF DecidedCopies, q
<1>7. ASSUME NEW f \in Callbacks \ {e}
      PROVE  DecidedCopies'[f] = DecidedCopies[f]
  <2>1. CASE PartitionOf[f.order] = q
    BY <1>5, <2>1 DEF DecidedCopies
  <2>2. CASE PartitionOf[f.order] # q
    BY <1>4, <2>2, FlowAssumption, DecisionTypes DEF DecidedCopies
  <2> QED
    BY <2>1, <2>2
<1>8. DecidedCopies'[e] > DecidedCopies[e]
  BY <1>0, <1>3, <1>6
<1> QED
  BY <1>0, <1>2, <1>3, <1>7, <1>8 DEF DecidedOutbox!Append

LEMMA CreatedStored ==
    ASSUME NEW o \in Orders, CreateOrder(o)
    PROVE  CreatedOutbox!Store(o)
<1>1. o \notin outbox /\ outbox' = outbox \cup {o} /\ UNCHANGED created
  BY DEF CreateOrder, Stored, Broker
<1> QED
  BY <1>1 DEF CreatedOutbox!Store, CreatedCopies

\* A callback that is taken stores its event, in the transaction of the decision.
LEMMA DecidedStored ==
    ASSUME FlowInv, NEW m \in wire, StatusCallback(m)
    PROVE  DecidedOutbox!Store(m) \/ UNCHANGED <<events, DecidedCopies>>
<1>1. UNCHANGED decided
  BY DEF StatusCallback, Broker
<1>2. UNCHANGED DecidedCopies
  BY <1>1 DEF DecidedCopies
<1> QED
  BY <1>2 DEF StatusCallback, Taken, DecidedOutbox!Store

\* All other steps leave both outboxes and both topics alone.
LEMMA OutboxesStay ==
    ASSUME Next
    PROVE  /\ (\E o \in Orders : CreateOrder(o) \/ PublishCreated(o)) \/ UNCHANGED <<outbox, created>>
           /\ \/ \E m \in wire : StatusCallback(m)
              \/ \E e \in events : PublishDecided(e)
              \/ UNCHANGED <<events, decided>>
<1>1. ASSUME NEW o \in Orders, CreateOrder(o) \/ PublishCreated(o)
      PROVE  UNCHANGED <<events, decided>>
  BY <1>1 DEF CreateOrder, PublishCreated, Broker, PartnerService
<1>2. ASSUME \/ \E m \in wire : StatusCallback(m)
             \/ \E e \in events : PublishDecided(e)
      PROVE  UNCHANGED <<outbox, created>>
  BY <1>2 DEF StatusCallback, PublishDecided, Broker, OrderService
<1>3. ASSUME NEW o \in Orders, Send(o) \/ Settle(o) \/ Environment(o)
      PROVE  UNCHANGED <<outbox, created, events, decided>>
  BY <1>3 DEF Send, Settle, Environment, AddIntegration, Decide, Broker, OrderService,
              PartnerService
<1>4. ASSUME \/ \E m \in wire : LoseCallback(m)
             \/ \E p \in Partitions : \/ \E o \in Orders : ReceiveOrder(p, o)
                                      \/ \E e \in events : ApplyPartnerEvent(p, e)
             \/ Restart
      PROVE  UNCHANGED <<outbox, created, events, decided>>
  BY <1>4 DEF LoseCallback, ReceiveOrder, ApplyPartnerEvent, Restart, Broker, OrderService,
              PartnerService
<1>5. ASSUME ConsumerStep
      PROVE  UNCHANGED <<outbox, created, events, decided>>
  BY <1>5 DEF ConsumerStep, Commit, Reassign, Broker, OrderService, PartnerService
<1> QED
  BY <1>1, <1>2, <1>3, <1>4, <1>5, StepCases

\* What is in the topic of OrderCreated was stored with its order first, and no
\* more is assumed of the relays than that (README.md:189).
THEOREM CreatedTopicAsPromised == Spec => CreatedOutbox!PromiseSpec
<1>1. Init => CreatedOutbox!PromiseInit
  <2> SUFFICES ASSUME Init PROVE CreatedOutbox!PromiseInit
    OBVIOUS
  <2>1. \A o \in Orders : Places(created[PartitionOf[o]], o) = {}
    BY NoPlaces, FlowAssumption DEF Init
  <2>2. CreatedCopies = [o \in Orders |-> 0]
    BY <2>1, FS_EmptySet DEF CreatedCopies, Copies
  <2> QED
    BY <2>2 DEF Init, CreatedOutbox!PromiseInit
<1>2. FlowInv /\ FlowInv' /\ [Next]_vars => [CreatedOutbox!PromiseNext]_<<outbox, CreatedCopies, {}>>
  <2>1. UNCHANGED <<outbox, created>> => UNCHANGED <<outbox, CreatedCopies, {}>>
    BY DEF CreatedCopies
  <2>2. ASSUME FlowInv, FlowInv', Next
        PROVE  CreatedOutbox!PromiseNext \/ UNCHANGED <<outbox, created>>
    BY <2>2, OutboxesStay, CreatedStored, CreatedIsPromised DEF CreatedOutbox!PromiseNext, FlowInv
  <2>3. UNCHANGED vars => UNCHANGED <<outbox, created>>
    BY DEF vars
  <2> QED
    BY <2>1, <2>2, <2>3
<1>3. <<outbox, CreatedCopies, {}>> = CreatedOutbox!promiseVars
  BY DEF CreatedOutbox!promiseVars
<1> QED
  BY <1>1, <1>2, <1>3, FlowInvariant, PTL
     DEF Spec, CreatedOutbox!PromiseSpec, CreatedOutbox!promiseVars

\* The same of the topic of decisions: an event in it was stored in the transaction
\* that took the callback.
THEOREM DecidedTopicAsPromised == Spec => DecidedOutbox!PromiseSpec
<1>1. Init => DecidedOutbox!PromiseInit
  <2> SUFFICES ASSUME Init PROVE DecidedOutbox!PromiseInit
    OBVIOUS
  <2>1. \A m \in Callbacks : Places(decided[PartitionOf[m.order]], m) = {}
    BY NoPlaces, FlowAssumption, DecisionTypes DEF Init
  <2>2. DecidedCopies = [m \in Callbacks |-> 0]
    BY <2>1, FS_EmptySet DEF DecidedCopies, Copies
  <2> QED
    BY <2>2 DEF Init, DecidedOutbox!PromiseInit
<1>2. FlowInv /\ FlowInv' /\ [Next]_vars => [DecidedOutbox!PromiseNext]_<<events, DecidedCopies, {}>>
  <2>1. UNCHANGED <<events, decided>> => UNCHANGED <<events, DecidedCopies, {}>>
    BY DEF DecidedCopies
  <2>2. ASSUME FlowInv, FlowInv', Next
        PROVE  DecidedOutbox!PromiseNext \/ UNCHANGED <<events, DecidedCopies, {}>>
    <3>1. wire \subseteq Callbacks /\ events \subseteq Callbacks
      BY <2>2 DEF FlowInv, TypeOK
    <3> QED
      BY <2>1, <2>2, <3>1, OutboxesStay, DecidedStored, DecidedIsPromised
         DEF DecidedOutbox!PromiseNext, FlowInv
  <2>3. UNCHANGED vars => UNCHANGED <<events, decided>>
    BY DEF vars
  <2> QED
    BY <2>1, <2>2, <2>3
<1>3. <<events, DecidedCopies, {}>> = DecidedOutbox!promiseVars
  BY DEF DecidedOutbox!promiseVars
<1> QED
  BY <1>1, <1>2, <1>3, FlowInvariant, PTL
     DEF Spec, DecidedOutbox!PromiseSpec, DecidedOutbox!promiseVars
==============================================================================
