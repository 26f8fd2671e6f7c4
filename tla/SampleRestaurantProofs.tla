------------------------- MODULE SampleRestaurantProofs -------------------------
(***************************************************************************)
(* Proofs about SampleRestaurant, for any number of orders, of concurrent  *)
(* operator requests and of restarts.                                      *)
(***************************************************************************)
EXTENDS SampleRestaurant, FiniteSetTheorems, TLAPS

-----------------------------------------------------------------------------
(* The inductive invariant *)

Payloads == [id : Nat \ {0}, order : Orders, status : Decisions, at : Nat]

RowPayload(row, o) == [id |-> row.callback, order |-> o, status |-> row.status, at |-> row.at]

DecidedOrders == {o \in Orders : orders[o].callback # 0}

\* Every callback somebody still knows of: on its way, stored, or remembered.
Made == {Payload(m) : m \in wire} \cup received \cup {RowPayload(orders[o], o) : o \in DecidedOrders}

MadeFor(o) == {p \in Made : p.order = o}

\* An order has a callback from the first decision on.
RowShape ==
    /\ clock > 0
    /\ \A o \in Orders :
          IF orders[o].callback = 0
          THEN orders[o].status \in {"absent", "pending"} /\ ~orders[o].acked
          ELSE orders[o].status \in Decisions /\ orders[o].callback < clock

\* A request that waits for an answer has sent a callback.
RequestShape == \A h \in Operators : op[h].pc # "idle" => op[h].msg \in Messages

\* An id never names two decisions, and is not used before its time.
IdIsOneDecision ==
    /\ \A p \in Made : p.id < clock
    /\ \A p, q \in Made : p.id = q.id => p = q

\* A submission shows what was stored of it.
StoredStands ==
    /\ \A r \in received : submission[r.order] = r.status
    /\ \A o \in Orders : submission[o] # "open" => \E r \in received : r.order = o

\* Who is told of a success is told of a stored callback.
ToldIsStored ==
    /\ \A h \in Operators : op[h].pc = "told" => Payload(op[h].msg) \in received
    /\ \A o \in Orders : orders[o].acked => RowPayload(orders[o], o) \in received

\* A restaurant that was never restarted remembers every callback there is.
AllRemembered ==
    restarts = 0 =>
        /\ conflicts = {}
        /\ \A p \in Made : orders[p.order].callback = p.id

\* An order is decided once in each life of the restaurant.
FewDecisions ==
    \A o \in Orders :
        /\ IsFiniteSet(MadeFor(o))
        /\ Cardinality(MadeFor(o)) <= restarts + (IF orders[o].callback = 0 THEN 0 ELSE 1)

RestaurantInv ==
    /\ TypeOK /\ RowShape /\ RequestShape /\ IdIsOneDecision
    /\ StoredStands /\ ToldIsStored /\ AllRemembered /\ FewDecisions

-----------------------------------------------------------------------------
(* Callbacks *)

LEMMA PayloadType ==
    ASSUME NEW m \in Messages
    PROVE  /\ Payload(m) \in Payloads
           /\ Payload(m).id = m.id /\ Payload(m).order = m.order /\ Payload(m).status = m.status
BY DEF Messages, Payload, Payloads

LEMMA RowPayloadType ==
    ASSUME NEW row \in StoredOrders, NEW o \in Orders,
           row.callback # 0, row.status \in Decisions
    PROVE  RowPayload(row, o) \in Payloads
BY DEF StoredOrders, RowPayload, Payloads

LEMMA RowPayloadFields ==
    ASSUME NEW row, NEW o
    PROVE  /\ RowPayload(row, o).id = row.callback
           /\ RowPayload(row, o).order = o
           /\ RowPayload(row, o).status = row.status
BY DEF RowPayload

LEMMA MadeType ==
    ASSUME TypeOK, RowShape
    PROVE  Made \subseteq Payloads
<1>1. ASSUME NEW m \in wire PROVE Payload(m) \in Payloads
  BY <1>1, PayloadType DEF TypeOK
<1>2. received \subseteq Payloads
  BY DEF TypeOK, Payloads
<1>3. ASSUME NEW o \in DecidedOrders PROVE RowPayload(orders[o], o) \in Payloads
  <2>1. orders[o] \in StoredOrders /\ orders[o].callback # 0 /\ orders[o].status \in Decisions
    BY DEF TypeOK, RowShape, DecidedOrders
  <2> QED
    BY <2>1, RowPayloadType DEF DecidedOrders
<1> QED
  BY <1>1, <1>2, <1>3 DEF Made

\* What a step that makes no callback leaves true.
LEMMA NothingMade ==
    ASSUME RestaurantInv, Made' \subseteq Made, clock' = clock,
           restarts' = restarts, conflicts' = conflicts,
           \A o \in Orders : orders'[o].callback = orders[o].callback
    PROVE  IdIsOneDecision' /\ AllRemembered' /\ FewDecisions'
<1>1. IdIsOneDecision'
  BY DEF RestaurantInv, IdIsOneDecision
<1>2. AllRemembered'
  <2>1. ASSUME NEW p \in Made PROVE p.order \in Orders
    BY <2>1, MadeType DEF RestaurantInv, Payloads
  <2> QED
    BY <2>1 DEF RestaurantInv, AllRemembered
<1>3. ASSUME NEW o \in Orders
      PROVE  /\ IsFiniteSet(MadeFor(o)')
             /\ Cardinality(MadeFor(o)') <= restarts' + (IF orders'[o].callback = 0 THEN 0 ELSE 1)
  <2>1. MadeFor(o)' \in SUBSET MadeFor(o)
    BY DEF MadeFor
  <2>2. /\ IsFiniteSet(MadeFor(o))
        /\ Cardinality(MadeFor(o)) <= restarts + (IF orders[o].callback = 0 THEN 0 ELSE 1)
        /\ restarts \in Nat
    BY DEF RestaurantInv, FewDecisions, TypeOK
  <2>3. IsFiniteSet(MadeFor(o)') /\ Cardinality(MadeFor(o)') <= Cardinality(MadeFor(o))
    BY <2>1, <2>2, FS_Subset
  <2>4. Cardinality(MadeFor(o)') \in Nat /\ Cardinality(MadeFor(o)) \in Nat
    BY <2>2, <2>3, FS_CardinalityType
  <2>5. orders'[o].callback = orders[o].callback
    OBVIOUS
  <2> QED
    BY <2>2, <2>3, <2>4, <2>5
<1>4. FewDecisions'
  BY <1>3 DEF FewDecisions
<1> QED
  BY <1>1, <1>2, <1>4

-----------------------------------------------------------------------------
(* The restaurant's steps *)

LEMMA ReceiveOrderInv ==
    ASSUME RestaurantInv, NEW o \in Orders, ReceiveOrder(o)
    PROVE  RestaurantInv'
<1> USE DEF RestaurantInv
<1>1. /\ orders[o] \in StoredOrders
      /\ orders[o].callback = 0 /\ ~orders[o].acked
      /\ orders' \in [Orders -> StoredOrders]
      /\ orders'[o] = [orders[o] EXCEPT !.status = "pending"]
      /\ \A q \in Orders \ {o} : orders'[q] = orders[q]
  BY DEF ReceiveOrder, TypeOK, RowShape, StoredOrders, Decisions
<1>2. /\ orders'[o].callback = 0 /\ orders'[o].status = "pending" /\ ~orders'[o].acked
      /\ \A q \in Orders : orders'[q].callback = orders[q].callback
  BY <1>1 DEF StoredOrders
<1>3. TypeOK'
  BY <1>1 DEF ReceiveOrder, TypeOK
<1>4. RowShape'
  BY <1>1, <1>2 DEF ReceiveOrder, RowShape
<1>5. Made' = Made
  <2>1. DecidedOrders' = DecidedOrders /\ o \notin DecidedOrders
    BY <1>1, <1>2 DEF DecidedOrders
  <2> QED
    BY <1>1, <2>1 DEF Made, ReceiveOrder, DecidedOrders
<1>6. IdIsOneDecision' /\ AllRemembered' /\ FewDecisions'
  BY <1>2, <1>5, NothingMade DEF ReceiveOrder
<1>7. StoredStands' /\ RequestShape'
  BY DEF ReceiveOrder, StoredStands, RequestShape
<1>8. ToldIsStored'
  BY <1>1, <1>2 DEF ReceiveOrder, ToldIsStored
<1> QED
  BY <1>3, <1>4, <1>6, <1>7, <1>8

LEMMA DecidedRow ==
    ASSUME RestaurantInv, NEW o \in Orders, NEW s \in Decisions, MaySend(o, s)
    PROVE  /\ Decided(o, s) \in StoredOrders
           /\ Decided(o, s).status \in Decisions
           /\ Decided(o, s).acked = orders[o].acked
           /\ IF orders[o].callback = 0 THEN Decided(o, s).callback = clock
              ELSE Decided(o, s) = orders[o]
<1>1. orders[o] \in StoredOrders /\ clock \in Nat \ {0}
  BY DEF RestaurantInv, TypeOK, RowShape
<1>2. CASE orders[o].callback = 0
  <2>1. orders[o].status = "pending"
    BY <1>2 DEF RestaurantInv, RowShape, MaySend, Decisions
  <2>2. Decided(o, s) = [orders[o] EXCEPT !.status = s, !.callback = clock, !.at = clock]
    BY <2>1 DEF Decided, NewId
  <2> QED
    BY <1>1, <1>2, <2>2 DEF StoredOrders
<1>3. CASE orders[o].callback # 0
  <2>1. orders[o].status \in Decisions
    BY <1>3 DEF RestaurantInv, RowShape
  <2>2. Decided(o, s) = orders[o]
    BY <2>1 DEF Decided, Decisions
  <2> QED
    BY <1>1, <1>3, <2>1, <2>2
<1> QED
  BY <1>2, <1>3

\* A send makes at most one callback, with an id of its own, for an order that had
\* none.
LEMMA SendMakes ==
    ASSUME RestaurantInv, NEW h \in Operators, NEW o \in Orders, NEW s \in Decisions,
           ChangeOrderStatus(h, o, s)
    PROVE  /\ TypeOK' /\ RowShape' /\ RequestShape'
           /\ Callback(Decided(o, s), o) \in Messages
           /\ \A q \in Orders \ {o} : orders'[q] = orders[q]
           /\ orders'[o].callback = Decided(o, s).callback
           /\ orders'[o].acked = orders[o].acked
           /\ RowPayload(orders'[o], o) = RowPayload(Decided(o, s), o)
           /\ Made' = Made \cup {RowPayload(Decided(o, s), o)}
           /\ orders[o].callback # 0 => RowPayload(Decided(o, s), o) \in Made
<1> DEFINE row == Decided(o, s)
           msg == Callback(row, o)
<1>1. /\ row \in StoredOrders /\ row.status \in Decisions /\ row.acked = orders[o].acked
      /\ clock \in Nat \ {0}
      /\ orders[o].callback = 0 => row.callback = clock
      /\ orders[o].callback # 0 => row = orders[o] /\ row.callback < clock
  BY DecidedRow DEF ChangeOrderStatus, RestaurantInv, TypeOK, RowShape
<1>2. row.callback \in Nat \ {0} /\ row.callback < clock + 1
  BY <1>1 DEF StoredOrders
<1> HIDE DEF row
<1>3. msg \in Messages
  BY <1>1, <1>2 DEF Callback, Messages, StoredOrders
<1>4. /\ orders' = [orders EXCEPT ![o] = [row EXCEPT !.inFlight = TRUE]]
      /\ op' = [op EXCEPT ![h] = [pc |-> "sending", msg |-> msg]]
      /\ wire' = wire \cup {msg}
      /\ clock' = clock + 1
      /\ UNCHANGED <<submission, received, conflicts, restarts>>
  BY DEF ChangeOrderStatus, row
<1>5. /\ [row EXCEPT !.inFlight = TRUE] \in StoredOrders
      /\ [row EXCEPT !.inFlight = TRUE].callback = row.callback
      /\ [row EXCEPT !.inFlight = TRUE].acked = row.acked
      /\ [row EXCEPT !.inFlight = TRUE].status = row.status
      /\ [row EXCEPT !.inFlight = TRUE].at = row.at
  BY <1>1 DEF StoredOrders
<1>6. /\ orders' \in [Orders -> StoredOrders]
      /\ orders'[o] = [row EXCEPT !.inFlight = TRUE]
      /\ \A q \in Orders \ {o} : orders'[q] = orders[q]
  BY <1>4, <1>5 DEF RestaurantInv, TypeOK
<1>7. TypeOK'
  <2>1. op' \in [Operators -> OperatorStates]
    BY <1>3, <1>4 DEF RestaurantInv, TypeOK, OperatorStates
  <2> QED
    BY <1>1, <1>3, <1>4, <1>6, <2>1 DEF RestaurantInv, TypeOK
<1>8. RowShape'
  BY <1>1, <1>2, <1>4, <1>5, <1>6 DEF RestaurantInv, RowShape, TypeOK, StoredOrders
<1>9. RequestShape'
  BY <1>3, <1>4 DEF RestaurantInv, RequestShape, TypeOK, OperatorStates
<1>10. Payload(msg) = RowPayload(row, o)
  BY DEF Callback, Payload, RowPayload
<1>11. RowPayload(orders'[o], o) = RowPayload(row, o)
  BY <1>5, <1>6 DEF RowPayload
<1>12. DecidedOrders' = DecidedOrders \cup {o}
  BY <1>2, <1>5, <1>6 DEF DecidedOrders
<1>13. o \in DecidedOrders => RowPayload(orders[o], o) = RowPayload(row, o)
  BY <1>1 DEF DecidedOrders
<1>14. {RowPayload(orders'[q], q) : q \in DecidedOrders'} =
         {RowPayload(orders[q], q) : q \in DecidedOrders} \cup {RowPayload(row, o)}
  <2>1. DecidedOrders \subseteq Orders
    BY DEF DecidedOrders
  <2>2. ASSUME NEW q \in DecidedOrders'
        PROVE  RowPayload(orders'[q], q) \in
                 {RowPayload(orders[x], x) : x \in DecidedOrders} \cup {RowPayload(row, o)}
    BY <1>6, <1>11, <1>12, <2>1
  <2>3. ASSUME NEW q \in DecidedOrders
        PROVE  RowPayload(orders[q], q) \in {RowPayload(orders'[x], x) : x \in DecidedOrders'}
    BY <1>6, <1>11, <1>12, <1>13, <2>1
  <2> QED
    BY <1>11, <1>12, <2>2, <2>3
<1>15. {Payload(m) : m \in wire'} = {Payload(m) : m \in wire} \cup {RowPayload(row, o)}
  BY <1>4, <1>10
<1>16. Made' = Made \cup {RowPayload(row, o)}
  BY <1>4, <1>14, <1>15 DEF Made
<1>17. orders[o].callback # 0 => RowPayload(row, o) \in Made
  BY <1>1 DEF Made, DecidedOrders
<1> QED
  BY <1>3, <1>1, <1>5, <1>6, <1>7, <1>8, <1>9, <1>11, <1>16, <1>17 DEF row

\* A repetition sends what was sent before.
LEMMA RepeatInv ==
    ASSUME RestaurantInv, NEW h \in Operators, NEW o \in Orders, NEW s \in Decisions,
           ChangeOrderStatus(h, o, s), orders[o].callback # 0
    PROVE  IdIsOneDecision' /\ AllRemembered' /\ FewDecisions'
<1>1. Made' = Made /\ clock' = clock + 1 /\ clock \in Nat
      /\ restarts' = restarts /\ conflicts' = conflicts
  <2>1. Made' = Made
    BY SendMakes
  <2> QED
    BY <2>1 DEF ChangeOrderStatus, RestaurantInv, TypeOK
<1>2. \A q \in Orders : orders'[q].callback = orders[q].callback
  <2>1. Decided(o, s).callback = orders[o].callback
    BY DecidedRow DEF ChangeOrderStatus
  <2> QED
    BY <2>1, SendMakes
<1>3. \A p \in Made : p.id \in Nat /\ p.order \in Orders
  BY MadeType DEF RestaurantInv, Payloads
<1>4. IdIsOneDecision'
  BY <1>1, <1>3 DEF RestaurantInv, IdIsOneDecision
<1>5. AllRemembered'
  BY <1>1, <1>2, <1>3 DEF RestaurantInv, AllRemembered
<1>6. FewDecisions'
  <2>1. \A q \in Orders : MadeFor(q)' = MadeFor(q)
    BY <1>1 DEF MadeFor
  <2> QED
    BY <1>1, <1>2, <2>1 DEF RestaurantInv, FewDecisions
<1> QED
  BY <1>4, <1>5, <1>6

\* A first decision draws an id that nobody has used.
LEMMA FirstDecisionInv ==
    ASSUME RestaurantInv, NEW h \in Operators, NEW o \in Orders, NEW s \in Decisions,
           ChangeOrderStatus(h, o, s), orders[o].callback = 0
    PROVE  IdIsOneDecision' /\ AllRemembered' /\ FewDecisions'
<1> DEFINE new == RowPayload(Decided(o, s), o)
<1>1. /\ new.id = clock /\ new.order = o
      /\ orders'[o].callback = clock
      /\ Made' = Made \cup {new}
      /\ \A q \in Orders \ {o} : orders'[q] = orders[q]
  <2>1. Decided(o, s).callback = clock
    BY DecidedRow DEF ChangeOrderStatus
  <2> QED
    BY <2>1, SendMakes, RowPayloadFields
<1>2. /\ clock' = clock + 1 /\ clock \in Nat \ {0}
      /\ restarts' = restarts /\ restarts \in Nat /\ conflicts' = conflicts
  BY DEF ChangeOrderStatus, RestaurantInv, TypeOK, RowShape
<1>3. \A p \in Made : p.id \in Nat /\ p.order \in Orders /\ p.id < clock
  BY MadeType DEF RestaurantInv, Payloads, IdIsOneDecision
<1> HIDE DEF new
<1>4. IdIsOneDecision'
  <2>1. \A p \in Made' : p.id < clock'
    BY <1>1, <1>2, <1>3
  <2>2. ASSUME NEW p \in Made', NEW q \in Made', p.id = q.id PROVE p = q
    BY <1>1, <1>2, <1>3, <2>2 DEF RestaurantInv, IdIsOneDecision
  <2> QED
    BY <2>1, <2>2 DEF IdIsOneDecision
<1>5. AllRemembered'
  <2> SUFFICES ASSUME restarts = 0
               PROVE  conflicts' = {} /\ \A p \in Made' : orders'[p.order].callback = p.id
    BY <1>2 DEF AllRemembered
  <2>1. conflicts' = {} /\ \A p \in Made : orders[p.order].callback = p.id
    BY <1>2 DEF RestaurantInv, AllRemembered
  <2>2. ASSUME NEW p \in Made PROVE orders'[p.order].callback = p.id
    <3>1. p.id # 0
      BY MadeType DEF RestaurantInv, Payloads
    <3>2. p.order \in Orders \ {o}
      BY <1>3, <2>1, <3>1
    <3> QED
      BY <1>1, <2>1, <3>2
  <2> QED
    BY <1>1, <2>1, <2>2
<1>6. ASSUME NEW q \in Orders
      PROVE  /\ IsFiniteSet(MadeFor(q)')
             /\ Cardinality(MadeFor(q)') <= restarts + (IF orders'[q].callback = 0 THEN 0 ELSE 1)
  <2>1. /\ IsFiniteSet(MadeFor(q))
        /\ Cardinality(MadeFor(q)) <= restarts + (IF orders[q].callback = 0 THEN 0 ELSE 1)
    BY DEF RestaurantInv, FewDecisions
  <2>2. CASE q = o
    <3>1. MadeFor(q)' = MadeFor(q) \cup {new} /\ new \notin MadeFor(q)
      BY <1>1, <1>2, <1>3, <2>2 DEF MadeFor
    <3>2. IsFiniteSet(MadeFor(q)') /\ Cardinality(MadeFor(q)') = Cardinality(MadeFor(q)) + 1
      BY <2>1, <3>1, FS_AddElement
    <3>3. Cardinality(MadeFor(q)) \in Nat /\ Cardinality(MadeFor(q)) <= restarts
      BY <1>2, <2>1, <2>2, FS_CardinalityType
    <3>4. orders'[q].callback # 0
      BY <1>1, <1>2, <2>2
    <3> QED
      BY <1>2, <3>2, <3>3, <3>4
  <2>3. CASE q # o
    <3>1. MadeFor(q)' = MadeFor(q)
      BY <1>1, <2>3 DEF MadeFor
    <3> QED
      BY <1>1, <2>1, <2>3, <3>1
  <2> QED
    BY <2>2, <2>3
<1>7. FewDecisions'
  BY <1>2, <1>6 DEF FewDecisions
<1> QED
  BY <1>4, <1>5, <1>7

LEMMA ChangeOrderStatusInv ==
    ASSUME RestaurantInv, NEW h \in Operators, NEW o \in Orders, NEW s \in Decisions,
           ChangeOrderStatus(h, o, s)
    PROVE  RestaurantInv'
<1>1. TypeOK' /\ RowShape' /\ RequestShape'
  BY SendMakes
<1>2. IdIsOneDecision' /\ AllRemembered' /\ FewDecisions'
  BY RepeatInv, FirstDecisionInv
<1>3. StoredStands'
  BY DEF RestaurantInv, ChangeOrderStatus, StoredStands
<1>4. ToldIsStored'
  <2>1. ASSUME NEW g \in Operators, op'[g].pc = "told" PROVE Payload(op'[g].msg) \in received'
    <3>1. op' = [op EXCEPT ![h] = [pc |-> "sending", msg |-> Callback(Decided(o, s), o)]]
          /\ op \in [Operators -> OperatorStates] /\ received' = received
      BY DEF RestaurantInv, TypeOK, ChangeOrderStatus
    <3>2. g # h /\ op'[g] = op[g]
      BY <2>1, <3>1
    <3> QED
      BY <2>1, <3>1, <3>2 DEF RestaurantInv, ToldIsStored
  <2>2. ASSUME NEW q \in Orders, orders'[q].acked PROVE RowPayload(orders'[q], q) \in received'
    <3>1. q # o
      BY <2>2, SendMakes DEF ChangeOrderStatus, MaySend
    <3> QED
      BY <2>2, <3>1, SendMakes DEF RestaurantInv, ToldIsStored, ChangeOrderStatus
  <2> QED
    BY <2>1, <2>2 DEF ToldIsStored
<1> QED
  BY <1>1, <1>2, <1>3, <1>4 DEF RestaurantInv

LEMMA SendFailsInv ==
    ASSUME RestaurantInv, NEW h \in Operators, SendFails(h)
    PROVE  RestaurantInv'
<1> USE DEF RestaurantInv
<1>1. /\ op' \in [Operators -> OperatorStates]
      /\ op'[h] = [op[h] EXCEPT !.pc = "failed"] /\ op'[h].pc = "failed"
      /\ op'[h].msg = op[h].msg /\ op[h].pc # "idle"
      /\ \A g \in Operators \ {h} : op'[g] = op[g]
  BY DEF SendFails, TypeOK, OperatorStates
<1>2. wire' \subseteq wire
  BY DEF SendFails
<1>3. TypeOK' /\ RowShape'
  BY <1>1, <1>2 DEF SendFails, TypeOK, RowShape
<1>4. RequestShape'
  BY <1>1 DEF RequestShape
<1>5. Made' \subseteq Made
  BY <1>2 DEF Made, SendFails, DecidedOrders
<1>6. IdIsOneDecision' /\ AllRemembered' /\ FewDecisions'
  BY <1>5, NothingMade DEF SendFails
<1>7. StoredStands'
  BY DEF SendFails, StoredStands
<1>8. ToldIsStored'
  BY <1>1 DEF SendFails, ToldIsStored
<1> QED
  BY <1>3, <1>4, <1>6, <1>7, <1>8

\* A result is written to the row only if the row still has the callback the request
\* sent; an id names one decision, so it is the result of that decision.
LEMMA FinishedRow ==
    ASSUME RestaurantInv, NEW h \in Operators, op[h].pc \in {"told", "failed"}
    PROVE  LET o == op[h].msg.order
           IN /\ o \in Orders
              /\ Finished(h) \in StoredOrders
              /\ Finished(h).callback = orders[o].callback
              /\ Finished(h).status = orders[o].status
              /\ Finished(h).at = orders[o].at
              /\ Finished(h).acked /\ ~orders[o].acked =>
                    /\ orders[o].callback # 0
                    /\ RowPayload(orders[o], o) \in received
<1> DEFINE o == op[h].msg.order
<1>1. op[h].msg \in Messages
  BY DEF RestaurantInv, RequestShape
<1>2. o \in Orders /\ op[h].msg.id \in Nat \ {0}
  BY <1>1 DEF Messages
<1>3. orders[o] \in StoredOrders
  BY <1>2 DEF RestaurantInv, TypeOK
<1>4. /\ Finished(h) \in StoredOrders
      /\ Finished(h).callback = orders[o].callback
      /\ Finished(h).status = orders[o].status
      /\ Finished(h).at = orders[o].at
      /\ Finished(h).acked /\ ~orders[o].acked =>
            orders[o].callback = op[h].msg.id /\ op[h].pc = "told"
  <2>1. CASE orders[o].callback = op[h].msg.id
    <3>1. Finished(h) = [orders[o] EXCEPT !.inFlight = FALSE, !.acked = @ \/ op[h].pc = "told"]
      BY <2>1 DEF Finished
    <3>2. (orders[o].acked \/ op[h].pc = "told") \in BOOLEAN
      BY <1>3 DEF StoredOrders
    <3> QED
      BY <1>3, <2>1, <3>1, <3>2 DEF StoredOrders
  <2>2. CASE orders[o].callback # op[h].msg.id
    <3>1. Finished(h) = orders[o]
      BY <2>2 DEF Finished
    <3> QED
      BY <1>3, <3>1
  <2> QED
    BY <2>1, <2>2
<1>5. ASSUME orders[o].callback = op[h].msg.id, op[h].pc = "told"
      PROVE  RowPayload(orders[o], o) \in received
  <2>1. Payload(op[h].msg) \in received
    BY <1>5 DEF RestaurantInv, ToldIsStored
  <2>2. RowPayload(orders[o], o) \in Made
    BY <1>2, <1>5 DEF Made, DecidedOrders
  <2>3. RowPayload(orders[o], o).id = Payload(op[h].msg).id
    BY <1>1, <1>5, PayloadType, RowPayloadFields
  <2>4. Payload(op[h].msg) \in Made
    BY <2>1 DEF Made
  <2>5. RowPayload(orders[o], o) = Payload(op[h].msg)
    BY <2>2, <2>3, <2>4 DEF RestaurantInv, IdIsOneDecision
  <2> QED
    BY <2>1, <2>5
<1> QED
  BY <1>2, <1>4, <1>5

LEMMA FinishInv ==
    ASSUME RestaurantInv, NEW h \in Operators, Finish(h)
    PROVE  RestaurantInv'
<1> DEFINE o == op[h].msg.order
<1>1. /\ o \in Orders
      /\ Finished(h) \in StoredOrders
      /\ Finished(h).callback = orders[o].callback
      /\ Finished(h).status = orders[o].status
      /\ Finished(h).at = orders[o].at
      /\ Finished(h).acked /\ ~orders[o].acked =>
            /\ orders[o].callback # 0
            /\ RowPayload(orders[o], o) \in received
  BY FinishedRow DEF Finish
<1>2. /\ orders' = [orders EXCEPT ![o] = Finished(h)]
      /\ op' = [op EXCEPT ![h] = Idle]
      /\ UNCHANGED <<clock, wire, submission, received, conflicts, restarts>>
  BY DEF Finish
<1> HIDE DEF o
<1> USE DEF RestaurantInv
<1>3. /\ orders' \in [Orders -> StoredOrders] /\ orders'[o] = Finished(h)
      /\ \A q \in Orders \ {o} : orders'[q] = orders[q]
  BY <1>1, <1>2 DEF TypeOK
<1>4. \A q \in Orders : /\ orders'[q].callback = orders[q].callback
                        /\ orders'[q].status = orders[q].status
                        /\ orders'[q].at = orders[q].at
                        /\ RowPayload(orders'[q], q) = RowPayload(orders[q], q)
  BY <1>1, <1>3 DEF RowPayload
<1>5. op' \in [Operators -> OperatorStates] /\ op'[h] = Idle
      /\ \A g \in Operators \ {h} : op'[g] = op[g]
  BY <1>2 DEF TypeOK, OperatorStates, Idle
<1>6. TypeOK'
  BY <1>2, <1>3, <1>5 DEF TypeOK
<1>7. RowShape'
  BY <1>1, <1>2, <1>3, <1>4 DEF RowShape
<1>8. RequestShape'
  BY <1>5 DEF RequestShape, Idle
<1>9. Made' = Made
  <2>1. DecidedOrders' = DecidedOrders /\ DecidedOrders \subseteq Orders
    BY <1>4 DEF DecidedOrders
  <2>2. {RowPayload(orders'[q], q) : q \in DecidedOrders'} =
          {RowPayload(orders[q], q) : q \in DecidedOrders}
    BY <1>4, <2>1
  <2> QED
    BY <1>2, <2>2 DEF Made
<1>10. IdIsOneDecision' /\ AllRemembered' /\ FewDecisions'
  BY <1>2, <1>4, <1>9, NothingMade
<1>11. StoredStands'
  BY <1>2 DEF StoredStands
<1>12. ToldIsStored'
  <2>1. \A g \in Operators : op'[g].pc = "told" => Payload(op'[g].msg) \in received'
    BY <1>2, <1>5 DEF ToldIsStored, Idle
  <2>2. \A q \in Orders : orders'[q].acked => RowPayload(orders'[q], q) \in received'
    BY <1>1, <1>2, <1>3, <1>4 DEF ToldIsStored
  <2> QED
    BY <2>1, <2>2 DEF ToldIsStored
<1> QED
  BY <1>6, <1>7, <1>8, <1>10, <1>11, <1>12

\* What the restaurant forgets may be decided again, once more for each order.
LEMMA RestartInv ==
    ASSUME RestaurantInv, Restart
    PROVE  RestaurantInv'
<1> USE DEF RestaurantInv
<1>1. /\ orders' = [o \in Orders |-> Unknown]
      /\ op' = [h \in Operators |-> Idle]
      /\ restarts' = restarts + 1 /\ restarts \in Nat
      /\ UNCHANGED <<clock, wire, submission, received, conflicts>>
  BY DEF Restart, TypeOK
<1>2. TypeOK'
  BY <1>1 DEF TypeOK, Unknown, Idle, StoredOrders, OperatorStates
<1>3. RowShape' /\ RequestShape' /\ ToldIsStored'
  BY <1>1 DEF RowShape, RequestShape, ToldIsStored, Unknown, Idle
<1>4. DecidedOrders' = {}
  BY <1>1 DEF DecidedOrders, Unknown
<1>5. Made' \subseteq Made
  BY <1>1, <1>4 DEF Made
<1>6. IdIsOneDecision'
  BY <1>1, <1>5 DEF IdIsOneDecision
<1>7. AllRemembered'
  BY <1>1 DEF AllRemembered
<1>8. FewDecisions'
  <2>1. ASSUME NEW o \in Orders
        PROVE  IsFiniteSet(MadeFor(o)') /\ Cardinality(MadeFor(o)') <= restarts'
    <3>1. MadeFor(o)' \in SUBSET MadeFor(o)
      BY <1>5 DEF MadeFor
    <3>2. IsFiniteSet(MadeFor(o)) /\ Cardinality(MadeFor(o)) <= restarts + 1
          /\ Cardinality(MadeFor(o)) \in Nat
      <4>1. IsFiniteSet(MadeFor(o))
            /\ Cardinality(MadeFor(o)) <= restarts + (IF orders[o].callback = 0 THEN 0 ELSE 1)
        BY DEF FewDecisions
      <4>2. Cardinality(MadeFor(o)) \in Nat
        BY <4>1, FS_CardinalityType
      <4> QED
        BY <1>1, <4>1, <4>2
    <3>3. IsFiniteSet(MadeFor(o)') /\ Cardinality(MadeFor(o)') <= Cardinality(MadeFor(o))
      BY <3>1, <3>2, FS_Subset
    <3>4. Cardinality(MadeFor(o)') \in Nat
      BY <3>3, FS_CardinalityType
    <3> QED
      BY <1>1, <3>2, <3>3, <3>4
  <2>2. \A o \in Orders : orders'[o].callback = 0
    BY <1>1 DEF Unknown
  <2>3. restarts' \in Nat
    BY <1>1
  <2>4. ASSUME NEW o \in Orders
        PROVE  /\ IsFiniteSet(MadeFor(o)')
               /\ Cardinality(MadeFor(o)') <= restarts' + (IF orders'[o].callback = 0 THEN 0 ELSE 1)
    BY <2>1, <2>2, <2>3
  <2> QED
    BY <2>4 DEF FewDecisions
<1>9. StoredStands'
  BY <1>1 DEF StoredStands
<1> QED
  BY <1>2, <1>3, <1>6, <1>7, <1>8, <1>9

-----------------------------------------------------------------------------
(* The step of partner-service *)

LEMMA AnsweredOp ==
    ASSUME RestaurantInv, NEW m, NEW pc \in {"told", "failed"}, Answered(m, pc)
    PROVE  /\ op' \in [Operators -> OperatorStates]
           /\ \A g \in Operators :
                 \/ op'[g] = op[g]
                 \/ op[g].pc = "sending" /\ op[g].msg = m /\ op'[g].pc = pc /\ op'[g].msg = m
<1>1. op \in [Operators -> OperatorStates]
  BY DEF RestaurantInv, TypeOK
<1>2. CASE op' = op
  BY <1>1, <1>2
<1>3. ASSUME NEW h \in Operators, op[h].pc = "sending", op[h].msg = m,
             op' = [op EXCEPT ![h].pc = pc]
      PROVE  /\ op' \in [Operators -> OperatorStates]
             /\ \A g \in Operators :
                   \/ op'[g] = op[g]
                   \/ op[g].pc = "sending" /\ op[g].msg = m /\ op'[g].pc = pc /\ op'[g].msg = m
  <2>1. op[h] \in OperatorStates
    BY <1>1
  <2>2. [op[h] EXCEPT !.pc = pc] \in OperatorStates
        /\ [op[h] EXCEPT !.pc = pc].pc = pc /\ [op[h] EXCEPT !.pc = pc].msg = op[h].msg
    BY <2>1 DEF OperatorStates
  <2> QED
    BY <1>1, <1>3, <2>2
<1> QED
  BY <1>2, <1>3 DEF Answered

\* A restaurant that remembers everything sends nothing the platform refuses.
LEMMA RememberedIsTaken ==
    ASSUME RestaurantInv, restarts = 0, NEW m \in wire
    PROVE  ~Refused(m)
<1> USE DEF RestaurantInv
<1>1. Payload(m) \in Made /\ Payload(m).id = m.id
      /\ Payload(m).order = m.order /\ Payload(m).status = m.status
      /\ m.order \in Orders
  BY PayloadType DEF Made, TypeOK, Messages
<1>2. \A r \in received : r \in Made
  BY DEF Made
<1>3. ASSUME submission[m.order] \in Decisions \ {m.status} PROVE FALSE
  <2>1. submission[m.order] # "open"
    BY <1>3 DEF Decisions
  <2>2. PICK r \in received : r.order = m.order
    BY <1>1, <2>1 DEF StoredStands
  <2>3. r.status = submission[m.order]
    BY <2>2 DEF StoredStands
  <2>4. orders[m.order].callback = r.id /\ orders[m.order].callback = m.id
    BY <1>1, <1>2, <2>2 DEF AllRemembered
  <2>5. r = Payload(m)
    BY <1>1, <1>2, <2>4 DEF IdIsOneDecision
  <2> QED
    BY <1>1, <1>3, <2>3, <2>5
<1>4. ASSUME NEW r \in received, r.id = m.id PROVE r = Payload(m)
  BY <1>1, <1>2, <1>4 DEF IdIsOneDecision
<1> QED
  BY <1>3, <1>4 DEF Refused

LEMMA RefusedInv ==
    ASSUME RestaurantInv, NEW m \in wire, ReceiveStatusCallback(m), Refused(m)
    PROVE  RestaurantInv'
<1> USE DEF RestaurantInv
<1>1. /\ wire' = wire \ {m} /\ conflicts' = conflicts \cup {m.order}
      /\ Answered(m, "failed")
      /\ UNCHANGED <<orders, clock, submission, received, restarts>>
  BY DEF ReceiveStatusCallback
<1>2. /\ op' \in [Operators -> OperatorStates]
      /\ \A g \in Operators :
            \/ op'[g] = op[g]
            \/ op[g].pc = "sending" /\ op[g].msg = m /\ op'[g].pc = "failed" /\ op'[g].msg = m
  BY <1>1, AnsweredOp
<1>3. restarts # 0
  BY RememberedIsTaken
<1>4. m \in Messages /\ m.order \in Orders
  BY DEF TypeOK, Messages
<1>5. TypeOK' /\ RowShape'
  BY <1>1, <1>2, <1>4 DEF TypeOK, RowShape
<1>6. RequestShape'
  BY <1>2, <1>4 DEF RequestShape
<1>7. Made' \subseteq Made
  BY <1>1 DEF Made, DecidedOrders
<1>8. IdIsOneDecision'
  BY <1>1, <1>7 DEF IdIsOneDecision
<1>9. AllRemembered'
  BY <1>1, <1>3 DEF AllRemembered
<1>10. FewDecisions'
  <2>1. ASSUME NEW o \in Orders
        PROVE  /\ IsFiniteSet(MadeFor(o)')
               /\ Cardinality(MadeFor(o)') <= restarts + (IF orders[o].callback = 0 THEN 0 ELSE 1)
    <3>1. MadeFor(o)' \in SUBSET MadeFor(o)
      BY <1>7 DEF MadeFor
    <3>2. /\ IsFiniteSet(MadeFor(o))
          /\ Cardinality(MadeFor(o)) <= restarts + (IF orders[o].callback = 0 THEN 0 ELSE 1)
      BY DEF FewDecisions
    <3>3. IsFiniteSet(MadeFor(o)') /\ Cardinality(MadeFor(o)') <= Cardinality(MadeFor(o))
      BY <3>1, <3>2, FS_Subset
    <3>4. Cardinality(MadeFor(o)') \in Nat /\ Cardinality(MadeFor(o)) \in Nat
      BY <3>2, <3>3, FS_CardinalityType
    <3>5. restarts \in Nat
      BY DEF TypeOK
    <3> QED
      BY <3>2, <3>3, <3>4, <3>5
  <2> QED
    BY <1>1, <2>1 DEF FewDecisions
<1>11. StoredStands'
  BY <1>1 DEF StoredStands
<1>12. ToldIsStored'
  BY <1>1, <1>2 DEF ToldIsStored
<1> QED
  BY <1>5, <1>6, <1>8, <1>9, <1>10, <1>11, <1>12

LEMMA TakenInv ==
    ASSUME RestaurantInv, NEW m \in wire, ReceiveStatusCallback(m), ~Refused(m)
    PROVE  RestaurantInv'
<1> USE DEF RestaurantInv
<1>1. /\ wire' = wire \ {m} /\ received' = received \cup {Payload(m)}
      /\ submission' = [submission EXCEPT ![m.order] = m.status]
      /\ Answered(m, "told")
      /\ UNCHANGED <<orders, clock, conflicts, restarts>>
  BY DEF ReceiveStatusCallback
<1>2. /\ op' \in [Operators -> OperatorStates]
      /\ \A g \in Operators :
            \/ op'[g] = op[g]
            \/ op[g].pc = "sending" /\ op[g].msg = m /\ op'[g].pc = "told" /\ op'[g].msg = m
  BY <1>1, AnsweredOp
<1>3. /\ m \in Messages /\ m.order \in Orders /\ m.status \in Decisions
      /\ Payload(m) \in Payloads
      /\ Payload(m).order = m.order /\ Payload(m).status = m.status
  BY PayloadType DEF TypeOK, Messages
<1>4. TypeOK'
  BY <1>1, <1>2, <1>3 DEF TypeOK, Payloads
<1>5. RowShape'
  BY <1>1 DEF RowShape
<1>6. RequestShape'
  BY <1>2, <1>3 DEF RequestShape
<1>7. Made' \subseteq Made
  BY <1>1 DEF Made, DecidedOrders
<1>8. IdIsOneDecision' /\ AllRemembered' /\ FewDecisions'
  BY <1>1, <1>7, NothingMade
<1>9. StoredStands'
  <2>1. submission \in [Orders -> {"open"} \cup Decisions]
        /\ submission'[m.order] = m.status
        /\ \A o \in Orders \ {m.order} : submission'[o] = submission[o]
    BY <1>1, <1>3 DEF TypeOK
  <2>2. submission[m.order] \in {"open", m.status}
    BY <1>3, <2>1 DEF Refused
  <2>3. ASSUME NEW r \in received PROVE submission'[r.order] = r.status
    <3>1. submission[r.order] = r.status /\ r.order \in Orders /\ r.status # "open"
      BY DEF StoredStands, TypeOK, Decisions
    <3> QED
      BY <2>1, <2>2, <3>1
  <2>4. \A r \in received' : submission'[r.order] = r.status
    BY <1>1, <1>3, <2>1, <2>3
  <2>5. ASSUME NEW o \in Orders, submission'[o] # "open"
        PROVE  \E r \in received' : r.order = o
    BY <1>1, <1>3, <2>1, <2>5 DEF StoredStands
  <2> QED
    BY <2>4, <2>5 DEF StoredStands
<1>10. ToldIsStored'
  BY <1>1, <1>2 DEF ToldIsStored
<1> QED
  BY <1>4, <1>5, <1>6, <1>8, <1>9, <1>10

-----------------------------------------------------------------------------
(* The theorems *)

LEMMA RestaurantInitInv == Init => RestaurantInv
<1> SUFFICES ASSUME Init PROVE RestaurantInv
  OBVIOUS
<1>1. TypeOK
  BY DEF Init, TypeOK, Unknown, Idle, StoredOrders, OperatorStates
<1>2. RowShape /\ RequestShape /\ StoredStands /\ ToldIsStored
  BY DEF Init, RowShape, RequestShape, StoredStands, ToldIsStored, Unknown, Idle
<1>3. Made = {}
  BY DEF Init, Made, DecidedOrders, Unknown
<1>4. IdIsOneDecision /\ AllRemembered
  BY <1>3 DEF IdIsOneDecision, AllRemembered, Init
<1>5. FewDecisions
  <2>1. \A o \in Orders : MadeFor(o) = {} /\ orders[o].callback = 0
    BY <1>3 DEF MadeFor, Init, Unknown
  <2> QED
    BY <2>1, FS_EmptySet DEF FewDecisions, Init
<1> QED
  BY <1>1, <1>2, <1>4, <1>5 DEF RestaurantInv

LEMMA RestaurantNextInv == RestaurantInv /\ [Next]_vars => RestaurantInv'
<1> SUFFICES ASSUME RestaurantInv, [Next]_vars PROVE RestaurantInv'
  OBVIOUS
<1>1. ASSUME NEW o \in Orders, ReceiveOrder(o) PROVE RestaurantInv'
  BY <1>1, ReceiveOrderInv
<1>2. ASSUME NEW h \in Operators, NEW o \in Orders, NEW s \in Decisions, ChangeOrderStatus(h, o, s)
      PROVE  RestaurantInv'
  BY <1>2, ChangeOrderStatusInv
<1>3. ASSUME NEW h \in Operators, SendFails(h) PROVE RestaurantInv'
  BY <1>3, SendFailsInv
<1>4. ASSUME NEW h \in Operators, Finish(h) PROVE RestaurantInv'
  BY <1>4, FinishInv
<1>5. ASSUME NEW m \in wire, ReceiveStatusCallback(m) PROVE RestaurantInv'
  BY <1>5, RefusedInv, TakenInv
<1>6. CASE Restart
  BY <1>6, RestartInv
<1>7. CASE UNCHANGED vars
  <2>1. TypeOK'
    BY <1>7 DEF vars, RestaurantInv, TypeOK
  <2>2. RowShape' /\ RequestShape' /\ StoredStands' /\ ToldIsStored'
    BY <1>7 DEF vars, RestaurantInv, RowShape, RequestShape, StoredStands, ToldIsStored
  <2>3. Made' = Made /\ \A o \in Orders : MadeFor(o)' = MadeFor(o)
    BY <1>7 DEF vars, MadeFor, Made, DecidedOrders
  <2>4. IdIsOneDecision' /\ AllRemembered'
    BY <1>7, <2>3 DEF vars, RestaurantInv, IdIsOneDecision, AllRemembered
  <2>5. FewDecisions'
    BY <1>7, <2>3 DEF vars, RestaurantInv, FewDecisions
  <2> QED
    BY <2>1, <2>2, <2>4, <2>5 DEF RestaurantInv
<1> QED
  BY <1>1, <1>2, <1>3, <1>4, <1>5, <1>6, <1>7 DEF Next

\* What holds between the steps of the handlers of handler.go and of callbacks.go.
THEOREM RestaurantInvariant == Spec => []RestaurantInv
BY RestaurantInitInv, RestaurantNextInv, PTL DEF Spec

\* The restaurant's memory, its requests and partner-service's tables stay well
\* typed.
THEOREM TypeCorrect == Spec => []TypeOK
<1>1. RestaurantInv => TypeOK
  BY DEF RestaurantInv
<1> QED
  BY <1>1, RestaurantInvariant, PTL

\* callback_acknowledged (handler.go) is only set for a decision that partner-service
\* has stored as it was sent.
THEOREM AckedIsAlwaysTold == Spec => []AckedIsTold
<1>1. RestaurantInv => AckedIsTold
  <2> SUFFICES ASSUME RestaurantInv, NEW o \in Orders, orders[o].acked
               PROVE  /\ submission[o] = orders[o].status
                      /\ RowPayload(orders[o], o) \in received
    BY DEF AckedIsTold, RowPayload
  <2>1. RowPayload(orders[o], o) \in received
    BY DEF RestaurantInv, ToldIsStored
  <2>2. submission[RowPayload(orders[o], o).order] = RowPayload(orders[o], o).status
    BY <2>1 DEF RestaurantInv, StoredStands
  <2> QED
    BY <2>1, <2>2, RowPayloadFields
<1> QED
  BY <1>1, RestaurantInvariant, PTL

\* Without a restart partner-service answers no callback of changeOrderStatus with a
\* conflict, however often a decision is repeated and in whatever order it arrives.
THEOREM RepeatIsAlwaysSafe == Spec => []RepeatIsSafe
<1>1. RestaurantInv => RepeatIsSafe
  BY DEF RestaurantInv, AllRemembered, RepeatIsSafe
<1> QED
  BY <1>1, RestaurantInvariant, PTL

\* partner_callbacks gets one row for each decision the restaurant has made, not for
\* each callback it has sent.
THEOREM AlwaysOneCallbackPerDecision == Spec => []OneCallbackPerDecision
<1>1. RestaurantInv => OneCallbackPerDecision
  <2> SUFFICES ASSUME RestaurantInv, NEW o \in Orders
               PROVE  Cardinality({r \in received : r.order = o}) <= 1 + restarts
    BY DEF OneCallbackPerDecision
  <2> DEFINE S == {r \in received : r.order = o}
  <2>1. S \in SUBSET MadeFor(o)
    BY DEF MadeFor, Made
  <2>2. /\ IsFiniteSet(MadeFor(o))
        /\ Cardinality(MadeFor(o)) <= restarts + (IF orders[o].callback = 0 THEN 0 ELSE 1)
        /\ restarts \in Nat
    BY DEF RestaurantInv, FewDecisions, TypeOK
  <2>3. IsFiniteSet(S) /\ Cardinality(S) <= Cardinality(MadeFor(o))
    BY <2>1, <2>2, FS_Subset
  <2>4. Cardinality(S) \in Nat /\ Cardinality(MadeFor(o)) \in Nat
    BY <2>2, <2>3, FS_CardinalityType
  <2> HIDE DEF S
  <2>5. Cardinality(S) <= 1 + restarts
    BY <2>2, <2>3, <2>4
  <2> QED
    BY <2>5 DEF S
<1> QED
  BY <1>1, RestaurantInvariant, PTL
==============================================================================
