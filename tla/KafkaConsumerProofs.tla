-------------------------- MODULE KafkaConsumerProofs --------------------------
(***************************************************************************)
(* Proofs about KafkaConsumer, for any number of members, partitions,      *)
(* records and faults, and any set of poison records.                      *)
(***************************************************************************)
EXTENDS KafkaConsumer, TLAPS

-----------------------------------------------------------------------------
(* The inductive invariant *)

\* The records of p below n are applied, in A.
Below(A, p, n) == \A i \in 0..(n - 1) : i \in A[p]

\* Whatever a member holds of a partition, its position, its record or its pending
\* commit, has every earlier record applied; only the record in its hands may be
\* missing below its position.
Held(A, x) ==
    /\ x.pc # "fetch" => x.part \in Partitions
    /\ x.pc = "handle" => Below(A, x.part, x.offset)
    /\ x.pc = "commit" => Below(A, x.part, x.offset + 1)
    /\ \A p \in Partitions : x.next[p] # NoPosition =>
          \/ Below(A, p, x.next[p])
          \/ x.pc = "handle" /\ x.part = p /\ x.next[p] = x.offset + 1

ConsumerInv ==
    /\ TypeOK
    /\ \A m \in Members : Held(applied, member[m])
    /\ NoLoss
    /\ InOrder

-----------------------------------------------------------------------------

Set(m, x) == member' = [member EXCEPT ![m] = x]

LEMMA MemberType ==
    ASSUME TypeOK, NEW m \in Members
    PROVE  /\ member[m] \in MemberStates
           /\ member[m].offset \in Nat
           /\ \A p \in Partitions : member[m].next[p] \in Nat \cup {NoPosition}
BY DEF TypeOK, MemberStates

LEMMA SetMember ==
    ASSUME TypeOK, NEW m \in Members, NEW x \in MemberStates, Set(m, x)
    PROVE  /\ member' \in [Members -> MemberStates]
           /\ member'[m] = x
           /\ \A q \in Members \ {m} : member'[q] = member[q]
BY DEF TypeOK, Set

\* The step of one member that applies nothing.
LEMMA OneMoves ==
    ASSUME ConsumerInv, NEW m \in Members, NEW x \in MemberStates, Set(m, x),
           Held(applied, x),
           UNCHANGED <<end, committed, owner, applied>>, budget' \in Nat
    PROVE  ConsumerInv'
<1>1. /\ member' \in [Members -> MemberStates]
      /\ member'[m] = x
      /\ \A q \in Members \ {m} : member'[q] = member[q]
  BY SetMember DEF ConsumerInv
<1>2. TypeOK'
  BY <1>1 DEF ConsumerInv, TypeOK
<1>3. ASSUME NEW q \in Members PROVE Held(applied', member'[q])
  BY <1>1 DEF ConsumerInv
<1>4. NoLoss' /\ InOrder'
  BY DEF ConsumerInv, NoLoss, InOrder
<1> QED
  BY <1>2, <1>3, <1>4 DEF ConsumerInv

LEMMA BudgetType ==
    ASSUME TypeOK, Fault
    PROVE  budget' \in Nat
BY DEF TypeOK, Fault

-----------------------------------------------------------------------------
(* Reading *)

LEMMA ProduceInv ==
    ASSUME ConsumerInv, NEW p \in Partitions, Produce(p)
    PROVE  ConsumerInv'
<1>1. end' \in [Partitions -> Nat]
  BY DEF Produce, ConsumerInv, TypeOK
<1>2. UNCHANGED <<committed, owner, member, applied, budget>>
  BY DEF Produce
<1>3. TypeOK'
  BY <1>1, <1>2 DEF ConsumerInv, TypeOK
<1> QED
  BY <1>2, <1>3 DEF ConsumerInv, NoLoss, InOrder

LEMMA SubscribeInv ==
    ASSUME ConsumerInv, NEW m \in Members, NEW p \in Partitions, Subscribe(m, p)
    PROVE  ConsumerInv'
<1> DEFINE y == member[m]
           n == [y.next EXCEPT ![p] = committed[p]]
           x == [y EXCEPT !.next = n]
<1>1. y \in MemberStates /\ Held(applied, y) /\ committed[p] \in Nat
  BY DEF ConsumerInv, TypeOK
<1>2. Set(m, x) /\ UNCHANGED <<end, committed, owner, applied, budget>>
  BY DEF Subscribe, Set, ConsumerInv, TypeOK
<1> HIDE DEF y
<1>3. /\ n \in [Partitions -> Nat \cup {NoPosition}]
      /\ n[p] = committed[p]
      /\ \A q \in Partitions \ {p} : n[q] = y.next[q]
  BY <1>1 DEF MemberStates
<1> HIDE DEF n
<1>4. x \in MemberStates /\ x.pc = y.pc /\ x.part = y.part /\ x.offset = y.offset /\ x.next = n
  BY <1>1, <1>3 DEF MemberStates
<1> HIDE DEF x
<1>5. Below(applied, p, committed[p])
  BY DEF ConsumerInv, NoLoss, Below
<1>6. Held(applied, x)
  BY <1>1, <1>3, <1>4, <1>5 DEF Held
<1>7. budget' \in Nat
  BY <1>2 DEF ConsumerInv, TypeOK
<1> QED
  BY <1>2, <1>4, <1>6, <1>7, OneMoves

LEMMA FetchInv ==
    ASSUME ConsumerInv, NEW m \in Members, NEW p \in Partitions, Fetch(m, p)
    PROVE  ConsumerInv'
<1> DEFINE y == member[m]
           k == y.next[p]
           n == [y.next EXCEPT ![p] = k + 1]
           x == [y EXCEPT !.pc = "handle", !.part = p, !.offset = k, !.next = n]
<1>1. y \in MemberStates /\ Held(applied, y) /\ y.pc = "fetch" /\ k \in Nat
  BY MemberType DEF ConsumerInv, Fetch
<1>2. Set(m, x) /\ UNCHANGED <<end, committed, owner, applied, budget>>
  <2>1. member' = [member EXCEPT ![m].pc = "handle",
                                 ![m].part = p,
                                 ![m].offset = member[m].next[p],
                                 ![m].next[p] = @ + 1]
    BY DEF Fetch
  <2>2. member \in [Members -> MemberStates]
    BY DEF ConsumerInv, TypeOK
  <2>3. Set(m, x)
    BY <2>1, <2>2 DEF Set, MemberStates
  <2> QED
    BY <2>3 DEF Fetch
<1>3. k # NoPosition
  BY DEF Fetch
<1>4. Below(applied, p, k)
  BY <1>1, <1>3 DEF Held
<1> HIDE DEF y
<1>5. /\ n \in [Partitions -> Nat \cup {NoPosition}]
      /\ n[p] = k + 1
      /\ \A q \in Partitions \ {p} : n[q] = y.next[q]
  BY <1>1 DEF MemberStates
<1> HIDE DEF n, k
<1>6. x \in MemberStates /\ x.pc = "handle" /\ x.part = p /\ x.offset = k /\ x.next = n
  BY <1>1, <1>5 DEF MemberStates
<1> HIDE DEF x
<1>7. Held(applied, x)
  BY <1>1, <1>4, <1>5, <1>6 DEF Held
<1>8. budget' \in Nat
  BY <1>2 DEF ConsumerInv, TypeOK
<1> QED
  BY <1>2, <1>6, <1>7, <1>8, OneMoves

-----------------------------------------------------------------------------
(* Handling and committing *)

\* The record in a member's hands is applied: all earlier ones were.
LEMMA AppliedFacts ==
    ASSUME ConsumerInv, NEW m \in Members, member[m].pc = "handle", applied' = Applied(m)
    PROVE  /\ applied' \in [Partitions -> SUBSET Nat]
           /\ \A p \in Partitions : applied[p] \subseteq applied'[p]
           /\ Below(applied', member[m].part, member[m].offset + 1)
           /\ InOrder'
<1> DEFINE p == member[m].part
           k == member[m].offset
<1>1. p \in Partitions /\ k \in Nat /\ Below(applied, p, k)
  BY MemberType DEF ConsumerInv, Held
<1>2. applied \in [Partitions -> SUBSET Nat] /\ InOrder
  BY DEF ConsumerInv, TypeOK
<1>3. applied' = [applied EXCEPT ![p] = applied[p] \cup {k}]
  BY DEF Applied
<1> HIDE DEF p, k
<1>4. /\ applied'[p] = applied[p] \cup {k}
      /\ \A q \in Partitions \ {p} : applied'[q] = applied[q]
      /\ applied' \in [Partitions -> SUBSET Nat]
  BY <1>1, <1>2, <1>3
<1>5. \A i \in 0..((k + 1) - 1) : i \in 0..(k - 1) \/ i = k
  BY <1>1
<1>6. Below(applied', p, k + 1)
  BY <1>1, <1>4, <1>5 DEF Below
<1>7. ASSUME NEW q \in Partitions, NEW i \in applied'[q], NEW j \in 0..(i - 1)
      PROVE  j \in applied'[q]
  <2>1. CASE q = p /\ i = k
    BY <1>1, <1>4, <1>7, <2>1 DEF Below
  <2>2. CASE i \in applied[q]
    <3>1. j \in applied[q]
      BY <1>2, <1>7, <2>2 DEF InOrder
    <3> QED
      BY <1>4, <3>1
  <2> QED
    BY <1>4, <1>7, <2>1, <2>2
<1>8. InOrder'
  BY <1>7 DEF InOrder
<1> QED
  BY <1>4, <1>6, <1>8 DEF p, k

\* What was held before more records were applied still is.
LEMMA HeldGrows ==
    ASSUME NEW A, NEW B, \A p \in Partitions : A[p] \subseteq B[p], NEW x, Held(A, x)
    PROVE  Held(B, x)
<1>1. \A p \in Partitions : \A n : Below(A, p, n) => Below(B, p, n)
  BY DEF Below
<1> QED
  BY <1>1 DEF Held

LEMMA NoLossGrows ==
    ASSUME NoLoss, \A p \in Partitions : applied[p] \subseteq applied'[p], UNCHANGED committed
    PROVE  NoLoss'
BY DEF NoLoss

LEMMA HandleInv ==
    ASSUME ConsumerInv, NEW m \in Members, Handle(m)
    PROVE  ConsumerInv'
<1> DEFINE y == member[m]
<1>1. y \in MemberStates /\ Held(applied, y) /\ y.pc = "handle" /\ applied' = Applied(m)
  BY DEF Handle, HandleOK, HandleAnswerLost, ConsumerInv, TypeOK
<1>2. UNCHANGED <<end, committed, owner>>
  BY DEF Handle, HandleOK, HandleAnswerLost
<1>3. budget' \in Nat
  BY BudgetType DEF Handle, HandleOK, HandleAnswerLost, ConsumerInv, TypeOK
<1>4. /\ applied' \in [Partitions -> SUBSET Nat]
      /\ \A p \in Partitions : applied[p] \subseteq applied'[p]
      /\ Below(applied', y.part, y.offset + 1)
      /\ InOrder'
  BY <1>1, AppliedFacts
<1>5. NoLoss'
  BY <1>2, <1>4, NoLossGrows DEF ConsumerInv
<1>6. ASSUME NEW x \in MemberStates, Set(m, x), Held(applied', x)
      PROVE  ConsumerInv'
  <2>1. /\ member' \in [Members -> MemberStates]
        /\ member'[m] = x
        /\ \A q \in Members \ {m} : member'[q] = member[q]
    BY <1>6, SetMember DEF ConsumerInv
  <2>2. TypeOK'
    BY <1>2, <1>3, <1>4, <2>1 DEF ConsumerInv, TypeOK
  <2>3. ASSUME NEW q \in Members PROVE Held(applied', member'[q])
    <3>1. Held(applied', member[q])
      BY <1>4, HeldGrows DEF ConsumerInv
    <3> QED
      BY <1>6, <2>1, <3>1
  <2> QED
    BY <1>4, <1>5, <2>2, <2>3 DEF ConsumerInv
<1>7. Held(applied', y)
  BY <1>1, <1>4, HeldGrows
<1>8. CASE HandleOK(m)
  <2> DEFINE x == [y EXCEPT !.pc = "commit"]
  <2>1. Set(m, x)
    BY <1>8 DEF HandleOK, Set, ConsumerInv, TypeOK
  <2> HIDE DEF y
  <2>2. x \in MemberStates /\ x.pc = "commit" /\ x.part = y.part /\ x.offset = y.offset
        /\ x.next = y.next
    BY <1>1 DEF MemberStates
  <2> HIDE DEF x
  <2>3. Held(applied', x)
    BY <1>1, <1>4, <1>7, <2>2 DEF Held
  <2> QED
    BY <1>6, <2>1, <2>2, <2>3
<1>9. CASE HandleAnswerLost(m)
  <2>1. Set(m, y)
    BY <1>9 DEF HandleAnswerLost, Set, ConsumerInv, TypeOK
  <2> QED
    BY <1>1, <1>6, <1>7, <2>1
<1> QED
  BY <1>8, <1>9 DEF Handle

\* A commit, however late, names an offset below which all records are applied.
LEMMA CommittedFacts ==
    ASSUME ConsumerInv, NEW m \in Members, member[m].pc = "commit", committed' = Committed(m),
           UNCHANGED applied
    PROVE  committed' \in [Partitions -> Nat] /\ NoLoss'
<1> DEFINE p == member[m].part
           k == member[m].offset
<1>1. p \in Partitions /\ k \in Nat /\ Below(applied, p, k + 1)
  BY MemberType DEF ConsumerInv, Held
<1>2. committed \in [Partitions -> Nat] /\ NoLoss
  BY DEF ConsumerInv, TypeOK
<1>3. committed' = [committed EXCEPT ![p] = k + 1]
  BY DEF Committed
<1> HIDE DEF p, k
<1>4. /\ committed' \in [Partitions -> Nat]
      /\ committed'[p] = k + 1
      /\ \A q \in Partitions \ {p} : committed'[q] = committed[q]
  BY <1>1, <1>2, <1>3
<1>5. ASSUME NEW q \in Partitions, NEW i \in 0..(committed'[q] - 1) PROVE i \in applied'[q]
  BY <1>1, <1>2, <1>4, <1>5 DEF Below, NoLoss
<1> QED
  BY <1>4, <1>5 DEF NoLoss

LEMMA CommitInv ==
    ASSUME ConsumerInv, NEW m \in Members, Commit(m)
    PROVE  ConsumerInv'
<1> DEFINE y == member[m]
<1>1. y \in MemberStates /\ Held(applied, y) /\ y.pc = "commit" /\ committed' = Committed(m)
  BY DEF Commit, CommitOK, CommitAnswerLost, ConsumerInv, TypeOK
<1>2. UNCHANGED <<end, owner, applied>>
  BY DEF Commit, CommitOK, CommitAnswerLost
<1>3. budget' \in Nat
  BY BudgetType DEF Commit, CommitOK, CommitAnswerLost, ConsumerInv, TypeOK
<1>4. committed' \in [Partitions -> Nat] /\ NoLoss'
  BY <1>1, <1>2, CommittedFacts
<1>5. InOrder'
  BY <1>2 DEF ConsumerInv, InOrder
<1>6. ASSUME NEW x \in MemberStates, Set(m, x), Held(applied, x)
      PROVE  ConsumerInv'
  <2>1. /\ member' \in [Members -> MemberStates]
        /\ member'[m] = x
        /\ \A q \in Members \ {m} : member'[q] = member[q]
    BY <1>6, SetMember DEF ConsumerInv
  <2>2. TypeOK'
    BY <1>2, <1>3, <1>4, <2>1 DEF ConsumerInv, TypeOK
  <2>3. ASSUME NEW q \in Members PROVE Held(applied', member'[q])
    BY <1>2, <1>6, <2>1 DEF ConsumerInv
  <2> QED
    BY <1>4, <1>5, <2>2, <2>3 DEF ConsumerInv
<1>7. CASE CommitOK(m)
  <2> DEFINE x == [y EXCEPT !.pc = "fetch", !.part = NoPartition, !.offset = 0]
  <2>1. Set(m, x)
    BY <1>7 DEF CommitOK, Set, ConsumerInv, TypeOK
  <2> HIDE DEF y
  <2>2. x \in MemberStates /\ x.pc = "fetch" /\ x.next = y.next
    BY <1>1 DEF MemberStates
  <2> HIDE DEF x
  <2>3. Held(applied, x)
    BY <1>1, <2>2 DEF Held
  <2> QED
    BY <1>6, <2>1, <2>2, <2>3
<1>8. CASE CommitAnswerLost(m)
  <2>1. Set(m, y)
    BY <1>8 DEF CommitAnswerLost, Set, ConsumerInv, TypeOK
  <2> QED
    BY <1>1, <1>6, <2>1
<1> QED
  BY <1>7, <1>8 DEF Commit

-----------------------------------------------------------------------------
(* Rebalances and crashes *)

LEMMA StartedHolds ==
    /\ Started \in MemberStates
    /\ \A A : Held(A, Started)
    /\ Started.next \in [Partitions -> Nat \cup {NoPosition}]
    /\ \A p \in Partitions : Started.next[p] = NoPosition
<1>1. /\ Started.pc = "fetch"
      /\ Started.next \in [Partitions -> Nat \cup {NoPosition}]
      /\ \A p \in Partitions : Started.next[p] = NoPosition
  BY DEF Started
<1>2. Started \in MemberStates
  BY DEF Started, MemberStates
<1>3. \A A : Held(A, Started)
  BY <1>1 DEF Held
<1> QED
  BY <1>1, <1>2, <1>3

LEMMA CrashInv ==
    ASSUME ConsumerInv, NEW m \in Members, Crash(m)
    PROVE  ConsumerInv'
<1>1. Set(m, Started) /\ UNCHANGED <<end, committed, owner, applied>> /\ budget' \in Nat
  BY BudgetType DEF Crash, Set, ConsumerInv
<1> QED
  BY <1>1, StartedHolds, OneMoves

LEMMA RebalanceInv ==
    ASSUME ConsumerInv, Rebalance
    PROVE  ConsumerInv'
<1> DEFINE x(m) == [member[m] EXCEPT !.next = Started.next]
<1>1. /\ owner' \in [Partitions -> Members]
      /\ member' = [m \in Members |-> x(m)]
      /\ UNCHANGED <<end, committed, applied>>
      /\ budget' \in Nat
  BY BudgetType DEF Rebalance, ConsumerInv
<1>2. ASSUME NEW m \in Members PROVE x(m) \in MemberStates /\ Held(applied, x(m))
  <2>1. member[m] \in MemberStates /\ Held(applied, member[m])
    BY DEF ConsumerInv, TypeOK
  <2>2. /\ x(m) \in MemberStates /\ x(m).pc = member[m].pc /\ x(m).part = member[m].part
        /\ x(m).offset = member[m].offset /\ x(m).next = Started.next
    BY <2>1, StartedHolds DEF MemberStates
  <2> HIDE DEF x
  <2> QED
    BY <2>1, <2>2, StartedHolds DEF Held
<1> HIDE DEF x
<1>3. member' \in [Members -> MemberStates] /\ \A m \in Members : member'[m] = x(m)
  BY <1>1, <1>2
<1>4. TypeOK'
  BY <1>1, <1>3 DEF ConsumerInv, TypeOK
<1>5. \A m \in Members : Held(applied', member'[m])
  BY <1>1, <1>2, <1>3
<1>6. NoLoss' /\ InOrder'
  BY <1>1 DEF ConsumerInv, NoLoss, InOrder
<1> QED
  BY <1>4, <1>5, <1>6 DEF ConsumerInv

-----------------------------------------------------------------------------
(* The invariant *)

LEMMA InitInv == Init => ConsumerInv
<1> SUFFICES ASSUME Init PROVE ConsumerInv
  OBVIOUS
<1>1. TypeOK
  BY StartedHolds, ConsumerAssumption DEF Init, TypeOK
<1>2. \A m \in Members : Held(applied, member[m])
  BY StartedHolds DEF Init
<1>3. NoLoss /\ InOrder
  BY DEF Init, NoLoss, InOrder
<1> QED
  BY <1>1, <1>2, <1>3 DEF ConsumerInv

LEMMA NextInv == ConsumerInv /\ [Next]_vars => ConsumerInv'
<1> SUFFICES ASSUME ConsumerInv, [Next]_vars PROVE ConsumerInv'
  OBVIOUS
<1>1. CASE \E p \in Partitions : Produce(p)
  BY <1>1, ProduceInv
<1>2. CASE \E m \in Members, p \in Partitions : Subscribe(m, p) \/ Fetch(m, p)
  BY <1>2, SubscribeInv, FetchInv
<1>3. CASE \E m \in Members : Handle(m) \/ Commit(m) \/ Crash(m)
  BY <1>3, HandleInv, CommitInv, CrashInv
<1>4. CASE Rebalance
  BY <1>4, RebalanceInv
<1>5. CASE UNCHANGED vars
  BY <1>5 DEF vars, ConsumerInv, TypeOK, NoLoss, InOrder
<1> QED
  BY <1>1, <1>2, <1>3, <1>4, <1>5 DEF Next

\* Whatever is reassigned, restarted or committed twice, a member holds nothing of a
\* partition below which a record is missing (consumer.go:111).
THEOREM ConsumerInvariant == Spec => []ConsumerInv
BY InitInv, NextInv, PTL DEF Spec

\* Variables stay in their types.
THEOREM TypeCorrect == Spec => []TypeOK
<1>1. ConsumerInv => TypeOK
  BY DEF ConsumerInv
<1> QED
  BY <1>1, ConsumerInvariant, PTL

\* The committed offset never passes a record whose effect is not committed.
THEOREM NothingIsLost == Spec => []NoLoss
<1>1. ConsumerInv => NoLoss
  BY DEF ConsumerInv
<1> QED
  BY <1>1, ConsumerInvariant, PTL

\* The effects of a partition appear in the order of its records.
THEOREM AlwaysInOrder == Spec => []InOrder
<1>1. ConsumerInv => InOrder
  BY DEF ConsumerInv
<1> QED
  BY <1>1, ConsumerInvariant, PTL
-----------------------------------------------------------------------------
(* The refinement of ConsumerPromise *)

\* The effects of a partition are those of its first records, and the record in a
\* member's hands is one of the log.
LogInv ==
    /\ \A p \in Partitions : \E n \in 0..end[p] : applied[p] = 0..(n - 1)
    /\ \A m \in Members : member[m].pc = "handle" => member[m].offset < end[member[m].part]

RefineInv == ConsumerInv /\ LogInv

LEMMA FirstMissingIs ==
    ASSUME NEW e \in Nat, NEW n \in 0..e
    PROVE  FirstMissing(e, 0..(n - 1)) = n
<1>1. n \in 0..e /\ n \notin 0..(n - 1) /\ \A i \in 0..(n - 1) : i \in 0..(n - 1)
  OBVIOUS
<1>2. ASSUME NEW k \in 0..e, k \notin 0..(n - 1), \A i \in 0..(k - 1) : i \in 0..(n - 1)
      PROVE  k = n
  <2>1. k >= n
    BY <1>2
  <2>2. CASE k > n
    <3>1. n \in 0..(k - 1)
      BY <2>2
    <3> QED
      BY <1>1, <1>2, <3>1
  <2> QED
    BY <2>1, <2>2
<1> QED
  BY <1>1, <1>2 DEF FirstMissing

\* What the promise sees of a partition.
LEMMA DoneIs ==
    ASSUME NEW p \in Partitions, end[p] \in Nat, NEW n \in 0..end[p], applied[p] = 0..(n - 1)
    PROVE  Done[p] = n
BY FirstMissingIs DEF Done

LEMMA DoneIsNext ==
    ASSUME NEW p \in Partitions, end'[p] \in Nat, NEW n \in 0..end'[p], applied'[p] = 0..(n - 1)
    PROVE  Done'[p] = n
BY FirstMissingIs DEF Done

LEMMA DoneSame == UNCHANGED <<end, applied>> => UNCHANGED Done
BY DEF Done

LEMMA ProduceRefines ==
    ASSUME RefineInv, NEW p \in Partitions, Produce(p)
    PROVE  LogInv' /\ Promise!Grow(p)
<1>1. /\ end \in [Partitions -> Nat] /\ end' = [end EXCEPT ![p] = end[p] + 1]
      /\ UNCHANGED <<committed, member, applied>>
  BY DEF Produce, RefineInv, ConsumerInv, TypeOK
<1>2. \A q \in Partitions : end[q] \in Nat /\ end'[q] \in Nat /\ end'[q] >= end[q]
  BY <1>1
<1>3. ASSUME NEW q \in Partitions
      PROVE  Done'[q] = Done[q] /\ \E n \in 0..end'[q] : applied'[q] = 0..(n - 1)
  <2>1. PICK n \in 0..end[q] : applied[q] = 0..(n - 1)
    BY DEF RefineInv, LogInv
  <2>2. n \in 0..end'[q] /\ applied'[q] = 0..(n - 1)
    BY <1>1, <1>2, <2>1
  <2> QED
    BY <1>2, <2>1, <2>2, DoneIs, DoneIsNext
<1>4. UNCHANGED Done
  <2>1. /\ Done = [q \in Partitions |-> Done[q]]
        /\ Done' = [q \in Partitions |-> Done'[q]]
    BY DEF Done
  <2> QED
    BY <1>3, <2>1
<1>5. ASSUME NEW m \in Members, member'[m].pc = "handle"
      PROVE  member'[m].offset < end'[member'[m].part]
  <2>1. member[m].part \in Partitions /\ member[m].offset \in Nat
    BY <1>1, <1>5, MemberType DEF RefineInv, ConsumerInv, Held
  <2>2. member[m].offset < end[member[m].part]
    BY <1>1, <1>5 DEF RefineInv, LogInv
  <2> QED
    BY <1>1, <1>2, <2>1, <2>2
<1> QED
  BY <1>1, <1>3, <1>4, <1>5 DEF LogInv, Promise!Grow

\* The transaction of Handle commits: its effect is the next one, or was there.
LEMMA HandleRefines ==
    ASSUME RefineInv, NEW m \in Members, Handle(m)
    PROVE  LogInv' /\ (Promise!PromiseNext \/ UNCHANGED Promise!promiseVars)
<1> DEFINE p == member[m].part
           k == member[m].offset
<1>1. member[m].pc = "handle" /\ applied' = Applied(m) /\ UNCHANGED <<end, committed>>
  BY DEF Handle, HandleOK, HandleAnswerLost
<1>2. p \in Partitions /\ k \in Nat /\ Below(applied, p, k) /\ k < end[p]
  BY <1>1, MemberType DEF RefineInv, ConsumerInv, Held, LogInv
<1>3. applied \in [Partitions -> SUBSET Nat] /\ end[p] \in Nat
  BY <1>2 DEF RefineInv, ConsumerInv, TypeOK
<1>4. applied' = [applied EXCEPT ![p] = applied[p] \cup {k}]
  BY <1>1 DEF Applied
<1>5. \A q \in Members : member'[q].pc = "handle" =>
         member[q].pc = "handle" /\ member'[q].offset = member[q].offset
                                 /\ member'[q].part = member[q].part
  <2>1. CASE UNCHANGED member
    BY <2>1
  <2>2. CASE member' = [member EXCEPT ![m].pc = "commit"]
    <3>1. \A q \in Members : q # m => member'[q] = member[q]
      BY <2>2 DEF RefineInv, ConsumerInv, TypeOK
    <3>2. member'[m].pc = "commit"
      BY <2>2, MemberType DEF RefineInv, ConsumerInv, TypeOK, MemberStates
    <3> QED
      BY <3>1, <3>2
  <2> QED
    BY <2>1, <2>2 DEF Handle, HandleOK, HandleAnswerLost
<1>6. \A q \in Members : member'[q].pc = "handle" => member'[q].offset < end'[member'[q].part]
  BY <1>1, <1>5 DEF RefineInv, LogInv
<1> HIDE DEF p, k
<1>7. PICK n \in 0..end[p] : applied[p] = 0..(n - 1)
  BY <1>2 DEF RefineInv, LogInv
<1>8. k <= n
  <2>1. CASE k > n
    <3>1. n \in 0..(k - 1) /\ n \notin 0..(n - 1)
      BY <1>2, <1>3, <2>1
    <3> QED
      BY <1>2, <1>7, <3>1 DEF Below
  <2> QED
    BY <1>2, <1>3, <2>1
<1>9. Done[p] = n
  BY <1>2, <1>3, <1>7, DoneIs
<1>10. \A q \in Partitions \ {p} : applied'[q] = applied[q] /\ Done'[q] = Done[q]
  BY <1>1, <1>3, <1>4 DEF Done
<1>11. /\ Done = [q \in Partitions |-> Done[q]]
       /\ Done' = [q \in Partitions |-> Done'[q]]
  BY DEF Done
<1>12. CASE k < n
  <2>1. applied'[p] = 0..(n - 1)
    BY <1>2, <1>3, <1>4, <1>7, <1>12
  <2>2. applied' = applied
    BY <1>2, <1>3, <1>4, <1>7, <2>1
  <2>3. UNCHANGED Done
    BY <1>1, <2>2, DoneSame
  <2>4. LogInv'
    BY <1>1, <1>6, <2>2 DEF RefineInv, LogInv
  <2> QED
    BY <1>1, <2>3, <2>4 DEF Promise!promiseVars
<1>13. CASE k = n
  <2>1. n + 1 \in 0..end[p]
    BY <1>2, <1>3, <1>13
  <2>2. 0..(n - 1) \cup {n} = 0..((n + 1) - 1)
    BY <1>3
  <2>3. applied'[p] = 0..((n + 1) - 1)
    BY <1>2, <1>3, <1>4, <1>7, <1>13, <2>2
  <2>4. Done'[p] = n + 1
    BY <1>1, <1>2, <1>3, <2>1, <2>3, DoneIsNext
  <2>5. Done' = [Done EXCEPT ![p] = Done[p] + 1]
    BY <1>2, <1>9, <1>10, <1>11, <2>4
  <2>6. Promise!Effect(p)
    BY <1>1, <1>2, <1>9, <1>13, <2>5 DEF Promise!Effect
  <2>7. \A q \in Partitions : \E i \in 0..end'[q] : applied'[q] = 0..(i - 1)
    BY <1>1, <1>10, <2>1, <2>3 DEF RefineInv, LogInv
  <2> QED
    BY <1>2, <1>6, <2>6, <2>7 DEF LogInv, Promise!PromiseNext
<1> QED
  BY <1>2, <1>3, <1>8, <1>12, <1>13

\* The record of a commit, and all before it, have their effects.
LEMMA CommitRefines ==
    ASSUME RefineInv, NEW m \in Members, Commit(m)
    PROVE  Promise!PromiseNext
<1> DEFINE p == member[m].part
           k == member[m].offset
<1>1. /\ member[m].pc = "commit" /\ UNCHANGED <<end, applied>>
      /\ committed' = [committed EXCEPT ![p] = k + 1]
  BY DEF Commit, CommitOK, CommitAnswerLost, Committed
<1>2. p \in Partitions /\ k \in Nat /\ Below(applied, p, k + 1)
  BY <1>1, MemberType DEF RefineInv, ConsumerInv, Held
<1>3. end[p] \in Nat
  BY <1>2 DEF RefineInv, ConsumerInv, TypeOK
<1> HIDE DEF p, k
<1>4. PICK n \in 0..end[p] : applied[p] = 0..(n - 1)
  BY <1>2 DEF RefineInv, LogInv
<1>5. Done[p] = n
  BY <1>2, <1>3, <1>4, DoneIs
<1>6. k \in 0..((k + 1) - 1)
  BY <1>2
<1>7. k \in 0..(n - 1)
  BY <1>2, <1>4, <1>6 DEF Below
<1>8. k + 1 \in 0..Done[p]
  BY <1>2, <1>3, <1>5, <1>7
<1>9. UNCHANGED Done
  BY <1>1, DoneSame
<1> QED
  BY <1>1, <1>2, <1>8, <1>9 DEF Promise!Commit, Promise!PromiseNext

\* A step that neither appends, applies nor commits is not seen; a record that is
\* taken up is one of the log.
LEMMA QuietRefines ==
    ASSUME RefineInv, UNCHANGED <<end, committed, applied>>,
           \A m \in Members : member'[m].pc = "handle" =>
              \/ member[m].pc = "handle" /\ member'[m].offset = member[m].offset
                                         /\ member'[m].part = member[m].part
              \/ member'[m].offset < end[member'[m].part]
    PROVE  LogInv' /\ UNCHANGED Promise!promiseVars
<1>1. LogInv'
  BY DEF RefineInv, LogInv
<1> QED
  BY <1>1, DoneSame DEF Promise!promiseVars

LEMMA ReaderRefines ==
    ASSUME RefineInv, NEW m \in Members, NEW p \in Partitions, Subscribe(m, p) \/ Fetch(m, p)
    PROVE  LogInv' /\ UNCHANGED Promise!promiseVars
<1> DEFINE y == member[m]
<1>1. member \in [Members -> MemberStates] /\ y \in MemberStates
  BY DEF RefineInv, ConsumerInv, TypeOK
<1>2. UNCHANGED <<end, committed, applied>>
  BY DEF Subscribe, Fetch
<1>3. \A q \in Members : q # m => member'[q] = member[q]
  BY <1>1 DEF Subscribe, Fetch
<1>4. CASE Subscribe(m, p)
  <2>1. member'[m].pc = y.pc /\ member'[m].offset = y.offset /\ member'[m].part = y.part
    BY <1>1, <1>4 DEF Subscribe, MemberStates
  <2> QED
    BY <1>2, <1>3, <2>1, QuietRefines
<1>5. CASE Fetch(m, p)
  <2>1. member'[m].offset = y.next[p] /\ member'[m].part = p /\ y.next[p] < end[p]
    BY <1>1, <1>5 DEF Fetch, MemberStates
  <2> QED
    BY <1>2, <1>3, <2>1, QuietRefines
<1> QED
  BY <1>4, <1>5

\* A commit moves no record into a member's hands, nor do rebalances and crashes.
LEMMA OtherRefines ==
    ASSUME RefineInv, (\E m \in Members : Commit(m) \/ Crash(m)) \/ Rebalance
    PROVE  LogInv' /\ [Promise!PromiseNext]_Promise!promiseVars
<1>1. \A q \in Members : member[q] \in MemberStates
  BY MemberType DEF RefineInv, ConsumerInv
<1>2. member \in [Members -> MemberStates]
  BY DEF RefineInv, ConsumerInv, TypeOK
<1>3. ASSUME NEW m \in Members, Commit(m)
      PROVE  LogInv' /\ Promise!PromiseNext
  <2>1. \A q \in Members : member'[q].pc = "handle" => member'[q] = member[q]
    <3>1. CASE UNCHANGED member
      BY <3>1
    <3>2. CASE CommitOK(m)
      <4>1. member'[m].pc = "fetch"
        BY <1>1, <1>2, <3>2 DEF CommitOK, MemberStates
      <4>2. \A q \in Members : q # m => member'[q] = member[q]
        BY <1>2, <3>2 DEF CommitOK
      <4> QED
        BY <4>1, <4>2
    <3> QED
      BY <1>3, <3>1, <3>2 DEF Commit, CommitAnswerLost
  <2>2. UNCHANGED <<end, applied>>
    BY <1>3 DEF Commit, CommitOK, CommitAnswerLost
  <2>3. LogInv'
    BY <2>1, <2>2 DEF RefineInv, LogInv
  <2> QED
    BY <1>3, <2>3, CommitRefines
<1>4. ASSUME NEW m \in Members, Crash(m)
      PROVE  LogInv' /\ UNCHANGED Promise!promiseVars
  <2>1. \A q \in Members : member'[q] = IF q = m THEN Started ELSE member[q]
    BY <1>2, <1>4 DEF Crash
  <2>2. Started.pc = "fetch"
    BY DEF Started
  <2> QED
    BY <1>4, <2>1, <2>2, QuietRefines DEF Crash
<1>5. ASSUME Rebalance
      PROVE  LogInv' /\ UNCHANGED Promise!promiseVars
  <2>1. \A q \in Members : /\ member'[q].pc = member[q].pc /\ member'[q].offset = member[q].offset
                           /\ member'[q].part = member[q].part
    BY <1>1, <1>5 DEF Rebalance, MemberStates
  <2> QED
    BY <1>5, <2>1, QuietRefines DEF Rebalance
<1> QED
  BY <1>3, <1>4, <1>5

LEMMA StepRefines ==
    ASSUME RefineInv, [Next]_vars
    PROVE  LogInv' /\ [Promise!PromiseNext]_Promise!promiseVars
<1>1. CASE UNCHANGED vars
  BY <1>1, QuietRefines DEF vars
<1>2. CASE \E p \in Partitions : Produce(p)
  BY <1>2, ProduceRefines DEF Promise!PromiseNext
<1>3. CASE \E m \in Members, p \in Partitions : Subscribe(m, p) \/ Fetch(m, p)
  BY <1>3, ReaderRefines
<1>4. CASE \E m \in Members : Handle(m)
  BY <1>4, HandleRefines
<1>5. CASE (\E m \in Members : Commit(m) \/ Crash(m)) \/ Rebalance
  BY <1>5, OtherRefines
<1> QED
  BY <1>1, <1>2, <1>3, <1>4, <1>5 DEF Next

\* The group is one consumer to the service behind it: whatever is reassigned,
\* restarted or repeated, the next effect of a partition is that of its next record,
\* once, and no commit is ahead of it (consumer.go:111).
THEOREM GroupImplementsPromise == Spec => ImplementsPromise
<1>1. Init => RefineInv /\ Promise!PromiseInit
  <2> SUFFICES ASSUME Init PROVE RefineInv /\ Promise!PromiseInit
    OBVIOUS
  <2>1. \A p \in Partitions : end[p] = 0 /\ 0 \in 0..end[p] /\ applied[p] = 0..(0 - 1)
    BY DEF Init
  <2>2. ASSUME NEW p \in Partitions
        PROVE  Done[p] = 0
    <3>1. end[p] \in Nat /\ 0 \in 0..end[p] /\ applied[p] = 0..(0 - 1)
      BY <2>1
    <3> QED
      BY <3>1, DoneIs
  <2>3. \A m \in Members : member[m].pc = "fetch"
    BY DEF Init, Started
  <2>4. LogInv
    BY <2>1, <2>3 DEF LogInv
  <2>5. Done = [p \in Partitions |-> 0]
    BY <2>2 DEF Done
  <2> QED
    BY <2>4, <2>5, InitInv DEF Init, RefineInv, Promise!PromiseInit
<1>2. RefineInv /\ [Next]_vars => RefineInv'
  BY NextInv, StepRefines DEF RefineInv
<1>3. RefineInv /\ [Next]_vars => [Promise!PromiseNext]_Promise!promiseVars
  BY StepRefines
<1> QED
  BY <1>1, <1>2, <1>3, PTL DEF Spec, ImplementsPromise, Promise!PromiseSpec
==============================================================================
