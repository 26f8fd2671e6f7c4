---------------------------- MODULE KafkaConsumer ----------------------------
(***************************************************************************)
(* The consumer loop of partner-service and of order-service               *)
(* (internal/platform/kafkaconsume/consumer.go) as the members of one      *)
(* consumer group: fetch a record, handle it until that succeeds, commit   *)
(* its offset until that succeeds, and only then fetch the next one.       *)
(*                                                                         *)
(* One Run loop serves every partition its member owns.  What the broker   *)
(* and the kafka-go reader do (assignment, positions, committed offsets)   *)
(* is modelled from how the loop uses them: with CommitInterval 0 a commit *)
(* is a request of its own, and nothing in it depends on still owning the  *)
(* partition.                                                              *)
(***************************************************************************)
EXTENDS Integers

CONSTANTS
    Members,       \* consumer processes of the group
    Partitions,
    Poison,        \* <<partition, offset>> of records Handle never accepts
    MaxOffset,     \* bound: records per partition
    MaxFaults,     \* bound: rebalances, crashes and lost answers in a run
    NoPosition,    \* the reader has not subscribed to the partition
    NoPartition    \* no current record

ASSUME ConsumerAssumption ==
    /\ MaxOffset \in Nat
    /\ MaxFaults \in Nat
    /\ Poison \subseteq Partitions \X Nat
    /\ NoPosition \notin Nat
    /\ NoPartition \notin Partitions

VARIABLES
    end,         \* number of records in each partition
    committed,   \* committed offset of the group: the next record to read
    owner,       \* member each partition is assigned to
    member,      \* each member: where Run is, its record, its read positions
    applied,     \* offsets whose effect is committed in the service's database
    budget       \* environment faults left (bound)

vars == <<end, committed, owner, member, applied, budget>>

-----------------------------------------------------------------------------

MemberStates == [pc     : {"fetch", "handle", "commit"},
                 part   : Partitions \cup {NoPartition},
                 offset : Nat,
                 next   : [Partitions -> Nat \cup {NoPosition}]]

TypeOK ==
    /\ end \in [Partitions -> Nat]
    /\ committed \in [Partitions -> Nat]
    /\ owner \in [Partitions -> Members]
    /\ member \in [Members -> MemberStates]
    /\ applied \in [Partitions -> SUBSET Nat]
    /\ budget \in Nat

Started == [pc |-> "fetch", part |-> NoPartition, offset |-> 0,
            next |-> [p \in Partitions |-> NoPosition]]

Init ==
    /\ end = [p \in Partitions |-> 0]
    /\ committed = [p \in Partitions |-> 0]
    /\ owner \in [Partitions -> Members]
    /\ member = [m \in Members |-> Started]
    /\ applied = [p \in Partitions |-> {}]
    /\ budget = MaxFaults

-----------------------------------------------------------------------------

Fault == budget > 0 /\ budget' = budget - 1

\* A relay appends a record.
Produce(p) ==
    /\ end[p] < MaxOffset
    /\ end' = [end EXCEPT ![p] = @ + 1]
    /\ UNCHANGED <<committed, owner, member, applied, budget>>

\* Broken variant: a group without an offset starts with the next record to come
\* (StartOffset: kafka.LastOffset).
Bug_StartsAtEnd(m, p) ==
    /\ owner[p] = m
    /\ member[m].next[p] = NoPosition
    /\ member' = [member EXCEPT ![m].next[p] = IF committed[p] = 0 THEN end[p] ELSE committed[p]]
    /\ UNCHANGED <<end, committed, owner, applied, budget>>

\* The reader starts a partition it was given at the committed offset, or at the
\* first record (consumer.go sets no StartOffset).
Subscribe(m, p) ==
    /\ owner[p] = m
    /\ member[m].next[p] = NoPosition
    /\ member' = [member EXCEPT ![m].next[p] = committed[p]]
    /\ UNCHANGED <<end, committed, owner, applied, budget>>

Fetch(m, p) ==
    /\ member[m].pc = "fetch"
    /\ owner[p] = m
    /\ member[m].next[p] # NoPosition
    /\ member[m].next[p] < end[p]
    /\ member' = [member EXCEPT ![m].pc = "handle",
                                ![m].part = p,
                                ![m].offset = member[m].next[p],
                                ![m].next[p] = @ + 1]
    /\ UNCHANGED <<end, committed, owner, applied, budget>>

Applied(m) == [applied EXCEPT ![member[m].part] = @ \cup {member[m].offset}]

Acceptable(m) == <<member[m].part, member[m].offset>> \notin Poison

\* Broken variant: the error of Handle is logged and the record committed.
Bug_ErrorIsSuccess(m) ==
    /\ member[m].pc = "handle"
    /\ applied' \in {applied, Applied(m)}
    /\ member' = [member EXCEPT ![m].pc = "commit"]
    /\ UNCHANGED <<end, committed, owner, budget>>

\* Handle returns nil: its transaction is committed (or was before).
HandleOK(m) ==
    /\ member[m].pc = "handle"
    /\ Acceptable(m)
    /\ applied' = Applied(m)
    /\ member' = [member EXCEPT ![m].pc = "commit"]
    /\ UNCHANGED <<end, committed, owner, budget>>

\* Handle returns an error although its transaction is committed; the loop
\* handles the record again.  (An error without effect changes nothing here.)
HandleAnswerLost(m) ==
    /\ member[m].pc = "handle"
    /\ Acceptable(m)
    /\ Fault
    /\ applied' = Applied(m)
    /\ UNCHANGED <<end, committed, owner, member>>

Committed(m) == [committed EXCEPT ![member[m].part] = member[m].offset + 1]

\* The broker stores the offset as sent, be it lower than what it holds.
CommitOK(m) ==
    /\ member[m].pc = "commit"
    /\ committed' = Committed(m)
    /\ member' = [member EXCEPT ![m].pc = "fetch", ![m].part = NoPartition, ![m].offset = 0]
    /\ UNCHANGED <<end, owner, applied, budget>>

CommitAnswerLost(m) ==
    /\ member[m].pc = "commit"
    /\ Fault
    /\ committed' = Committed(m)
    /\ UNCHANGED <<end, owner, member, applied>>

\* The group assigns the partitions anew; every reader starts over, a loop
\* that is busy with a record does not notice.
Rebalance ==
    /\ Fault
    /\ owner' \in [Partitions -> Members]
    /\ member' = [m \in Members |-> [member[m] EXCEPT !.next = Started.next]]
    /\ UNCHANGED <<end, committed, applied>>

\* Shutdown or crash, and restart.
Crash(m) ==
    /\ Fault
    /\ member' = [member EXCEPT ![m] = Started]
    /\ UNCHANGED <<end, committed, owner, applied>>

Handle(m) == HandleOK(m) \/ HandleAnswerLost(m)

Commit(m) == CommitOK(m) \/ CommitAnswerLost(m)

Next ==
    \/ \E p \in Partitions : Produce(p)
    \/ \E m \in Members, p \in Partitions : Subscribe(m, p) \/ Fetch(m, p)
    \/ \E m \in Members : Handle(m) \/ Commit(m) \/ Crash(m)
    \/ Rebalance

Spec == Init /\ [][Next]_vars

\* The loop goes on; a retried Handle or Commit succeeds unless the record is
\* poison; the reader delivers the partitions it owns in turn.
Fairness ==
    \A m \in Members :
        /\ WF_vars(HandleOK(m))
        /\ WF_vars(CommitOK(m))
        /\ \A p \in Partitions : WF_vars(Subscribe(m, p)) /\ SF_vars(Fetch(m, p))

FairSpec == Spec /\ Fairness

-----------------------------------------------------------------------------
(* Properties *)

\* No record is skipped: the committed offset never passes a record whose
\* effect is not committed, although a member that lost a partition still
\* handles and commits its record (README.md:199).
NoLoss ==
    \A p \in Partitions : \A i \in 0..(committed[p] - 1) : i \in applied[p]

\* The effects of a partition appear in the order of its records, however many
\* members work on them after rebalances.
InOrder ==
    \A p \in Partitions : \A i \in applied[p] : \A j \in 0..(i - 1) : j \in applied[p]

\* The first record below n that is missing in A, or n.
FirstMissing(n, A) == CHOOSE k \in 0..n : k \notin A /\ \A i \in 0..(k - 1) : i \in A

\* Records of each partition whose effects are there, those behind a missing one
\* left out.
Done == [p \in Partitions |-> FirstMissing(end[p], applied[p])]

Promise == INSTANCE ConsumerPromise WITH done <- Done

\* To the service behind it the group is one consumer that is never interrupted:
\* whoever owns a partition, repeats a record or commits late, the next effect is
\* that of the next record, it appears once, and no commit is ahead of it.
ImplementsPromise == Promise!PromiseSpec

\* Every record is applied in the end, whatever crashes, is lost or reassigned.
EventuallyApplied ==
    \A p \in Partitions : \A i \in 0..(MaxOffset - 1) :
        end[p] > i ~> i \in applied[p]

\* docs/adr/0001-microservices-grpc-kafka.md:39 says a poison event blocks its
\* own Kafka partition: the others go on.
OthersProgress ==
    \A p \in Partitions : \A i \in 0..(MaxOffset - 1) :
        (\A q \in Poison : q[1] # p) => (end[p] > i ~> i \in applied[p])
==============================================================================
