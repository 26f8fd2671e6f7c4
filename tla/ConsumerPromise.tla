---------------------------- MODULE ConsumerPromise ----------------------------
(***************************************************************************)
(* What a consumer group promises the service behind it, without members,  *)
(* rebalances or lost answers: the effects of a partition appear one after *)
(* the other in the order of its records, each once, and no offset is      *)
(* committed ahead of them (internal/platform/kafkaconsume/consumer.go).   *)
(* Nothing is promised about offsets that fall back: records may be read   *)
(* again.  KafkaConsumer implements this module.                           *)
(***************************************************************************)
EXTENDS Naturals

CONSTANTS Partitions

VARIABLES
    end,         \* number of records in each partition
    done,        \* number of records whose effect is there
    committed    \* committed offset

promiseVars == <<end, done, committed>>

PromiseInit ==
    /\ end = [p \in Partitions |-> 0]
    /\ done = [p \in Partitions |-> 0]
    /\ committed = [p \in Partitions |-> 0]

Grow(p) ==
    /\ end' = [end EXCEPT ![p] = @ + 1]
    /\ UNCHANGED <<done, committed>>

\* The effect of the next record.
Effect(p) ==
    /\ done[p] < end[p]
    /\ done' = [done EXCEPT ![p] = @ + 1]
    /\ UNCHANGED <<end, committed>>

\* Any offset that is not ahead of the effects, be it lower than before.
Commit(p) ==
    /\ \E k \in 0..done[p] : committed' = [committed EXCEPT ![p] = k]
    /\ UNCHANGED <<end, done>>

PromiseNext == \E p \in Partitions : Grow(p) \/ Effect(p) \/ Commit(p)

PromiseSpec == PromiseInit /\ [][PromiseNext]_promiseVars
==============================================================================
