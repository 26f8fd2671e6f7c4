---------------------------- MODULE OutboxPromise ----------------------------
(***************************************************************************)
(* What a transactional outbox promises its service, without relays,       *)
(* leases or failures: an event stored by a business transaction reaches   *)
(* the Kafka topic at least once before its row is settled.  Nothing is    *)
(* promised about the number of copies (internal/platform/outbox: the      *)
(* broker write and the row update are two separate effects).              *)
(* OutboxRelay implements this module; the end-to-end model relies on it.  *)
(***************************************************************************)
EXTENDS Naturals

CONSTANTS
    Events,     \* outbox rows a run may store
    Poison      \* rows the broker refuses for ever

VARIABLES
    stored,     \* rows committed by a business transaction
    copies,     \* number of records of each event in the topic
    settled     \* rows whose published_at is set

promiseVars == <<stored, copies, settled>>

PromiseTypeOK ==
    /\ stored \subseteq Events
    /\ copies \in [Events -> Nat]
    /\ settled \subseteq stored

PromiseInit ==
    /\ stored = {}
    /\ copies = [e \in Events |-> 0]
    /\ settled = {}

\* The business transaction commits the row together with its state change.
Store(e) ==
    /\ e \notin stored
    /\ stored' = stored \cup {e}
    /\ UNCHANGED <<copies, settled>>

\* Further records of a stored event appear in the topic.  A relay that lost
\* its lease may still append after another relay has settled the row.
Append(e) ==
    /\ e \in stored \ Poison
    /\ copies' \in [Events -> Nat]
    /\ copies'[e] > copies[e]
    /\ \A f \in Events \ {e} : copies'[f] = copies[f]
    /\ UNCHANGED <<stored, settled>>

\* Only an event that is in the topic is settled.
Settle(e) ==
    /\ e \in stored \ settled
    /\ copies[e] > 0
    /\ settled' = settled \cup {e}
    /\ UNCHANGED <<stored, copies>>

PromiseNext == \E e \in Events : Store(e) \/ Append(e) \/ Settle(e)

PromiseSpec == PromiseInit /\ [][PromiseNext]_promiseVars
==============================================================================
