----------------------------- MODULE OutboxRelay -----------------------------
(***************************************************************************)
(* The transactional outbox of order-service and of partner-service: the   *)
(* table (internal/order/postgres/outbox.go, internal/partner/postgres/    *)
(* outbox.go: the same statements over two schemas) and the relays that    *)
(* drain it into Kafka (internal/platform/outbox/relay.go).                *)
(*                                                                         *)
(* A relay id is service name + a UUID drawn at process start              *)
(* (cmd/order-service/main.go:50, cmd/partner-service/main.go:62), so a    *)
(* restarted process never owns the rows of its previous life: the owner   *)
(* of a row is <<relay, epoch>>.                                           *)
(*                                                                         *)
(* Time is abstracted to what the statements compare: whether the lease    *)
(* (locked_until) is in the future and whether the row is due              *)
(* (next_attempt_at).  publish_attempts and last_error are read by no one  *)
(* and left out.                                                           *)
(***************************************************************************)
EXTENDS Naturals, FiniteSets

CONSTANTS
    Relays,      \* relay processes (replicas of one service)
    Events,      \* outbox rows, numbered in (occurred_at, id) order
    KeyOf,       \* partition key (order id) of each row
    Poison,      \* rows the broker refuses for ever (e.g. oversized records)
    BatchSize,   \* relay.go batchSize, the LIMIT of the claim
    MaxFaults,   \* bound: crashes, lost answers and overrun leases in a run
    NoOwner,     \* locked_by IS NULL
    NoEvent      \* no current message

ASSUME RelayAssumption ==
    /\ Events \subseteq Nat
    /\ Poison \subseteq Events
    /\ BatchSize \in Nat \ {0}
    /\ MaxFaults \in Nat
    /\ NoOwner \notin Relays \X Nat
    /\ NoEvent \notin Events
    /\ IsFiniteSet(Relays)

VARIABLES
    row,      \* the outbox table
    copies,   \* number of records of each event in the Kafka topic
    relay,    \* each relay: where RunOnce is, its batch, the current message
    epoch,    \* which life of the process holds the relay id
    budget,   \* environment faults left (bound)
    excess    \* history: copies of each event a fault gives an excuse for

vars == <<row, copies, relay, epoch, budget, excess>>

-----------------------------------------------------------------------------

Rows == [status : {"absent", "pending", "published"},
         owner  : (Relays \X Nat) \cup {NoOwner},
         lease  : {"none", "live", "expired"},
         due    : BOOLEAN]

\* idle: between RunOnce calls; sending: in the loop, before Publish;
\* acked / refused: Publish returned nil / an error, the row is to be marked.
RelayStates == [pc    : {"idle", "sending", "acked", "refused"},
                batch : SUBSET Events,
                cur   : Events \cup {NoEvent}]

TypeOK ==
    /\ row \in [Events -> Rows]
    /\ copies \in [Events -> Nat]
    /\ relay \in [Relays -> RelayStates]
    /\ epoch \in [Relays -> Nat]
    /\ budget \in Nat
    /\ excess \in [Events -> Nat]

FreeRow(status, due) ==
    [status |-> status, owner |-> NoOwner, lease |-> "none", due |-> due]

Idle == [pc |-> "idle", batch |-> {}, cur |-> NoEvent]

Init ==
    /\ row = [e \in Events |-> FreeRow("absent", TRUE)]
    /\ copies = [e \in Events |-> 0]
    /\ relay = [r \in Relays |-> Idle]
    /\ epoch = [r \in Relays |-> 0]
    /\ budget = MaxFaults
    /\ excess = [e \in Events |-> 0]

-----------------------------------------------------------------------------

Me(r) == <<r, epoch[r]>>

\* Broken variant: the claim ignores locked_until.
Bug_LeaseIgnored ==
    {e \in Events : row[e].status = "pending" /\ row[e].due}

\* Broken variant: a lock is never taken over (locked_until IS NULL only).
Bug_ExpiredNotReclaimed ==
    {e \in Events : row[e].status = "pending" /\ row[e].lease = "none" /\ row[e].due}

\* WHERE clause of the claim: unpublished, lock free or in the past, due.
Claimable ==
    {e \in Events : /\ row[e].status = "pending"
                    /\ row[e].lease # "live"
                    /\ row[e].due}

\* ORDER BY occurred_at, id LIMIT BatchSize
Oldest(S) == {e \in S : Cardinality({f \in S : f < e}) < BatchSize}

Leased(r, S) ==
    [e \in Events |-> IF e \in S
                      THEN [row[e] EXCEPT !.owner = Me(r), !.lease = "live"]
                      ELSE row[e]]

\* Broken variant: the mark does not ask who holds the row.
Bug_OwnerIgnored(r, e) == row[e].status = "pending"

\* WHERE clause of both mark statements: still mine and still unpublished.
Owned(r, e) == row[e].owner = Me(r) /\ row[e].status = "pending"

\* RunOnce is still going to act on e under a lease that has not run out.
Held(r, e) ==
    /\ e \in relay[r].batch
    /\ row[e].owner = Me(r)
    /\ row[e].lease = "live"

\* One message of the batch is done: the loop goes on, or RunOnce returns nil.
Advance(r) ==
    LET rest == relay[r].batch \ {relay[r].cur}
    IN [relay EXCEPT ![r] = IF rest = {} THEN Idle
                            ELSE [pc |-> "sending", batch |-> rest, cur |-> NoEvent]]

\* RunOnce returns an error: the rest of the batch stays leased, unattended.
Abandon(r) == [relay EXCEPT ![r] = Idle]

-----------------------------------------------------------------------------

\* A business transaction commits its outbox row (CreateOrder, or
\* ReceiveStatusCallback).  occurred_at is drawn before the transaction, so
\* rows may be committed in another order.
Enqueue(e) ==
    /\ row[e].status = "absent"
    /\ row' = [row EXCEPT ![e] = FreeRow("pending", TRUE)]
    /\ UNCHANGED <<copies, relay, epoch, budget, excess>>

\* RunOnce claims a batch.  The order in which UPDATE ... RETURNING yields the
\* rows is not specified, so the batch is a set.  SKIP LOCKED passes over rows that
\* another statement holds; a statement is one step here, so none is held.
Claim(r) ==
    /\ relay[r].pc = "idle"
    /\ Claimable # {}
    /\ row' = Leased(r, Oldest(Claimable))
    /\ relay' = [relay EXCEPT ![r] =
                    [pc |-> "sending", batch |-> Oldest(Claimable), cur |-> NoEvent]]
    /\ UNCHANGED <<copies, epoch, budget, excess>>

\* The claim commits and its answer is lost: leased rows nobody works on.
ClaimAnswerLost(r) ==
    /\ relay[r].pc = "idle"
    /\ Claimable # {}
    /\ budget > 0
    /\ budget' = budget - 1
    /\ row' = Leased(r, Oldest(Claimable))
    /\ UNCHANGED <<copies, relay, epoch, excess>>

\* Publish of one message of the batch: the broker has it and says so.
PublishAcked(r, e) ==
    /\ relay[r].pc = "sending"
    /\ e \in relay[r].batch \ Poison
    /\ copies' = [copies EXCEPT ![e] = @ + 1]
    /\ relay' = [relay EXCEPT ![r].pc = "acked", ![r].cur = e]
    /\ UNCHANGED <<row, epoch, budget, excess>>

\* The Kafka writer repeats a write whose acknowledgement it missed and then
\* succeeds: one Publish call, two records.
PublishRepeated(r, e) ==
    /\ relay[r].pc = "sending"
    /\ e \in relay[r].batch \ Poison
    /\ budget > 0
    /\ budget' = budget - 1
    /\ copies' = [copies EXCEPT ![e] = @ + 2]
    /\ excess' = [excess EXCEPT ![e] = @ + 1]
    /\ relay' = [relay EXCEPT ![r].pc = "acked", ![r].cur = e]
    /\ UNCHANGED <<row, epoch>>

\* Publish returns an error and the record is not in the topic.
PublishRefused(r, e) ==
    /\ relay[r].pc = "sending"
    /\ e \in relay[r].batch
    /\ relay' = [relay EXCEPT ![r].pc = "refused", ![r].cur = e]
    /\ UNCHANGED <<row, copies, epoch, budget, excess>>

\* Publish returns an error although the record is in the topic.
PublishAckLost(r, e) ==
    /\ relay[r].pc = "sending"
    /\ e \in relay[r].batch \ Poison
    /\ budget > 0
    /\ budget' = budget - 1
    /\ copies' = [copies EXCEPT ![e] = @ + 1]
    /\ excess' = [excess EXCEPT ![e] = @ + 1]
    /\ relay' = [relay EXCEPT ![r].pc = "refused", ![r].cur = e]
    /\ UNCHANGED <<row, epoch>>

\* Broken variant: the error of Publish is dropped.
Bug_PublishErrorDropped(r, e) == FreeRow("published", TRUE)

\* What the two mark statements write when their WHERE clause matches.
Marked(r, e) ==
    CASE relay[r].pc = "acked"   -> FreeRow("published", TRUE)
      [] relay[r].pc = "refused" -> FreeRow("pending", FALSE)

\* MarkPublished, or MarkFailed, updates the row and the loop goes on.
MarkDone(r) ==
    /\ relay[r].pc \in {"acked", "refused"}
    /\ Owned(r, relay[r].cur)
    /\ row' = [row EXCEPT ![relay[r].cur] = Marked(r, relay[r].cur)]
    /\ relay' = Advance(r)
    /\ UNCHANGED <<copies, epoch, budget, excess>>

\* The mark matches no row (ErrOutboxMessageNotOwned): RunOnce gives up.
MarkNotOwned(r) ==
    /\ relay[r].pc \in {"acked", "refused"}
    /\ ~Owned(r, relay[r].cur)
    /\ relay' = Abandon(r)
    /\ UNCHANGED <<row, copies, epoch, budget, excess>>

\* The mark takes effect, its answer is lost, RunOnce gives up.
MarkAnswerLost(r) ==
    /\ relay[r].pc \in {"acked", "refused"}
    /\ Owned(r, relay[r].cur)
    /\ budget > 0
    /\ budget' = budget - 1
    /\ row' = [row EXCEPT ![relay[r].cur] = Marked(r, relay[r].cur)]
    /\ relay' = Abandon(r)
    /\ UNCHANGED <<copies, epoch, excess>>

\* An acked message whose mark will never happen may be sent once more.
Unmarked(r) ==
    IF relay[r].pc = "acked"
    THEN [excess EXCEPT ![relay[r].cur] = @ + 1]
    ELSE excess

\* The database does not execute the mark, RunOnce gives up.
MarkError(r) ==
    /\ relay[r].pc \in {"acked", "refused"}
    /\ budget > 0
    /\ budget' = budget - 1
    /\ relay' = Abandon(r)
    /\ excess' = Unmarked(r)
    /\ UNCHANGED <<row, copies, epoch>>

\* The process dies (main does not wait for the relay on shutdown) and comes
\* back with a new relay id.
Crash(r) ==
    /\ budget > 0
    /\ budget' = budget - 1
    /\ epoch' = [epoch EXCEPT ![r] = @ + 1]
    /\ relay' = Abandon(r)
    /\ excess' = Unmarked(r)
    /\ UNCHANGED <<row, copies>>

\* locked_until passes while nobody works on the row ...
LeaseExpires(e) ==
    /\ row[e].lease = "live"
    /\ \A r \in Relays : ~Held(r, e)
    /\ row' = [row EXCEPT ![e].lease = "expired"]
    /\ UNCHANGED <<copies, relay, epoch, budget, excess>>

\* ... or while its owner is still busy: RunOnce never looks at the lease.
LeaseOverrun(e) ==
    /\ \E r \in Relays : Held(r, e)
    /\ budget > 0
    /\ budget' = budget - 1
    /\ row' = [row EXCEPT ![e].lease = "expired"]
    /\ excess' = [excess EXCEPT ![e] = @ + 1]
    /\ UNCHANGED <<copies, relay, epoch>>

\* next_attempt_at passes.
BecomesDue(e) ==
    /\ ~row[e].due
    /\ row' = [row EXCEPT ![e].due = TRUE]
    /\ UNCHANGED <<copies, relay, epoch, budget, excess>>

Publish(r, e) ==
    \/ PublishAcked(r, e)
    \/ PublishRepeated(r, e)
    \/ PublishRefused(r, e)
    \/ PublishAckLost(r, e)

Mark(r) == MarkDone(r) \/ MarkNotOwned(r) \/ MarkAnswerLost(r) \/ MarkError(r)

Next ==
    \/ \E e \in Events : Enqueue(e) \/ LeaseExpires(e) \/ LeaseOverrun(e) \/ BecomesDue(e)
    \/ \E r \in Relays : Claim(r) \/ ClaimAnswerLost(r) \/ Mark(r) \/ Crash(r)
    \/ \E r \in Relays, e \in Events : Publish(r, e)

Spec == Init /\ [][Next]_vars

\* Relays keep running (Run loops until its context ends, a dead process is
\* replaced), time passes, and a broker that is asked again and again takes
\* every record it can take.
Fairness ==
    /\ \A r \in Relays : /\ WF_vars(Claim(r))
                         /\ WF_vars(\E e \in Events : Publish(r, e))
                         /\ WF_vars(Mark(r))
    /\ \A r \in Relays, e \in Events : SF_vars(PublishAcked(r, e))
    /\ \A e \in Events : WF_vars(LeaseExpires(e)) /\ WF_vars(BecomesDue(e))

FairSpec == Spec /\ Fairness

-----------------------------------------------------------------------------
(* Properties *)

\* A row is settled only when its event is in the topic (RunOnce publishes
\* first and marks second, whatever fails in between).
PublishedIsInTopic ==
    \A e \in Events : row[e].status = "published" => copies[e] > 0

\* Every record of an event beyond the first is explained by a fault: a missed
\* acknowledgement, a mark that did not happen, a lease that ran out under its
\* owner.  Several relays over one table never duplicate on their own, because
\* the claim skips rows with a live lease.
DuplicatesExplained ==
    \A e \in Events : copies[e] <= 1 + excess[e]

\* A relay with a stale claim cannot disturb the relay that now holds the row:
\* while a lease is live, only its owner's mark, or time, changes the row.
HolderKeepsRow ==
    [][\A r \in Relays, e \in Events :
          Held(r, e) /\ row'[e] # row[e] =>
             \/ row'[e] = [row[e] EXCEPT !.lease = "expired"]
             \/ relay[r].cur = e /\ relay'[r] # relay[r]]_vars

\* Every stored event that the broker can take is settled in the end, whatever
\* crashes, lost answers and abandoned batches happened, and although some rows
\* are refused for ever (fewer than a batch: they come first in claim order).
EventuallySettled ==
    \A e \in Events \ Poison :
        row[e].status = "pending" ~> row[e].status = "published"

\* README.md:198 says the events of one order are ordered in their partition
\* (the partition key is the order id): an event whose publication failed and
\* that waits for its retry is not overtaken by a later event of its order.
OrderedPerKey ==
    [][\A e, f \in Events :
          /\ KeyOf[e] = KeyOf[f] /\ e < f
          /\ row[e].status = "pending" /\ ~row[e].due
          /\ copies[f] = 0 /\ copies'[f] > 0
          => copies[e] > 0]_vars

-----------------------------------------------------------------------------
(* The table seen as the promise of OutboxPromise. *)

storedRows == {e \in Events : row[e].status # "absent"}
settledRows == {e \in Events : row[e].status = "published"}

Promise == INSTANCE OutboxPromise WITH stored <- storedRows, settled <- settledRows

PromiseSpec == Promise!PromiseSpec
==============================================================================
