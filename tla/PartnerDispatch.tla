--------------------------- MODULE PartnerDispatch ---------------------------
(***************************************************************************)
(* Delivery of orders to a restaurant by partner-service: the submission   *)
(* table (internal/partner/postgres/submissions.go), the dispatchers that  *)
(* drain it over HTTP (internal/partner/dispatch/dispatcher.go,            *)
(* internal/partner/restaurantclient/client.go) and the status callbacks   *)
(* that race with them on the same rows (internal/partner/postgres/        *)
(* callbacks.go).  Each SQL transaction is one step: a callback holds the  *)
(* submission row FOR UPDATE from its first look at it to its commit.      *)
(*                                                                         *)
(* As in OutboxRelay, a dispatcher id lives as long as its process, so the *)
(* owner of a row is <<dispatcher, epoch>>, and time is abstracted to      *)
(* "the lease has run out" and "the retry is due".                         *)
(***************************************************************************)
EXTENDS Naturals, FiniteSets

CONSTANTS
    Dispatchers,   \* dispatcher processes (replicas of partner-service)
    Orders,        \* submissions, numbered in (created_at, id) order
    Callbacks,     \* callback ids restaurants may use
    BatchSize,     \* dispatcher.go batchSize
    MaxAttempts,   \* PARTNER_DISPATCH_MAX_ATTEMPTS
    MaxFaults,     \* bound: crashes, lost answers and overrun leases in a run
    NoOwner,       \* locked_by IS NULL
    NoOrder        \* no current submission

ASSUME DispatchAssumption ==
    /\ Orders \subseteq Nat
    /\ BatchSize \in Nat \ {0}
    /\ MaxAttempts \in Nat \ {0}
    /\ MaxFaults \in Nat
    /\ NoOwner \notin Dispatchers \X Nat
    /\ NoOrder \notin Orders
    /\ IsFiniteSet(Dispatchers)

VARIABLES
    sub,         \* partner_order_submissions
    received,    \* partner_callbacks; each row stands for its outbox event too
    disp,        \* each dispatcher: where RunOnce is, its batch, what is current
    epoch,       \* which life of the process holds the dispatcher id
    delivered,   \* orders whose HTTP request reached the restaurant
    refused,     \* history: orders the restaurant refused for good (4xx)
    sends,       \* history: HTTP requests sent for each order
    budget       \* environment faults left (bound)

vars == <<sub, received, disp, epoch, delivered, refused, sends, budget>>

-----------------------------------------------------------------------------

Decisions == {"accepted", "rejected"}

Submissions == [status   : {"absent", "pending", "submitted", "failed"} \cup Decisions,
                owner    : (Dispatchers \X Nat) \cup {NoOwner},
                lease    : {"none", "live", "expired"},
                due      : BOOLEAN,
                attempts : Nat]

\* attempt: the attempts value of each claimed submission, 0 outside the batch.
\* ok / retry / terminal: Send came back, the row is to be marked so.
DispatcherStates == [pc      : {"idle", "sending", "ok", "retry", "terminal"},
                     attempt : [Orders -> Nat],
                     cur     : Orders \cup {NoOrder}]

TypeOK ==
    /\ sub \in [Orders -> Submissions]
    /\ received \subseteq [id : Callbacks, order : Orders, status : Decisions]
    /\ disp \in [Dispatchers -> DispatcherStates]
    /\ epoch \in [Dispatchers -> Nat]
    /\ delivered \subseteq Orders
    /\ refused \subseteq Orders
    /\ sends \in [Orders -> Nat]
    /\ budget \in Nat

Idle == [pc |-> "idle", attempt |-> [o \in Orders |-> 0], cur |-> NoOrder]

Init ==
    /\ sub = [o \in Orders |-> [status |-> "absent", owner |-> NoOwner, lease |-> "none",
                                due |-> TRUE, attempts |-> 0]]
    /\ received = {}
    /\ disp = [d \in Dispatchers |-> Idle]
    /\ epoch = [d \in Dispatchers |-> 0]
    /\ delivered = {}
    /\ refused = {}
    /\ sends = [o \in Orders |-> 0]
    /\ budget = MaxFaults

-----------------------------------------------------------------------------

Me(d) == <<d, epoch[d]>>

Batch(d) == {o \in Orders : disp[d].attempt[o] > 0}

\* Broken variant: a lock is never taken over (locked_until IS NULL only).
Bug_ExpiredNotReclaimed ==
    {o \in Orders : sub[o].status = "pending" /\ sub[o].lease = "none" /\ sub[o].due}

Claimable ==
    {o \in Orders : /\ sub[o].status = "pending"
                    /\ sub[o].lease # "live"
                    /\ sub[o].due}

\* ORDER BY created_at, id LIMIT BatchSize
Oldest(S) == {o \in S : Cardinality({p \in S : p < o}) < BatchSize}

Leased(d, S) ==
    [o \in Orders |-> IF o \in S
                      THEN [sub[o] EXCEPT !.owner = Me(d), !.lease = "live", !.attempts = @ + 1]
                      ELSE sub[o]]

\* Broken variant: the mark does not ask whether the row is still pending.
Bug_StatusIgnored(d, o) == sub[o].owner = Me(d)

\* WHERE clause of both mark statements.
Owned(d, o) == sub[o].owner = Me(d) /\ sub[o].status = "pending"

Held(d, o) ==
    /\ o \in Batch(d)
    /\ sub[o].owner = Me(d)
    /\ sub[o].lease = "live"

Advance(d) ==
    LET rest == [disp[d].attempt EXCEPT ![disp[d].cur] = 0]
    IN [disp EXCEPT ![d] = IF Batch(d) = {disp[d].cur} THEN Idle
                           ELSE [pc |-> "sending", attempt |-> rest, cur |-> NoOrder]]

\* RunOnce returns an error: the rest of the batch stays leased, unattended,
\* although its attempts have been counted.
Abandon(d) == [disp EXCEPT ![d] = Idle]

Fault == budget > 0 /\ budget' = budget - 1

-----------------------------------------------------------------------------

\* ReceiveOrder commits the submission of a consumed OrderCreated.  The inbox
\* row it commits with it makes every redelivery a no-op.
Receive(o) ==
    /\ sub[o].status = "absent"
    /\ sub' = [sub EXCEPT ![o].status = "pending"]
    /\ UNCHANGED <<received, disp, epoch, delivered, refused, sends, budget>>

\* RunOnce claims a batch and counts an attempt for each row of it.
Claim(d) ==
    /\ disp[d].pc = "idle"
    /\ Claimable # {}
    /\ sub' = Leased(d, Oldest(Claimable))
    /\ disp' = [disp EXCEPT ![d] =
                  [pc |-> "sending",
                   attempt |-> [o \in Orders |-> IF o \in Oldest(Claimable)
                                                 THEN sub[o].attempts + 1 ELSE 0],
                   cur |-> NoOrder]]
    /\ UNCHANGED <<received, epoch, delivered, refused, sends, budget>>

\* The claim commits, its answer is lost.
ClaimAnswerLost(d) ==
    /\ disp[d].pc = "idle"
    /\ Claimable # {}
    /\ Fault
    /\ sub' = Leased(d, Oldest(Claimable))
    /\ UNCHANGED <<received, disp, epoch, delivered, refused, sends>>

Sent(d, o, pc) ==
    /\ disp[d].pc = "sending"
    /\ o \in Batch(d)
    /\ disp' = [disp EXCEPT ![d].pc = pc, ![d].cur = o]
    /\ sends' = [sends EXCEPT ![o] = @ + 1]
    /\ UNCHANGED <<sub, received, epoch, budget>>

\* 2xx: the restaurant has the order.
SendOK(d, o) ==
    /\ Sent(d, o, "ok")
    /\ delivered' = delivered \cup {o}
    /\ UNCHANGED refused

\* Broken variant: the last attempt is given up before it is made.
Bug_OneAttemptShort(d, o) ==
    /\ Sent(d, o, IF disp[d].attempt[o] + 1 >= MaxAttempts THEN "terminal" ELSE "retry")
    /\ delivered' \in {delivered, delivered \cup {o}}
    /\ UNCHANGED refused

\* 5xx, timeout, no connection: the order may or may not have arrived.  The
\* attempt counted at claim time decides whether there is another one.
SendTransient(d, o) ==
    /\ Sent(d, o, IF disp[d].attempt[o] >= MaxAttempts THEN "terminal" ELSE "retry")
    /\ delivered' \in {delivered, delivered \cup {o}}
    /\ UNCHANGED refused

\* 4xx, or a destination no request can be sent to.
SendPermanent(d, o) ==
    /\ Sent(d, o, "terminal")
    /\ refused' = refused \cup {o}
    /\ UNCHANGED delivered

\* What MarkSubmitted and MarkFailed write.
Marked(d, o) ==
    [sub[o] EXCEPT !.status = CASE disp[d].pc = "ok" -> "submitted"
                                [] disp[d].pc = "retry" -> "pending"
                                [] disp[d].pc = "terminal" -> "failed",
                   !.owner = NoOwner,
                   !.lease = "none",
                   !.due = disp[d].pc # "retry"]

ToMark(d) == disp[d].pc \in {"ok", "retry", "terminal"}

MarkDone(d) ==
    /\ ToMark(d)
    /\ Owned(d, disp[d].cur)
    /\ sub' = [sub EXCEPT ![disp[d].cur] = Marked(d, disp[d].cur)]
    /\ disp' = Advance(d)
    /\ UNCHANGED <<received, epoch, delivered, refused, sends, budget>>

\* The lease went to another dispatcher, or a callback decided the order first
\* (ErrSubmissionNotOwned): RunOnce gives up on the whole batch.
MarkNotOwned(d) ==
    /\ ToMark(d)
    /\ ~Owned(d, disp[d].cur)
    /\ disp' = Abandon(d)
    /\ UNCHANGED <<sub, received, epoch, delivered, refused, sends, budget>>

MarkAnswerLost(d) ==
    /\ ToMark(d)
    /\ Owned(d, disp[d].cur)
    /\ Fault
    /\ sub' = [sub EXCEPT ![disp[d].cur] = Marked(d, disp[d].cur)]
    /\ disp' = Abandon(d)
    /\ UNCHANGED <<received, epoch, delivered, refused, sends>>

MarkError(d) ==
    /\ ToMark(d)
    /\ Fault
    /\ disp' = Abandon(d)
    /\ UNCHANGED <<sub, received, epoch, delivered, refused, sends>>

Crash(d) ==
    /\ Fault
    /\ epoch' = [epoch EXCEPT ![d] = @ + 1]
    /\ disp' = Abandon(d)
    /\ UNCHANGED <<sub, received, delivered, refused, sends>>

LeaseExpires(o) ==
    /\ sub[o].lease = "live"
    /\ \A d \in Dispatchers : ~Held(d, o)
    /\ sub' = [sub EXCEPT ![o].lease = "expired"]
    /\ UNCHANGED <<received, disp, epoch, delivered, refused, sends, budget>>

\* The batch takes longer than the lease; RunOnce never looks at it.
LeaseOverrun(o) ==
    /\ \E d \in Dispatchers : Held(d, o)
    /\ Fault
    /\ sub' = [sub EXCEPT ![o].lease = "expired"]
    /\ UNCHANGED <<received, disp, epoch, delivered, refused, sends>>

BecomesDue(o) ==
    /\ ~sub[o].due
    /\ sub' = [sub EXCEPT ![o].due = TRUE]
    /\ UNCHANGED <<received, disp, epoch, delivered, refused, sends, budget>>

\* Broken variant: a decided submission takes another decision.
Bug_LastDecisionWins(c, o, decision) ==
    /\ o \in delivered
    /\ sub[o].status # "absent"
    /\ \A r \in received : r.id # c
    /\ received' = received \cup {[id |-> c, order |-> o, status |-> decision]}
    /\ sub' = [sub EXCEPT ![o].status = decision]
    /\ UNCHANGED <<disp, epoch, delivered, refused, sends, budget>>

\* ReceiveStatusCallback, authorized: the first decision stands, a callback id
\* is applied once, and the submission takes the decision whatever its state
\* (pending under a lease, submitted, or already failed).  A repeated id is
\* answered "duplicate" or "conflict" and changes nothing.
StatusCallback(c, o, decision) ==
    /\ o \in delivered
    /\ sub[o].status # "absent"
    /\ sub[o].status \in Decisions => sub[o].status = decision
    /\ \A r \in received : r.id # c
    /\ received' = received \cup {[id |-> c, order |-> o, status |-> decision]}
    /\ sub' = [sub EXCEPT ![o].status = decision]
    /\ UNCHANGED <<disp, epoch, delivered, refused, sends, budget>>

Send(d, o) == SendOK(d, o) \/ SendTransient(d, o) \/ SendPermanent(d, o)

Mark(d) == MarkDone(d) \/ MarkNotOwned(d) \/ MarkAnswerLost(d) \/ MarkError(d)

Next ==
    \/ \E o \in Orders : Receive(o) \/ LeaseExpires(o) \/ LeaseOverrun(o) \/ BecomesDue(o)
    \/ \E d \in Dispatchers : Claim(d) \/ ClaimAnswerLost(d) \/ Mark(d) \/ Crash(d)
    \/ \E d \in Dispatchers, o \in Orders : Send(d, o)
    \/ \E c \in Callbacks, o \in Orders, s \in Decisions : StatusCallback(c, o, s)

Spec == Init /\ [][Next]_vars

\* Dispatchers keep running, every Send returns (the HTTP client has a
\* timeout), time passes.  No restaurant has to answer well, or at all.
Fairness ==
    /\ \A d \in Dispatchers : /\ WF_vars(Claim(d))
                              /\ WF_vars(\E o \in Orders : Send(d, o))
                              /\ WF_vars(Mark(d))
    /\ \A o \in Orders : WF_vars(LeaseExpires(o)) /\ WF_vars(BecomesDue(o))

FairSpec == Spec /\ Fairness

-----------------------------------------------------------------------------
(* Properties *)

\* A decision stands: no dispatcher that still holds the row, and no other
\* callback, changes a submission the restaurant has decided.
DecisionStands ==
    [][\A o \in Orders : sub[o].status \in Decisions => sub'[o].status = sub[o].status]_vars

\* Everything the service tells the order service about an order (one outbox
\* event per received callback) is the decision its submission shows.
EventsAgree ==
    \A o \in Orders :
        LET told == {r.status : r \in {x \in received : x.order = o}}
        IN told = IF sub[o].status \in Decisions THEN {sub[o].status} ELSE {}

\* "submitted" means the restaurant has the order.
SubmittedWasDelivered ==
    \A o \in Orders : sub[o].status = "submitted" => o \in delivered

\* Delivery is given up for a reason: the restaurant refused the order for good
\* or its attempts are used up; a claim counts at most one request.
FailedIsJustified ==
    \A o \in Orders :
        /\ sub[o].status = "failed" => o \in refused \/ sub[o].attempts >= MaxAttempts
        /\ sends[o] <= sub[o].attempts

\* What a mark says of a submission is true, whichever dispatcher wrote it and
\* however late.
MarksAreTrue == SubmittedWasDelivered /\ FailedIsJustified

\* No submission is left pending for ever: whatever crashes, is lost or is
\* abandoned with a batch, it is submitted, failed or decided in the end.
EventuallyHandled ==
    \A o \in Orders : sub[o].status = "pending" ~> sub[o].status # "pending"

\* What the table shows of each submission, without owner, lease and due time.
ShownStatus == [o \in Orders |-> sub[o].status]

CountedAttempts == [o \in Orders |-> sub[o].attempts]

Promise == INSTANCE SubmissionPromise
    WITH shown <- ShownStatus, attempts <- CountedAttempts, reached <- delivered, told <- received

\* Dispatchers that lose leases, batches and answers, and callbacks that come
\* in between, never make more of a submission than the atomic steps of
\* SubmissionPromise do: a mark is written only while it is true and the order
\* undecided, and the first decision stands.
ImplementsPromise == Promise!PromiseSpec

\* README.md:1095 moves a submission to failed when its attempts are used up:
\* unless refused for good, a failed order was sent MaxAttempts times.
FailedWasTried ==
    \A o \in Orders : sub[o].status = "failed" /\ o \notin refused => sends[o] >= MaxAttempts
==============================================================================
