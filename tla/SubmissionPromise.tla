--------------------------- MODULE SubmissionPromise ---------------------------
(***************************************************************************)
(* What partner-service promises about an order it has taken over, without *)
(* dispatchers, leases, batches or late marks: the order is offered to its *)
(* restaurant a counted number of times, what is shown of that is true     *)
(* when it is written, and the restaurant's first decision stands, told to *)
(* the order service once for each callback (internal/partner/postgres/    *)
(* submissions.go, callbacks.go).  PartnerDispatch implements this module. *)
(***************************************************************************)
EXTENDS Naturals

CONSTANTS
    Orders,
    Callbacks,     \* callback ids restaurants may use
    MaxAttempts    \* claims after which an order may be given up

VARIABLES
    shown,       \* status each submission shows
    attempts,    \* how often it was claimed to be sent
    reached,     \* orders a request for which reached the restaurant
    refused,     \* orders the restaurant refused for good
    told         \* callbacks taken, one event for the order service each

promiseVars == <<shown, attempts, reached, refused, told>>

Decisions == {"accepted", "rejected"}

PromiseInit ==
    /\ shown = [o \in Orders |-> "absent"]
    /\ attempts = [o \in Orders |-> 0]
    /\ reached = {}
    /\ refused = {}
    /\ told = {}

Accept(o) ==
    /\ shown[o] = "absent"
    /\ shown' = [shown EXCEPT ![o] = "pending"]
    /\ UNCHANGED <<attempts, reached, refused, told>>

\* A claim of some pending submissions counts one attempt for each.
Try(S) ==
    /\ \A o \in S : shown[o] = "pending"
    /\ attempts' = [o \in Orders |-> IF o \in S THEN attempts[o] + 1 ELSE attempts[o]]
    /\ UNCHANGED <<shown, reached, refused, told>>

\* A request arrives, however late: a claim has paid for it.
Reach(o) ==
    /\ attempts[o] > 0
    /\ reached' = reached \cup {o}
    /\ UNCHANGED <<shown, attempts, refused, told>>

Refuse(o) ==
    /\ attempts[o] > 0
    /\ refused' = refused \cup {o}
    /\ UNCHANGED <<shown, attempts, reached, told>>

Submit(o) ==
    /\ shown[o] = "pending"
    /\ o \in reached
    /\ shown' = [shown EXCEPT ![o] = "submitted"]
    /\ UNCHANGED <<attempts, reached, refused, told>>

GiveUp(o) ==
    /\ shown[o] = "pending"
    /\ o \in refused \/ attempts[o] >= MaxAttempts
    /\ shown' = [shown EXCEPT ![o] = "failed"]
    /\ UNCHANGED <<attempts, reached, refused, told>>

\* The first decision stands; a callback id counts once.
Decide(c, o, d) ==
    /\ o \in reached
    /\ shown[o] \notin {"absent"} \cup (Decisions \ {d})
    /\ \A t \in told : t.id # c
    /\ shown' = [shown EXCEPT ![o] = d]
    /\ told' = told \cup {[id |-> c, order |-> o, status |-> d]}
    /\ UNCHANGED <<attempts, reached, refused>>

PromiseNext ==
    \/ \E S \in SUBSET Orders : Try(S)
    \/ \E o \in Orders :
          \/ Accept(o) \/ Reach(o) \/ Refuse(o) \/ Submit(o) \/ GiveUp(o)
          \/ \E c \in Callbacks, d \in Decisions : Decide(c, o, d)

PromiseSpec == PromiseInit /\ [][PromiseNext]_promiseVars
==============================================================================
