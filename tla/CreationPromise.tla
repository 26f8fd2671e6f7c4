--------------------------- MODULE CreationPromise ---------------------------
(***************************************************************************)
(* What order-service promises about idempotent creation, without locks,   *)
(* transactions or the catalog: every request is answered at one moment,   *)
(* from the rows that are stored then, and only an unused key gets a row   *)
(* (internal/order/application/service.go, internal/order/postgres/        *)
(* store.go).  OrderCreation implements this module.                       *)
(***************************************************************************)

CONSTANTS
    Requests,    \* CreateOrder calls, first tries and retries alike
    Keys,        \* (user_id, idempotency_key)
    Bodies,      \* request fingerprints
    None         \* not asked yet, no order

VARIABLES
    idem,        \* rows of orders.idempotency_keys: key, body, order
    told         \* each request: its key and body, whether the key was used
                 \* when it came, and its answer

promiseVars == <<idem, told>>

-----------------------------------------------------------------------------

Used(k) == \E i \in idem : i.key = k

PromiseInit ==
    /\ idem = {}
    /\ told = [r \in Requests |-> [key |-> None, body |-> None, known |-> FALSE,
                                   answer |-> "none", order |-> None]]

Ask(r, k, b) ==
    /\ told[r].key = None
    /\ told' = [told EXCEPT ![r] = [key |-> k, body |-> b, known |-> Used(k),
                                    answer |-> "none", order |-> None]]
    /\ UNCHANGED idem

\* One answer, to a request that has none.
Tell(r, answer, order) ==
    /\ told[r].key # None
    /\ told[r].answer = "none"
    /\ told' = [told EXCEPT ![r].answer = answer, ![r].order = order]

\* The only step that stores; its answer may be lost.
Create(r) ==
    /\ ~Used(told[r].key)
    /\ idem' = idem \cup {[key |-> told[r].key, body |-> told[r].body, order |-> r]}
    /\ Tell(r, "created", r) \/ Tell(r, "error", None)

\* The stored order, or a conflict if the key belongs to another body.
Repeat(r) ==
    /\ \E i \in idem :
          /\ i.key = told[r].key
          /\ IF i.body = told[r].body THEN Tell(r, "existing", i.order)
                                      ELSE Tell(r, "conflict", None)
    /\ UNCHANGED idem

\* The catalog is asked about new keys only.
Refuse(r) ==
    /\ ~told[r].known
    /\ Tell(r, "refused", None)
    /\ UNCHANGED idem

Fail(r) ==
    /\ Tell(r, "error", None)
    /\ UNCHANGED idem

PromiseNext ==
    \E r \in Requests :
        \/ \E k \in Keys, b \in Bodies : Ask(r, k, b)
        \/ Create(r) \/ Repeat(r) \/ Refuse(r) \/ Fail(r)

PromiseSpec == PromiseInit /\ [][PromiseNext]_promiseVars
==============================================================================
