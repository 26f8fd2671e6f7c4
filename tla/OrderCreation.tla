---------------------------- MODULE OrderCreation ----------------------------
(***************************************************************************)
(* CreateOrder of order-service: the application service                   *)
(* (internal/order/application/service.go) looks the idempotency key up,   *)
(* asks the catalog, and the store (internal/order/postgres/store.go)      *)
(* repeats the lookup under an advisory lock and writes order, items,      *)
(* idempotency row and outbox event in one READ COMMITTED transaction.     *)
(*                                                                         *)
(* One process per request; requests interleave at every statement that    *)
(* reads or writes shared state.  A request draws its order id (a UUID)    *)
(* for itself, so the request is used as the id of the order it creates.   *)
(* A body stands for everything the request fingerprint covers (user,      *)
(* restaurant, items); a key stands for (user, idempotency key).           *)
(***************************************************************************)
EXTENDS Naturals, FiniteSets

CONSTANTS
    Requests,    \* CreateOrder calls, first tries and retries alike
    Keys,        \* (user_id, idempotency_key)
    Bodies,      \* request fingerprints
    NoOne,       \* nobody holds the lock
    None         \* not chosen yet, no order

ASSUME CreationAssumption ==
    /\ NoOne \notin Requests
    /\ None \notin Requests \cup Keys \cup Bodies

VARIABLES
    idem,       \* committed rows of orders.idempotency_keys
    orders,     \* committed rows of orders.orders (with their items)
    outbox,     \* committed OrderCreated events, named by their order
    lock,       \* pg_advisory_xact_lock on each key
    req         \* each request: its input, where it is, its answer

vars == <<idem, orders, outbox, lock, req>>

-----------------------------------------------------------------------------

Answers == {"none", "created", "existing", "conflict", "refused", "duplicateKey", "error"}

\* new: not sent; lookup: first look at the key; validate: catalog call;
\* begin: waiting for the lock; recheck, insert, commit: inside the transaction.
RequestStates ==
    [pc     : {"new", "lookup", "validate", "begin", "recheck", "insert", "commit", "done"},
     key    : Keys \cup {None},
     body   : Bodies \cup {None},
     known  : BOOLEAN,                     \* history: key already committed at the start
     answer : Answers,
     order  : Requests \cup {None}]

IdemRows == [key : Keys, body : Bodies, order : Requests]

TypeOK ==
    /\ idem \subseteq IdemRows
    /\ orders \subseteq Requests
    /\ outbox \subseteq Requests
    /\ lock \in [Keys -> Requests \cup {NoOne}]
    /\ req \in [Requests -> RequestStates]

Init ==
    /\ idem = {}
    /\ orders = {}
    /\ outbox = {}
    /\ lock = [k \in Keys |-> NoOne]
    /\ req = [r \in Requests |-> [pc |-> "new", key |-> None, body |-> None, known |-> FALSE,
                                  answer |-> "none", order |-> None]]

-----------------------------------------------------------------------------

RowsOf(k) == {i \in idem : i.key = k}

Goto(r, pc) == req' = [req EXCEPT ![r].pc = pc]

Reply(r, answer, order) ==
    req' = [req EXCEPT ![r].pc = "done", ![r].answer = answer, ![r].order = order]

\* Broken variant: a used key is answered whatever the body is.
Bug_BodyIgnored(r) == \E i \in RowsOf(req[r].key) : Reply(r, "existing", i.order)

\* findOrderByIdempotencyKey: the stored order, or a conflict if the key was
\* used for another body.
ReplyStored(r) ==
    \E i \in RowsOf(req[r].key) :
        IF i.body = req[r].body THEN Reply(r, "existing", i.order)
                                ELSE Reply(r, "conflict", None)

\* The transaction ends, its locks go.
Release(r) == lock' = [k \in Keys |-> IF lock[k] = r THEN NoOne ELSE lock[k]]

\* A call arrives: any client may use any key with any body.
Arrive(r, k, b) ==
    /\ req[r].pc = "new"
    /\ req' = [req EXCEPT ![r].pc = "lookup", ![r].key = k, ![r].body = b,
                          ![r].known = RowsOf(k) # {}]
    /\ UNCHANGED <<idem, orders, outbox, lock>>

\* Broken variant: the catalog is asked before the key is looked up.
Bug_CatalogFirst(r) ==
    /\ req[r].pc = "lookup"
    /\ Goto(r, "validate")
    /\ UNCHANGED <<idem, orders, outbox, lock>>

\* FindOrderByIdempotencyKey, outside any transaction.
Lookup(r) ==
    /\ req[r].pc = "lookup"
    /\ IF RowsOf(req[r].key) = {} THEN Goto(r, "validate") ELSE ReplyStored(r)
    /\ UNCHANGED <<idem, orders, outbox, lock>>

\* The catalog accepts the items, or refuses them (closed, stop list, gone).
Validate(r) ==
    /\ req[r].pc = "validate"
    /\ Goto(r, "begin") \/ Reply(r, "refused", None)
    /\ UNCHANGED <<idem, orders, outbox, lock>>

AcquireLock(r) ==
    /\ req[r].pc = "begin"
    /\ lock[req[r].key] = NoOne
    /\ lock' = [lock EXCEPT ![req[r].key] = r]
    /\ Goto(r, "recheck")
    /\ UNCHANGED <<idem, orders, outbox>>

\* Broken variant: no second look at the key under the lock.
Bug_NoRecheck(r) ==
    /\ req[r].pc = "recheck"
    /\ Goto(r, "insert")
    /\ UNCHANGED <<idem, orders, outbox, lock>>

\* Broken variant: the transaction that finds the key is left open.
Bug_NoRollback(r) ==
    /\ req[r].pc = "recheck"
    /\ IF RowsOf(req[r].key) = {} THEN Goto(r, "insert") ELSE ReplyStored(r)
    /\ UNCHANGED <<idem, orders, outbox, lock>>

\* The recheck under the lock.
Recheck(r) ==
    /\ req[r].pc = "recheck"
    /\ IF RowsOf(req[r].key) = {}
       THEN Goto(r, "insert") /\ UNCHANGED lock
       ELSE ReplyStored(r) /\ Release(r)
    /\ UNCHANGED <<idem, orders, outbox>>

\* The inserts.  UNIQUE (user_id, idempotency_key) makes a second insert wait
\* for the first transaction and fail if that one commits.
Insert(r) ==
    /\ req[r].pc = "insert"
    /\ \A q \in Requests : req[q].pc = "commit" => req[q].key # req[r].key
    /\ IF RowsOf(req[r].key) = {}
       THEN Goto(r, "commit") /\ UNCHANGED lock
       ELSE Reply(r, "duplicateKey", None) /\ Release(r)
    /\ UNCHANGED <<idem, orders, outbox>>

\* Broken variant: the idempotency row is not written.
Bug_NoKeyRow(r) ==
    /\ orders' = orders \cup {r}
    /\ outbox' = outbox \cup {r}
    /\ UNCHANGED idem
    /\ Release(r)

\* Broken variant: the event is left for another transaction.
Bug_NoOutboxRow(r) ==
    /\ idem' = idem \cup {[key |-> req[r].key, body |-> req[r].body, order |-> r]}
    /\ orders' = orders \cup {r}
    /\ UNCHANGED outbox
    /\ Release(r)

\* COMMIT makes the four tables' rows visible together.
Written(r) ==
    /\ idem' = idem \cup {[key |-> req[r].key, body |-> req[r].body, order |-> r]}
    /\ orders' = orders \cup {r}
    /\ outbox' = outbox \cup {r}
    /\ Release(r)

Commit(r) ==
    /\ req[r].pc = "commit"
    /\ Written(r)
    /\ Reply(r, "created", r)

\* The commit happened, the caller is told it did not.
CommitAnswerLost(r) ==
    /\ req[r].pc = "commit"
    /\ Written(r)
    /\ Reply(r, "error", None)

\* The request is cut short (cancelled, database or process lost): an open
\* transaction is rolled back.
Interrupted(r) ==
    /\ req[r].pc \notin {"new", "done"}
    /\ Reply(r, "error", None)
    /\ Release(r)
    /\ UNCHANGED <<idem, orders, outbox>>

Work(r) ==
    \/ Lookup(r) \/ Validate(r) \/ AcquireLock(r) \/ Recheck(r) \/ Insert(r)
    \/ Commit(r) \/ CommitAnswerLost(r)

Next ==
    \E r \in Requests :
        \/ \E k \in Keys, b \in Bodies : Arrive(r, k, b)
        \/ Work(r)
        \/ Interrupted(r)

Spec == Init /\ [][Next]_vars

\* A request that is being served goes on; nobody has to be interrupted.
FairSpec == Spec /\ \A r \in Requests : WF_vars(Work(r))

-----------------------------------------------------------------------------
(* Properties *)

\* However many requests race or are repeated with one key, there is at most
\* one order for it (README "Идемпотентность заказа").
OneOrderPerKey ==
    \A r, q \in orders : req[r].key = req[q].key => r = q

\* An order, its idempotency row and its OrderCreated event exist together or
\* not at all, whatever fails and whoever is told what.
AllOrNothing ==
    /\ outbox = orders
    /\ {i.order : i \in idem} = orders
    /\ \A i \in idem : req[i.order].key = i.key /\ req[i.order].body = i.body

\* No answer is wrong about the database: an order is returned only to the body
\* it was created from, a conflict only if the key belongs to another body.
AnswersAreTrue ==
    \A r \in Requests :
        /\ req[r].answer \in {"created", "existing"} =>
              [key |-> req[r].key, body |-> req[r].body, order |-> req[r].order] \in idem
        /\ req[r].answer = "conflict" =>
              \E i \in idem : i.key = req[r].key /\ i.body # req[r].body

\* What the callers see: their input and their answer.
Told == [r \in Requests |-> [key |-> req[r].key, body |-> req[r].body, known |-> req[r].known,
                             answer |-> req[r].answer, order |-> req[r].order]]

Promise == INSTANCE CreationPromise WITH told <- Told

\* Two looks at the key, a lock and a transaction are one moment to the callers
\* (README "Идемпотентность заказа"): whatever interleaves, every request is
\* answered as if the rows had been read and written in a single step.
ImplementsPromise == Promise!PromiseSpec

\* The lock and the recheck leave nothing to the UNIQUE constraint: a lost race
\* is answered like a repetition, never with an error.
RaceIsNoError ==
    \A r \in Requests : req[r].answer # "duplicateKey"

\* A repetition of a stored order does not depend on the catalog any more
\* (README "Идемпотентность заказа").
ReplayNeedsNoCatalog ==
    \A r \in Requests : req[r].known => req[r].answer # "refused"

\* Every request is answered: no lock outlives its transaction.
EveryRequestAnswered ==
    \A r \in Requests : req[r].pc = "lookup" ~> req[r].pc = "done"
==============================================================================
