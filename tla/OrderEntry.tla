----------------------------- MODULE OrderEntry -----------------------------
(***************************************************************************)
(* POST /v1/orders from the client to the stored order: kitchen-api        *)
(* (internal/kitchen/httpapi/orders.go), gRPC, order-service               *)
(* (internal/order/application/service.go), gRPC, catalog-service.         *)
(* catalog-service reads its tables in three statements outside any        *)
(* transaction, and the order is stored after that, so the catalog may     *)
(* change at every step in between.  What idempotency keys do to requests  *)
(* that race is in OrderCreation; here a key that is already used is one   *)
(* of the outcomes of the store.                                           *)
(***************************************************************************)
EXTENDS OrderRules

CONSTANTS
    Requests,    \* calls of POST /v1/orders
    Ids,         \* ids a call may name, of rows or of nothing
    Bodies,      \* items of the calls
    MaxChanges,  \* bound on changes of the catalog
    Nothing      \* no menu read, no order stored

CallLine == [item : Ids, qty : Int, mods : Seq(Ids)]

OrderLine == [item : Ids, mods : Seq(Ids), qty : Int, unit : Int64, total : Int64]

PricedOrders == [lines : Seq(OrderLine), total : Int64]

ASSUME EntryAssumption ==
    /\ Bodies \subseteq Seq(CallLine)
    /\ MaxChanges \in Nat
    /\ Nothing \notin PricedOrders

VARIABLES cat, changes, req

entryVars == <<cat, changes, req>>

Answers == {200, 201, 400, 409, 500}

Calls ==
    [pc     : {"new", "open", "exists", "menu", "price", "store", "done"},
     body   : Bodies \cup {<<>>},
     menu   : {Menu(c) : c \in Catalogs} \cup {Nothing},
     order  : PricedOrders \cup {Nothing},
     stored : BOOLEAN,
     seen   : SUBSET Catalogs,   \* history: contents of the catalog since the call arrived
     failed : BOOLEAN,           \* history
     status : Answers \cup {0}]

EntryTypeOK ==
    /\ cat \in Catalogs
    /\ changes \in 0..MaxChanges
    /\ req \in [Requests -> Calls]

EntryInit ==
    /\ cat \in Catalogs
    /\ changes = 0
    /\ req = [r \in Requests |->
                [pc |-> "new", body |-> <<>>, menu |-> Nothing, order |-> Nothing,
                 stored |-> FALSE, seen |-> {}, failed |-> FALSE, status |-> 0]]

-----------------------------------------------------------------------------

Reply(r, status) == req' = [req EXCEPT ![r].pc = "done", ![r].status = status]
Proceed(r, pc) == req' = [req EXCEPT ![r].pc = pc]

Fixed == UNCHANGED <<cat, changes>>

\* Whoever keeps the catalog changes it.
Change ==
    /\ changes < MaxChanges
    /\ changes' = changes + 1
    /\ cat' \in Catalogs
    /\ req' = [r \in Requests |-> IF req[r].pc \in {"new", "done"} THEN req[r]
                                  ELSE [req[r] EXCEPT !.seen = req[r].seen \cup {cat'}]]

\* createOrder, the gRPC server and validateCreateOrderInput: the headers, the
\* JSON and every line are looked at before anything is read.
WellFormed(body) == body # <<>> /\ \A k \in DOMAIN body : body[k].qty > 0

Arrive(r, body) ==
    /\ req[r].pc = "new"
    /\ LET call == [req[r] EXCEPT !.body = body, !.seen = {cat}]
       IN req' = [req EXCEPT ![r] =
                     IF WellFormed(body) THEN [call EXCEPT !.pc = "open"]
                     ELSE [call EXCEPT !.pc = "done",
                                       !.status = OrderStatusOf("ErrInvalidCreateOrder")]]
    /\ Fixed

\* The key is known already: before the catalog is asked, or under the lock.
KeyKnown(r) ==
    /\ req[r].pc \in {"open", "store"}
    /\ Reply(r, 200) \/ Reply(r, OrderStatusOf("ErrIdempotencyConflict"))
    /\ Fixed

\* restaurantOpenSQL
ReadOpen(r) ==
    /\ req[r].pc = "open"
    /\ IF ~cat.exists THEN Reply(r, CatalogStatusOf("ErrRestaurantNotFound"))
       ELSE IF ~cat.open THEN Reply(r, CatalogStatusOf("ErrRestaurantClosed"))
       ELSE Proceed(r, "exists")
    /\ Fixed

\* restaurantExistsSQL
ReadExists(r) ==
    /\ req[r].pc = "exists"
    /\ IF cat.exists THEN Proceed(r, "menu") ELSE Reply(r, CatalogStatusOf("ErrRestaurantNotFound"))
    /\ Fixed

\* getMenuSQL
ReadMenu(r) ==
    /\ req[r].pc = "menu"
    /\ req' = [req EXCEPT ![r].pc = "price", ![r].menu = Menu(cat)]
    /\ Fixed

\* The loop of ValidateOrderItems, then NewOrder and the event in order-service.
Price(r) ==
    /\ req[r].pc = "price"
    /\ LET body == req[r].body
           lines == Lines(req[r].menu, body)
       IN IF ~\A k \in DOMAIN body : LineOK(req[r].menu, body[k])
          THEN Reply(r, CatalogStatusOf("ErrInvalidMenuRequest"))
          ELSE IF ~NewOrderOK(lines) THEN Reply(r, OrderStatusOf("ErrInvalidOrderItem"))
          ELSE req' = [req EXCEPT ![r].pc = "store", ![r].order = NewOrder(lines)]
    /\ Fixed

\* The store's transaction, for a key nobody used.
Store(r) ==
    /\ req[r].pc = "store"
    /\ IF StoreAccepts(req[r].order)
       THEN req' = [req EXCEPT ![r].stored = TRUE, ![r].pc = "done", ![r].status = 201]
       ELSE Reply(r, OrderStatusOf("CheckViolation"))
    /\ Fixed

\* A call, a statement or a process fails; the answer of the store may be lost
\* after its commit.
Fail(r) ==
    /\ req[r].pc \notin {"new", "done"}
    /\ \E s \in BOOLEAN :
         /\ s => req[r].pc = "store" /\ StoreAccepts(req[r].order)
         /\ req' = [req EXCEPT ![r].pc = "done", ![r].failed = TRUE, ![r].stored = s,
                               ![r].status = OrderStatusOf("Unavailable")]
    /\ Fixed

EntryNext ==
    \/ Change
    \/ \E r \in Requests :
          \/ \E body \in Bodies : Arrive(r, body)
          \/ KeyKnown(r) \/ ReadOpen(r) \/ ReadExists(r) \/ ReadMenu(r)
          \/ Price(r) \/ Store(r) \/ Fail(r)

EntrySpec == EntryInit /\ [][EntryNext]_entryVars

-----------------------------------------------------------------------------
(* Properties *)

\* The rule itself, on the tables: what may be ordered, and what it costs.
Orderable(c, line) ==
    /\ line.item \in Items
    /\ c.available[line.item] /\ ~c.stopped[line.item]
    /\ \A k \in DOMAIN line.mods :
          line.mods[k] \in Mods /\ ItemOf[line.mods[k]] = line.item /\ c.offered[line.mods[k]]

ExactPrice(c, line) ==
    Sum(c.price[line.item], [k \in DOMAIN line.mods |-> c.delta[line.mods[k]]])

ExactTotal(order) ==
    Sum(0, [k \in DOMAIN order.lines |-> order.lines[k].unit * order.lines[k].qty])

\* The catalog may change while an order is made, but all its lines were
\* orderable, at the price stored, at one moment since the call arrived, and the
\* restaurant was open at one (service.go:153; README "Пользователь не может
\* заказать недоступную позицию").
PricedFromOneMenu ==
    \A r \in Requests : req[r].stored =>
        /\ \E c \in req[r].seen : c.open
        /\ \E c \in req[r].seen : \A k \in DOMAIN req[r].order.lines :
              LET line == req[r].order.lines[k]
              IN Orderable(c, line) /\ line.unit = Wrap(ExactPrice(c, line))

\* No stored order is wrong about its total or refused by partner-service, where
\* it would block its partition, unless its total does not fit (order.go:62).
StoredIsDeliverable ==
    \A r \in Requests :
        /\ req[r].stored
        /\ ExactTotal(req[r].order) < Half
        => /\ req[r].order.total = ExactTotal(req[r].order)
           /\ PartnerAccepts(req[r].order)

\* Through four translations of errors, the client is told whose fault it is: 400
\* for an order that was not possible at some moment of the call, 500 only for a
\* failure, a price that is not positive or a total that does not fit; 201 if and
\* only if this call stored the order, failures aside.
StatusIsTrue ==
    \A r \in Requests : req[r].pc = "done" =>
        /\ req[r].status = 201 => req[r].stored
        /\ req[r].stored => req[r].status = 201 \/ req[r].failed
        /\ req[r].status = 400 =>
              \/ ~WellFormed(req[r].body)
              \/ \E c \in req[r].seen : ~c.exists \/ ~c.open
              \/ \E c \in req[r].seen : \E k \in DOMAIN req[r].body : ~Orderable(c, req[r].body[k])
        /\ req[r].status = 500 =>
              \/ req[r].failed
              \/ \E c \in req[r].seen : \E k \in DOMAIN req[r].body :
                    Orderable(c, req[r].body[k]) /\ Wrap(ExactPrice(c, req[r].body[k])) <= 0
              \/ req[r].order # Nothing /\ ExactTotal(req[r].order) >= Half
=============================================================================
