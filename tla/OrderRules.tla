----------------------------- MODULE OrderRules -----------------------------
(***************************************************************************)
(* What an order may contain and what it costs: the menu query and item    *)
(* validation of catalog-service (internal/catalog/postgres/store.go; the  *)
(* in-memory store has the same loop), the totals of NewOrder              *)
(* (internal/order/domain/order.go), the CHECKs of order-service's tables  *)
(* and validatePayload of partner-service.  Money is int64: additions and  *)
(* products wrap.                                                          *)
(*                                                                         *)
(* Errors on their way to the client: catalog-service, its client in       *)
(* order-service, order-service, its client in kitchen-api, kitchen-api.   *)
(***************************************************************************)
EXTENDS Integers, Sequences

CONSTANTS
    Items,     \* rows of catalog.menu_items
    Mods,      \* rows of catalog.menu_item_modifiers
    ItemOf,    \* the item of each modifier
    Catalogs,  \* contents the catalog's tables may have
    Width      \* bits of an integer: 64

Catalog ==
    [exists : BOOLEAN, open : BOOLEAN,                       \* restaurants
     price : [Items -> Int], available : [Items -> BOOLEAN],   \* menu_items
     stopped : [Items -> BOOLEAN],                           \* menu_stop_list, in force
     delta : [Mods -> Int], offered : [Mods -> BOOLEAN]]     \* menu_item_modifiers

Half == 2 ^ (Width - 1)

Int64 == -Half..(Half - 1)

\* price_cents is a BIGINT with a CHECK.
ASSUME RulesAssumption ==
    /\ Width \in Nat \ {0}
    /\ ItemOf \in [Mods -> Items]
    /\ Catalogs \subseteq Catalog
    /\ \A c \in Catalogs : \A i \in Items : c.price[i] \in 1..(Half - 1)

\* Broken variant: integers without a width.
Bug_NoWrap(x) == x

Wrap(x) == ((x + Half) % (2 * Half)) - Half

\* Amounts added one after the other: as numbers, and as the code adds them.
Sum(base, amounts) ==
    LET upTo[k \in 0..Len(amounts)] == IF k = 0 THEN base ELSE upTo[k - 1] + amounts[k]
    IN upTo[Len(amounts)]

WrappedSum(base, amounts) ==
    LET upTo[k \in 0..Len(amounts)] ==
            IF k = 0 THEN base ELSE Wrap(upTo[k - 1] + amounts[k])
    IN upTo[Len(amounts)]

-----------------------------------------------------------------------------
(* The catalog *)

\* Broken variant: the stop list is not joined.
Bug_NoStopList(c) ==
    [i \in Items |-> [price |-> c.price[i], available |-> c.available[i],
                      mods  |-> [m \in {x \in Mods : ItemOf[x] = i} |->
                                   [delta |-> c.delta[m], available |-> c.offered[m]]]]]

\* One statement: items with their availability and modifiers.
Menu(c) ==
    [i \in Items |-> [price |-> c.price[i], available |-> c.available[i] /\ ~c.stopped[i],
                      mods  |-> [m \in {x \in Mods : ItemOf[x] = i} |->
                                   [delta |-> c.delta[m], available |-> c.offered[m]]]]]

\* What the loop over the requested items accepts; the error of the first bad
\* item is InvalidArgument, whichever check it fails.
LineOK(menu, line) ==
    /\ line.qty > 0
    /\ line.item \in DOMAIN menu
    /\ menu[line.item].available
    /\ \A k \in DOMAIN line.mods :
          /\ line.mods[k] \in DOMAIN menu[line.item].mods
          /\ menu[line.item].mods[line.mods[k]].available

UnitPrice(menu, line) ==
    WrappedSum(menu[line.item].price,
               [k \in DOMAIN line.mods |-> menu[line.item].mods[line.mods[k]].delta])

-----------------------------------------------------------------------------
(* The order *)

LineTotal(unit, qty) == Wrap(unit * qty)

\* Broken variant: quantities are left out of the total.
Bug_UnitsOnly(lines) == WrappedSum(0, [k \in DOMAIN lines |-> lines[k].unit])

Total(lines) ==
    WrappedSum(0, [k \in DOMAIN lines |-> LineTotal(lines[k].unit, lines[k].qty)])

\* The validated items, and the order NewOrder makes of them.
Lines(menu, body) ==
    [k \in DOMAIN body |->
        LET unit == UnitPrice(menu, body[k])
        IN [item |-> body[k].item, mods |-> body[k].mods, qty |-> body[k].qty,
            unit |-> unit, total |-> LineTotal(unit, body[k].qty)]]

NewOrder(lines) == [lines |-> lines, total |-> Total(lines)]

NewOrderOK(lines) ==
    lines # <<>> /\ \A k \in DOMAIN lines : lines[k].qty > 0 /\ lines[k].unit > 0

\* CHECKs of orders.orders and orders.order_items.
StoreAccepts(order) ==
    /\ order.total >= 0
    /\ \A k \in DOMAIN order.lines :
          order.lines[k].unit > 0 /\ order.lines[k].qty > 0 /\ order.lines[k].total > 0

\* validatePayload on OrderCreated.
PartnerAccepts(order) ==
    /\ order.total > 0
    /\ order.lines # <<>>
    /\ \A k \in DOMAIN order.lines :
          /\ order.lines[k].unit > 0 /\ order.lines[k].qty > 0
          /\ order.lines[k].total = Wrap(order.lines[k].unit * order.lines[k].qty)
    /\ order.total = WrappedSum(0, [k \in DOMAIN order.lines |-> order.lines[k].total])

-----------------------------------------------------------------------------
(* Errors, from the catalog to the client *)

Lookup(table, key, default) == IF key \in DOMAIN table THEN table[key] ELSE default

CatalogServerCode(err) ==
    Lookup([ErrRestaurantNotFound |-> "NotFound", ErrRestaurantClosed |-> "InvalidArgument",
            ErrInvalidMenuRequest |-> "InvalidArgument"], err, "Internal")

\* Broken variant: only InvalidArgument is the caller's fault.
Bug_NotFoundIsRaw(code) == IF code = "InvalidArgument" THEN "ErrInvalidCreateOrder" ELSE code

CatalogClientError(code) ==
    IF code \in {"InvalidArgument", "NotFound"} THEN "ErrInvalidCreateOrder" ELSE code

OrderServerCode(err) ==
    Lookup([ErrIdempotencyConflict |-> "AlreadyExists", ErrOrderNotFound |-> "NotFound",
            ErrInvalidCreateOrder |-> "InvalidArgument"], err, "Internal")

OrderClientError(code) ==
    Lookup([AlreadyExists |-> "ErrIdempotencyConflict", NotFound |-> "ErrOrderNotFound",
            InvalidArgument |-> "ErrInvalidCreateOrder"], code, code)

KitchenStatus(err) ==
    Lookup([ErrIdempotencyConflict |-> 409, ErrInvalidCreateOrder |-> 400], err, 500)

\* The HTTP status of an error of order-service's application layer, and of an
\* error of the catalog.
OrderStatusOf(err) == KitchenStatus(OrderClientError(OrderServerCode(err)))
CatalogStatusOf(err) == OrderStatusOf(CatalogClientError(CatalogServerCode(err)))
=============================================================================
