--------------------------- MODULE InventoryLedger ---------------------------
(***************************************************************************)
(* The reservation ledger of packages/domain_contract/postgres_store.py:   *)
(* the Inventory rows (one per SKU and location), the InventoryReservation *)
(* rows that own what `reserved` aggregates, and the store methods that    *)
(* move units between them.  Every method is one database transaction that *)
(* locks the rows it changes before it reads them, so every method is one  *)
(* action.  A method that replays, conflicts or raises commits nothing and *)
(* has no action.                                                          *)
(*                                                                         *)
(* Left out: in_transit (no code assigns it, it is 0), confirmed_inbound   *)
(* (written here, read by no operation of the ledger) and the reservation  *)
(* status (derived from the counters).  A missing row behaves like a row   *)
(* of zeroes in every method below.                                        *)
(***************************************************************************)
EXTENDS Integers, FiniteSets

CONSTANTS
  Skus,
  Locations,
  Orders,        \* sources of reservations: orders and exchanges
  Lines,         \* order lines; the line is the reservation's idempotency key
  LineOrder,     \* the order a line belongs to
  LineSku,
  LineQty,
  InitialStock,  \* units on hand at the start, by slot
  MaxUnits,      \* bound: the largest quantity of one line or one call
  MaxInflow,     \* bound: units added to a slot by receipts and restocks
  None

Slots == Skus \X Locations

Inventory ==
  [quantity : Nat, sellable : Nat \cup {None}, quarantine : Nat,
   reserved : Nat, available : Nat]

InventoryReservation ==
  [location : Locations, quantity_requested : 1..MaxUnits,
   quantity_reserved : 0..MaxUnits, quantity_released : 0..MaxUnits,
   quantity_consumed : 0..MaxUnits]

ASSUME LedgerAssumption ==
  /\ IsFiniteSet(Lines)
  /\ MaxUnits \in Nat \ {0} /\ MaxInflow \in Nat
  /\ LineOrder \in [Lines -> Orders]
  /\ LineSku \in [Lines -> Skus]
  /\ LineQty \in [Lines -> 1..MaxUnits]
  /\ InitialStock \in [Slots -> Nat]
  /\ None \notin Nat /\ None \notin InventoryReservation

VARIABLES
  inventory,    \* the Inventory rows
  reservation,  \* the InventoryReservation rows, None where no row exists
  inflow        \* history: units added to a slot by atomic_adjust_inventory

vars == <<inventory, reservation, inflow>>

LinesOf(o) == {l \in Lines : LineOrder[l] = o}

AtLeast0(n) == IF n >= 0 THEN n ELSE 0
Lesser(m, n) == IF m <= n THEN m ELSE n

TypeOK ==
  /\ inventory \in [Slots -> Inventory]
  /\ reservation \in [Lines -> InventoryReservation \cup {None}]
  /\ inflow \in [Slots -> Nat]

-----------------------------------------------------------------------------
(* What the rows mean.                                                     *)

SellableBase(inv) ==
  IF inv.sellable # None THEN inv.sellable
  ELSE AtLeast0(inv.quantity - inv.quarantine)

\* Available-to-sell, the property of the Inventory model.
Ats(inv) == AtLeast0(SellableBase(inv) - inv.reserved)

SlotOf(l) == <<LineSku[l], reservation[l].location>>

\* What a reservation still owns: quantity_reserved less what was settled.
Outstanding(l) ==
  IF reservation[l] = None THEN 0
  ELSE reservation[l].quantity_reserved
         - reservation[l].quantity_released - reservation[l].quantity_consumed

Consumed(l) ==
  IF reservation[l] = None THEN 0 ELSE reservation[l].quantity_consumed

\* Units as a set, q[l] of them for each line l of ls: its cardinality is the
\* sum of q over ls.
Units(ls, q) == {u \in ls \X (1..MaxUnits) : u[2] <= q[u[1]]}

LinesAt(s) == {l \in Lines : reservation[l] # None /\ SlotOf(l) = s}
OutstandingUnits(s) == Units(LinesAt(s), [l \in Lines |-> Outstanding(l)])
ConsumedUnits(s) == Units(LinesAt(s), [l \in Lines |-> Consumed(l)])

-----------------------------------------------------------------------------
NewReservation(location, requested, reserved) ==
  [location |-> location, quantity_requested |-> requested,
   quantity_reserved |-> reserved, quantity_released |-> 0,
   quantity_consumed |-> 0]

\* Faults the properties must detect, by the definition they replace.
\* GivenBack that repairs the cache and forgets the aggregate.
GivenBackToCache(inv, n) == [inv EXCEPT !.available = @ + n]
\* Shipped that settles the reservation and leaves the units on the shelf.
ShippedOnPaper(inv, n) == [inv EXCEPT !.reserved = AtLeast0(@ - n)]
\* Received that forgets the cache.
ReceivedUncached(inv, n) == [inv EXCEPT !.quantity = @ + n]
\* Reservable that ignores what is already reserved.
ReservableTwice(inv) == inv.quantity
\* Applied that trusts the amount of the caller.
AppliedUnclamped(l, amount) == AtLeast0(amount)

\* The UPDATEs the store methods run on a row they have locked.  A shipment
\* does not touch `sellable`; a quarantine makes it an explicit number.
Reserved(inv, n) ==
  [inv EXCEPT !.reserved = @ + n, !.available = AtLeast0(@ - n)]

GivenBack(inv, n) ==
  [inv EXCEPT !.reserved = AtLeast0(@ - n), !.available = @ + n]

Shipped(inv, n) ==
  [inv EXCEPT !.reserved = AtLeast0(@ - n), !.quantity = AtLeast0(@ - n)]

Received(inv, n) ==
  [inv EXCEPT !.quantity = @ + n, !.available = @ + n]

Quarantined(inv, sellable, quarantine) ==
  [inv EXCEPT !.sellable = sellable, !.quarantine = quarantine,
              !.available = AtLeast0(sellable - inv.reserved)]

\* The stock reserve_inventory_atomic is willing to reserve from.
Reservable(inv) == AtLeast0(inv.quantity - inv.reserved)

Init ==
  /\ inventory = [s \in Slots |->
       [quantity |-> InitialStock[s], sellable |-> None, quarantine |-> 0,
        reserved |-> 0, available |-> InitialStock[s]]]
  /\ reservation = [l \in Lines |-> None]
  /\ inflow = [s \in Slots |-> 0]

\* reserve_inventory_atomic: reserve what there is, up to the quantity of the
\* line; a shortfall is recorded in the row.  A known key is only replayed.
ReserveInventory(l, location) ==
  LET s == <<LineSku[l], location>>
      n == Lesser(Reservable(inventory[s]), LineQty[l])
  IN  /\ reservation[l] = None
      /\ reservation' = [reservation EXCEPT
           ![l] = NewReservation(location, LineQty[l], n)]
      /\ inventory' = [inventory EXCEPT ![s] = Reserved(@, n)]
      /\ UNCHANGED inflow

\* What reserve_order_lines_atomic checks: each line by itself against the
\* row of its SKU, and by the unique index that no line is reserved yet.
CanReserveOrder(o, location) ==
  \A l \in LinesOf(o) :
    /\ Ats(inventory[<<LineSku[l], location>>]) >= LineQty[l]
    /\ reservation[l] = None

OrderDemand(o, sku) ==
  Cardinality(Units({l \in LinesOf(o) : LineSku[l] = sku}, LineQty))

\* A fault of ReserveOrderLines: a transaction per line that skips the lines
\* already reserved and those that do not fit.
ReserveFittingLines(o, location) ==
  LET fit == {l \in LinesOf(o) :
                /\ reservation[l] = None
                /\ Ats(inventory[<<LineSku[l], location>>]) >= LineQty[l]}
  IN  /\ fit # {}
      /\ reservation' = [l \in Lines |->
           IF l \in fit THEN NewReservation(location, LineQty[l], LineQty[l])
           ELSE reservation[l]]
      /\ inventory' = [s \in Slots |->
           IF s[2] = location
           THEN Reserved(inventory[s],
                  Cardinality(Units({l \in fit : LineSku[l] = s[1]}, LineQty)))
           ELSE inventory[s]]
      /\ UNCHANGED inflow

\* reserve_order_lines_atomic: all the lines of the order, or none.
ReserveOrderLines(o, location) ==
  /\ LinesOf(o) # {}
  /\ CanReserveOrder(o, location)
  /\ reservation' = [l \in Lines |->
       IF l \in LinesOf(o)
       THEN NewReservation(location, LineQty[l], LineQty[l])
       ELSE reservation[l]]
  /\ inventory' = [s \in Slots |->
       IF s[2] = location THEN Reserved(inventory[s], OrderDemand(o, s[1]))
       ELSE inventory[s]]
  /\ UNCHANGED inflow

\* adjust_reservation_atomic clamps the amount to what is outstanding.
Applied(l, amount) == AtLeast0(Lesser(amount, Outstanding(l)))

\* mode "release": the units return to the sellable pool.
ReleaseReservation(l, amount) ==
  LET n == Applied(l, amount) IN
  /\ reservation[l] # None
  /\ reservation' = [reservation EXCEPT ![l].quantity_released = @ + n]
  /\ inventory' = [inventory EXCEPT ![SlotOf(l)] = GivenBack(@, n)]
  /\ UNCHANGED inflow

\* mode "consume": the units leave the building.
ConsumeReservation(l, amount) ==
  LET n == Applied(l, amount) IN
  /\ reservation[l] # None
  /\ reservation' = [reservation EXCEPT ![l].quantity_consumed = @ + n]
  /\ inventory' = [inventory EXCEPT ![SlotOf(l)] = Shipped(@, n)]
  /\ UNCHANGED inflow

\* quarantine_inventory_atomic and release_quarantine_atomic.
Quarantine(s, n) ==
  LET inv == inventory[s] IN
  /\ Ats(inv) >= n
  /\ inventory' = [inventory EXCEPT
       ![s] = Quarantined(@, AtLeast0(SellableBase(inv) - n), inv.quarantine + n)]
  /\ UNCHANGED <<reservation, inflow>>

ReleaseQuarantine(s, n) ==
  LET inv == inventory[s] IN
  /\ inv.quarantine >= n
  /\ inventory' = [inventory EXCEPT
       ![s] = Quarantined(@, SellableBase(inv) + n, inv.quarantine - n)]
  /\ UNCHANGED <<reservation, inflow>>

\* atomic_adjust_inventory as its callers use it, quantity and available by
\* the same positive delta: a goods receipt, the restock of a return.
AdjustInventory(s, n) ==
  /\ inflow[s] + n <= MaxInflow
  /\ inventory' = [inventory EXCEPT ![s] = Received(@, n)]
  /\ inflow' = [inflow EXCEPT ![s] = @ + n]
  /\ UNCHANGED reservation

Next ==
  \/ \E l \in Lines, location \in Locations : ReserveInventory(l, location)
  \/ \E o \in Orders, location \in Locations : ReserveOrderLines(o, location)
  \/ \E l \in Lines, n \in 1..MaxUnits : ReleaseReservation(l, n)
  \/ \E l \in Lines, n \in 1..MaxUnits : ConsumeReservation(l, n)
  \/ \E s \in Slots, n \in 1..MaxUnits : Quarantine(s, n)
  \/ \E s \in Slots, n \in 1..MaxUnits : ReleaseQuarantine(s, n)
  \/ \E s \in Slots, n \in 1..MaxUnits : AdjustInventory(s, n)

Spec == Init /\ [][Next]_vars

-----------------------------------------------------------------------------
(* Properties.                                                             *)

\* The aggregate `reserved` of a row is exactly what the reservations at its
\* slot still own: no release, consumption or floor at zero ever loses or
\* invents a held unit (the ownership ledger of InventoryReservation).
ReservedIsOutstanding ==
  \A s \in Slots : inventory[s].reserved = Cardinality(OutstandingUnits(s))

\* A reservation is never settled beyond what it owns, however releases and
\* consumptions of it interleave.
NeverSettledTwice ==
  \A l \in Lines : reservation[l] # None =>
    /\ Outstanding(l) >= 0
    /\ reservation[l].quantity_reserved <= reservation[l].quantity_requested

OneLinePerSku ==
  \A k, l \in Lines :
    LineOrder[k] = LineOrder[l] /\ LineSku[k] = LineSku[l] => k = l

Unquarantined(s) == inventory[s].sellable = None

\* A slot that was never quarantined never promises more units than it holds,
\* provided that no order names a SKU in two lines.
NeverOversold ==
  OneLinePerSku =>
    \A s \in Slots : Unquarantined(s) =>
      inventory[s].reserved <= inventory[s].quantity

\* On such a slot the cached `available` is the authoritative formula: all the
\* deltas of the store's callers keep it so.
AvailableIsAts ==
  OneLinePerSku =>
    \A s \in Slots : Unquarantined(s) =>
      inventory[s].available = Ats(inventory[s])

\* On such a slot no physical unit appears or disappears: what is on hand and
\* what was shipped are what was there and what came in.
StockConserved ==
  OneLinePerSku =>
    \A s \in Slots : Unquarantined(s) =>
      inventory[s].quantity + Cardinality(ConsumedUnits(s))
        = InitialStock[s] + inflow[s]
=============================================================================
