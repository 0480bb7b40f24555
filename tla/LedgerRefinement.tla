--------------------------- MODULE LedgerRefinement ---------------------------
(***************************************************************************)
(* The ledger as an implementation of StockPool: a reservation row is a    *)
(* claim, what it still owns is what the claim holds, and the on-hand      *)
(* quantity of an Inventory row is the stock of the slot.                  *)
(***************************************************************************)
EXTENDS InventoryLedger

PoolOnHand == [s \in Slots |-> inventory[s].quantity]
PoolClaim == [l \in Lines |->
  IF reservation[l] = None THEN None
  ELSE [slot |-> SlotOf(l), held |-> Outstanding(l)]]

PoolClaims == [slot : Slots, held : 0..MaxUnits]

ASSUME ClaimAssumption == None \notin PoolClaims

Pool == INSTANCE StockPool
          WITH Claims <- Lines, onHand <- PoolOnHand, claim <- PoolClaim

\* The ledger of a merchant that never quarantines stock.
NoQuarantine == \A s \in Slots : Unquarantined(s)
NoQuarantineSpec == Init /\ [][Next /\ NoQuarantine']_vars

\* While no stock is quarantined, every reservation is granted out of units no
\* earlier one owns, and every unit it owned is returned or shipped, once.  The
\* lines of one order that name one SKU are checked each by itself
\* (reserve_order_lines_atomic), so those may own a unit together.
ImplementsStockPool == Pool!Spec
=============================================================================
