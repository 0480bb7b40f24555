-------------------------- MODULE MCInventoryLedger --------------------------
(* Small instances of InventoryLedger for TLC.                             *)
EXTENDS InventoryLedger

CONSTANTS a, b, w1, w2, o1, o2, o3, l1, l2, l3, l4

\* Two orders: o1 needs both SKUs, o2 competes with it for SKU a.
MCLineOrder == [l \in {l1, l2, l3} |-> IF l = l3 THEN o2 ELSE o1]
MCLineSku == [l \in {l1, l2, l3} |-> IF l = l2 THEN b ELSE a]
MCLineQty == [l \in {l1, l2, l3} |-> IF l = l1 THEN 2 ELSE 1]
MCInitialStock == [s \in {a, b} \X {w1} |-> 2]
=============================================================================
