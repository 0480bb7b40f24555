----------------------------- MODULE MCAllocation -----------------------------
(* Small instances of Allocation for TLC.                                  *)
EXTENDS Allocation, LedgerRefinement, TLC

CONSTANTS t1, t2, a, b, w1, w2, o1, o2, l1, l2, l3, l4

\* o1 is allocated automatically and names SKU b twice; o2 is reserved at w1
\* and competes for SKU a.
MCLineOrder == [l \in Lines |-> IF l = l3 THEN o2 ELSE o1]
MCLineSku == [l \in Lines |-> IF l \in {l1, l3} THEN a ELSE b]
MCLineQty == [l \in Lines |-> 1]
MCInitialStock == [s \in Skus \X Locations |-> 1]
MCExplicitLocation == [o \in Orders |-> IF o = o1 THEN None ELSE w1]
MCNameRank == [w \in Locations |-> IF w = w1 THEN 1 ELSE 2]
MCInflowSlots == {<<a, w1>>}
\* The calls are interchangeable.
MCSymmetry == Permutations(Threads)
MCPriorityRank == [w \in Locations |-> 0]
=============================================================================
