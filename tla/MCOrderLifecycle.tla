--------------------------- MODULE MCOrderLifecycle ---------------------------
(* Small instances of OrderLifecycle for TLC.                              *)
EXTENDS OrderLifecycle, TLC

CONSTANTS a, b, w1, o1, ex, l1, l2, x, c1, c2

MCLineOrder == [l \in Lines |-> IF l = x THEN ex ELSE o1]
MCLineSku == [l \in Lines |-> IF l = l2 THEN b ELSE a]
MCLineQty == [l \in Lines |-> 1]
MCInitialStock == [s \in Skus \X Locations |-> 1]
MCSymmetry == Permutations({c1, c2})

=============================================================================
