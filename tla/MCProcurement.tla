---------------------------- MODULE MCProcurement ----------------------------
(* Small instances of Procurement for TLC.                                 *)
EXTENDS Procurement

CONSTANTS l1, l2, sku, ack1, ack2, ship1, grn1, grn2, c1, c2

Line(to, quantity) == [to |-> to, quantity |-> quantity, flagged |-> FALSE]

\* Two lines of one SKU; the second receipt names the SKU, which is on both lines.
MCLineSku == [l \in Lines |-> sku]
MCOrdered == [l \in Lines |-> 1]
MCSequence == [e \in Acks \cup Shipments |-> IF e = ack2 THEN 2 ELSE 1]
MCContents ==
  [e \in Events |->
     CASE e = ack1  -> {Line(l, 1) : l \in Lines}
       [] e = ack2  -> {[Line(l1, 1) EXCEPT !.flagged = TRUE]}
       [] e = ship1 -> {Line(l, 1) : l \in Lines}
       [] e = grn1  -> {Line(l, 1) : l \in Lines}
       [] e = grn2  -> {Line(l1, 2), Line(sku, 1)}]
=============================================================================
