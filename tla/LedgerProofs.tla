----------------------------- MODULE LedgerProofs -----------------------------
(***************************************************************************)
(* The reservation ledger and the two components that share its rows, for  *)
(* every number of calls, orders, lines and locations.                     *)
(*                                                                         *)
(* First the ledger by itself: no unit is lost, invented, settled twice or *)
(* promised twice.  Then the allocation, whose proofs rest on the ledger's *)
(* invariant IInv: an order is never split, and a marker that says         *)
(* "reserved" is true; both implement StockPool while no stock is          *)
(* quarantined.                                                            *)
(*                                                                         *)
(* Last, what happens to an order after its allocation: a cancellation is  *)
(* executed by one call and never regresses, stock is released only behind *)
(* a completed one, a restock that is marked was made, and an exchange     *)
(* that ends holds nothing.  None of it needs the sums of the ledger: what *)
(* one reservation may still lose (RowGood) and what each call has read    *)
(* (CallGood) are enough.                                                  *)
(***************************************************************************)
EXTENDS Allocation, OrderLifecycle, LedgerRefinement, FiniteSetTheorems, TLAPS

Counts == [Lines -> 0..MaxUnits]

\* A set of units is finite.
LEMMA UnitsFinite ==
  ASSUME NEW A \in SUBSET Lines, NEW q
  PROVE  IsFiniteSet(Units(A, q)) /\ Cardinality(Units(A, q)) \in Nat
<1>1. IsFiniteSet(A)
  <2>1. IsFiniteSet(Lines)
    BY LedgerAssumption
  <2> QED BY <2>1, FS_Subset
<1>2. IsFiniteSet(A \X (1..MaxUnits))
  <2>1. MaxUnits \in Int /\ 1 \in Int
    BY LedgerAssumption
  <2>2. IsFiniteSet(1..MaxUnits)
    BY <2>1, FS_Interval, Zenon
  <2> QED BY <1>1, <2>2, FS_Product
<1>3. Units(A, q) \in SUBSET (A \X (1..MaxUnits))
  BY DEF Units
<1> QED BY <1>2, <1>3, FS_Subset, FS_CardinalityType

\* The units i to j of one line.
LEMMA IntervalOfUnits ==
  ASSUME NEW l, NEW m \in Nat, NEW n \in Nat, m <= n
  PROVE  /\ IsFiniteSet({l} \X ((m + 1)..n))
         /\ Cardinality({l} \X ((m + 1)..n)) = n - m
<1>1. IsFiniteSet({l}) /\ Cardinality({l}) = 1
  BY FS_Singleton
<1>2. IsFiniteSet((m + 1)..n) /\ Cardinality((m + 1)..n) = n - m
  <2>1. PICK a \in Int : a = m + 1
    OBVIOUS
  <2>2. IsFiniteSet(a..n) /\ Cardinality(a..n) = IF a > n THEN 0 ELSE n - a + 1
    <3>1. n \in Int
      OBVIOUS
    <3> QED BY <3>1, FS_Interval, Zenon
  <2> QED BY <2>1, <2>2
<1> DEFINE I == (m + 1)..n
<1> HIDE DEF I
<1>3. IsFiniteSet({l} \X I) /\ Cardinality({l} \X I) = Cardinality({l}) * Cardinality(I)
  BY <1>1, <1>2, FS_Product DEF I
<1> QED BY <1>1, <1>2, <1>3 DEF I

\* B with counts q is A with counts p, but for line l: it is in B, and m is the
\* count it has in A.
DifferAt(l, m, A, p, B, q) ==
  /\ A \in SUBSET Lines /\ B \in SUBSET Lines
  /\ p \in Counts /\ q \in Counts
  /\ l \in B /\ A \ {l} = B \ {l}
  /\ \A k \in A \ {l} : p[k] = q[k]
  /\ m \in Nat
  /\ l \in A => m = p[l]
  /\ l \notin A => m = 0

\* Units that differ in the count of one line differ in number by as much.
LEMMA UnitsGrow ==
  ASSUME NEW l, NEW m, NEW A, NEW p, NEW B, NEW q,
         DifferAt(l, m, A, p, B, q), m <= q[l]
  PROVE  Cardinality(Units(B, q)) = Cardinality(Units(A, p)) + (q[l] - m)
<1> USE DEF DifferAt
<1> DEFINE New == {l} \X ((m + 1)..q[l])
<1>0. q[l] \in 0..MaxUnits /\ MaxUnits \in Nat
  BY LedgerAssumption DEF Counts
<1>1. Units(B, q) = Units(A, p) \cup New
  <2>1. ASSUME NEW u \in Units(B, q) PROVE u \in Units(A, p) \cup New
    <3>1. u \in B \X (1..MaxUnits) /\ u[2] <= q[u[1]]
      BY DEF Units
    <3>2. CASE u[1] # l
      BY <3>1, <3>2 DEF Units
    <3>3. CASE u[1] = l /\ u[2] <= m
      BY <3>1, <3>3, <1>0 DEF Units
    <3>4. CASE u[1] = l /\ u[2] > m
      BY <3>1, <3>4, <1>0
    <3> QED BY <3>1, <3>2, <3>3, <3>4, <1>0
  <2>2. ASSUME NEW u \in Units(A, p) PROVE u \in Units(B, q)
    <3>1. u \in A \X (1..MaxUnits) /\ u[2] <= p[u[1]]
      BY DEF Units
    <3>2. u \in B \X (1..MaxUnits)
      BY <3>1
    <3>3. u[2] <= q[u[1]]
      <4>1. CASE u[1] = l
        BY <4>1, <3>1, <1>0
      <4>2. CASE u[1] # l
        BY <4>2, <3>1
      <4> QED BY <4>1, <4>2
    <3> QED BY <3>2, <3>3 DEF Units
  <2>3. ASSUME NEW u \in New PROVE u \in Units(B, q)
    BY <1>0 DEF Units
  <2> QED BY <2>1, <2>2, <2>3
<1>2. Units(A, p) \cap New = {}
  BY <1>0 DEF Units, Counts
<1>3. IsFiniteSet(New) /\ Cardinality(New) = q[l] - m
  <2>1. PICK n \in Nat : n = q[l] /\ m <= n
    BY <1>0
  <2>2. \A i, j \in Nat : i <= j =>
          /\ IsFiniteSet({l} \X ((i + 1)..j))
          /\ Cardinality({l} \X ((i + 1)..j)) = j - i
    BY IntervalOfUnits
  <2> QED BY <2>1, <2>2
<1>4. IsFiniteSet(Units(A, p)) /\ Cardinality(Units(A, p)) \in Nat
  BY UnitsFinite
<1>5. Cardinality(Units(A, p) \cap New) = 0
  BY <1>2, FS_EmptySet
<1>6. Cardinality(Units(A, p) \cup New)
        = Cardinality(Units(A, p)) + Cardinality(New)
            - Cardinality(Units(A, p) \cap New)
  BY <1>3, <1>4, FS_Union, Zenon
<1> HIDE DEF New
<1> QED BY <1>0, <1>1, <1>3, <1>4, <1>5, <1>6

\* The same with the counts moving either way.
LEMMA UnitsChange ==
  ASSUME NEW l, NEW m, NEW A, NEW p, NEW B, NEW q,
         DifferAt(l, m, A, p, B, q)
  PROVE  Cardinality(Units(B, q)) - q[l] = Cardinality(Units(A, p)) - m
<1>1. /\ q[l] \in Nat /\ m \in Nat
      /\ Cardinality(Units(A, p)) \in Nat /\ Cardinality(Units(B, q)) \in Nat
  BY LedgerAssumption, UnitsFinite DEF Counts, DifferAt
<1>2. CASE m <= q[l]
  BY <1>1, <1>2, UnitsGrow
<1>3. CASE m > q[l]
  <2>1. l \in A /\ m = p[l]
    BY <1>1, <1>3 DEF DifferAt
  <2>2. DifferAt(l, q[l], B, q, A, p)
    BY <1>1, <2>1 DEF DifferAt
  <2>3. Cardinality(Units(A, p)) = Cardinality(Units(B, q)) + (p[l] - q[l])
    BY <1>1, <1>3, <2>1, <2>2, UnitsGrow
  <2> QED BY <1>1, <2>1, <2>3
<1> QED BY <1>1, <1>2, <1>3

\* Units of the same lines with the same counts are the same units.
LEMMA UnitsSame ==
  ASSUME NEW A, NEW p, NEW q, \A k \in A : p[k] = q[k]
  PROVE  Units(A, p) = Units(A, q)
BY DEF Units

-----------------------------------------------------------------------------
(* The inductive invariant, row by row: the sums of the reservations of a  *)
(* slot are what its row says, and a slot without quarantine balances.     *)

RowInv(inv, total, outstanding, consumed) ==
  /\ inv.reserved = outstanding
  /\ inv.sellable = None => inv.quarantine = 0
  /\ OneLinePerSku /\ inv.sellable = None =>
       /\ inv.reserved <= inv.quantity
       /\ inv.available = inv.quantity - inv.reserved
       /\ inv.quantity + consumed = total

SlotInv(s) ==
  RowInv(inventory[s], InitialStock[s] + inflow[s],
         Cardinality(OutstandingUnits(s)), Cardinality(ConsumedUnits(s)))

IInv ==
  /\ TypeOK
  /\ NeverSettledTwice
  /\ \A s \in Slots : SlotInv(s)

Out == [l \in Lines |-> Outstanding(l)]
Con == [l \in Lines |-> Consumed(l)]

\* The counts of the two sums are counts.
SumsAreTyped ==
  /\ Out \in Counts
  /\ Con \in Counts
  /\ \A s \in Slots : LinesAt(s) \in SUBSET Lines
  /\ \A s \in Slots : OutstandingUnits(s) = Units(LinesAt(s), Out)
  /\ \A s \in Slots : ConsumedUnits(s) = Units(LinesAt(s), Con)

LEMMA CountsType == TypeOK /\ NeverSettledTwice => SumsAreTyped
<1> SUFFICES ASSUME TypeOK, NeverSettledTwice PROVE SumsAreTyped
  OBVIOUS
<1>1. ASSUME NEW l \in Lines
      PROVE  Outstanding(l) \in 0..MaxUnits /\ Consumed(l) \in 0..MaxUnits
  <2>1. CASE reservation[l] = None
    BY <2>1, LedgerAssumption DEF Outstanding, Consumed
  <2>2. CASE reservation[l] # None
    BY <2>2, LedgerAssumption
       DEF Outstanding, Consumed, TypeOK, InventoryReservation, NeverSettledTwice
  <2> QED BY <2>1, <2>2
<1> QED BY <1>1 DEF SumsAreTyped, Out, Con, Counts, LinesAt,
                    OutstandingUnits, ConsumedUnits

\* What one line adds to the two sums.
LEMMA LineIsCounted ==
  ASSUME TypeOK, NeverSettledTwice, NEW l \in Lines
  PROVE  /\ Outstanding(l) \in 0..MaxUnits
         /\ Consumed(l) \in 0..MaxUnits
BY CountsType DEF SumsAreTyped, Counts, Out, Con

\* Every row sums non-negative counts.
SumsInNat ==
  \A s \in Slots : /\ Cardinality(OutstandingUnits(s)) \in Nat
                   /\ Cardinality(ConsumedUnits(s)) \in Nat

LEMMA SumsAreNat == TypeOK /\ NeverSettledTwice => SumsInNat
BY CountsType, UnitsFinite DEF SumsAreTyped, SumsInNat

\* An operation on the reservation of one line moves the two sums of its slot
\* by what it changed, and leaves those of every other slot alone.
LEMMA OneLineChanges ==
  ASSUME TypeOK, NeverSettledTwice, TypeOK', NeverSettledTwice',
         NEW l \in Lines, reservation'[l] # None,
         reservation[l] # None => SlotOf(l)' = SlotOf(l),
         \A k \in Lines \ {l} : reservation'[k] = reservation[k],
         NEW s \in Slots
  PROVE  IF SlotOf(l)' = s
         THEN /\ Cardinality(OutstandingUnits(s)') - Outstanding(l)'
                   = Cardinality(OutstandingUnits(s)) - Outstanding(l)
              /\ Cardinality(ConsumedUnits(s)') - Consumed(l)'
                   = Cardinality(ConsumedUnits(s)) - Consumed(l)
         ELSE /\ OutstandingUnits(s)' = OutstandingUnits(s)
              /\ ConsumedUnits(s)' = ConsumedUnits(s)
<1> DEFINE A == LinesAt(s)
           B == LinesAt(s)'
<1>1. /\ A \in SUBSET Lines /\ B \in SUBSET Lines
      /\ Out \in Counts /\ Con \in Counts /\ Out' \in Counts /\ Con' \in Counts
      /\ OutstandingUnits(s) = Units(A, Out) /\ ConsumedUnits(s) = Units(A, Con)
      /\ OutstandingUnits(s)' = Units(B, Out') /\ ConsumedUnits(s)' = Units(B, Con')
  <2>1. SumsAreTyped /\ SumsAreTyped'
    BY CountsType, PTL
  <2> QED BY <2>1 DEF SumsAreTyped, Counts, Units
<1>2. CASE SlotOf(l)' = s
  <2>1. l \in B /\ A \ {l} = B \ {l}
    BY <1>2 DEF LinesAt, SlotOf
  <2>2. \A k \in A \ {l} : Out[k] = Out'[k] /\ Con[k] = Con'[k]
    BY <1>1 DEF Out, Con, Outstanding, Consumed
  <2>3. l \in A <=> reservation[l] # None
    BY <1>2 DEF LinesAt
  <2>4. /\ Out'[l] = Outstanding(l)' /\ Con'[l] = Consumed(l)'
        /\ l \in A => Outstanding(l) = Out[l] /\ Consumed(l) = Con[l]
        /\ l \notin A => Outstanding(l) = 0 /\ Consumed(l) = 0
        /\ Outstanding(l) \in Nat /\ Consumed(l) \in Nat
    BY <1>1, <2>3, LedgerAssumption DEF Out, Con, Outstanding, Consumed, Counts
  <2> HIDE DEF A, B
  <2>5. /\ DifferAt(l, Outstanding(l), A, Out, B, Out')
        /\ DifferAt(l, Consumed(l), A, Con, B, Con')
    BY <1>1, <2>1, <2>2, <2>4 DEF DifferAt
  <2>6. /\ Cardinality(Units(B, Out')) - Out'[l]
             = Cardinality(Units(A, Out)) - Outstanding(l)
        /\ Cardinality(Units(B, Con')) - Con'[l]
             = Cardinality(Units(A, Con)) - Consumed(l)
    BY <2>5, UnitsChange
  <2> QED BY <1>1, <1>2, <2>4, <2>6
<1>3. CASE SlotOf(l)' # s
  <2>1. l \notin A /\ l \notin B
    BY <1>3 DEF LinesAt
  <2>2. A = B
    BY <2>1 DEF LinesAt, SlotOf
  <2>3. \A k \in A : Out[k] = Out'[k] /\ Con[k] = Con'[k]
    BY <2>1 DEF Out, Con, Outstanding, Consumed, LinesAt
  <2> HIDE DEF A, B
  <2>4. Units(A, Out) = Units(A, Out') /\ Units(A, Con) = Units(A, Con')
    BY <2>3, UnitsSame
  <2> QED BY <1>1, <1>3, <2>2, <2>4
<1> QED BY <1>2, <1>3
\* A row holds at least what any one reservation at its slot still owns.
LEMMA OutstandingIsHeld ==
  ASSUME TypeOK, NeverSettledTwice, NEW l \in Lines, reservation[l] # None
  PROVE  /\ SlotOf(l) \in Slots
         /\ Outstanding(l) \in 0..MaxUnits
         /\ Outstanding(l) <= Cardinality(OutstandingUnits(SlotOf(l)))
<1> DEFINE s == SlotOf(l)
           A == LinesAt(s)
<1>1. s \in Slots
  BY LedgerAssumption DEF TypeOK, InventoryReservation, Slots, SlotOf
<1>2. SumsAreTyped
  BY CountsType
<1>3. l \in A /\ Out[l] = Outstanding(l)
  BY DEF LinesAt, Out
<1>4. DifferAt(l, 0, A \ {l}, Out, A, Out)
  BY <1>1, <1>2, <1>3 DEF SumsAreTyped, DifferAt
<1>5. Cardinality(Units(A, Out)) - Out[l] = Cardinality(Units(A \ {l}, Out)) - 0
  BY <1>4, UnitsChange
<1>6. /\ Cardinality(Units(A, Out)) \in Nat
      /\ Cardinality(Units(A \ {l}, Out)) \in Nat
  BY <1>1, <1>2, UnitsFinite DEF SumsAreTyped
<1>7. Out[l] \in 0..MaxUnits
  BY <1>2 DEF SumsAreTyped, Counts
<1> HIDE DEF A
<1> QED BY <1>1, <1>2, <1>3, <1>5, <1>6, <1>7, LedgerAssumption
        DEF SumsAreTyped, A

\* A slot whose row and sums stay as they are keeps its invariant.
LEMMA SlotUntouched ==
  ASSUME NEW s \in Slots, SlotInv(s),
         inventory'[s] = inventory[s], inflow'[s] = inflow[s],
         Cardinality(OutstandingUnits(s)') = Cardinality(OutstandingUnits(s)),
         Cardinality(ConsumedUnits(s)') = Cardinality(ConsumedUnits(s))
  PROVE  SlotInv(s)'
BY DEF SlotInv, RowInv, OneLinePerSku

-----------------------------------------------------------------------------
(* What the rewritten row of an action satisfies.                          *)

RowIs(r, quantity, sellable, quarantine, reserved, available) ==
  /\ r \in Inventory
  /\ r.quantity = quantity /\ r.sellable = sellable
  /\ r.quarantine = quarantine
  /\ r.reserved = reserved /\ r.available = available

\* The rewritten rows, field by field.
LEMMA ReservedRow ==
  ASSUME NEW inv \in Inventory, NEW n \in Nat
  PROVE  RowIs(Reserved(inv, n), inv.quantity, inv.sellable, inv.quarantine,
               inv.reserved + n, AtLeast0(inv.available - n))
<1>1. inv.reserved + n \in Nat /\ AtLeast0(inv.available - n) \in Nat
  BY DEF Inventory, AtLeast0
<1> QED BY <1>1 DEF Inventory, Reserved, RowIs

LEMMA GivenBackRow ==
  ASSUME NEW inv \in Inventory, NEW n \in Nat
  PROVE  RowIs(GivenBack(inv, n), inv.quantity, inv.sellable, inv.quarantine,
               AtLeast0(inv.reserved - n), inv.available + n)
<1>1. AtLeast0(inv.reserved - n) \in Nat /\ inv.available + n \in Nat
  BY DEF Inventory, AtLeast0
<1> QED BY <1>1 DEF Inventory, GivenBack, RowIs

LEMMA ShippedRow ==
  ASSUME NEW inv \in Inventory, NEW n \in Nat
  PROVE  RowIs(Shipped(inv, n), AtLeast0(inv.quantity - n), inv.sellable,
               inv.quarantine, AtLeast0(inv.reserved - n), inv.available)
<1>1. AtLeast0(inv.quantity - n) \in Nat /\ AtLeast0(inv.reserved - n) \in Nat
  BY DEF Inventory, AtLeast0
<1> QED BY <1>1 DEF Inventory, Shipped, RowIs

LEMMA ReceivedRow ==
  ASSUME NEW inv \in Inventory, NEW n \in Nat
  PROVE  RowIs(Received(inv, n), inv.quantity + n, inv.sellable,
               inv.quarantine, inv.reserved, inv.available + n)
<1>1. inv.quantity + n \in Nat /\ inv.available + n \in Nat
  BY DEF Inventory, AtLeast0
<1> QED BY <1>1 DEF Inventory, Received, RowIs

LEMMA QuarantinedRow ==
  ASSUME NEW inv \in Inventory, NEW sellable \in Nat, NEW quarantine \in Nat
  PROVE  RowIs(Quarantined(inv, sellable, quarantine), inv.quantity, sellable,
               quarantine, inv.reserved, AtLeast0(sellable - inv.reserved))
<1>1. AtLeast0(sellable - inv.reserved) \in Nat
  BY DEF Inventory, AtLeast0
<1> QED BY <1>1 DEF Inventory, Quarantined, RowIs

\* Rewriting row inv as new keeps the invariant while dout units more are
\* outstanding and dcon more are consumed, if at least held were outstanding.
RowMoves(inv, new, held, dout, dcon) ==
  \A total, outstanding, consumed \in Nat :
    outstanding >= held /\ RowInv(inv, total, outstanding, consumed) =>
      RowInv(new, total, outstanding + dout, consumed + dcon)

\* A row that reserves n units more, which it has, keeps its invariant.
LEMMA RowReserves ==
  ASSUME NEW inv \in Inventory, NEW n \in Nat,
         OneLinePerSku /\ inv.sellable = None /\ inv.reserved <= inv.quantity =>
           inv.reserved + n <= inv.quantity
  PROVE  RowMoves(inv, Reserved(inv, n), 0, n, 0)
<1> DEFINE r == Reserved(inv, n)
<1>1. RowIs(r, inv.quantity, inv.sellable, inv.quarantine,
            inv.reserved + n, AtLeast0(inv.available - n))
  BY ReservedRow
<1>2. /\ inv.quantity \in Nat /\ inv.reserved \in Nat /\ inv.available \in Nat
  BY DEF Inventory
<1> HIDE DEF r
<1>3. ASSUME NEW total \in Nat, NEW outstanding \in Nat, NEW consumed \in Nat,
             RowInv(inv, total, outstanding, consumed)
      PROVE  RowInv(r, total, outstanding + n, consumed + 0)
  BY <1>1, <1>2, <1>3 DEF RowInv, AtLeast0, RowIs
<1> QED BY <1>3 DEF RowMoves, r

\* The change an action makes to the reservation of line l, with the outstanding
\* and consumed units it moves, and to the row of its slot s.
LineMoves(l, s, dout, dcon) ==
  /\ reservation'[l] # None
  /\ reservation[l] # None => SlotOf(l)' = SlotOf(l)
  /\ \A k \in Lines \ {l} : reservation'[k] = reservation[k]
  /\ SlotOf(l)' = s
  /\ Outstanding(l)' = Outstanding(l) + dout
  /\ Consumed(l)' = Consumed(l) + dcon
  /\ \A t \in Slots \ {s} : inventory'[t] = inventory[t]
  /\ inflow' = inflow

\* Such a change keeps every row's invariant if it keeps that of s.
LEMMA LineMovesSlots ==
  ASSUME IInv, TypeOK', NeverSettledTwice',
         NEW l \in Lines, NEW s \in Slots, NEW dout \in Int, NEW dcon \in Int,
         LineMoves(l, s, dout, dcon),
         RowMoves(inventory[s], inventory'[s], Outstanding(l), dout, dcon)
  PROVE  \A t \in Slots : SlotInv(t)'
<1> SUFFICES ASSUME NEW t \in Slots PROVE SlotInv(t)'
  OBVIOUS
<1> DEFINE out == Cardinality(OutstandingUnits(t))
           con == Cardinality(ConsumedUnits(t))
           out2 == Cardinality(OutstandingUnits(t)')
           con2 == Cardinality(ConsumedUnits(t)')
<1>1. out \in Nat /\ con \in Nat /\ out2 \in Nat /\ con2 \in Nat
  <2>1. SumsInNat /\ SumsInNat'
    BY SumsAreNat, PTL DEF IInv
  <2> QED BY <2>1 DEF SumsInNat
<1>3. IF s = t
      THEN /\ out2 - Outstanding(l)' = out - Outstanding(l)
           /\ con2 - Consumed(l)' = con - Consumed(l)
      ELSE /\ OutstandingUnits(t)' = OutstandingUnits(t)
           /\ ConsumedUnits(t)' = ConsumedUnits(t)
  BY OneLineChanges DEF IInv, LineMoves
<1>4. SlotInv(t) /\ inflow'[t] = inflow[t]
  BY DEF IInv, LineMoves
<1>5. CASE t # s
  BY <1>3, <1>4, <1>5, SlotUntouched DEF LineMoves
<1>6. CASE t = s
  <2>1. /\ Outstanding(l) \in Int /\ Consumed(l) \in Int
        /\ Outstanding(l)' = Outstanding(l) + dout
        /\ Consumed(l)' = Consumed(l) + dcon
    BY LineIsCounted DEF IInv, LineMoves
  <2>2. out2 = out + dout /\ con2 = con + dcon
    <3> HIDE DEF out, con, out2, con2
    <3> QED BY <1>1, <1>3, <1>6, <2>1
  <2>3. Outstanding(l) <= out
    <3>1. CASE reservation[l] = None
      BY <3>1, <1>1 DEF Outstanding
    <3>2. CASE reservation[l] # None
      BY <3>2, <1>6, OutstandingIsHeld DEF IInv, LineMoves
    <3> QED BY <3>1, <3>2
  <2>4. InitialStock[s] + inflow[s] \in Nat
    BY LedgerAssumption DEF IInv, TypeOK
  <2>5. RowInv(inventory[s], InitialStock[s] + inflow[s], out, con)
    BY <1>4, <1>6 DEF SlotInv
  <2>6. RowInv(inventory'[s], InitialStock[s] + inflow[s], out + dout, con + dcon)
    <3> HIDE DEF out, con, RowInv
    <3> QED BY <1>1, <2>1, <2>3, <2>4, <2>5 DEF RowMoves
  <2> QED BY <1>4, <1>6, <2>2, <2>6 DEF SlotInv
<1> QED BY <1>5, <1>6

-----------------------------------------------------------------------------
(* One lemma per action.                                                   *)

LEMMA ReserveInventoryStep ==
  ASSUME IInv, NEW l \in Lines, NEW w \in Locations, ReserveInventory(l, w)
  PROVE  IInv'
<1> DEFINE s == <<LineSku[l], w>>
           n == Lesser(Reservable(inventory[s]), LineQty[l])
<1>1. /\ s \in Slots /\ inventory[s] \in Inventory /\ LineQty[l] \in 1..MaxUnits
      /\ MaxUnits \in Nat
  BY LedgerAssumption DEF IInv, TypeOK, Slots
<1>2. /\ n \in Nat /\ n <= LineQty[l]
      /\ inventory[s].reserved <= inventory[s].quantity =>
           inventory[s].reserved + n <= inventory[s].quantity
  BY <1>1 DEF Lesser, Reservable, AtLeast0, Inventory
<1> HIDE DEF n
<1>3. /\ reservation[l] = None
      /\ reservation' = [reservation EXCEPT ![l] = NewReservation(w, LineQty[l], n)]
      /\ inventory' = [inventory EXCEPT ![s] = Reserved(inventory[s], n)]
      /\ inflow' = inflow
  BY DEF ReserveInventory, n
<1>4. TypeOK'
  <2>1. Reserved(inventory[s], n) \in Inventory
    BY <1>1, <1>2, ReservedRow DEF RowIs
  <2>2. NewReservation(w, LineQty[l], n) \in InventoryReservation
    BY <1>1, <1>2 DEF InventoryReservation, NewReservation
  <2> QED BY <1>1, <1>3, <2>1, <2>2 DEF IInv, TypeOK
<1>5. /\ reservation'[l] = NewReservation(w, LineQty[l], n)
      /\ reservation'[l] # None
      /\ Outstanding(l) = 0 /\ Consumed(l) = 0
      /\ Outstanding(l)' = n /\ Consumed(l)' = 0
      /\ SlotOf(l)' = s
  <2>1. reservation'[l] = NewReservation(w, LineQty[l], n)
    BY <1>3 DEF IInv, TypeOK
  <2>2. reservation'[l] # None
    BY <1>1, <1>2, <2>1, LedgerAssumption DEF NewReservation, InventoryReservation
  <2> QED BY <1>2, <1>3, <2>1, <2>2
          DEF NewReservation, Outstanding, Consumed, SlotOf
<1>6. NeverSettledTwice'
  BY <1>2, <1>3, <1>5 DEF IInv, NeverSettledTwice, TypeOK, NewReservation, Outstanding
<1>7. LineMoves(l, s, n, 0)
  BY <1>1, <1>2, <1>3, <1>5 DEF LineMoves, IInv, TypeOK
<1>8. RowMoves(inventory[s], inventory'[s], Outstanding(l), n, 0)
  <2>1. inventory'[s] = Reserved(inventory[s], n)
    BY <1>1, <1>3 DEF IInv, TypeOK
  <2>2. RowMoves(inventory[s], Reserved(inventory[s], n), 0, n, 0)
    BY <1>1, <1>2, RowReserves
  <2> QED BY <1>5, <2>1, <2>2
<1>9. \A t \in Slots : SlotInv(t)'
  BY <1>1, <1>2, <1>4, <1>6, <1>7, <1>8, LineMovesSlots
<1> QED BY <1>4, <1>6, <1>9 DEF IInv

\* The amount a settlement applies is within what the reservation and the row
\* of its slot hold.
LEMMA AppliedIsHeld ==
  ASSUME IInv, NEW l \in Lines, reservation[l] # None, NEW amount \in Nat
  PROVE  /\ SlotOf(l) \in Slots
         /\ Applied(l, amount) \in 0..MaxUnits
         /\ Applied(l, amount) <= Outstanding(l)
         /\ Applied(l, amount) <= inventory[SlotOf(l)].reserved
<1>1. /\ SlotOf(l) \in Slots
      /\ Outstanding(l) \in 0..MaxUnits
      /\ Outstanding(l) <= Cardinality(OutstandingUnits(SlotOf(l)))
  BY OutstandingIsHeld DEF IInv
<1>2. inventory[SlotOf(l)].reserved = Cardinality(OutstandingUnits(SlotOf(l)))
  BY <1>1 DEF IInv, SlotInv, RowInv
<1>3. inventory[SlotOf(l)].reserved \in Nat
  BY <1>1 DEF IInv, TypeOK, Inventory
<1>4. Applied(l, amount) \in 0..MaxUnits /\ Applied(l, amount) <= Outstanding(l)
  BY <1>1, LedgerAssumption DEF Applied, Lesser, AtLeast0
<1> QED BY <1>1, <1>2, <1>3, <1>4, LedgerAssumption

\* Settling n units of a reservation in either counter.
LEMMA SettledReservation ==
  ASSUME IInv, NEW l \in Lines, reservation[l] # None,
         NEW n \in 0..MaxUnits, n <= Outstanding(l), NEW released \in BOOLEAN,
         reservation' = IF released
           THEN [reservation EXCEPT ![l].quantity_released = reservation[l].quantity_released + n]
           ELSE [reservation EXCEPT ![l].quantity_consumed = reservation[l].quantity_consumed + n]
  PROVE  /\ reservation' \in [Lines -> InventoryReservation \cup {None}]
         /\ NeverSettledTwice'
         /\ reservation'[l] # None
         /\ SlotOf(l)' = SlotOf(l)
         /\ \A k \in Lines \ {l} : reservation'[k] = reservation[k]
         /\ Outstanding(l)' = Outstanding(l) - n
         /\ Consumed(l)' = Consumed(l) + (IF released THEN 0 ELSE n)
<1> DEFINE r == reservation[l]
           rel == IF released THEN r.quantity_released + n ELSE r.quantity_released
           con == IF released THEN r.quantity_consumed ELSE r.quantity_consumed + n
           new == [location |-> r.location,
                   quantity_requested |-> r.quantity_requested,
                   quantity_reserved |-> r.quantity_reserved,
                   quantity_released |-> rel, quantity_consumed |-> con]
<1>1. /\ r \in InventoryReservation
      /\ Outstanding(l) = r.quantity_reserved - r.quantity_released - r.quantity_consumed
      /\ Consumed(l) = r.quantity_consumed
      /\ r.quantity_reserved <= r.quantity_requested
  BY DEF IInv, TypeOK, NeverSettledTwice, Outstanding, Consumed
<1>2. new \in InventoryReservation
  BY <1>1, LedgerAssumption DEF InventoryReservation
<1>3. /\ DOMAIN reservation' = Lines
      /\ reservation' = [reservation EXCEPT ![l] = new]
  <2>1. CASE released
    <3>1. [r EXCEPT !.quantity_released = r.quantity_released + n] = new
      BY <1>1, <2>1 DEF InventoryReservation
    <3> QED BY <2>1, <3>1 DEF IInv, TypeOK
  <2>2. CASE ~ released
    <3>1. [r EXCEPT !.quantity_consumed = r.quantity_consumed + n] = new
      BY <1>1, <2>2 DEF InventoryReservation
    <3> QED BY <2>2, <3>1 DEF IInv, TypeOK
  <2> QED BY <2>1, <2>2
<1> HIDE DEF new, rel, con
<1>4. /\ reservation' \in [Lines -> InventoryReservation \cup {None}]
      /\ reservation'[l] = new
      /\ \A k \in Lines \ {l} : reservation'[k] = reservation[k]
      /\ new # None
  BY <1>2, <1>3, LedgerAssumption DEF IInv, TypeOK
<1>5. /\ new.location = r.location
      /\ new.quantity_requested = r.quantity_requested
      /\ new.quantity_reserved = r.quantity_reserved
      /\ new.quantity_released = rel /\ new.quantity_consumed = con
  BY DEF new
<1>6. /\ SlotOf(l)' = SlotOf(l)
      /\ Outstanding(l)' = new.quantity_reserved - new.quantity_released - new.quantity_consumed
      /\ Consumed(l)' = new.quantity_consumed
  BY <1>4, <1>5 DEF SlotOf, Outstanding, Consumed
<1>7. /\ Outstanding(l)' = Outstanding(l) - n
      /\ Consumed(l)' = Consumed(l) + (IF released THEN 0 ELSE n)
  BY <1>1, <1>5, <1>6, LedgerAssumption DEF rel, con, InventoryReservation
<1>8. ASSUME NEW k \in Lines, reservation'[k] # None
      PROVE  /\ Outstanding(k)' >= 0
             /\ reservation'[k].quantity_reserved <= reservation'[k].quantity_requested
  <2>1. CASE k = l
    BY <2>1, <1>1, <1>4, <1>5, <1>7, LedgerAssumption, LineIsCounted DEF IInv
  <2>2. CASE k # l
    BY <2>2, <1>4, <1>8 DEF IInv, NeverSettledTwice, Outstanding
  <2> QED BY <2>1, <2>2
<1> QED BY <1>4, <1>6, <1>7, <1>8 DEF NeverSettledTwice

LEMMA ReleaseReservationStep ==
  ASSUME IInv, NEW l \in Lines, NEW amount \in Nat, ReleaseReservation(l, amount)
  PROVE  IInv'
<1> DEFINE n == Applied(l, amount)
           s == SlotOf(l)
           inv == inventory[s]
           new == GivenBack(inv, n)
<1>1. /\ reservation[l] # None
      /\ reservation' = [reservation EXCEPT
           ![l].quantity_released = reservation[l].quantity_released + n]
      /\ inflow' = inflow
  BY DEF ReleaseReservation
<1>2. /\ s \in Slots /\ inv \in Inventory /\ n \in 0..MaxUnits /\ n \in Nat
      /\ n <= Outstanding(l) /\ n <= inv.reserved
  BY <1>1, AppliedIsHeld, LedgerAssumption DEF IInv, TypeOK
<1>3. inventory' = [inventory EXCEPT ![s] = new]
  BY <1>2 DEF ReleaseReservation, IInv, TypeOK
<1> HIDE DEF n
<1>4. /\ reservation' \in [Lines -> InventoryReservation \cup {None}]
      /\ NeverSettledTwice'
      /\ reservation'[l] # None
      /\ SlotOf(l)' = SlotOf(l)
      /\ \A k \in Lines \ {l} : reservation'[k] = reservation[k]
      /\ Outstanding(l)' = Outstanding(l) - n
      /\ Consumed(l)' = Consumed(l) + 0
  BY <1>1, <1>2, SettledReservation
<1>5. RowIs(new, inv.quantity, inv.sellable, inv.quarantine,
            AtLeast0(inv.reserved - n), inv.available + n)
  BY <1>2, GivenBackRow
<1>6. TypeOK'
  BY <1>1, <1>2, <1>3, <1>4, <1>5 DEF IInv, TypeOK, RowIs
<1>7. LineMoves(l, s, -n, 0)
  <2>1. Outstanding(l) \in Int
    BY LineIsCounted DEF IInv
  <2>2. \A t \in Slots \ {s} : inventory'[t] = inventory[t]
    BY <1>2, <1>3 DEF IInv, TypeOK
  <2> QED BY <1>1, <1>2, <1>4, <2>1, <2>2 DEF LineMoves
<1>8. RowMoves(inv, new, Outstanding(l), -n, 0)
  <2>1. /\ inv.quantity \in Nat /\ inv.reserved \in Nat /\ inv.available \in Nat
        /\ Outstanding(l) \in Nat
    BY <1>2, LineIsCounted DEF Inventory, IInv
  <2>2. ASSUME NEW total \in Nat, NEW outstanding \in Nat, NEW consumed \in Nat,
               RowInv(inv, total, outstanding, consumed)
        PROVE  RowInv(new, total, outstanding + -n, consumed + 0)
    BY <1>2, <1>5, <2>1, <2>2 DEF RowInv, AtLeast0, RowIs
  <2> QED BY <2>2 DEF RowMoves
<1>9. \A t \in Slots : SlotInv(t)'
  <2>1. inventory'[s] = new
    BY <1>2, <1>3 DEF IInv, TypeOK
  <2>2. -n \in Int
    BY <1>2
  <2> HIDE DEF s, inv, new
  <2> QED BY <1>2, <1>4, <1>6, <1>7, <1>8, <2>1, <2>2, LineMovesSlots DEF inv
<1> QED BY <1>4, <1>6, <1>9 DEF IInv

LEMMA ConsumeReservationStep ==
  ASSUME IInv, NEW l \in Lines, NEW amount \in Nat, ConsumeReservation(l, amount)
  PROVE  IInv'
<1> DEFINE n == Applied(l, amount)
           s == SlotOf(l)
           inv == inventory[s]
           new == Shipped(inv, n)
<1>1. /\ reservation[l] # None
      /\ reservation' = [reservation EXCEPT
           ![l].quantity_consumed = reservation[l].quantity_consumed + n]
      /\ inflow' = inflow
  BY DEF ConsumeReservation
<1>2. /\ s \in Slots /\ inv \in Inventory /\ n \in 0..MaxUnits /\ n \in Nat
      /\ n <= Outstanding(l) /\ n <= inv.reserved
  BY <1>1, AppliedIsHeld, LedgerAssumption DEF IInv, TypeOK
<1>3. inventory' = [inventory EXCEPT ![s] = new]
  BY <1>2 DEF ConsumeReservation, IInv, TypeOK
<1> HIDE DEF n
<1>4. /\ reservation' \in [Lines -> InventoryReservation \cup {None}]
      /\ NeverSettledTwice'
      /\ reservation'[l] # None
      /\ SlotOf(l)' = SlotOf(l)
      /\ \A k \in Lines \ {l} : reservation'[k] = reservation[k]
      /\ Outstanding(l)' = Outstanding(l) - n
      /\ Consumed(l)' = Consumed(l) + n
  BY <1>1, <1>2, SettledReservation
<1>5. RowIs(new, AtLeast0(inv.quantity - n), inv.sellable, inv.quarantine,
            AtLeast0(inv.reserved - n), inv.available)
  BY <1>2, ShippedRow
<1>6. TypeOK'
  BY <1>1, <1>2, <1>3, <1>4, <1>5 DEF IInv, TypeOK, RowIs
<1>7. LineMoves(l, s, -n, n)
  <2>1. Outstanding(l) \in Int
    BY LineIsCounted DEF IInv
  <2>2. \A t \in Slots \ {s} : inventory'[t] = inventory[t]
    BY <1>2, <1>3 DEF IInv, TypeOK
  <2> QED BY <1>1, <1>2, <1>4, <2>1, <2>2 DEF LineMoves
<1>8. RowMoves(inv, new, Outstanding(l), -n, n)
  <2>1. /\ inv.quantity \in Nat /\ inv.reserved \in Nat /\ inv.available \in Nat
        /\ Outstanding(l) \in Nat
    BY <1>2, LineIsCounted DEF Inventory, IInv
  <2>2. ASSUME NEW total \in Nat, NEW outstanding \in Nat, NEW consumed \in Nat,
               RowInv(inv, total, outstanding, consumed)
        PROVE  RowInv(new, total, outstanding + -n, consumed + n)
    BY <1>2, <1>5, <2>1, <2>2 DEF RowInv, AtLeast0, RowIs
  <2> QED BY <2>2 DEF RowMoves
<1>9. \A t \in Slots : SlotInv(t)'
  <2>1. inventory'[s] = new
    BY <1>2, <1>3 DEF IInv, TypeOK
  <2>2. -n \in Int /\ n \in Int
    BY <1>2
  <2> HIDE DEF s, inv, new
  <2> QED BY <1>2, <1>4, <1>6, <1>7, <1>8, <2>1, <2>2, LineMovesSlots DEF inv
<1> QED BY <1>4, <1>6, <1>9 DEF IInv

\* A call on a row of its own leaves every reservation and its sums alone.
LEMMA RowOnly ==
  ASSUME IInv, NEW s \in Slots, NEW new \in Inventory, NEW n \in Nat,
         reservation' = reservation,
         inventory' = [inventory EXCEPT ![s] = new],
         inflow' \in [Slots -> Nat],
         \A t \in Slots \ {s} : inflow'[t] = inflow[t],
         inflow'[s] = inflow[s] + n,
         \A total, outstanding, consumed \in Nat :
           RowInv(inventory[s], total, outstanding, consumed) =>
             RowInv(new, total + n, outstanding, consumed)
  PROVE  IInv'
<1>1. TypeOK' /\ NeverSettledTwice'
  BY DEF IInv, TypeOK, NeverSettledTwice, Outstanding
<1>2. ASSUME NEW t \in Slots
      PROVE  /\ OutstandingUnits(t)' = OutstandingUnits(t)
             /\ ConsumedUnits(t)' = ConsumedUnits(t)
  BY DEF OutstandingUnits, ConsumedUnits, LinesAt, SlotOf, Outstanding, Consumed, Units
<1>3. ASSUME NEW t \in Slots PROVE SlotInv(t)'
  <2>1. CASE t # s
    <3>1. inventory'[t] = inventory[t] /\ inflow'[t] = inflow[t] /\ SlotInv(t)
      BY <2>1 DEF IInv, TypeOK
    <3> QED BY <1>2, <3>1, SlotUntouched
  <2>2. CASE t = s
    <3>1. /\ inventory'[s] = new /\ SlotInv(s)
          /\ InitialStock[s] + inflow'[s] = (InitialStock[s] + inflow[s]) + n
          /\ InitialStock[s] + inflow[s] \in Nat
      <4>1. inventory'[s] = new /\ SlotInv(s)
        BY DEF IInv, TypeOK
      <4>2. InitialStock[s] \in Nat /\ inflow[s] \in Nat
        BY LedgerAssumption DEF IInv, TypeOK
      <4> QED BY <4>1, <4>2
    <3>2. /\ Cardinality(OutstandingUnits(s)) \in Nat
          /\ Cardinality(ConsumedUnits(s)) \in Nat
      BY SumsAreNat DEF IInv, SumsInNat
    <3>3. RowInv(new, (InitialStock[s] + inflow[s]) + n,
                 Cardinality(OutstandingUnits(s)), Cardinality(ConsumedUnits(s)))
      <4> HIDE DEF RowInv
      <4> QED BY <3>1, <3>2 DEF SlotInv
    <3> QED BY <1>2, <2>2, <3>1, <3>3 DEF SlotInv
  <2> QED BY <2>1, <2>2
<1> QED BY <1>1, <1>3 DEF IInv

LEMMA AdjustInventoryStep ==
  ASSUME IInv, NEW s \in Slots, NEW n \in Nat, AdjustInventory(s, n)
  PROVE  IInv'
<1> DEFINE inv == inventory[s]
           new == Received(inv, n)
<1>1. inv \in Inventory /\ inflow[s] \in Nat
  BY DEF IInv, TypeOK
<1>2. RowIs(new, inv.quantity + n, inv.sellable, inv.quarantine,
            inv.reserved, inv.available + n)
  BY <1>1, ReceivedRow
<1>3. /\ inventory' = [inventory EXCEPT ![s] = new]
      /\ reservation' = reservation
      /\ inflow' = [inflow EXCEPT ![s] = inflow[s] + n]
  BY DEF AdjustInventory
<1>4. ASSUME NEW total \in Nat, NEW outstanding \in Nat, NEW consumed \in Nat,
             RowInv(inv, total, outstanding, consumed)
      PROVE  RowInv(new, total + n, outstanding, consumed)
  <2>1. inv.quantity \in Nat /\ inv.reserved \in Nat
    BY <1>1 DEF Inventory
  <2> HIDE DEF new
  <2> QED BY <1>2, <1>4, <2>1 DEF RowInv, RowIs
<1>5. /\ inflow' \in [Slots -> Nat]
      /\ \A t \in Slots \ {s} : inflow'[t] = inflow[t]
      /\ inflow'[s] = inflow[s] + n
  BY <1>1, <1>3 DEF IInv, TypeOK
<1>6. new \in Inventory
  BY <1>2 DEF RowIs
<1> HIDE DEF new
<1> QED BY <1>3, <1>4, <1>5, <1>6, RowOnly

\* Both quarantine calls: the row is no longer an unquarantined one.
LEMMA QuarantinedStep ==
  ASSUME IInv, NEW s \in Slots, NEW sellable \in Nat, NEW quarantine \in Nat,
         inventory' = [inventory EXCEPT
           ![s] = Quarantined(inventory[s], sellable, quarantine)],
         UNCHANGED <<reservation, inflow>>
  PROVE  IInv'
<1> DEFINE inv == inventory[s]
           new == Quarantined(inv, sellable, quarantine)
<1>1. inv \in Inventory /\ inflow[s] \in Nat
  BY DEF IInv, TypeOK
<1>2. RowIs(new, inv.quantity, sellable, quarantine, inv.reserved,
            AtLeast0(sellable - inv.reserved))
  BY <1>1, QuarantinedRow
<1>3. sellable # None
  BY LedgerAssumption
<1>4. ASSUME NEW total \in Nat, NEW outstanding \in Nat, NEW consumed \in Nat,
             RowInv(inv, total, outstanding, consumed)
      PROVE  RowInv(new, total + 0, outstanding, consumed)
  <2> HIDE DEF new
  <2> QED BY <1>2, <1>3, <1>4 DEF RowInv, RowIs
<1>5. /\ inflow' \in [Slots -> Nat]
      /\ \A t \in Slots \ {s} : inflow'[t] = inflow[t]
      /\ inflow'[s] = inflow[s] + 0
  BY <1>1 DEF IInv, TypeOK
<1>6. new \in Inventory
  BY <1>2 DEF RowIs
<1>7. inventory' = [inventory EXCEPT ![s] = new]
  OBVIOUS
<1> HIDE DEF new
<1> QED BY <1>4, <1>5, <1>6, <1>7, RowOnly

LEMMA QuarantineStep ==
  ASSUME IInv, NEW s \in Slots, NEW n \in Nat, Quarantine(s, n)
  PROVE  IInv'
<1> DEFINE inv == inventory[s]
<1>1. inv \in Inventory
  BY DEF IInv, TypeOK
<1>2. AtLeast0(SellableBase(inv) - n) \in Nat /\ inv.quarantine + n \in Nat
  BY <1>1 DEF SellableBase, AtLeast0, Inventory
<1> QED BY <1>2, QuarantinedStep DEF Quarantine

LEMMA ReleaseQuarantineStep ==
  ASSUME IInv, NEW s \in Slots, NEW n \in Nat, ReleaseQuarantine(s, n)
  PROVE  IInv'
<1> DEFINE inv == inventory[s]
<1>1. inv \in Inventory /\ inv.quarantine >= n
  BY DEF IInv, TypeOK, ReleaseQuarantine
<1>2. SellableBase(inv) + n \in Nat /\ inv.quarantine - n \in Nat
  BY <1>1 DEF SellableBase, AtLeast0, Inventory
<1> QED BY <1>2, QuarantinedStep DEF ReleaseQuarantine

-----------------------------------------------------------------------------
(* The all-or-nothing reservation of an order's lines.                     *)

\* Units of two disjoint sets of lines add up.
LEMMA UnitsAdd ==
  ASSUME NEW A \in SUBSET Lines, NEW D \in SUBSET Lines, A \cap D = {},
         NEW p, NEW q, \A k \in A : p[k] = q[k]
  PROVE  Cardinality(Units(A \cup D, q))
           = Cardinality(Units(A, p)) + Cardinality(Units(D, q))
<1>1. Units(A \cup D, q) = Units(A, p) \cup Units(D, q)
  BY DEF Units
<1>2. Units(A, p) \cap Units(D, q) = {}
  BY DEF Units
<1>3. /\ IsFiniteSet(Units(A, p)) /\ Cardinality(Units(A, p)) \in Nat
      /\ IsFiniteSet(Units(D, q)) /\ Cardinality(Units(D, q)) \in Nat
  BY UnitsFinite
<1>4. Cardinality(Units(A, p) \cap Units(D, q)) = 0
  BY <1>2, FS_EmptySet
<1>5. Cardinality(Units(A, p) \cup Units(D, q))
        = Cardinality(Units(A, p)) + Cardinality(Units(D, q))
            - Cardinality(Units(A, p) \cap Units(D, q))
  BY <1>3, FS_Union, Zenon
<1> DEFINE a == Cardinality(Units(A, p))
           d == Cardinality(Units(D, q))
<1>6. Cardinality(Units(A \cup D, q)) = a + d - 0
  BY <1>1, <1>4, <1>5, Zenon
<1>7. a \in Nat /\ d \in Nat
  BY <1>3
<1> QED
  <2>1. a + d - 0 = a + d
    <3> HIDE DEF a, d
    <3> QED BY <1>7
  <2> QED BY <1>6, <2>1, Zenon

\* The lines of an order that ask for one SKU.
LinesFor(o, sku) == {l \in LinesOf(o) : LineSku[l] = sku}

\* If no order names a SKU twice, what it asks of a row is the quantity of its
\* one line for that SKU, which the row was compared with.
LEMMA DemandFits ==
  ASSUME IInv, NEW o \in Orders, NEW w \in Locations, CanReserveOrder(o, w),
         NEW sku \in Skus, OneLinePerSku, inventory[<<sku, w>>].sellable = None
  PROVE  inventory[<<sku, w>>].reserved <= inventory[<<sku, w>>].quantity =>
           inventory[<<sku, w>>].reserved + OrderDemand(o, sku)
             <= inventory[<<sku, w>>].quantity
<1> DEFINE inv == inventory[<<sku, w>>]
           D == LinesFor(o, sku)
<1>1. /\ inv \in Inventory /\ inv.quantity \in Nat /\ inv.reserved \in Nat
      /\ inv.quarantine \in Nat
  BY DEF IInv, TypeOK, Slots, Inventory
<1>2. OrderDemand(o, sku) = Cardinality(Units(D, LineQty))
  BY DEF OrderDemand, LinesFor
<1>3. CASE D = {}
  <2>1. Units(D, LineQty) = {}
    BY <1>3 DEF Units
  <2> QED BY <1>1, <1>2, <2>1, FS_EmptySet
<1>4. ASSUME NEW l \in D
      PROVE  /\ OrderDemand(o, sku) = LineQty[l]
             /\ inv.reserved + LineQty[l] <= inv.quantity
  <2>1. l \in Lines /\ l \in LinesOf(o) /\ LineSku[l] = sku
    BY DEF LinesFor, LinesOf
  <2>2. \A k \in D : k \in Lines /\ LineOrder[k] = LineOrder[l] /\ LineSku[k] = LineSku[l]
    BY <2>1 DEF LinesFor, LinesOf
  <2>3. D = {l}
    <3> HIDE DEF D
    <3> QED BY <2>1, <2>2, <1>4 DEF OneLinePerSku
  <2>4. LineQty \in Counts /\ LineQty[l] \in 1..MaxUnits
    BY <2>1, LedgerAssumption DEF Counts
  <2>5. DifferAt(l, 0, {}, LineQty, {l}, LineQty)
    BY <2>1, <2>4 DEF DifferAt
  <2>6. Cardinality(Units({l}, LineQty)) - LineQty[l] = Cardinality(Units({}, LineQty)) - 0
    BY <2>5, UnitsChange
  <2>7. Cardinality(Units({}, LineQty)) = 0
    <3>1. Units({}, LineQty) = {}
      BY DEF Units
    <3> QED BY <3>1, FS_EmptySet
  <2>8. Cardinality(Units({l}, LineQty)) \in Nat
    BY <2>1, UnitsFinite
  <2>9. OrderDemand(o, sku) = LineQty[l]
    <3> HIDE DEF D
    <3> QED BY <1>2, <2>3, <2>4, <2>6, <2>7, <2>8, LedgerAssumption
  <2>10. Ats(inv) >= LineQty[l]
    BY <2>1 DEF CanReserveOrder
  <2> QED BY <1>1, <2>4, <2>9, <2>10, LedgerAssumption DEF Ats, SellableBase, AtLeast0
<1> QED BY <1>3, <1>4

LEMMA ReserveOrderLinesStep ==
  ASSUME IInv, NEW o \in Orders, NEW w \in Locations, ReserveOrderLines(o, w)
  PROVE  IInv'
<1>1. /\ CanReserveOrder(o, w)
      /\ \A l \in LinesOf(o) : l \in Lines /\ reservation[l] = None
      /\ reservation' = [l \in Lines |->
           IF l \in LinesOf(o) THEN NewReservation(w, LineQty[l], LineQty[l])
           ELSE reservation[l]]
      /\ inventory' = [s \in Slots |->
           IF s[2] = w THEN Reserved(inventory[s], OrderDemand(o, s[1]))
           ELSE inventory[s]]
      /\ inflow' = inflow
  BY DEF ReserveOrderLines, CanReserveOrder, LinesOf
<1>2. ASSUME NEW sku \in Skus
      PROVE  /\ OrderDemand(o, sku) \in Nat
             /\ OrderDemand(o, sku) = Cardinality(Units(LinesFor(o, sku), LineQty))
  <2>1. LinesFor(o, sku) \in SUBSET Lines
    BY DEF LinesFor, LinesOf
  <2> QED BY <2>1, UnitsFinite DEF OrderDemand, LinesFor
<1>3. ASSUME NEW l \in LinesOf(o)
      PROVE  /\ l \in Lines /\ LineQty[l] \in 1..MaxUnits
             /\ NewReservation(w, LineQty[l], LineQty[l]) \in InventoryReservation
             /\ reservation'[l] = NewReservation(w, LineQty[l], LineQty[l])
             /\ reservation'[l] # None
             /\ Outstanding(l)' = LineQty[l] /\ Consumed(l)' = 0
             /\ SlotOf(l)' = <<LineSku[l], w>>
  <2>1. l \in Lines /\ LineQty[l] \in 1..MaxUnits /\ MaxUnits \in Nat
    BY <1>1, LedgerAssumption
  <2>2. NewReservation(w, LineQty[l], LineQty[l]) \in InventoryReservation
    BY <2>1 DEF NewReservation, InventoryReservation
  <2>3. reservation'[l] = NewReservation(w, LineQty[l], LineQty[l])
    BY <1>1, <2>1
  <2>4. reservation'[l] # None
    BY <2>2, <2>3, LedgerAssumption
  <2> QED BY <2>1, <2>2, <2>3, <2>4
          DEF NewReservation, Outstanding, Consumed, SlotOf
<1>4. ASSUME NEW l \in Lines, l \notin LinesOf(o)
      PROVE  /\ reservation'[l] = reservation[l]
             /\ Outstanding(l)' = Outstanding(l) /\ Consumed(l)' = Consumed(l)
             /\ SlotOf(l)' = SlotOf(l)
  BY <1>1, <1>4 DEF Outstanding, Consumed, SlotOf
<1>5. TypeOK'
  <2>1. reservation' \in [Lines -> InventoryReservation \cup {None}]
    BY <1>1, <1>3, <1>4 DEF IInv, TypeOK
  <2>2. ASSUME NEW s \in Slots PROVE inventory'[s] \in Inventory
    <3>1. s[1] \in Skus /\ inventory[s] \in Inventory
      BY DEF IInv, TypeOK, Slots
    <3>2. Reserved(inventory[s], OrderDemand(o, s[1])) \in Inventory
      BY <1>2, <3>1, ReservedRow DEF RowIs
    <3> QED BY <1>1, <3>1, <3>2
  <2> QED BY <1>1, <2>1, <2>2 DEF IInv, TypeOK
<1>6. NeverSettledTwice'
  <2>1. ASSUME NEW l \in Lines, reservation'[l] # None
        PROVE  /\ Outstanding(l)' >= 0
               /\ reservation'[l].quantity_reserved <= reservation'[l].quantity_requested
    <3>1. CASE l \in LinesOf(o)
      <4>1. /\ reservation'[l].quantity_reserved = LineQty[l]
            /\ reservation'[l].quantity_requested = LineQty[l]
        <5>1. reservation'[l] = NewReservation(w, LineQty[l], LineQty[l])
          BY <3>1, <1>3
        <5>2. \A q : /\ NewReservation(w, q, q).quantity_reserved = q
                     /\ NewReservation(w, q, q).quantity_requested = q
          BY DEF NewReservation
        <5> QED BY <5>1, <5>2
      <4>2. Outstanding(l)' = LineQty[l] /\ LineQty[l] \in Nat
        BY <3>1, <1>3, LedgerAssumption
      <4> QED BY <4>1, <4>2
    <3>2. CASE l \notin LinesOf(o)
      BY <3>2, <1>4, <2>1 DEF IInv, NeverSettledTwice
    <3> QED BY <3>1, <3>2
  <2> QED BY <2>1 DEF NeverSettledTwice
<1>7. SumsAreTyped /\ SumsAreTyped' /\ SumsInNat
  BY <1>5, <1>6, CountsType, SumsAreNat, PTL DEF IInv
<1>8. ASSUME NEW s \in Slots, s[2] # w PROVE SlotInv(s)'
  <2>1. inventory'[s] = inventory[s] /\ inflow'[s] = inflow[s]
    BY <1>1, <1>8
  <2>2. ASSUME NEW l \in LinesOf(o) PROVE reservation[l] = None /\ SlotOf(l)' # s
    BY <1>1, <1>3, <1>8
  <2>3. LinesAt(s)' = LinesAt(s) /\ \A l \in LinesAt(s) : l \notin LinesOf(o)
    BY <1>4, <2>2 DEF LinesAt
  <2>4. OutstandingUnits(s)' = OutstandingUnits(s) /\ ConsumedUnits(s)' = ConsumedUnits(s)
    <3> DEFINE A == LinesAt(s)
    <3>1. \A l \in A : Out[l] = Out'[l] /\ Con[l] = Con'[l]
      BY <1>4, <2>3 DEF LinesAt, Out, Con
    <3>2. /\ OutstandingUnits(s)' = Units(A, Out') /\ ConsumedUnits(s)' = Units(A, Con')
          /\ OutstandingUnits(s) = Units(A, Out) /\ ConsumedUnits(s) = Units(A, Con)
      BY <2>3 DEF OutstandingUnits, ConsumedUnits, Out, Con, Units
    <3> HIDE DEF A
    <3> QED BY <3>1, <3>2, UnitsSame
  <2> QED BY <2>1, <2>4, SlotUntouched DEF IInv
<1>9. ASSUME NEW s \in Slots, s[2] = w PROVE SlotInv(s)'
  <2> DEFINE inv == inventory[s]
             n == OrderDemand(o, s[1])
             A == LinesAt(s)
             D == LinesFor(o, s[1])
  <2>1. s[1] \in Skus /\ s = <<s[1], w>> /\ inv \in Inventory /\ n \in Nat
    BY <1>2, <1>9 DEF IInv, TypeOK, Slots
  <2>2. inventory'[s] = Reserved(inv, n) /\ inflow'[s] = inflow[s]
    BY <1>1, <1>9
  <2>3. /\ A \in SUBSET Lines /\ D \in SUBSET Lines /\ A \cap D = {}
        /\ LinesAt(s)' = A \cup D
    <3>1. ASSUME NEW l \in LinesOf(o) PROVE SlotOf(l)' = s <=> l \in D
      BY <1>3, <2>1 DEF LinesFor
    <3>2. D \subseteq LinesOf(o)
      BY DEF LinesFor
    <3>3. A \cap LinesOf(o) = {}
      BY <1>1 DEF LinesAt
    <3> QED BY <1>1, <1>3, <1>4, <3>1, <3>2, <3>3 DEF LinesAt
  <2>4. /\ \A l \in A : Out[l] = Out'[l] /\ Con[l] = Con'[l]
        /\ \A l \in D : Out'[l] = LineQty[l] /\ Con'[l] = 0
    BY <1>1, <1>3, <1>4, <2>3 DEF LinesAt, LinesFor, Out, Con
  <2>5. /\ OutstandingUnits(s)' = Units(A \cup D, Out')
        /\ ConsumedUnits(s)' = Units(A \cup D, Con')
        /\ OutstandingUnits(s) = Units(A, Out) /\ ConsumedUnits(s) = Units(A, Con)
    BY <2>3 DEF OutstandingUnits, ConsumedUnits, Out, Con, Units
  <2>6. Units(D, Out') = Units(D, LineQty) /\ Units(D, Con') = {}
    BY <2>4 DEF Units
  <2>7. /\ Cardinality(OutstandingUnits(s)') = Cardinality(OutstandingUnits(s)) + n
        /\ Cardinality(ConsumedUnits(s)') = Cardinality(ConsumedUnits(s)) + 0
    <3> HIDE DEF A, D
    <3>1. /\ Cardinality(Units(A \cup D, Out'))
               = Cardinality(Units(A, Out)) + Cardinality(Units(D, Out'))
          /\ Cardinality(Units(A \cup D, Con'))
               = Cardinality(Units(A, Con)) + Cardinality(Units(D, Con'))
      BY <2>3, <2>4, UnitsAdd
    <3> QED BY <1>2, <2>1, <2>5, <2>6, <3>1, FS_EmptySet DEF D
  <2>8. RowMoves(inv, Reserved(inv, n), 0, n, 0)
    <3>1. OneLinePerSku /\ inv.sellable = None /\ inv.reserved <= inv.quantity =>
            inv.reserved + n <= inv.quantity
      BY <1>1, <2>1, DemandFits
    <3> HIDE DEF inv, n
    <3> QED BY <2>1, <3>1, RowReserves
  <2>9. /\ Cardinality(OutstandingUnits(s)) \in Nat
        /\ Cardinality(ConsumedUnits(s)) \in Nat
        /\ InitialStock[s] + inflow[s] \in Nat
    <3>1. InitialStock[s] \in Nat /\ inflow[s] \in Nat
      BY LedgerAssumption DEF IInv, TypeOK
    <3> QED BY <1>7, <3>1 DEF SumsInNat
  <2>10. RowInv(inv, InitialStock[s] + inflow[s],
                Cardinality(OutstandingUnits(s)), Cardinality(ConsumedUnits(s)))
    BY DEF IInv, SlotInv
  <2>11. RowInv(Reserved(inv, n), InitialStock[s] + inflow[s],
                Cardinality(OutstandingUnits(s)) + n,
                Cardinality(ConsumedUnits(s)) + 0)
    <3> HIDE DEF n, inv
    <3> QED BY <2>8, <2>9, <2>10 DEF RowMoves
  <2> HIDE DEF n, inv
  <2> QED BY <2>2, <2>7, <2>11 DEF SlotInv
<1> QED BY <1>5, <1>6, <1>8, <1>9 DEF IInv

-----------------------------------------------------------------------------
(* The theorems of the ledger.                                             *)

LEMMA InitIInv == Init => IInv
<1> SUFFICES ASSUME Init PROVE IInv
  OBVIOUS
<1>1. TypeOK
  <2>1. \A s \in Slots : InitialStock[s] \in Nat
    BY LedgerAssumption
  <2> QED BY <2>1 DEF Init, TypeOK, Inventory
<1>2. NeverSettledTwice
  BY DEF Init, NeverSettledTwice
<1>3. ASSUME NEW s \in Slots PROVE SlotInv(s)
  <2>1. LinesAt(s) = {}
    BY DEF Init, LinesAt
  <2>2. OutstandingUnits(s) = {} /\ ConsumedUnits(s) = {}
    BY <2>1 DEF OutstandingUnits, ConsumedUnits, Units
  <2>3. Cardinality(OutstandingUnits(s)) = 0 /\ Cardinality(ConsumedUnits(s)) = 0
    BY <2>2, FS_EmptySet
  <2>4. /\ inventory[s].reserved = 0 /\ inventory[s].quarantine = 0
        /\ inventory[s].quantity = InitialStock[s]
        /\ inventory[s].available = InitialStock[s]
        /\ inflow[s] = 0 /\ InitialStock[s] \in Nat
    BY LedgerAssumption DEF Init
  <2> QED BY <2>3, <2>4 DEF SlotInv, RowInv
<1> QED BY <1>1, <1>2, <1>3 DEF IInv

LEMMA NextIInv == IInv /\ [Next]_vars => IInv'
<1> SUFFICES ASSUME IInv, [Next]_vars PROVE IInv'
  OBVIOUS
<1>0. \A n \in 1..MaxUnits : n \in Nat
  BY LedgerAssumption
<1>1. ASSUME NEW l \in Lines, NEW w \in Locations, ReserveInventory(l, w) PROVE IInv'
  BY <1>1, ReserveInventoryStep
<1>2. ASSUME NEW o \in Orders, NEW w \in Locations, ReserveOrderLines(o, w) PROVE IInv'
  BY <1>2, ReserveOrderLinesStep
<1>3. ASSUME NEW l \in Lines, NEW n \in 1..MaxUnits, ReleaseReservation(l, n) PROVE IInv'
  BY <1>0, <1>3, ReleaseReservationStep
<1>4. ASSUME NEW l \in Lines, NEW n \in 1..MaxUnits, ConsumeReservation(l, n) PROVE IInv'
  BY <1>0, <1>4, ConsumeReservationStep
<1>5. ASSUME NEW s \in Slots, NEW n \in 1..MaxUnits, Quarantine(s, n) PROVE IInv'
  BY <1>0, <1>5, QuarantineStep
<1>6. ASSUME NEW s \in Slots, NEW n \in 1..MaxUnits, ReleaseQuarantine(s, n) PROVE IInv'
  BY <1>0, <1>6, ReleaseQuarantineStep
<1>7. ASSUME NEW s \in Slots, NEW n \in 1..MaxUnits, AdjustInventory(s, n) PROVE IInv'
  BY <1>0, <1>7, AdjustInventoryStep
<1>8. CASE UNCHANGED vars
  <2>1. inventory' = inventory /\ reservation' = reservation /\ inflow' = inflow
    BY <1>8 DEF vars
  <2>2. TypeOK' /\ NeverSettledTwice'
    BY <2>1 DEF IInv, TypeOK, NeverSettledTwice, Outstanding
  <2>3. ASSUME NEW s \in Slots PROVE SlotInv(s)'
    <3>1. OutstandingUnits(s)' = OutstandingUnits(s) /\ ConsumedUnits(s)' = ConsumedUnits(s)
      BY <2>1 DEF OutstandingUnits, ConsumedUnits, LinesAt, SlotOf, Outstanding, Consumed
    <3> QED BY <2>1, <3>1, SlotUntouched DEF IInv
  <2> QED BY <2>2, <2>3 DEF IInv
<1> QED BY <1>1, <1>2, <1>3, <1>4, <1>5, <1>6, <1>7, <1>8 DEF Next

\* The inductive invariant holds in every reachable state.
THEOREM Invariant == Spec => []IInv
BY InitIInv, NextIInv, PTL DEF Spec

\* Every row has the type of the models, whatever the calls and their order.
THEOREM TypeCorrect == Spec => []TypeOK
<1>1. IInv => TypeOK
  BY DEF IInv
<1> QED BY <1>1, Invariant, PTL

\* No reservation is settled beyond what it owns.
THEOREM SettledOnce == Spec => []NeverSettledTwice
<1>1. IInv => NeverSettledTwice
  BY DEF IInv
<1> QED BY <1>1, Invariant, PTL

\* The aggregate of every row is what its reservations own.
THEOREM AggregateIsOwned == Spec => []ReservedIsOutstanding
<1>1. IInv => ReservedIsOutstanding
  BY DEF IInv, SlotInv, RowInv, ReservedIsOutstanding
<1> QED BY <1>1, Invariant, PTL

\* A slot without quarantine never promises more than it holds.
THEOREM NoOversale == Spec => []NeverOversold
<1>1. IInv => NeverOversold
  BY DEF IInv, SlotInv, RowInv, NeverOversold, Unquarantined
<1> QED BY <1>1, Invariant, PTL

\* The cached available quantity of such a slot is the formula of the model.
THEOREM CacheIsAts == Spec => []AvailableIsAts
<1>1. ASSUME IInv, OneLinePerSku, NEW s \in Slots, Unquarantined(s)
      PROVE  inventory[s].available = Ats(inventory[s])
  <2>1. inventory[s].quantity \in Nat /\ inventory[s].reserved \in Nat
    BY <1>1 DEF IInv, TypeOK, Inventory
  <2> QED BY <1>1, <2>1 DEF IInv, SlotInv, RowInv, Unquarantined, Ats, SellableBase, AtLeast0
<1>2. IInv => AvailableIsAts
  BY <1>1 DEF AvailableIsAts
<1> QED BY <1>2, Invariant, PTL

\* No unit of such a slot appears or disappears.
THEOREM UnitsConserved == Spec => []StockConserved
<1>1. IInv => StockConserved
  BY DEF IInv, SlotInv, RowInv, StockConserved, Unquarantined
<1> QED BY <1>1, Invariant, PTL

-----------------------------------------------------------------------------
(* The allocation: the inductive invariant.                                *)

AllocPcs == {"idle", "replay", "rank", "attempt", "reread", "lines", "record", "put"}

\* A call has the fields of IdleThread, whatever the totals it has read so far.
CallTyped(r) ==
  r \in [pc : AllocPcs, order : Orders \cup {None}, ats : {r.ats},
         tried : SUBSET (Locations \cup Lines), outcome : Outcomes \cup {None}]

Typed ==
  /\ DOMAIN thread = Threads /\ thread = [c \in Threads |-> thread[c]]
  /\ \A c \in Threads : CallTyped(thread[c])
  /\ marker \in [Orders -> Outcomes \cup {None}]

\* The line got its full quantity.
Full(l) ==
  reservation[l] # None /\ reservation[l].quantity_reserved = LineQty[l]
AllFull(o) == \A l \in LinesOf(o) : Full(l)

\* A row asks for the quantity of its line.  A row of an order with an
\* explicit location is there; the others are full.
LineGood(l) ==
  reservation[l] # None =>
    /\ reservation[l].quantity_requested = LineQty[l]
    /\ IF ExplicitLocation[LineOrder[l]] = None
       THEN reservation[l].quantity_reserved = LineQty[l]
       ELSE reservation[l].location = ExplicitLocation[LineOrder[l]]

\* Automatic allocation reserves the lines of an order together.
Together(k, l) ==
  /\ LineOrder[k] = LineOrder[l]
  /\ ExplicitLocation[LineOrder[l]] = None
  /\ reservation[k] # None
  => /\ reservation[l] # None
     /\ reservation[l].location = reservation[k].location

\* Where a call is, and what its place and the outcome it carries rest on.
ThreadGood(r) ==
  /\ r.pc # "idle" => r.order \in Orders
  /\ r.pc \in {"replay", "rank", "attempt", "reread"} => ExplicitLocation[r.order] = None
  /\ r.pc = "reread" => \E l \in LinesOf(r.order) : reservation[l] # None
  /\ r.pc = "lines" =>
       /\ ExplicitLocation[r.order] \in Locations \ {None}
       /\ r.outcome # "reserved"
       /\ r.outcome = None => \A l \in LinesOf(r.order) \cap r.tried : Full(l)
  /\ r.pc \in {"record", "put"} =>
       /\ r.outcome \in Outcomes
       /\ r.outcome = "reserved" => AllFull(r.order)

MarkerGood(o) == marker[o] = "reserved" => AllFull(o)

LinesGood ==
  /\ \A l \in Lines : LineGood(l)
  /\ \A k, l \in Lines : Together(k, l)

AInv ==
  /\ IInv
  /\ Typed
  /\ LinesGood
  /\ \A c \in Threads : ThreadGood(thread[c])
  /\ \A o \in Orders : MarkerGood(o)

-----------------------------------------------------------------------------
(* A rewritten call.                                                       *)

\* Only the call of c changes, to r.
CallIs(c, r) ==
  /\ thread'[c] = r
  /\ \A d \in Threads \ {c} : thread'[d] = thread[d]
  /\ DOMAIN thread' = Threads /\ thread' = [d \in Threads |-> thread'[d]]

LEMMA CallChanges ==
  ASSUME Typed, NEW c \in Threads, NEW r, thread' = [thread EXCEPT ![c] = r]
  PROVE  CallIs(c, r)
BY DEF Typed, CallIs

\* The fields of an idle call and of the calls the steps write.
LEMMA IdleTyped ==
  CallTyped(IdleThread) /\ ThreadGood(IdleThread)
BY DEF CallTyped, ThreadGood, IdleThread, AllocPcs

EditOf(n, r, pc, tried, outcome) ==
  /\ CallTyped(n)
  /\ n.pc = pc /\ n.order = r.order /\ n.tried = tried /\ n.outcome = outcome

LEMMA PcEdit ==
  ASSUME NEW r, CallTyped(r), NEW pc \in AllocPcs
  PROVE  EditOf([r EXCEPT !.pc = pc], r, pc, r.tried, r.outcome)
<1>1. PICK ats : r.ats = ats
  OBVIOUS
<1>2. r \in [pc : AllocPcs, order : Orders \cup {None}, ats : {ats},
             tried : SUBSET (Locations \cup Lines), outcome : Outcomes \cup {None}]
  BY <1>1 DEF CallTyped
<1> QED BY <1>1, <1>2 DEF CallTyped, EditOf

LEMMA FinishEdit ==
  ASSUME NEW r, CallTyped(r), NEW outcome \in Outcomes
  PROVE  EditOf([r EXCEPT !.pc = "record", !.outcome = outcome], r,
                "record", r.tried, outcome)
<1>1. PICK ats : r.ats = ats
  OBVIOUS
<1>2. r \in [pc : AllocPcs, order : Orders \cup {None}, ats : {ats},
             tried : SUBSET (Locations \cup Lines), outcome : Outcomes \cup {None}]
  BY <1>1 DEF CallTyped
<1>3. "record" \in AllocPcs
  BY DEF AllocPcs
<1> QED BY <1>1, <1>2, <1>3 DEF CallTyped, EditOf

LEMMA TriedEdit ==
  ASSUME NEW r, CallTyped(r), NEW x \in Locations \cup Lines,
         NEW outcome \in Outcomes \cup {None}
  PROVE  EditOf([r EXCEPT !.tried = r.tried \cup {x}, !.outcome = outcome], r,
                r.pc, r.tried \cup {x}, outcome)
<1>1. PICK ats : r.ats = ats
  OBVIOUS
<1>2. r \in [pc : AllocPcs, order : Orders \cup {None}, ats : {ats},
             tried : SUBSET (Locations \cup Lines), outcome : Outcomes \cup {None}]
  BY <1>1 DEF CallTyped
<1>3. r.tried \cup {x} \in SUBSET (Locations \cup Lines)
  BY <1>2
<1> QED BY <1>1, <1>2, <1>3 DEF CallTyped, EditOf

LEMMA TriedOnlyEdit ==
  ASSUME NEW r, CallTyped(r), NEW x \in Locations \cup Lines
  PROVE  EditOf([r EXCEPT !.tried = r.tried \cup {x}], r,
                r.pc, r.tried \cup {x}, r.outcome)
<1>1. PICK ats : r.ats = ats
  OBVIOUS
<1>2. r \in [pc : AllocPcs, order : Orders \cup {None}, ats : {ats},
             tried : SUBSET (Locations \cup Lines), outcome : Outcomes \cup {None}]
  BY <1>1 DEF CallTyped
<1>3. r.tried \cup {x} \in SUBSET (Locations \cup Lines)
  BY <1>2
<1> QED BY <1>1, <1>2, <1>3 DEF CallTyped, EditOf

LEMMA RankEdit ==
  ASSUME NEW r, CallTyped(r), NEW ats, NEW pc \in AllocPcs, NEW outcome \in Outcomes \cup {None}
  PROVE  /\ EditOf([r EXCEPT !.ats = ats], r, r.pc, r.tried, r.outcome)
         /\ EditOf([r EXCEPT !.ats = ats, !.pc = pc], r, pc, r.tried, r.outcome)
         /\ EditOf([r EXCEPT !.ats = ats, !.pc = pc, !.outcome = outcome], r,
                   pc, r.tried, outcome)
<1>1. PICK old : r.ats = old
  OBVIOUS
<1>2. r \in [pc : AllocPcs, order : Orders \cup {None}, ats : {old},
             tried : SUBSET (Locations \cup Lines), outcome : Outcomes \cup {None}]
  BY <1>1 DEF CallTyped
<1>3. EditOf([r EXCEPT !.ats = ats], r, r.pc, r.tried, r.outcome)
  BY <1>1, <1>2 DEF CallTyped, EditOf
<1>4. EditOf([r EXCEPT !.ats = ats, !.pc = pc], r, pc, r.tried, r.outcome)
  BY <1>1, <1>2 DEF CallTyped, EditOf
<1>5. EditOf([r EXCEPT !.ats = ats, !.pc = pc, !.outcome = outcome], r,
             pc, r.tried, outcome)
  BY <1>1, <1>2 DEF CallTyped, EditOf
<1> QED BY <1>3, <1>4, <1>5

LEMMA BeginEdit ==
  ASSUME NEW o \in Orders, NEW pc \in AllocPcs
  PROVE  EditOf([IdleThread EXCEPT !.order = o, !.pc = pc], [IdleThread EXCEPT !.order = o],
                pc, {}, None)
BY DEF IdleThread, EditOf, CallTyped, AllocPcs

-----------------------------------------------------------------------------
(* Rows that keep what the invariant reads of them.                        *)

\* Every row is still there, with its location and its first two quantities.
RowsKept ==
  \A l \in Lines : reservation[l] # None =>
    /\ reservation'[l] # None
    /\ reservation'[l].location = reservation[l].location
    /\ reservation'[l].quantity_requested = reservation[l].quantity_requested
    /\ reservation'[l].quantity_reserved = reservation[l].quantity_reserved

\* No row appeared.
NoneNew == \A l \in Lines : reservation[l] = None => reservation'[l] = None

LEMMA FullKept ==
  ASSUME RowsKept, NEW l \in Lines, Full(l)
  PROVE  Full(l)'
BY DEF RowsKept, Full

LEMMA OrderLines ==
  ASSUME NEW o
  PROVE  \A l \in LinesOf(o) : l \in Lines /\ LineOrder[l] = o
BY DEF LinesOf

LEMMA AllFullKept ==
  ASSUME RowsKept, NEW o, AllFull(o)
  PROVE  AllFull(o)'
<1>1. \A l \in LinesOf(o) : Full(l)'
  BY OrderLines, FullKept DEF AllFull
<1>2. LinesOf(o)' = LinesOf(o)
  BY DEF LinesOf
<1> QED BY <1>1, <1>2 DEF AllFull

\* What a call rests on survives.
LEMMA ThreadKept ==
  ASSUME RowsKept, NEW r, ThreadGood(r)
  PROVE  ThreadGood(r)'
<1>1. LinesOf(r.order)' = LinesOf(r.order)
  BY DEF LinesOf
<1>2. ASSUME r.pc = "reread" PROVE \E l \in LinesOf(r.order) : reservation'[l] # None
  BY <1>2, OrderLines DEF ThreadGood, RowsKept
<1>3. ASSUME r.pc = "lines", r.outcome = None
      PROVE  \A l \in LinesOf(r.order) \cap r.tried : Full(l)'
  BY <1>3, OrderLines, FullKept DEF ThreadGood
<1>4. ASSUME r.pc \in {"record", "put"}, r.outcome = "reserved" PROVE AllFull(r.order)'
  BY <1>4, AllFullKept DEF ThreadGood
<1> QED BY <1>1, <1>2, <1>3, <1>4 DEF ThreadGood

LEMMA MarkerKept ==
  ASSUME RowsKept, NEW o, marker' = marker, MarkerGood(o)
  PROVE  MarkerGood(o)'
BY AllFullKept DEF MarkerGood

LEMMA RowsGoodKept ==
  ASSUME RowsKept, NoneNew, LinesGood
  PROVE  LinesGood'
<1>1. ASSUME NEW l \in Lines PROVE LineGood(l)'
  BY <1>1 DEF RowsKept, NoneNew, LinesGood, LineGood
<1>2. ASSUME NEW k \in Lines, NEW l \in Lines PROVE Together(k, l)'
  BY <1>2 DEF RowsKept, NoneNew, LinesGood, Together
<1> QED BY <1>1, <1>2 DEF LinesGood

LEMMA UnchangedRows ==
  ASSUME UNCHANGED ledgerVars
  PROVE  RowsKept /\ NoneNew
BY DEF ledgerVars, RowsKept, NoneNew

-----------------------------------------------------------------------------
(* Steps that touch only a call, and steps that touch the ledger too.      *)

\* A step of the ledger under which one call becomes r.
LEMMA CallMoves ==
  ASSUME AInv, IInv', LinesGood', RowsKept, marker' = marker,
         NEW c \in Threads, NEW r, thread' = [thread EXCEPT ![c] = r],
         CallTyped(r), ThreadGood(r)'
  PROVE  AInv'
<1>1. CallIs(c, r)
  BY CallChanges DEF AInv
<1>2. ASSUME NEW d \in Threads PROVE CallTyped(thread'[d]) /\ ThreadGood(thread[d])'
  <2>1. CASE d = c
    BY <2>1, <1>1 DEF CallIs
  <2>2. CASE d # c
    <3>1. thread'[d] = thread[d] /\ CallTyped(thread[d]) /\ ThreadGood(thread[d])
      BY <2>2, <1>1 DEF CallIs, AInv, Typed
    <3> QED BY <3>1, ThreadKept
  <2> QED BY <2>1, <2>2
<1>3. \A d \in Threads : CallTyped(thread[d])'
  BY <1>2 DEF CallTyped
<1>4. Typed'
  BY <1>1, <1>3 DEF CallIs, Typed, AInv
<1>5. \A o \in Orders : MarkerGood(o)'
  BY MarkerKept DEF AInv
<1> QED BY <1>2, <1>4, <1>5 DEF AInv

LEMMA QuietLedger ==
  ASSUME AInv, UNCHANGED ledgerVars
  PROVE  IInv' /\ LinesGood' /\ RowsKept
<1>1. IInv /\ UNCHANGED vars
  BY DEF AInv, ledgerVars, vars
<1>2. IInv'
  BY <1>1, NextIInv
<1> QED BY <1>2, UnchangedRows, RowsGoodKept DEF AInv

LEMMA OnlyThread ==
  ASSUME AInv, UNCHANGED <<ledgerVars, marker>>,
         NEW c \in Threads, NEW r, thread' = [thread EXCEPT ![c] = r],
         CallTyped(r), ThreadGood(r)
  PROVE  AInv'
<1>1. UNCHANGED ledgerVars /\ marker' = marker
  OBVIOUS
<1>2. IInv' /\ LinesGood' /\ RowsKept
  BY <1>1, QuietLedger
<1>3. ThreadGood(r)'
  BY <1>2, ThreadKept
<1> QED BY <1>1, <1>2, <1>3, CallMoves

\* What the edits of a call give for the two conclusions above.
LEMMA CallOf ==
  ASSUME AInv, NEW c \in Threads
  PROVE  CallTyped(thread[c]) /\ ThreadGood(thread[c])
BY DEF AInv, Typed

LEMMA TypedCall ==
  ASSUME NEW r, CallTyped(r)
  PROVE  /\ r.pc \in AllocPcs /\ r.order \in Orders \cup {None}
         /\ r.tried \in SUBSET (Locations \cup Lines)
         /\ r.outcome \in Outcomes \cup {None}
<1>1. PICK ats : r.ats = ats
  OBVIOUS
<1> QED BY <1>1 DEF CallTyped

-----------------------------------------------------------------------------
(* The steps of a call that leave the ledger alone.                        *)

LEMMA BeginAllocationKeeps ==
  ASSUME AInv, NEW c \in Threads, NEW o \in Orders, BeginAllocation(c, o)
  PROVE  AInv'
<1>1. UNCHANGED <<ledgerVars, marker>>
  BY DEF BeginAllocation
<1>2. PICK pc \in {"replay", "lines"} :
        /\ pc = (IF ExplicitLocation[o] = None THEN "replay" ELSE "lines")
        /\ thread' = [thread EXCEPT ![c] = [IdleThread EXCEPT !.order = o, !.pc = pc]]
  BY DEF BeginAllocation
<1>3. pc \in AllocPcs
  BY DEF AllocPcs
<1> DEFINE r == [IdleThread EXCEPT !.order = o, !.pc = pc]
<1>4. EditOf(r, [IdleThread EXCEPT !.order = o], pc, {}, None)
  BY <1>3, BeginEdit
<1>5. r.order = o
  BY DEF IdleThread
<1>6. ExplicitLocation[o] \in Locations \cup {None} /\ None \notin Outcomes
  BY AllocationAssumption
<1> HIDE DEF r
<1>7. ThreadGood(r)
  BY <1>2, <1>4, <1>5, <1>6 DEF EditOf, ThreadGood, Outcomes
<1> QED BY <1>1, <1>2, <1>4, <1>7, OnlyThread DEF EditOf, r

\* Reservations found in full for an automatic order are all of them.
LEMMA FoundIsTrue ==
  ASSUME LinesGood, NEW o \in Orders, ExplicitLocation[o] = None,
         \E l \in LinesOf(o) : reservation[l] # None
  PROVE  FoundOutcome(o) \in Outcomes /\ AllFull(o)
<1>1. PICK k \in LinesOf(o) : reservation[k] # None
  OBVIOUS
<1>2. ASSUME NEW l \in LinesOf(o) PROVE Full(l)
  <2>1. k \in Lines /\ l \in Lines /\ LineOrder[k] = o /\ LineOrder[l] = o
    BY <1>2, OrderLines
  <2> QED BY <1>1, <2>1 DEF LinesGood, LineGood, Together, Full
<1> QED BY <1>2 DEF FoundOutcome, Outcomes, AllFull

\* An outcome that ends the search of a call.
LEMMA FinishKeeps ==
  ASSUME AInv, NEW c \in Threads, NEW outcome \in Outcomes,
         thread[c].order \in Orders, outcome = "reserved" => AllFull(thread[c].order),
         Finish(c, outcome), UNCHANGED <<ledgerVars, marker>>
  PROVE  AInv'
<1> DEFINE r == [thread[c] EXCEPT !.pc = "record", !.outcome = outcome]
<1>1. thread' = [thread EXCEPT ![c] = r]
  BY DEF Finish
<1>2. EditOf(r, thread[c], "record", thread[c].tried, outcome)
  BY FinishEdit, CallOf
<1> HIDE DEF r
<1>3. ThreadGood(r)
  BY <1>2 DEF EditOf, ThreadGood, Outcomes
<1> QED BY <1>1, <1>2, <1>3, OnlyThread DEF EditOf

\* A step to another place with nothing else to keep.
LEMMA GotoKeeps ==
  ASSUME AInv, NEW c \in Threads, NEW pc \in AllocPcs, Proceed(c, pc),
         UNCHANGED <<ledgerVars, marker>>,
         CallTyped([thread[c] EXCEPT !.pc = pc]) => ThreadGood([thread[c] EXCEPT !.pc = pc])
  PROVE  AInv'
<1> DEFINE r == [thread[c] EXCEPT !.pc = pc]
<1>1. thread' = [thread EXCEPT ![c] = r]
  BY DEF Proceed
<1>2. EditOf(r, thread[c], pc, thread[c].tried, thread[c].outcome)
  BY PcEdit, CallOf
<1> HIDE DEF r
<1> QED BY <1>1, <1>2, OnlyThread DEF EditOf, r

LEMMA ReplayKeeps ==
  ASSUME AInv, NEW c \in Threads, Replay(c)
  PROVE  AInv'
<1>1. ThreadGood(thread[c]) /\ CallTyped(thread[c])
  BY CallOf
<1>2. /\ thread[c].pc = "replay" /\ UNCHANGED <<ledgerVars, marker>>
      /\ thread[c].order \in Orders /\ ExplicitLocation[thread[c].order] = None
  BY <1>1 DEF Replay, ThreadGood
<1>3. CASE \E l \in LinesOf(OrderOf(c)) : reservation[l] # None
  <2>1. Finish(c, FoundOutcome(OrderOf(c)))
    BY <1>3 DEF Replay
  <2>2. FoundOutcome(OrderOf(c)) \in Outcomes /\ AllFull(thread[c].order)
    BY <1>2, <1>3, FoundIsTrue DEF OrderOf, AInv
  <2> QED BY <1>2, <2>1, <2>2, FinishKeeps
<1>4. CASE ~ \E l \in LinesOf(OrderOf(c)) : reservation[l] # None
  <2>1. Proceed(c, "rank") /\ "rank" \in AllocPcs
    BY <1>4 DEF Replay, AllocPcs
  <2> DEFINE r == [thread[c] EXCEPT !.pc = "rank"]
  <2>2. EditOf(r, thread[c], "rank", thread[c].tried, thread[c].outcome)
    BY <1>1, <2>1, PcEdit
  <2> HIDE DEF r
  <2>3. ThreadGood(r)
    BY <1>1, <1>2, <2>2 DEF EditOf, ThreadGood
  <2> QED BY <1>2, <2>1, <2>3, GotoKeeps DEF r
<1> QED BY <1>3, <1>4

LEMMA ReadCandidateKeeps ==
  ASSUME AInv, NEW c \in Threads, NEW w \in Locations, ReadCandidate(c, w)
  PROVE  AInv'
<1>1. ThreadGood(thread[c]) /\ CallTyped(thread[c])
  BY CallOf
<1>2. /\ thread[c].pc = "rank" /\ UNCHANGED <<ledgerVars, marker>>
      /\ thread[c].order \in Orders /\ ExplicitLocation[thread[c].order] = None
  BY <1>1 DEF ReadCandidate, ThreadGood
<1>3. PICK ats :
        \/ thread' = [thread EXCEPT ![c] = [thread[c] EXCEPT !.ats = ats]]
        \/ thread' = [thread EXCEPT ![c] =
             [thread[c] EXCEPT !.ats = ats, !.pc = "record", !.outcome = "shortfall"]]
        \/ thread' = [thread EXCEPT ![c] = [thread[c] EXCEPT !.ats = ats, !.pc = "attempt"]]
  BY ZenonT(30) DEF ReadCandidate
<1>4. "record" \in AllocPcs /\ "attempt" \in AllocPcs /\ "shortfall" \in Outcomes
  BY DEF AllocPcs, Outcomes
<1>5. CASE thread' = [thread EXCEPT ![c] = [thread[c] EXCEPT !.ats = ats]]
  <2> DEFINE r == [thread[c] EXCEPT !.ats = ats]
  <2>1. EditOf(r, thread[c], thread[c].pc, thread[c].tried, thread[c].outcome)
    BY <1>1, <1>4, RankEdit
  <2> HIDE DEF r
  <2>2. ThreadGood(r)
    BY <1>1, <1>2, <2>1 DEF EditOf, ThreadGood
  <2> QED BY <1>2, <1>5, <2>1, <2>2, OnlyThread DEF EditOf, r
<1>6. CASE thread' = [thread EXCEPT ![c] =
             [thread[c] EXCEPT !.ats = ats, !.pc = "record", !.outcome = "shortfall"]]
  <2> DEFINE r == [thread[c] EXCEPT !.ats = ats, !.pc = "record", !.outcome = "shortfall"]
  <2>1. EditOf(r, thread[c], "record", thread[c].tried, "shortfall")
    BY <1>1, <1>4, RankEdit
  <2> HIDE DEF r
  <2>2. ThreadGood(r)
    BY <1>1, <1>2, <1>4, <2>1 DEF EditOf, ThreadGood
  <2> QED BY <1>2, <1>6, <2>1, <2>2, OnlyThread DEF EditOf, r
<1>7. CASE thread' = [thread EXCEPT ![c] = [thread[c] EXCEPT !.ats = ats, !.pc = "attempt"]]
  <2> DEFINE r == [thread[c] EXCEPT !.ats = ats, !.pc = "attempt"]
  <2>1. EditOf(r, thread[c], "attempt", thread[c].tried, thread[c].outcome)
    BY <1>1, <1>4, RankEdit
  <2> HIDE DEF r
  <2>2. ThreadGood(r)
    BY <1>1, <1>2, <2>1 DEF EditOf, ThreadGood
  <2> QED BY <1>2, <1>7, <2>1, <2>2, OnlyThread DEF EditOf, r
<1> QED BY <1>3, <1>5, <1>6, <1>7

LEMMA AttemptConflictsKeeps ==
  ASSUME AInv, NEW c \in Threads, NEW w \in Locations, AttemptConflicts(c, w)
  PROVE  AInv'
<1>1. ThreadGood(thread[c]) /\ CallTyped(thread[c])
  BY CallOf
<1>2. /\ thread[c].pc = "attempt" /\ UNCHANGED <<ledgerVars, marker>>
      /\ thread[c].order \in Orders /\ ExplicitLocation[thread[c].order] = None
      /\ \E l \in LinesOf(thread[c].order) : reservation[l] # None
      /\ Proceed(c, "reread") /\ "reread" \in AllocPcs
  BY <1>1 DEF AttemptConflicts, ThreadGood, OrderOf, AllocPcs
<1> DEFINE r == [thread[c] EXCEPT !.pc = "reread"]
<1>3. EditOf(r, thread[c], "reread", thread[c].tried, thread[c].outcome)
  BY <1>1, <1>2, PcEdit
<1> HIDE DEF r
<1>4. ThreadGood(r)
  BY <1>2, <1>3 DEF EditOf, ThreadGood
<1> QED BY <1>2, <1>4, GotoKeeps DEF r

LEMMA AttemptInsufficientKeeps ==
  ASSUME AInv, NEW c \in Threads, NEW w \in Locations, AttemptInsufficient(c, w)
  PROVE  AInv'
<1>1. ThreadGood(thread[c]) /\ CallTyped(thread[c])
  BY CallOf
<1>2. /\ thread[c].pc = "attempt" /\ UNCHANGED <<ledgerVars, marker>>
      /\ thread[c].order \in Orders /\ ExplicitLocation[thread[c].order] = None
  BY <1>1 DEF AttemptInsufficient, ThreadGood
<1>3. CASE Finish(c, "shortfall")
  <2>1. "shortfall" \in Outcomes /\ "shortfall" # "reserved"
    BY DEF Outcomes
  <2> QED BY <1>2, <1>3, <2>1, FinishKeeps
<1>4. CASE thread' = [thread EXCEPT ![c].tried = @ \cup {w}]
  <2> DEFINE r == [thread[c] EXCEPT !.tried = thread[c].tried \cup {w}]
  <2>1. thread' = [thread EXCEPT ![c] = r]
    BY <1>4
  <2>2. EditOf(r, thread[c], thread[c].pc, thread[c].tried \cup {w}, thread[c].outcome)
    BY <1>1, TriedOnlyEdit
  <2> HIDE DEF r
  <2>3. ThreadGood(r)
    BY <1>2, <2>2 DEF EditOf, ThreadGood
  <2> QED BY <1>2, <2>1, <2>2, <2>3, OnlyThread DEF EditOf
<1> QED BY <1>3, <1>4 DEF AttemptInsufficient

LEMMA RereadKeeps ==
  ASSUME AInv, NEW c \in Threads, Reread(c)
  PROVE  AInv'
<1>1. ThreadGood(thread[c])
  BY CallOf
<1>2. /\ thread[c].pc = "reread" /\ UNCHANGED <<ledgerVars, marker>>
      /\ thread[c].order \in Orders /\ ExplicitLocation[thread[c].order] = None
      /\ \E l \in LinesOf(thread[c].order) : reservation[l] # None
      /\ Finish(c, FoundOutcome(thread[c].order))
  BY <1>1 DEF Reread, ThreadGood, OrderOf
<1>3. FoundOutcome(thread[c].order) \in Outcomes /\ AllFull(thread[c].order)
  BY <1>2, FoundIsTrue DEF AInv
<1> QED BY <1>2, <1>3, FinishKeeps

LEMMA LinesDoneKeeps ==
  ASSUME AInv, NEW c \in Threads, LinesDone(c)
  PROVE  AInv'
<1>1. ThreadGood(thread[c])
  BY CallOf
<1>2. PICK outcome \in Outcomes :
        /\ outcome = (IF thread[c].outcome = None THEN "reserved" ELSE "shortfall")
        /\ Finish(c, outcome)
  BY DEF LinesDone, Outcomes
<1>3. /\ thread[c].pc = "lines" /\ UNCHANGED <<ledgerVars, marker>>
      /\ thread[c].order \in Orders
      /\ LinesOf(thread[c].order) \subseteq thread[c].tried
  BY <1>1 DEF LinesDone, ThreadGood, OrderOf
<1>4. outcome = "reserved" => AllFull(thread[c].order)
  BY <1>1, <1>2, <1>3 DEF ThreadGood, AllFull
<1> QED BY <1>2, <1>3, <1>4, FinishKeeps

LEMMA AbandonKeeps ==
  ASSUME AInv, NEW c \in Threads, thread' = [thread EXCEPT ![c] = IdleThread],
         UNCHANGED <<ledgerVars, marker>>
  PROVE  AInv'
BY IdleTyped, OnlyThread

LEMMA CheckMarkerKeeps ==
  ASSUME AInv, NEW c \in Threads, CheckMarker(c)
  PROVE  AInv'
<1>1. ThreadGood(thread[c]) /\ CallTyped(thread[c])
  BY CallOf
<1>2. thread[c].pc = "record" /\ UNCHANGED <<ledgerVars, marker>>
  BY DEF CheckMarker
<1>3. CASE Proceed(c, "put")
  <2>1. "put" \in AllocPcs
    BY DEF AllocPcs
  <2> DEFINE r == [thread[c] EXCEPT !.pc = "put"]
  <2>2. EditOf(r, thread[c], "put", thread[c].tried, thread[c].outcome)
    BY <1>1, <2>1, PcEdit
  <2> HIDE DEF r
  <2>3. ThreadGood(r)
    BY <1>1, <1>2, <2>2 DEF EditOf, ThreadGood
  <2> QED BY <1>2, <1>3, <2>1, <2>3, GotoKeeps DEF r
<1>4. CASE thread' = [thread EXCEPT ![c] = IdleThread]
  BY <1>2, <1>4, AbandonKeeps
<1> QED BY <1>3, <1>4 DEF CheckMarker

LEMMA PutMarkerKeeps ==
  ASSUME AInv, NEW c \in Threads, PutMarker(c)
  PROVE  AInv'
<1>1. ThreadGood(thread[c]) /\ CallTyped(thread[c])
  BY CallOf
<1>2. /\ thread[c].pc = "put" /\ UNCHANGED ledgerVars
      /\ marker' = [marker EXCEPT ![thread[c].order] = thread[c].outcome]
      /\ thread' = [thread EXCEPT ![c] = IdleThread]
  BY DEF PutMarker, OrderOf
<1>3. /\ thread[c].order \in Orders /\ thread[c].outcome \in Outcomes
      /\ thread[c].outcome = "reserved" => AllFull(thread[c].order)
  BY <1>1, <1>2 DEF ThreadGood
<1>4. marker \in [Orders -> Outcomes \cup {None}] /\ \A o \in Orders : MarkerGood(o)
  BY DEF AInv, Typed
<1>5. IInv' /\ LinesGood' /\ RowsKept
  BY <1>2, QuietLedger
<1>6. marker' \in [Orders -> Outcomes \cup {None}]
  BY <1>2, <1>3, <1>4
<1>7. ASSUME NEW o \in Orders PROVE MarkerGood(o)'
  <2>1. CASE o = thread[c].order
    <3>1. marker'[o] = thread[c].outcome
      BY <1>2, <1>3, <1>4, <2>1
    <3>2. marker'[o] = "reserved" => AllFull(o)
      BY <1>3, <2>1, <3>1
    <3> QED BY <1>5, <3>2, AllFullKept DEF MarkerGood
  <2>2. CASE o # thread[c].order
    <3>1. marker'[o] = marker[o]
      BY <1>2, <1>4, <2>2
    <3>2. marker'[o] = "reserved" => AllFull(o)
      BY <1>4, <3>1 DEF MarkerGood
    <3> QED BY <1>5, <3>2, AllFullKept DEF MarkerGood
  <2> QED BY <2>1, <2>2
<1>8. CallIs(c, IdleThread)
  BY <1>2, CallChanges DEF AInv
<1>9. ASSUME NEW d \in Threads PROVE CallTyped(thread'[d]) /\ ThreadGood(thread[d])'
  <2>1. CASE d = c
    <3>1. thread'[d] = IdleThread /\ CallTyped(IdleThread) /\ ThreadGood(IdleThread)
      BY <2>1, <1>8, IdleTyped DEF CallIs
    <3>2. ThreadGood(IdleThread)'
      BY <1>5, <3>1, ThreadKept
    <3> QED BY <3>1, <3>2 DEF ThreadGood, IdleThread
  <2>2. CASE d # c
    <3>1. thread'[d] = thread[d] /\ CallTyped(thread[d]) /\ ThreadGood(thread[d])
      BY <2>2, <1>8, CallOf DEF CallIs
    <3> QED BY <3>1, <1>5, ThreadKept
  <2> QED BY <2>1, <2>2
<1>10. \A d \in Threads : CallTyped(thread[d])'
  BY <1>9 DEF CallTyped
<1>11. Typed'
  BY <1>6, <1>8, <1>10 DEF CallIs, Typed
<1> QED BY <1>5, <1>7, <1>9, <1>11 DEF AInv

-----------------------------------------------------------------------------
(* The steps that change the ledger.                                       *)

\* Settling some units of a reservation changes nothing else of any row.
LEMMA EnvironmentSettlingKeeps ==
  ASSUME IInv, NEW l \in Lines, reservation[l] # None,
         NEW n \in 0..MaxUnits, n <= Outstanding(l), NEW released \in BOOLEAN,
         reservation' = IF released
           THEN [reservation EXCEPT ![l].quantity_released = reservation[l].quantity_released + n]
           ELSE [reservation EXCEPT ![l].quantity_consumed = reservation[l].quantity_consumed + n]
  PROVE  RowsKept /\ NoneNew
<1>1. /\ reservation'[l] # None
      /\ \A k \in Lines \ {l} : reservation'[k] = reservation[k]
  BY SettledReservation
<1>2. reservation[l] \in InventoryReservation /\ DOMAIN reservation = Lines
  BY DEF IInv, TypeOK
<1>3. reservation'[l] = IF released
        THEN [reservation[l] EXCEPT !.quantity_released = reservation[l].quantity_released + n]
        ELSE [reservation[l] EXCEPT !.quantity_consumed = reservation[l].quantity_consumed + n]
  BY <1>2
<1>4. /\ reservation'[l].location = reservation[l].location
      /\ reservation'[l].quantity_requested = reservation[l].quantity_requested
      /\ reservation'[l].quantity_reserved = reservation[l].quantity_reserved
  BY <1>2, <1>3 DEF InventoryReservation
<1>5. RowsKept
  BY <1>1, <1>4 DEF RowsKept
<1> QED BY <1>1, <1>5 DEF NoneNew

LEMMA EnvironmentReleaseKeeps ==
  ASSUME IInv, NEW l \in Lines, NEW amount \in Nat, ReleaseReservation(l, amount)
  PROVE  RowsKept /\ NoneNew
<1> DEFINE n == Applied(l, amount)
<1>1. reservation[l] # None
      /\ reservation' = [reservation EXCEPT
           ![l].quantity_released = reservation[l].quantity_released + n]
  BY DEF ReleaseReservation
<1>2. n \in 0..MaxUnits /\ n <= Outstanding(l)
  BY <1>1, AppliedIsHeld
<1> HIDE DEF n
<1> DEFINE released == TRUE
<1>3. released \in BOOLEAN /\ reservation' = IF released
           THEN [reservation EXCEPT ![l].quantity_released = reservation[l].quantity_released + n]
           ELSE [reservation EXCEPT ![l].quantity_consumed = reservation[l].quantity_consumed + n]
  BY <1>1
<1> HIDE DEF released
<1> QED BY <1>1, <1>2, <1>3, EnvironmentSettlingKeeps

LEMMA EnvironmentConsumeKeeps ==
  ASSUME IInv, NEW l \in Lines, NEW amount \in Nat, ConsumeReservation(l, amount)
  PROVE  RowsKept /\ NoneNew
<1> DEFINE n == Applied(l, amount)
<1>1. reservation[l] # None
      /\ reservation' = [reservation EXCEPT
           ![l].quantity_consumed = reservation[l].quantity_consumed + n]
  BY DEF ConsumeReservation
<1>2. n \in 0..MaxUnits /\ n <= Outstanding(l)
  BY <1>1, AppliedIsHeld
<1> HIDE DEF n
<1> DEFINE released == FALSE
<1>3. released \in BOOLEAN /\ reservation' = IF released
           THEN [reservation EXCEPT ![l].quantity_released = reservation[l].quantity_released + n]
           ELSE [reservation EXCEPT ![l].quantity_consumed = reservation[l].quantity_consumed + n]
  BY <1>1
<1> HIDE DEF released
<1> QED BY <1>1, <1>2, <1>3, EnvironmentSettlingKeeps

\* The rest of the system keeps the invariant.
LEMMA EnvironmentKeeps ==
  ASSUME AInv, Environment
  PROVE  AInv'
<1>1. UNCHANGED <<thread, marker>> /\ IInv
  BY DEF Environment, AInv
<1>2. MaxUnits \in Nat /\ 1 \in Nat /\ InflowSlots \subseteq Slots
  BY LedgerAssumption, AllocationAssumption
<1>3. IInv' /\ RowsKept /\ NoneNew
  <2>1. CASE \E l \in Lines : ReleaseReservation(l, MaxUnits)
    BY <1>1, <1>2, <2>1, ReleaseReservationStep, EnvironmentReleaseKeeps
  <2>2. CASE \E l \in Lines : ConsumeReservation(l, MaxUnits)
    BY <1>1, <1>2, <2>2, ConsumeReservationStep, EnvironmentConsumeKeeps
  <2>3. CASE \E s \in InflowSlots : AdjustInventory(s, 1)
    <3>1. PICK s \in Slots : AdjustInventory(s, 1)
      BY <1>2, <2>3
    <3>2. RowsKept /\ NoneNew
      BY <3>1 DEF AdjustInventory, RowsKept, NoneNew
    <3> QED BY <1>1, <1>2, <3>1, <3>2, AdjustInventoryStep
  <2> QED BY <2>1, <2>2, <2>3 DEF Environment
<1>4. LinesGood'
  BY <1>3, RowsGoodKept DEF AInv
<1>5. Typed'
  BY <1>1 DEF AInv, Typed, CallTyped
<1>6. \A c \in Threads : ThreadGood(thread[c])'
  BY <1>1, <1>3, ThreadKept DEF AInv
<1>7. \A o \in Orders : MarkerGood(o)'
  BY <1>1, <1>3, MarkerKept DEF AInv
<1> QED BY <1>3, <1>4, <1>5, <1>6, <1>7 DEF AInv

LEMMA NewRow ==
  ASSUME NEW w \in Locations, NEW m \in 1..MaxUnits, NEW n \in 0..MaxUnits
  PROVE  /\ NewReservation(w, m, n) # None
         /\ NewReservation(w, m, n).location = w
         /\ NewReservation(w, m, n).quantity_requested = m
         /\ NewReservation(w, m, n).quantity_reserved = n
<1>1. NewReservation(w, m, n) \in InventoryReservation
  BY LedgerAssumption DEF NewReservation, InventoryReservation
<1> QED BY <1>1, LedgerAssumption DEF NewReservation

LEMMA LineFacts ==
  ASSUME NEW l \in Lines
  PROVE  /\ LineQty[l] \in 1..MaxUnits /\ LineQty[l] \in 0..MaxUnits
         /\ LineOrder[l] \in Orders
BY LedgerAssumption

\* All lines of an order reserved together, each in full.
LEMMA AttemptSucceedsKeeps ==
  ASSUME AInv, NEW c \in Threads, NEW w \in Locations, AttemptSucceeds(c, w)
  PROVE  AInv'
<1>1. ThreadGood(thread[c]) /\ CallTyped(thread[c])
  BY CallOf
<1>2. PICK o : o = thread[c].order
  OBVIOUS
<1>3. /\ thread[c].pc = "attempt" /\ marker' = marker
      /\ o \in Orders /\ ExplicitLocation[o] = None
      /\ ReserveOrderLines(o, w) /\ Finish(c, "reserved")
  <2>1. o \in Orders /\ ExplicitLocation[o] = None
    BY <1>1, <1>2 DEF AttemptSucceeds, ThreadGood
  <2> QED BY <1>2, <2>1 DEF AttemptSucceeds, OrderOf
<1>4. \A l \in LinesOf(o) : reservation[l] = None
  BY <1>3 DEF ReserveOrderLines, CanReserveOrder
<1>5. reservation' = [l \in Lines |->
        IF l \in LinesOf(o) THEN NewReservation(w, LineQty[l], LineQty[l])
        ELSE reservation[l]]
  BY <1>3 DEF ReserveOrderLines
<1>6. ASSUME NEW l \in LinesOf(o)
      PROVE  /\ l \in Lines /\ reservation'[l] # None /\ reservation'[l].location = w
             /\ reservation'[l].quantity_requested = LineQty[l]
             /\ reservation'[l].quantity_reserved = LineQty[l]
  <2>1. l \in Lines
    BY OrderLines
  <2>2. reservation'[l] = NewReservation(w, LineQty[l], LineQty[l])
    BY <1>5, <2>1
  <2>3. PICK n \in 1..MaxUnits : n = LineQty[l] /\ n \in 0..MaxUnits
    BY <2>1, LineFacts
  <2> QED BY <2>1, <2>2, <2>3, NewRow
<1>7. \A l \in Lines : l \notin LinesOf(o) => reservation'[l] = reservation[l]
  BY <1>5
<1>8. IInv'
  BY <1>3, ReserveOrderLinesStep DEF AInv
<1>9. RowsKept
  BY <1>4, <1>7 DEF RowsKept
<1>10. ASSUME NEW l \in Lines PROVE LineGood(l)'
  <2>1. CASE l \in LinesOf(o)
    <3>1. LineOrder[l] = o
      BY <2>1, OrderLines
    <3> QED BY <1>3, <1>6, <2>1, <3>1 DEF LineGood
  <2>2. CASE l \notin LinesOf(o)
    BY <1>7, <2>2 DEF AInv, LinesGood, LineGood
  <2> QED BY <2>1, <2>2
<1>11. ASSUME NEW k \in Lines, NEW l \in Lines PROVE Together(k, l)'
  <2>1. CASE LineOrder[k] = o /\ LineOrder[l] = o
    <3>1. k \in LinesOf(o) /\ l \in LinesOf(o)
      BY <2>1 DEF LinesOf
    <3> QED BY <1>6, <3>1 DEF Together
  <2>2. CASE LineOrder[k] = LineOrder[l] /\ LineOrder[l] # o
    <3>1. k \notin LinesOf(o) /\ l \notin LinesOf(o)
      BY <2>2, OrderLines
    <3> QED BY <1>7, <3>1 DEF AInv, LinesGood, Together
  <2>3. CASE LineOrder[k] # LineOrder[l]
    BY <2>3 DEF Together
  <2> QED BY <2>1, <2>2, <2>3
<1>12. LinesGood'
  BY <1>10, <1>11 DEF LinesGood
<1>13. AllFull(o)'
  <2>1. LinesOf(o)' = LinesOf(o)
    BY DEF LinesOf
  <2> QED BY <1>6, <2>1 DEF AllFull, Full
<1>14. PICK r : r = [thread[c] EXCEPT !.pc = "record", !.outcome = "reserved"]
  OBVIOUS
<1>15. thread' = [thread EXCEPT ![c] = r] /\ "reserved" \in Outcomes
  BY <1>3, <1>14 DEF Finish, Outcomes
<1>16. EditOf(r, thread[c], "record", thread[c].tried, "reserved")
  BY <1>1, <1>14, <1>15, FinishEdit
<1>17. CallTyped(r) /\ r.pc = "record" /\ r.order = o /\ r.outcome = "reserved"
  BY <1>2, <1>16 DEF EditOf
<1>18. ThreadGood(r)'
  BY <1>3, <1>13, <1>15, <1>17 DEF ThreadGood
<1> QED BY <1>3, <1>8, <1>9, <1>12, <1>15, <1>17, <1>18, CallMoves

\* A line reserved at the explicit location of its order.
LEMMA ReserveInventoryKeeps ==
  ASSUME AInv, NEW l \in Lines,
         ExplicitLocation[LineOrder[l]] \in Locations,
         ExplicitLocation[LineOrder[l]] # None,
         ReserveInventory(l, ExplicitLocation[LineOrder[l]])
  PROVE  IInv' /\ RowsKept /\ LinesGood'
<1>1. PICK w \in Locations : w = ExplicitLocation[LineOrder[l]]
  OBVIOUS
<1>2. IInv'
  BY <1>1, ReserveInventoryStep DEF AInv
<1>3. PICK n : /\ reservation[l] = None
               /\ reservation' = [reservation EXCEPT
                    ![l] = NewReservation(w, LineQty[l], n)]
  BY <1>1 DEF ReserveInventory
<1>4. DOMAIN reservation = Lines
  BY DEF AInv, IInv, TypeOK
<1>5. /\ reservation'[l] = NewReservation(w, LineQty[l], n)
      /\ \A k \in Lines \ {l} : reservation'[k] = reservation[k]
  BY <1>3, <1>4
<1>6. /\ reservation'[l].location = w
      /\ reservation'[l].quantity_requested = LineQty[l]
  BY <1>5 DEF NewReservation
<1>7. RowsKept
  BY <1>3, <1>5 DEF RowsKept
<1>8. ASSUME NEW k \in Lines PROVE LineGood(k)'
  <2>1. CASE k = l
    BY <1>1, <1>6, <2>1 DEF LineGood
  <2>2. CASE k # l
    BY <1>5, <2>2 DEF AInv, LinesGood, LineGood
  <2> QED BY <2>1, <2>2
<1>9. ASSUME NEW k \in Lines, NEW m \in Lines PROVE Together(k, m)'
  <2>1. CASE ExplicitLocation[LineOrder[m]] = None /\ LineOrder[k] = LineOrder[m]
    <3>1. k # l /\ m # l
      BY <2>1
    <3> QED BY <1>5, <3>1 DEF AInv, LinesGood, Together
  <2>2. CASE ~ (ExplicitLocation[LineOrder[m]] = None /\ LineOrder[k] = LineOrder[m])
    BY <2>2 DEF Together
  <2> QED BY <2>1, <2>2
<1> QED BY <1>2, <1>7, <1>8, <1>9 DEF LinesGood

LEMMA ReserveLineKeeps ==
  ASSUME AInv, NEW c \in Threads, ReserveLine(c)
  PROVE  AInv'
<1>1. ThreadGood(thread[c]) /\ CallTyped(thread[c])
  BY CallOf
<1>2. PICK o, l, tried, outcome :
        /\ o = thread[c].order /\ l = NextLine(c)
        /\ tried = thread[c].tried /\ outcome = thread[c].outcome
  OBVIOUS
<1>3. /\ thread[c].pc = "lines" /\ o \in Orders /\ marker' = marker
      /\ ExplicitLocation[o] \in Locations /\ ExplicitLocation[o] # None
      /\ outcome \in {None, "shortfall"}
      /\ outcome = None => \A k \in LinesOf(o) \cap tried : Full(k)
  <2>1. thread[c].pc = "lines" /\ marker' = marker
    BY DEF ReserveLine
  <2>2. outcome \in Outcomes \cup {None}
    BY <1>1, <1>2, TypedCall
  <2> QED BY <1>1, <1>2, <2>1, <2>2 DEF ThreadGood, Outcomes
<1>4. l \in LinesOf(o) \ tried /\ l \in Lines /\ LineOrder[l] = o
  <2>1. LinesOf(o) \ tried # {}
    BY <1>2 DEF ReserveLine, OrderOf
  <2>2. l \in LinesOf(o) \ tried
    BY <1>2, <2>1 DEF NextLine, OrderOf
  <2> QED BY <2>2, OrderLines
<1>5. IInv' /\ RowsKept /\ LinesGood' /\ reservation'[l] # None
  <2>1. CASE reservation[l] = None
    <3>1. ReserveInventory(l, ExplicitLocation[LineOrder[l]])
      BY <1>2, <1>4, <2>1 DEF ReserveLine, OrderOf
    <3>2. IInv' /\ RowsKept /\ LinesGood'
      BY <1>3, <1>4, <3>1, ReserveInventoryKeeps
    <3>3. PICK w, n :
            /\ w \in Locations
            /\ reservation' = [reservation EXCEPT ![l] = NewReservation(w, LineQty[l], n)]
      BY <1>3, <1>4, <3>1 DEF ReserveInventory
    <3>4. reservation'[l] = NewReservation(w, LineQty[l], n)
      BY <1>4, <3>3 DEF AInv, IInv, TypeOK
    <3>5. n \in 0..MaxUnits /\ LineQty[l] \in 1..MaxUnits
      <4>1. LineQty[l] \in 1..MaxUnits
        BY <1>4, LineFacts
      <4>2. PICK s \in Slots : s = <<LineSku[l], ExplicitLocation[o]>>
        BY <1>3, <1>4, LedgerAssumption DEF Slots
      <4>3. reservation' = [reservation EXCEPT ![l] =
              NewReservation(ExplicitLocation[o], LineQty[l],
                             Lesser(Reservable(inventory[s]), LineQty[l]))]
        BY <1>4, <3>1, <4>2 DEF ReserveInventory
      <4>4. reservation'[l].quantity_reserved = Lesser(Reservable(inventory[s]), LineQty[l])
        BY <1>4, <4>3 DEF AInv, IInv, TypeOK, NewReservation
      <4>5. n = Lesser(Reservable(inventory[s]), LineQty[l])
        BY <3>4, <4>4 DEF NewReservation
      <4>6. inventory[s] \in Inventory /\ MaxUnits \in Nat
        BY LedgerAssumption DEF AInv, IInv, TypeOK
      <4> QED BY <4>1, <4>5, <4>6 DEF Lesser, Reservable, AtLeast0, Inventory
    <3> QED BY <3>2, <3>3, <3>4, <3>5, NewRow
  <2>2. CASE reservation[l] # None
    <3>1. UNCHANGED ledgerVars
      BY <1>2, <2>2 DEF ReserveLine, OrderOf
    <3>2. IInv' /\ LinesGood' /\ RowsKept
      BY <3>1, QuietLedger
    <3> QED BY <1>4, <2>2, <3>2 DEF RowsKept
  <2> QED BY <2>1, <2>2
\* The outcome this line leaves is "still none" only if the line is full.
<1>6. PICK worst \in {None, "shortfall"} :
        /\ worst = None => outcome = None /\ Full(l)'
        /\ thread' = [thread EXCEPT ![c].tried = tried \cup {l}, ![c].outcome = worst]
  <2>1. PICK worst :
          /\ worst = IF reservation'[l].quantity_reserved < LineQty[l]
                     THEN "shortfall" ELSE outcome
          /\ thread' = [thread EXCEPT ![c].tried = tried \cup {l}, ![c].outcome = worst]
    BY <1>2 DEF ReserveLine
  <2>2. worst \in {None, "shortfall"}
    BY <1>3, <2>1
  <2>3. ASSUME worst = None PROVE outcome = None /\ Full(l)'
    <3>1. None # "shortfall"
      BY AllocationAssumption DEF Outcomes
    <3>2. outcome = None /\ ~ (reservation'[l].quantity_reserved < LineQty[l])
      BY <2>1, <2>3, <3>1
    <3>3. reservation'[l].quantity_reserved \in 0..MaxUnits
      BY <1>4, <1>5 DEF IInv, TypeOK, InventoryReservation
    <3>4. reservation'[l].quantity_reserved <= LineQty[l]
      BY <1>4, <1>5 DEF IInv, NeverSettledTwice, LinesGood, LineGood
    <3>5. LineQty[l] \in 1..MaxUnits /\ MaxUnits \in Nat
      BY <1>4, LineFacts, LedgerAssumption
    <3> QED BY <1>5, <3>2, <3>3, <3>4, <3>5 DEF Full
  <2> QED BY <2>1, <2>2, <2>3
<1>7. PICK r : r = [thread[c] EXCEPT !.tried = tried \cup {l}, !.outcome = worst]
  OBVIOUS
<1>8. EditOf(r, thread[c], thread[c].pc, tried \cup {l}, worst)
  <2>1. worst \in Outcomes \cup {None}
    BY DEF Outcomes
  <2> QED BY <1>1, <1>2, <1>4, <1>7, <2>1, TriedEdit
<1>9. thread' = [thread EXCEPT ![c] = r]
  BY <1>6, <1>7
<1>10. /\ CallTyped(r) /\ r.pc = "lines" /\ r.order = o
       /\ r.tried = tried \cup {l} /\ r.outcome = worst
  BY <1>2, <1>3, <1>8 DEF EditOf
<1>11. worst = None => \A k \in LinesOf(o) \cap (tried \cup {l}) : Full(k)'
  BY <1>3, <1>5, <1>6, FullKept, OrderLines
<1>12. ThreadGood(r)'
  <2>1. LinesOf(o)' = LinesOf(o) /\ None # "reserved"
    BY AllocationAssumption DEF LinesOf, Outcomes
  <2> QED BY <1>3, <1>10, <1>11, <2>1 DEF ThreadGood
<1> QED BY <1>3, <1>5, <1>9, <1>10, <1>12, CallMoves

-----------------------------------------------------------------------------
(* The theorems of the allocation.                                         *)

LEMMA AllocInitAInv == AllocInit => AInv
<1> SUFFICES ASSUME AllocInit PROVE AInv
  OBVIOUS
<1>1. IInv
  BY InitIInv DEF AllocInit
<1>2. \A l \in Lines : reservation[l] = None
  BY DEF AllocInit, Init
<1>3. \A c \in Threads : thread[c] = IdleThread
  BY DEF AllocInit
<1>4. Typed
  BY <1>3, IdleTyped DEF AllocInit, Typed
<1>5. \A o \in Orders : MarkerGood(o)
  BY AllocationAssumption DEF AllocInit, MarkerGood, Outcomes
<1> QED BY <1>1, <1>2, <1>3, <1>4, <1>5, IdleTyped DEF AInv, LinesGood, LineGood, Together

LEMMA AllocStepKeeps ==
  ASSUME AInv, NEW c \in Threads, AllocStep(c)
  PROVE  AInv'
<1>1. CASE \E w \in Locations : ReadCandidate(c, w)
  BY <1>1, ReadCandidateKeeps
<1>2. CASE \E w \in Locations :
        AttemptSucceeds(c, w) \/ AttemptConflicts(c, w) \/ AttemptInsufficient(c, w)
  BY <1>2, AttemptSucceedsKeeps, AttemptConflictsKeeps, AttemptInsufficientKeeps
<1> QED BY <1>1, <1>2, ReplayKeeps, RereadKeeps, ReserveLineKeeps, LinesDoneKeeps,
           CheckMarkerKeeps, PutMarkerKeeps DEF AllocStep

LEMMA AllocNextAInv == AInv /\ [AllocNext]_allocVars => AInv'
<1> SUFFICES ASSUME AInv, [AllocNext]_allocVars PROVE AInv'
  OBVIOUS
<1>1. ASSUME NEW c \in Threads, NEW o \in Orders, BeginAllocation(c, o) PROVE AInv'
  BY <1>1, BeginAllocationKeeps
<1>2. ASSUME NEW c \in Threads, AllocStep(c) PROVE AInv'
  BY <1>2, AllocStepKeeps
<1>3. ASSUME NEW c \in Threads, Abandon(c) PROVE AInv'
  BY <1>3, AbandonKeeps DEF Abandon
<1>4. CASE Environment
  BY <1>4, EnvironmentKeeps
<1>5. CASE UNCHANGED allocVars
  <2>1. UNCHANGED ledgerVars /\ UNCHANGED <<thread, marker>>
    BY <1>5 DEF allocVars, ledgerVars
  <2>2. IInv' /\ LinesGood' /\ RowsKept
    BY <2>1, QuietLedger
  <2>3. Typed'
    BY <2>1 DEF AInv, Typed, CallTyped
  <2> QED BY <2>1, <2>2, <2>3, ThreadKept, MarkerKept DEF AInv
<1> QED BY <1>1, <1>2, <1>3, <1>4, <1>5 DEF AllocNext

\* The inductive invariant holds in every reachable state.
THEOREM AllocationInvariant == AllocSpec => []AInv
BY AllocInitAInv, AllocNextAInv, PTL DEF AllocSpec

\* An order is never split over two locations, and automatic allocation shows
\* all of its lines reserved in full or none, whatever the calls and deaths.
THEOREM OrdersAreNeverSplit == AllocSpec => []NeverSplit
<1>1. ASSUME AInv PROVE NeverSplit
  <2>1. ASSUME NEW k \in Lines, NEW l \in Lines, LineOrder[k] = LineOrder[l],
               reservation[k] # None, reservation[l] # None
        PROVE  reservation[k].location = reservation[l].location
    BY <1>1, <2>1 DEF AInv, LinesGood, LineGood, Together
  <2>2. ASSUME NEW o \in Orders, ExplicitLocation[o] = None,
               NEW k \in LinesOf(o), reservation[k] # None, NEW l \in LinesOf(o)
        PROVE  reservation[l] # None /\ reservation[l].quantity_reserved = LineQty[l]
    <3>1. k \in Lines /\ l \in Lines /\ LineOrder[k] = o /\ LineOrder[l] = o
      BY <2>2, OrderLines
    <3> QED BY <1>1, <2>2, <3>1 DEF AInv, LinesGood, LineGood, Together
  <2> QED BY <2>1, <2>2 DEF NeverSplit
<1> QED BY <1>1, AllocationInvariant, PTL

\* A marker that says "reserved" is true: every line got its full quantity,
\* even when the call that wrote it was not the call that reserved.
THEOREM MarkersAreTrue == AllocSpec => []ReservedMarkerIsTrue
<1>1. ASSUME AInv PROVE ReservedMarkerIsTrue
  <2>1. \A c \in Threads : /\ thread[c].pc \in AllocPcs
                         /\ thread[c].order \in Orders \cup {None}
                         /\ thread[c].tried \in SUBSET (Locations \cup Lines)
                         /\ thread[c].outcome \in Outcomes \cup {None}
    BY <1>1, TypedCall DEF AInv, Typed
  <2>2. AllocationTypeOK
    BY <1>1, <2>1 DEF AInv, IInv, Typed, AllocationTypeOK, AllocPcs
  <2> QED BY <1>1, <2>2 DEF AInv, MarkerGood, AllFull, Full, ReservedMarkerIsTrue
<1> QED BY <1>1, AllocationInvariant, PTL

-----------------------------------------------------------------------------
(* The ledger without quarantine implements StockPool.                     *)

\* What the ledger's invariant says of a ledger without quarantine.
QInv == IInv /\ NoQuarantine

\* The claims of the pool are the rows, the promises of a slot the units its
\* rows still own.
LEMMA ClaimOfLine ==
  ASSUME TypeOK, NeverSettledTwice, NEW l \in Lines, reservation[l] # None
  PROVE  /\ PoolClaim[l] = [slot |-> SlotOf(l), held |-> Outstanding(l)]
         /\ PoolClaim[l] # None
         /\ PoolClaim[l].slot = SlotOf(l) /\ PoolClaim[l].held = Outstanding(l)
<1>1. SlotOf(l) \in Slots /\ Outstanding(l) \in 0..MaxUnits
  BY OutstandingIsHeld
<1>2. PoolClaim[l] = [slot |-> SlotOf(l), held |-> Outstanding(l)]
  BY DEF PoolClaim
<1>3. PoolClaim[l] \in PoolClaims
  BY <1>1, <1>2 DEF PoolClaims
<1> QED BY <1>2, <1>3, ClaimAssumption

LEMMA PromisedIsOutstanding ==
  ASSUME TypeOK, NeverSettledTwice, NEW s \in Slots
  PROVE  Pool!Promised(s) = Cardinality(OutstandingUnits(s))
<1>1. \A l \in Lines : PoolClaim[l] # None <=> reservation[l] # None
  BY ClaimOfLine DEF PoolClaim
<1>2. \A l \in Lines : reservation[l] # None =>
        /\ PoolClaim[l].slot = SlotOf(l)
        /\ Pool!Held(l) = Outstanding(l)
  BY ClaimOfLine DEF Pool!Held
<1>3. {u \in Lines \X (1..MaxUnits) :
         PoolClaim[u[1]] # None /\ PoolClaim[u[1]].slot = s /\ u[2] <= Pool!Held(u[1])}
        = OutstandingUnits(s)
  BY <1>1, <1>2 DEF OutstandingUnits, Units, LinesAt
<1> QED BY <1>3 DEF Pool!Promised, Pool!Cardinality, Cardinality

\* What a row is as a claim, and what the claims of every slot promise.
ClaimsAreRows ==
  \A l \in Lines :
    IF reservation[l] = None THEN PoolClaim[l] = None
    ELSE /\ PoolClaim[l] = [slot |-> SlotOf(l), held |-> Outstanding(l)]
         /\ PoolClaim[l] # None
PromisesAreHeld ==
  \A s \in Slots : Pool!Promised(s) = Cardinality(OutstandingUnits(s))
PoolMapped == ClaimsAreRows /\ PromisesAreHeld

LEMMA PoolIsMapped == IInv => PoolMapped
<1> SUFFICES ASSUME IInv PROVE PoolMapped
  OBVIOUS
<1>1. ASSUME NEW l \in Lines, reservation[l] = None PROVE PoolClaim[l] = None
  BY <1>1 DEF PoolClaim
<1> QED BY <1>1, ClaimOfLine, PromisedIsOutstanding
        DEF IInv, PoolMapped, ClaimsAreRows, PromisesAreHeld

\* New rows, each within what its slot has free, are granted claims.
LEMMA RowsAreGranted ==
  ASSUME IInv, IInv',
         NEW C \in SUBSET Lines, C # {},
         \A l \in C :
           /\ reservation[l] = None /\ reservation'[l] # None
           /\ Outstanding(l)' <= Reservable(inventory[SlotOf(l)']),
         \A l \in Lines \ C : reservation'[l] = reservation[l],
         \A s \in Slots : inventory'[s].quantity = inventory[s].quantity
  PROVE  Pool!Grant
<1>1. PoolMapped
  BY PoolIsMapped
<1>2. PoolMapped'
  BY PoolIsMapped, PTL
<1>3. PoolOnHand' = PoolOnHand
  BY DEF PoolOnHand
<1>4. ASSUME NEW l \in C PROVE PoolClaim[l] = None /\ PoolClaim'[l] # None
  BY <1>1, <1>2, <1>4 DEF PoolMapped, ClaimsAreRows
<1>5. ASSUME NEW l \in Lines \ C PROVE PoolClaim'[l] = PoolClaim[l]
  BY <1>5 DEF PoolClaim, SlotOf, Outstanding
<1>6. ASSUME NEW l \in C PROVE PoolClaim'[l].held <= Pool!Free(PoolClaim'[l].slot)
  <2>1. reservation'[l] # None /\ l \in Lines
    OBVIOUS
  <2>2. PoolClaim'[l] = [slot |-> SlotOf(l)', held |-> Outstanding(l)']
    BY <1>2, <2>1 DEF PoolMapped, ClaimsAreRows
  <2>3. PICK s \in Slots : s = SlotOf(l)'
    <3>1. TypeOK' /\ NeverSettledTwice'
      BY DEF IInv
    <3>2. reservation'[l].location \in Locations /\ LineSku[l] \in Skus
      BY <2>1, <3>1, LedgerAssumption DEF TypeOK, InventoryReservation
    <3> QED BY <3>2 DEF SlotOf, Slots
  <2>4. Pool!Promised(s) = inventory[s].reserved
    BY <1>1 DEF PoolMapped, PromisesAreHeld, IInv, SlotInv, RowInv
  <2>5. PoolOnHand[s] = inventory[s].quantity
    BY DEF PoolOnHand
  <2>6. Pool!Free(s) = Reservable(inventory[s])
    BY <2>4, <2>5 DEF Pool!Free, Pool!AtLeast0, Reservable, AtLeast0
  <2> QED BY <2>2, <2>3, <2>6
<1>7. C \in (SUBSET Lines) \ {{}}
  OBVIOUS
<1> QED BY <1>3, <1>4, <1>5, <1>6, <1>7 DEF Pool!Grant

LEMMA ReserveInventoryGrants ==
  ASSUME QInv, NEW l \in Lines, NEW w \in Locations, ReserveInventory(l, w)
  PROVE  Pool!Grant
<1>1. IInv /\ IInv'
  BY ReserveInventoryStep DEF QInv
<1>2. PICK n, slot :
        /\ n = Lesser(Reservable(inventory[slot]), LineQty[l])
        /\ slot = <<LineSku[l], w>>
        /\ reservation[l] = None
        /\ reservation' = [reservation EXCEPT ![l] = NewReservation(w, LineQty[l], n)]
        /\ inventory' = [inventory EXCEPT ![slot] = Reserved(inventory[slot], n)]
  BY DEF ReserveInventory
<1>3. slot \in Slots /\ inventory[slot] \in Inventory
      /\ DOMAIN inventory = Slots /\ DOMAIN reservation = Lines
      /\ LineQty[l] \in 1..MaxUnits /\ MaxUnits \in Nat
  BY <1>1, <1>2, LedgerAssumption DEF IInv, TypeOK, Slots
<1>4. n \in 0..MaxUnits /\ n \in Nat
  BY <1>2, <1>3 DEF Lesser, Reservable, AtLeast0, Inventory
<1>5. NewReservation(w, LineQty[l], n) # None
  BY <1>3, <1>4, NewRow
<1>6. /\ reservation'[l] # None
      /\ \A k \in Lines \ {l} : reservation'[k] = reservation[k]
  BY <1>2, <1>3, <1>5
<1>7. Reserved(inventory[slot], n).quantity = inventory[slot].quantity
  BY <1>3, <1>4, ReservedRow DEF RowIs
<1>8. \A s \in Slots : inventory'[s].quantity = inventory[s].quantity
  BY <1>2, <1>3, <1>7
<1>9. PICK C \in SUBSET Lines : C = {l}
  OBVIOUS
<1>10. reservation'[l] = NewReservation(w, LineQty[l], n)
  BY <1>2, <1>3
<1>11. SlotOf(l)' = slot /\ Outstanding(l)' = n
  BY <1>2, <1>4, <1>5, <1>10 DEF SlotOf, Outstanding, NewReservation
<1>12. n <= Reservable(inventory[slot])
  BY <1>2, <1>3 DEF Lesser, Reservable, AtLeast0, Inventory
<1>13. /\ C # {} /\ \A k \in C : /\ reservation[k] = None /\ reservation'[k] # None
                               /\ Outstanding(k)' <= Reservable(inventory[SlotOf(k)'])
       /\ \A k \in Lines \ C : reservation'[k] = reservation[k]
  BY <1>2, <1>6, <1>9, <1>11, <1>12
<1> QED BY <1>1, <1>8, <1>13, RowsAreGranted

LEMMA ReserveOrderLinesGrants ==
  ASSUME QInv, NEW o \in Orders, NEW w \in Locations, ReserveOrderLines(o, w)
  PROVE  Pool!Grant
<1>1. IInv /\ IInv' /\ NoQuarantine
  BY ReserveOrderLinesStep DEF QInv
<1>2. /\ LinesOf(o) # {} /\ LinesOf(o) \in SUBSET Lines
      /\ \A l \in LinesOf(o) : reservation[l] = None
      /\ reservation' = [l \in Lines |->
           IF l \in LinesOf(o) THEN NewReservation(w, LineQty[l], LineQty[l])
           ELSE reservation[l]]
      /\ inventory' = [s \in Slots |->
           IF s[2] = w THEN Reserved(inventory[s], OrderDemand(o, s[1]))
           ELSE inventory[s]]
  BY OrderLines DEF ReserveOrderLines, CanReserveOrder
<1>3. ASSUME NEW l \in LinesOf(o)
      PROVE  /\ reservation'[l] # None
             /\ Outstanding(l)' <= Reservable(inventory[SlotOf(l)'])
  <2>1. PICK n \in 1..MaxUnits : n = LineQty[l] /\ n \in 0..MaxUnits
    BY <1>2, LineFacts
  <2>2. reservation'[l] = NewReservation(w, n, n)
    BY <1>2, <2>1
  <2>3. reservation'[l] # None
    BY <2>1, <2>2, NewRow
  <2>4. PICK slot : slot = <<LineSku[l], w>>
    OBVIOUS
  <2>5. slot \in Slots /\ n \in Nat
    BY <1>2, <2>1, <2>4, LedgerAssumption DEF Slots
  <2>6. SlotOf(l)' = slot /\ Outstanding(l)' = n
    BY <2>2, <2>3, <2>4, <2>5 DEF SlotOf, Outstanding, NewReservation
  <2>7. Ats(inventory[slot]) >= n
    BY <2>1, <2>4 DEF ReserveOrderLines, CanReserveOrder
  <2>8. inventory[slot] \in Inventory /\ inventory[slot].sellable = None
    BY <1>1, <2>5 DEF IInv, TypeOK, NoQuarantine, Unquarantined
  <2>9. n <= Reservable(inventory[slot])
    BY <2>1, <2>5, <2>7, <2>8, LedgerAssumption
       DEF Ats, SellableBase, AtLeast0, Reservable, Inventory
  <2> QED BY <2>3, <2>6, <2>9
<1>4. ASSUME NEW s \in Slots PROVE inventory'[s].quantity = inventory[s].quantity
  <2>1. inventory[s] \in Inventory
    BY <1>1 DEF IInv, TypeOK
  <2>2. Reserved(inventory[s], OrderDemand(o, s[1])).quantity = inventory[s].quantity
    BY <2>1 DEF Reserved, Inventory
  <2> QED BY <1>2, <2>2
<1>5. \A l \in Lines \ LinesOf(o) : reservation'[l] = reservation[l]
  BY <1>2
<1> QED BY <1>1, <1>2, <1>3, <1>4, <1>5, RowsAreGranted

\* A row that settles n of its units, to the shelf or to a shipment.
LEMMA SettlingGivesUp ==
  ASSUME IInv, IInv', NEW l \in Lines, reservation[l] # None, reservation'[l] # None,
         SlotOf(l)' = SlotOf(l), NEW n \in 0..MaxUnits, n <= Outstanding(l),
         Outstanding(l)' = Outstanding(l) - n,
         \A k \in Lines \ {l} : reservation'[k] = reservation[k]
  PROVE  Pool!GiveUp(l, n)
<1>1. PoolMapped
  BY PoolIsMapped
<1>2. PoolMapped'
  BY PoolIsMapped, PTL
<1>3. /\ PoolClaim[l] = [slot |-> SlotOf(l), held |-> Outstanding(l)]
      /\ PoolClaim[l] # None
  BY <1>1 DEF PoolMapped, ClaimsAreRows
<1>4. PoolClaim'[l] = [slot |-> SlotOf(l), held |-> Outstanding(l) - n]
  BY <1>2 DEF PoolMapped, ClaimsAreRows
<1>5. ASSUME NEW k \in Lines \ {l} PROVE PoolClaim'[k] = PoolClaim[k]
  BY <1>5 DEF PoolClaim, SlotOf, Outstanding
<1>6. PoolClaim' = [PoolClaim EXCEPT ![l].held = PoolClaim[l].held - n]
  <2>1. PoolClaim = [k \in Lines |-> PoolClaim[k]] /\ DOMAIN PoolClaim = Lines
    BY DEF PoolClaim
  <2>2. PoolClaim' = [k \in Lines |-> PoolClaim'[k]] /\ DOMAIN PoolClaim' = Lines
    BY DEF PoolClaim
  <2>3. [PoolClaim[l] EXCEPT !.held = PoolClaim[l].held - n] = PoolClaim'[l]
    BY <1>3, <1>4
  <2> QED BY <1>5, <2>1, <2>2, <2>3
<1>7. n <= PoolClaim[l].held
  BY <1>3
<1> QED BY <1>3, <1>6, <1>7 DEF Pool!GiveUp

LEMMA ReleaseReturns ==
  ASSUME QInv, NEW l \in Lines, NEW amount \in Nat, ReleaseReservation(l, amount)
  PROVE  \E n \in 0..MaxUnits : Pool!Return(l, n)
<1>1. IInv /\ IInv'
  BY ReleaseReservationStep DEF QInv
<1>2. PICK n, slot :
        /\ n = Applied(l, amount) /\ slot = SlotOf(l) /\ reservation[l] # None
        /\ reservation' = [reservation EXCEPT
             ![l].quantity_released = reservation[l].quantity_released + n]
        /\ inventory' = [inventory EXCEPT ![slot] = GivenBack(inventory[slot], n)]
  BY DEF ReleaseReservation
<1>3. n \in 0..MaxUnits /\ n <= Outstanding(l) /\ slot \in Slots /\ MaxUnits \in Nat
  BY <1>1, <1>2, AppliedIsHeld, LedgerAssumption
<1>4. PICK released \in BOOLEAN : released = TRUE
  OBVIOUS
<1>5. reservation' = IF released
           THEN [reservation EXCEPT ![l].quantity_released = reservation[l].quantity_released + n]
           ELSE [reservation EXCEPT ![l].quantity_consumed = reservation[l].quantity_consumed + n]
  BY <1>2, <1>4
<1>6. /\ reservation'[l] # None /\ SlotOf(l)' = SlotOf(l)
      /\ \A k \in Lines \ {l} : reservation'[k] = reservation[k]
      /\ Outstanding(l)' = Outstanding(l) - n
  BY <1>1, <1>2, <1>3, <1>5, SettledReservation
<1>7. Pool!GiveUp(l, n)
  BY <1>1, <1>2, <1>3, <1>6, SettlingGivesUp
<1>8. inventory[slot] \in Inventory /\ DOMAIN inventory = Slots /\ n \in Nat
  BY <1>1, <1>3 DEF IInv, TypeOK
<1>9. GivenBack(inventory[slot], n).quantity = inventory[slot].quantity
  BY <1>8, GivenBackRow DEF RowIs
<1>10. PoolOnHand' = PoolOnHand
  BY <1>2, <1>8, <1>9 DEF PoolOnHand
<1> QED BY <1>3, <1>7, <1>10 DEF Pool!Return

LEMMA ConsumeShips ==
  ASSUME QInv, NEW l \in Lines, NEW amount \in Nat, ConsumeReservation(l, amount)
  PROVE  \E n \in 0..MaxUnits : Pool!Ship(l, n)
<1>1. IInv /\ IInv'
  BY ConsumeReservationStep DEF QInv
<1>2. PICK n, slot :
        /\ n = Applied(l, amount) /\ slot = SlotOf(l) /\ reservation[l] # None
        /\ reservation' = [reservation EXCEPT
             ![l].quantity_consumed = reservation[l].quantity_consumed + n]
        /\ inventory' = [inventory EXCEPT ![slot] = Shipped(inventory[slot], n)]
  BY DEF ConsumeReservation
<1>3. /\ n \in 0..MaxUnits /\ n <= Outstanding(l) /\ slot \in Slots /\ MaxUnits \in Nat
  BY <1>1, <1>2, AppliedIsHeld, LedgerAssumption
<1>4. PICK released \in BOOLEAN : released = FALSE
  OBVIOUS
<1>5. reservation' = IF released
           THEN [reservation EXCEPT ![l].quantity_released = reservation[l].quantity_released + n]
           ELSE [reservation EXCEPT ![l].quantity_consumed = reservation[l].quantity_consumed + n]
  BY <1>2, <1>4
<1>6. /\ reservation'[l] # None /\ SlotOf(l)' = SlotOf(l)
      /\ \A k \in Lines \ {l} : reservation'[k] = reservation[k]
      /\ Outstanding(l)' = Outstanding(l) - n
  BY <1>1, <1>2, <1>3, <1>5, SettledReservation
<1>7. Pool!GiveUp(l, n)
  BY <1>1, <1>2, <1>3, <1>6, SettlingGivesUp
<1>8. inventory[slot] \in Inventory /\ DOMAIN inventory = Slots /\ n \in Nat
  BY <1>1, <1>3 DEF IInv, TypeOK
<1>9. Shipped(inventory[slot], n).quantity = AtLeast0(inventory[slot].quantity - n)
  BY <1>8, ShippedRow DEF RowIs
<1>10. PoolClaim[l].slot = slot
  <2>1. PoolMapped
    BY <1>1, PoolIsMapped
  <2>2. PoolClaim[l] = [slot |-> SlotOf(l), held |-> Outstanding(l)]
    BY <1>2, <2>1 DEF PoolMapped, ClaimsAreRows
  <2>3. PoolClaim[l].slot = SlotOf(l)
    BY <2>2
  <2> QED BY <1>2, <2>3
<1>11. PoolOnHand' = [PoolOnHand EXCEPT ![slot] = Pool!AtLeast0(PoolOnHand[slot] - n)]
  BY <1>2, <1>3, <1>8, <1>9 DEF PoolOnHand, Pool!AtLeast0, AtLeast0
<1> QED BY <1>3, <1>7, <1>10, <1>11 DEF Pool!Ship

LEMMA AdjustReceives ==
  ASSUME QInv, NEW s \in Slots, NEW n \in 1..MaxUnits, AdjustInventory(s, n)
  PROVE  Pool!Receive(s, n)
<1>1. inventory[s] \in Inventory /\ DOMAIN inventory = Slots
  BY DEF QInv, IInv, TypeOK
<1>2. n \in Nat
  BY LedgerAssumption
<1>3. Received(inventory[s], n).quantity = inventory[s].quantity + n
  BY <1>1, <1>2, ReceivedRow DEF RowIs
<1>4. PoolOnHand' = [PoolOnHand EXCEPT ![s] = PoolOnHand[s] + n]
  BY <1>1, <1>3 DEF PoolOnHand, AdjustInventory
<1>5. PoolClaim' = PoolClaim
  BY DEF PoolClaim, AdjustInventory, SlotOf, Outstanding
<1> QED BY <1>4, <1>5 DEF Pool!Receive

\* A quarantine makes `sellable` a number.
LEMMA QuarantineMarks ==
  ASSUME QInv, NEW s \in Slots, NEW n \in Nat, Quarantine(s, n) \/ ReleaseQuarantine(s, n)
  PROVE  ~ NoQuarantine'
<1>1. inventory[s] \in Inventory /\ DOMAIN inventory = Slots /\ None \notin Nat
  BY LedgerAssumption DEF QInv, IInv, TypeOK
<1>2. SellableBase(inventory[s]) \in Nat
  BY <1>1 DEF SellableBase, AtLeast0, Inventory
<1>3. AtLeast0(SellableBase(inventory[s]) - n) \in Nat /\ SellableBase(inventory[s]) + n \in Nat
  BY <1>2 DEF AtLeast0
<1>4. PICK sellable, quarantine :
        sellable \in Nat /\
        inventory' = [inventory EXCEPT ![s] = Quarantined(inventory[s], sellable, quarantine)]
  BY <1>3 DEF Quarantine, ReleaseQuarantine
<1>5. inventory'[s].sellable = sellable
  BY <1>1, <1>4 DEF Quarantined, Inventory
<1> QED BY <1>1, <1>4, <1>5 DEF NoQuarantine, Unquarantined

\* Every step of the ledger is a step of the pool, or none.
LEMMA LedgerStepIsPoolStep ==
  QInv /\ [Next /\ NoQuarantine']_vars
    => [Pool!Next]_<<PoolOnHand, PoolClaim>>
<1> SUFFICES ASSUME QInv, [Next /\ NoQuarantine']_vars
             PROVE  [Pool!Next]_<<PoolOnHand, PoolClaim>>
  OBVIOUS
<1>0. \A n \in 1..MaxUnits : n \in Nat
  BY LedgerAssumption
<1>1. CASE UNCHANGED vars
  <2>1. PoolOnHand' = PoolOnHand /\ PoolClaim' = PoolClaim
    BY <1>1 DEF vars, PoolOnHand, PoolClaim, SlotOf, Outstanding
  <2> QED BY <2>1
<1>2. ASSUME Next, NoQuarantine' PROVE Pool!Next
  <2>1. ASSUME NEW l \in Lines, NEW w \in Locations, ReserveInventory(l, w) PROVE Pool!Next
    BY <1>2, <2>1, ReserveInventoryGrants DEF Pool!Next
  <2>2. ASSUME NEW o \in Orders, NEW w \in Locations, ReserveOrderLines(o, w) PROVE Pool!Next
    BY <1>2, <2>2, ReserveOrderLinesGrants DEF Pool!Next
  <2>3. ASSUME NEW l \in Lines, NEW n \in 1..MaxUnits, ReleaseReservation(l, n) PROVE Pool!Next
    BY <1>0, <2>3, ReleaseReturns DEF Pool!Next
  <2>4. ASSUME NEW l \in Lines, NEW n \in 1..MaxUnits, ConsumeReservation(l, n) PROVE Pool!Next
    BY <1>0, <2>4, ConsumeShips DEF Pool!Next
  <2>5. ASSUME NEW s \in Slots, NEW n \in 1..MaxUnits,
               Quarantine(s, n) \/ ReleaseQuarantine(s, n)
        PROVE  FALSE
    BY <1>0, <1>2, <2>5, QuarantineMarks
  <2>6. ASSUME NEW s \in Slots, NEW n \in 1..MaxUnits, AdjustInventory(s, n) PROVE Pool!Next
    BY <2>6, AdjustReceives DEF Pool!Next
  <2> QED BY <1>2, <2>1, <2>2, <2>3, <2>4, <2>5, <2>6 DEF Next
<1> QED BY <1>1, <1>2

LEMMA LedgerInitIsPoolInit == Init => QInv /\ Pool!Init
<1> SUFFICES ASSUME Init PROVE QInv /\ Pool!Init
  OBVIOUS
<1>1. IInv
  BY InitIInv
<1>2. NoQuarantine
  BY DEF Init, NoQuarantine, Unquarantined
<1>3. PoolOnHand = InitialStock
  BY LedgerAssumption DEF Init, PoolOnHand
<1>4. PoolClaim = [l \in Lines |-> None]
  BY DEF Init, PoolClaim
<1> QED BY <1>1, <1>2, <1>3, <1>4 DEF QInv, Pool!Init

\* The ledger of a merchant that never quarantines implements StockPool, for
\* every order, also one that names a SKU in several lines: each reservation is
\* granted out of units no earlier one owns, and every unit it owned is
\* returned or shipped, once.
THEOREM LedgerImplementsPool == NoQuarantineSpec => ImplementsStockPool
<1>1. QInv /\ [Next /\ NoQuarantine']_vars => QInv'
  <2> SUFFICES ASSUME QInv, [Next /\ NoQuarantine']_vars PROVE QInv'
    OBVIOUS
  <2>1. IInv'
    BY NextIInv DEF QInv
  <2>2. NoQuarantine'
    BY DEF QInv, NoQuarantine, Unquarantined, vars
  <2> QED BY <2>1, <2>2 DEF QInv
<1>2. NoQuarantineSpec => Init /\ [][Next /\ NoQuarantine']_vars
  BY DEF NoQuarantineSpec
<1>3. QInv /\ [Next /\ NoQuarantine']_vars => [Pool!Next]_<<PoolOnHand, PoolClaim>>
  BY LedgerStepIsPoolStep
<1>4. Init /\ [][Next /\ NoQuarantine']_vars
        => Pool!Init /\ [][Pool!Next]_<<PoolOnHand, PoolClaim>>
  BY <1>1, <1>3, LedgerInitIsPoolInit, PTL
<1>5. Pool!Init /\ [][Pool!Next]_<<PoolOnHand, PoolClaim>> => ImplementsStockPool
  BY DEF ImplementsStockPool, Pool!Spec
<1> QED BY <1>2, <1>4, <1>5

-----------------------------------------------------------------------------
(* Allocation runs the ledger, so it implements StockPool too.             *)

\* A row rewritten by an operation of an allocation stays unquarantined.
LEMMA RowsStayOpen ==
  ASSUME IInv, NoQuarantine,
         \/ \E l \in Lines, w \in Locations : ReserveInventory(l, w)
         \/ \E o \in Orders, w \in Locations : ReserveOrderLines(o, w)
         \/ \E l \in Lines, n \in Nat : ReleaseReservation(l, n)
         \/ \E l \in Lines, n \in Nat : ConsumeReservation(l, n)
         \/ \E s \in Slots, n \in Nat : AdjustInventory(s, n)
  PROVE  NoQuarantine'
<1>1. /\ \A s \in Slots : inventory[s] \in Inventory /\ inventory[s].sellable = None
      /\ DOMAIN inventory = Slots
  BY DEF IInv, TypeOK, NoQuarantine, Unquarantined
<1>2. ASSUME NEW s \in Slots, NEW n
      PROVE  /\ Reserved(inventory[s], n).sellable = None
             /\ GivenBack(inventory[s], n).sellable = None
             /\ Shipped(inventory[s], n).sellable = None
             /\ Received(inventory[s], n).sellable = None
  <2>1. inventory[s] \in Inventory /\ inventory[s].sellable = None
    BY <1>1
  <2>2. Reserved(inventory[s], n).sellable = None
    BY <2>1 DEF Reserved, Inventory
  <2>3. GivenBack(inventory[s], n).sellable = None
    BY <2>1 DEF GivenBack, Inventory
  <2>4. Shipped(inventory[s], n).sellable = None
    BY <2>1 DEF Shipped, Inventory
  <2>5. Received(inventory[s], n).sellable = None
    BY <2>1 DEF Received, Inventory
  <2> QED BY <2>2, <2>3, <2>4, <2>5
<1>3. ASSUME NEW slot, NEW n,
             \/ inventory' = [inventory EXCEPT ![slot] = Reserved(inventory[slot], n)]
             \/ inventory' = [inventory EXCEPT ![slot] = GivenBack(inventory[slot], n)]
             \/ inventory' = [inventory EXCEPT ![slot] = Shipped(inventory[slot], n)]
             \/ inventory' = [inventory EXCEPT ![slot] = Received(inventory[slot], n)]
      PROVE  NoQuarantine'
  BY <1>1, <1>2, <1>3 DEF NoQuarantine, Unquarantined
<1>4. ASSUME NEW l \in Lines, NEW w \in Locations, ReserveInventory(l, w) PROVE NoQuarantine'
  <2>1. PICK slot, n :
          inventory' = [inventory EXCEPT ![slot] = Reserved(inventory[slot], n)]
    BY <1>4 DEF ReserveInventory
  <2> QED BY <1>3, <2>1
<1>5. ASSUME NEW o \in Orders, NEW w \in Locations, ReserveOrderLines(o, w) PROVE NoQuarantine'
  <2>1. inventory' = [s \in Slots |->
          IF s[2] = w THEN Reserved(inventory[s], OrderDemand(o, s[1]))
          ELSE inventory[s]]
    BY <1>5 DEF ReserveOrderLines
  <2> QED BY <1>1, <1>2, <2>1 DEF NoQuarantine, Unquarantined
<1>6. ASSUME NEW l \in Lines, NEW m \in Nat, ReleaseReservation(l, m) PROVE NoQuarantine'
  <2>1. PICK slot, n :
          inventory' = [inventory EXCEPT ![slot] = GivenBack(inventory[slot], n)]
    BY <1>6 DEF ReleaseReservation
  <2> QED BY <1>3, <2>1
<1>7. ASSUME NEW l \in Lines, NEW m \in Nat, ConsumeReservation(l, m) PROVE NoQuarantine'
  <2>1. PICK slot, n :
          inventory' = [inventory EXCEPT ![slot] = Shipped(inventory[slot], n)]
    BY <1>7 DEF ConsumeReservation
  <2> QED BY <1>3, <2>1
<1>8. ASSUME NEW s \in Slots, NEW n \in Nat, AdjustInventory(s, n) PROVE NoQuarantine'
  <2>1. inventory' = [inventory EXCEPT ![s] = Received(inventory[s], n)]
    BY <1>8 DEF AdjustInventory
  <2> QED BY <1>3, <2>1
<1> QED BY <1>4, <1>5, <1>6, <1>7, <1>8

\* What a step of allocation does to the ledger.
LedgerStep == [Next /\ NoQuarantine']_vars

LEMMA QuietIsLedgerStep ==
  ASSUME UNCHANGED ledgerVars
  PROVE  LedgerStep
BY DEF LedgerStep, ledgerVars, vars

LEMMA EnvironmentIsLedgerStep ==
  ASSUME AInv, NoQuarantine, Environment
  PROVE  LedgerStep
<1>1. MaxUnits \in Nat /\ MaxUnits \in 1..MaxUnits /\ 1 \in 1..MaxUnits
      /\ InflowSlots \subseteq Slots /\ IInv
  BY LedgerAssumption, AllocationAssumption DEF AInv
<1>2. CASE \E l \in Lines : ReleaseReservation(l, MaxUnits)
  <2>1. NoQuarantine'
    BY <1>1, <1>2, RowsStayOpen
  <2> QED BY <1>1, <1>2, <2>1 DEF LedgerStep, Next
<1>3. CASE \E l \in Lines : ConsumeReservation(l, MaxUnits)
  <2>1. NoQuarantine'
    BY <1>1, <1>3, RowsStayOpen
  <2> QED BY <1>1, <1>3, <2>1 DEF LedgerStep, Next
<1>4. CASE \E s \in InflowSlots : AdjustInventory(s, 1)
  <2>1. PICK s \in Slots : AdjustInventory(s, 1)
    BY <1>1, <1>4
  <2>2. NoQuarantine'
    BY <1>1, <2>1, RowsStayOpen
  <2> QED BY <1>1, <2>1, <2>2 DEF LedgerStep, Next
<1> QED BY <1>2, <1>3, <1>4 DEF Environment

LEMMA AttemptIsLedgerStep ==
  ASSUME AInv, NoQuarantine, NEW c \in Threads, NEW w \in Locations, AttemptSucceeds(c, w)
  PROVE  LedgerStep
<1>1. thread[c].order \in Orders
  BY CallOf DEF ThreadGood, AttemptSucceeds
<1>2. PICK o \in Orders : ReserveOrderLines(o, w)
  BY <1>1 DEF AttemptSucceeds, OrderOf
<1>3. NoQuarantine'
  BY <1>2, RowsStayOpen DEF AInv
<1> QED BY <1>2, <1>3 DEF LedgerStep, Next

LEMMA ReserveLineIsLedgerStep ==
  ASSUME AInv, NoQuarantine, NEW c \in Threads, ReserveLine(c)
  PROVE  LedgerStep
<1>1. CASE UNCHANGED ledgerVars
  BY <1>1, QuietIsLedgerStep
<1>2. CASE ReserveInventory(NextLine(c), ExplicitLocation[OrderOf(c)])
  <2>1. thread[c].pc = "lines" /\ LinesOf(OrderOf(c)) \ thread[c].tried # {}
    BY DEF ReserveLine
  <2>2. ExplicitLocation[OrderOf(c)] \in Locations
    BY <2>1, CallOf DEF ThreadGood, OrderOf
  <2>3. NextLine(c) \in Lines
    BY <2>1 DEF NextLine, LinesOf
  <2>4. PICK l \in Lines, w \in Locations : ReserveInventory(l, w)
    BY <1>2, <2>2, <2>3
  <2>5. NoQuarantine'
    BY <2>4, RowsStayOpen DEF AInv
  <2> QED BY <2>4, <2>5 DEF LedgerStep, Next
<1> QED BY <1>1, <1>2 DEF ReserveLine

LEMMA AllocStepIsLedgerStep ==
  AInv /\ NoQuarantine /\ [AllocNext]_allocVars => LedgerStep
<1> SUFFICES ASSUME AInv, NoQuarantine, [AllocNext]_allocVars PROVE LedgerStep
  OBVIOUS
<1>1. ASSUME NEW c \in Threads, NEW o \in Orders, BeginAllocation(c, o) PROVE LedgerStep
  BY <1>1, QuietIsLedgerStep DEF BeginAllocation
<1>2. ASSUME NEW c \in Threads, AllocStep(c) PROVE LedgerStep
  <2>1. ASSUME NEW w \in Locations, ReadCandidate(c, w) PROVE UNCHANGED ledgerVars
    BY <2>1 DEF ReadCandidate
  <2>2. ASSUME NEW w \in Locations, AttemptConflicts(c, w) \/ AttemptInsufficient(c, w)
        PROVE  UNCHANGED ledgerVars
    BY <2>2 DEF AttemptConflicts, AttemptInsufficient
  <2>3. ASSUME Replay(c) \/ Reread(c) \/ LinesDone(c) \/ CheckMarker(c) \/ PutMarker(c)
        PROVE  UNCHANGED ledgerVars
    BY <2>3 DEF Replay, Reread, LinesDone, CheckMarker, PutMarker
  <2> QED BY <1>2, <2>1, <2>2, <2>3, QuietIsLedgerStep, AttemptIsLedgerStep,
             ReserveLineIsLedgerStep DEF AllocStep
<1>3. ASSUME NEW c \in Threads, Abandon(c) PROVE LedgerStep
  BY <1>3, QuietIsLedgerStep DEF Abandon
<1>4. CASE Environment
  BY <1>4, EnvironmentIsLedgerStep
<1>5. CASE UNCHANGED allocVars
  BY <1>5, QuietIsLedgerStep DEF allocVars, ledgerVars
<1> QED BY <1>1, <1>2, <1>3, <1>4, <1>5 DEF AllocNext

\* Every run of the allocator, whatever its conflicts and deaths, is a run of
\* the ledger that never quarantines.
THEOREM AllocationRunsTheLedger == AllocSpec => NoQuarantineSpec
<1>1. AllocInit => Init /\ NoQuarantine
  BY DEF AllocInit, Init, NoQuarantine, Unquarantined
<1>2. AInv /\ NoQuarantine /\ [AllocNext]_allocVars => NoQuarantine' /\ [Next /\ NoQuarantine']_vars
  <2> SUFFICES ASSUME AInv, NoQuarantine, [AllocNext]_allocVars
               PROVE  NoQuarantine' /\ [Next /\ NoQuarantine']_vars
    OBVIOUS
  <2>1. [Next /\ NoQuarantine']_vars
    BY AllocStepIsLedgerStep DEF LedgerStep
  <2> QED BY <2>1 DEF NoQuarantine, Unquarantined, vars
<1> QED BY <1>1, <1>2, AllocationInvariant, PTL DEF AllocSpec, NoQuarantineSpec

\* The allocator implements StockPool, whatever lines its orders have: calls
\* that compete or die never reserve a unit an earlier reservation owns.
THEOREM AllocationImplementsPool == AllocSpec => ImplementsStockPool
<1>1. NoQuarantineSpec => ImplementsStockPool
  BY LedgerImplementsPool
<1> QED BY <1>1, AllocationRunsTheLedger, PTL

-----------------------------------------------------------------------------
(* The orders after their allocation: the inductive invariant.             *)

Cancelling == {"approve", "reject", "read", "stale", "claim", "shipment", "mutate",
               "complete", "readback", "succeeded", "not_applied", "unknown", "put_order"}
Resolving == {"readback", "succeeded", "not_applied", "unknown"}
Restocking == {"restock", "adjust", "mark"}
Settling == {"consume", "release"}
HoldingOrder == {"fulfil", "quantities", "storefront", "put_fulfilled",
                 "create_cancellation", "stale", "claim", "shipment", "mutate",
                 "complete", "put_order"} \cup Resolving
Exchanging == {"read_stock", "reserve", "create_exchange"}
Pcs == Cancelling \cup Restocking \cup Settling \cup HoldingOrder \cup Exchanging
         \cup {"idle", "list", "create_return", "put_exchange"}

CallRows ==
  [pc : Pcs, id : Nat \cup {None}, held : OrderRows \cup {None},
   source : {TheOrder, TheExchange}, result : ExchangeStatuses \cup {None},
   todo : SUBSET Lines, next : {None, "restock"} \cup Settling,
   flow : Flows \cup {None}, inline : BOOLEAN]

\* What a reservation still owns, of the row alone; once something was consumed
\* nothing is left.
Left(row) == row.quantity_reserved - row.quantity_released - row.quantity_consumed
RowGood(row) ==
  /\ row \in InventoryReservation
  /\ Left(row) >= 0
  /\ row.quantity_consumed > 0 => Left(row) = 0

\* The lines a call is settling are reserved, and those it restocks were shipped.
TodoGood(r, rsv) ==
  /\ r.todo # {} /\ r.todo \subseteq LinesOf(r.source)
  /\ \A l \in r.todo : rsv[l] # None
  /\ r.pc \in Restocking => \A l \in r.todo : rsv[l].quantity_consumed > 0

\* A call that ends an exchange has settled its unit before it puts the row.
EndingGood(r, rsv, ex) ==
  /\ r.id \in DOMAIN ex
  /\ r.result \in ExchangeStatuses \ {"reserved"}
  /\ r.pc = "put_exchange" /\ ex[r.id] = "reserved" =>
       rsv[Replacement] # None /\ Left(rsv[Replacement]) = 0

CallGood(r, rsv, ex) ==
  /\ r \in CallRows
  /\ r.pc \in Cancelling => r.id \in CancellationIds /\ r.source = TheOrder /\ r.next = None
  /\ r.pc \in HoldingOrder => r.held \in OrderRows
  /\ r.pc \in Settling \cup Restocking => TodoGood(r, rsv)
  /\ r.pc = "list" => r.next # None
  /\ r.pc \in Settling => r.next = r.pc
  /\ r.pc \in Restocking => r.next = "restock"
  /\ r.next # None => r.pc \in Settling \cup Restocking \cup {"list", "put_exchange"}
  /\ r.next = "restock" => r.source = TheOrder /\ r.flow \in Flows
  /\ r.source = TheOrder => r.pc \notin Exchanging \cup {"put_exchange"}
  /\ r.source = TheOrder /\ r.next = "release" => r.id \in CancellationIds
  /\ r.source = TheExchange =>
       /\ r.pc \in Exchanging \cup Settling \cup {"list", "put_exchange"}
       /\ r.pc \notin Exchanging => EndingGood(r, rsv, ex)
  /\ r.pc = "create_exchange" =>
       r.result \in ExchangeStatuses /\ (r.result = "reserved" => rsv[Replacement] # None)

\* `Executing`, of the call's fields.
Executes(r, k) ==
  /\ r.id = k
  /\ \/ r.pc \in {"shipment", "mutate", "complete", "put_order"}
     \/ r.next = "release" /\ r.source = TheOrder
     \/ r.inline /\ r.pc \in Resolving

OneExecutor ==
  \A k \in CancellationIds, c \in Calls : Executes(call[c], k) =>
    /\ cancellation[k] = "completed"
    /\ \A d \in Calls : Executes(call[d], k) => d = c

\* The cancellation stock was released for has nothing left to go wrong.
Released(rsv) ==
  \E l \in LinesOf(TheOrder) : rsv[l] # None /\ rsv[l].quantity_released > 0
ReleaseIsFinal ==
  Released(reservation) =>
    \E k \in CancellationIds :
      /\ cancellation[k] = "completed"
      /\ \A c \in Calls : Executes(call[c], k) => call[c].next = "release"

\* The rows of the cancellations are put one after the other.
Sequenced == \E n \in 0..MaxCancellations : CancellationRows = 1..n

\* The flows that have added the units of a line to the stock: those with a marker,
\* and those of the calls that are about to put theirs.
Picked(r) == CHOOSE l \in r.todo : TRUE
MarkedBy(marks, cs, l) ==
  {f \in Flows : \/ <<f, l>> \in marks
                 \/ \E c \in Calls : cs[c].pc = "mark" /\ cs[c].flow = f /\ Picked(cs[c]) = l}
LineRestocked(marks, cs, row, l, added) ==
  Cardinality(MarkedBy(marks, cs, l)) * row.quantity_consumed
    <= added[<<LineSku[l], row.location>>]
StockAdded ==
  /\ \A f \in Flows, l \in Lines : <<f, l>> \in restocked =>
       reservation[l] # None /\ reservation[l].quantity_consumed > 0
  /\ \A l \in Lines : reservation[l] # None =>
       LineRestocked(restocked, call, reservation[l], l, inflow)

Returning(rs, cs) ==
  Cardinality(rs) + Cardinality({c \in Calls : cs[c].pc = "create_return"}) <= MaxReturns

RowsGood ==
  /\ LifecycleTypeOK
  /\ \A l \in Lines : reservation[l] # None => RowGood(reservation[l])
  /\ \A k \in DOMAIN exchange : exchange[k] = "reserved" => reservation[Replacement] # None
CallsGood ==
  /\ call \in [Calls -> CallRows]
  /\ \A c \in Calls : CallGood(call[c], reservation, exchange)

LInv ==
  /\ RowsGood /\ CallsGood
  /\ OneExecutor /\ ReleaseIsFinal /\ Sequenced
  /\ StockAdded /\ Returning(returns, call)

-----------------------------------------------------------------------------
(* What stays as it is.                                                    *)

LEMMA Basics ==
  /\ TheOrder # TheExchange
  /\ Replacement \in LinesOf(TheExchange) /\ Replacement \notin LinesOf(TheOrder)
  /\ \A l \in LinesOf(TheExchange) : l = Replacement
  /\ CancellationIds \subseteq Nat /\ RTO \in Flows /\ Flows \subseteq Nat
  /\ None \notin Nat /\ None \notin CancellationStatuses
  /\ None \notin Settling \cup {"restock"}
BY LifecycleAssumption, LedgerAssumption
DEF TheExchange, LinesOf, CancellationIds, ReturnIds, Flows, RTO, Settling

LEMMA FlowsFinite == IsFiniteSet(Flows)
<1>1. IsFiniteSet(1..MaxReturns)
  BY LifecycleAssumption, FS_Interval
<1>2. IsFiniteSet({RTO})
  BY FS_Singleton
<1> QED BY <1>1, <1>2, FS_Union DEF Flows, ReturnIds

\* What a step may do to the reservations and to the exchanges.
Grows(rsv, rsv2) ==
  \A l \in Lines : rsv[l] # None =>
    /\ rsv2[l] # None /\ rsv2[l].location = rsv[l].location
    /\ rsv[l].quantity_consumed > 0 =>
         rsv2[l].quantity_consumed = rsv[l].quantity_consumed
    /\ Left(rsv[l]) = 0 => Left(rsv2[l]) = 0
ExchangesGrow(ex, ex2) ==
  \A k \in DOMAIN ex :
    k \in DOMAIN ex2 /\ (ex2[k] = "reserved" => ex[k] = "reserved")

LEMMA SameGrows ==
  ASSUME NEW rsv, NEW ex
  PROVE  Grows(rsv, rsv) /\ ExchangesGrow(ex, ex)
BY DEF Grows, ExchangesGrow

LEMMA CallKept ==
  ASSUME NEW r, NEW rsv, NEW rsv2, NEW ex, NEW ex2,
         CallGood(r, rsv, ex), Grows(rsv, rsv2), ExchangesGrow(ex, ex2)
  PROVE  CallGood(r, rsv2, ex2)
<1>1. Replacement \in Lines
  BY LifecycleAssumption
<1>2. TodoGood(r, rsv) => TodoGood(r, rsv2)
  BY DEF TodoGood, Grows, LinesOf
<1>3. EndingGood(r, rsv, ex) => EndingGood(r, rsv2, ex2)
  BY <1>1 DEF EndingGood, Grows, ExchangesGrow
<1>4. rsv[Replacement] # None => rsv2[Replacement] # None
  BY <1>1 DEF Grows
<1> QED BY <1>2, <1>3, <1>4 DEF CallGood

LEMMA OnlyCall ==
  ASSUME CallsGood, NEW c \in Calls, NEW r, call' = [call EXCEPT ![c] = r]
  PROVE  call'[c] = r /\ \A d \in Calls \ {c} : call'[d] = call[d]
BY DEF CallsGood

LEMMA CallsKept ==
  ASSUME CallsGood, NEW c \in Calls, NEW r, call' = [call EXCEPT ![c] = r],
         Grows(reservation, reservation'), ExchangesGrow(exchange, exchange'),
         CallGood(r, reservation', exchange')
  PROVE  CallsGood'
<1>1. r \in CallRows
  BY DEF CallGood
<1>2. call' \in [Calls -> CallRows]
  BY <1>1 DEF CallsGood
<1>3. ASSUME NEW d \in Calls
      PROVE  CallGood(call'[d], reservation', exchange')
  <2>1. CASE d = c
    BY <2>1, OnlyCall
  <2>2. CASE d # c
    <3>1. call'[d] = call[d]
      BY <2>2, OnlyCall
    <3>2. CallGood(call[d], reservation, exchange)
      BY DEF CallsGood
    <3>3. CallGood(call[d], reservation', exchange')
      BY <3>2, CallKept
    <3> QED BY <3>1, <3>3
  <2> QED BY <2>1, <2>2
<1> QED BY <1>2, <1>3 DEF CallsGood

LEMMA TodosPicked ==
  ASSUME NEW r, r.todo # {}
  PROVE  Picked(r) \in r.todo
BY DEF Picked

LEMMA MarkedConsumed ==
  ASSUME CallsGood, StockAdded, NEW l \in Lines, NEW f \in MarkedBy(restocked, call, l)
  PROVE  reservation[l] # None /\ reservation[l].quantity_consumed > 0
<1>1. f \in Flows
  BY DEF MarkedBy
<1>2. CASE <<f, l>> \in restocked
  BY <1>1, <1>2 DEF StockAdded
<1>3. CASE \E c \in Calls : call[c].pc = "mark" /\ Picked(call[c]) = l
  <2>1. PICK c \in Calls : call[c].pc = "mark" /\ Picked(call[c]) = l
    BY <1>3
  <2>2. TodoGood(call[c], reservation)
    BY <2>1 DEF CallsGood, CallGood, Restocking
  <2>3. l \in call[c].todo
    BY <2>1, <2>2, TodosPicked DEF TodoGood
  <2> QED BY <2>1, <2>2, <2>3 DEF TodoGood, Restocking
<1> QED BY <1>2, <1>3 DEF MarkedBy

LEMMA MarkedFinite ==
  ASSUME NEW marks, NEW cs, NEW l
  PROVE  /\ IsFiniteSet(MarkedBy(marks, cs, l))
         /\ Cardinality(MarkedBy(marks, cs, l)) \in Nat
<1>1. MarkedBy(marks, cs, l) \subseteq Flows
  BY DEF MarkedBy
<1>2. IsFiniteSet(MarkedBy(marks, cs, l))
  BY <1>1, FlowsFinite, FS_Subset
<1> QED BY <1>2, FS_CardinalityType

LEMMA Multiplied ==
  ASSUME NEW m \in Nat, NEW n \in Nat, NEW k \in Nat, m <= n
  PROVE  m * k <= n * k
OBVIOUS

LEMMA StockKept ==
  ASSUME RowsGood, RowsGood', CallsGood, StockAdded,
         Grows(reservation, reservation'),
         \A l \in Lines : reservation[l] = None /\ reservation'[l] # None =>
           reservation'[l].quantity_consumed = 0,
         \A s \in Slots : inflow[s] <= inflow'[s],
         \A l \in Lines : MarkedBy(restocked', call', l) \subseteq MarkedBy(restocked, call, l)
  PROVE  StockAdded'
<1>1. ASSUME NEW f \in Flows, NEW l \in Lines, <<f, l>> \in restocked'
      PROVE  reservation'[l] # None /\ reservation'[l].quantity_consumed > 0
  <2>1. f \in MarkedBy(restocked', call', l)
    BY <1>1 DEF MarkedBy
  <2>2. f \in MarkedBy(restocked, call, l)
    BY <2>1
  <2>3. reservation[l] # None /\ reservation[l].quantity_consumed > 0
    BY <2>2, MarkedConsumed
  <2> QED BY <2>3 DEF Grows
<1>2. ASSUME NEW l \in Lines, reservation'[l] # None
      PROVE  LineRestocked(restocked', call', reservation'[l], l, inflow')
  <2> DEFINE M == MarkedBy(restocked, call, l)
             M2 == MarkedBy(restocked', call', l)
             row == reservation[l]
             row2 == reservation'[l]
             s == <<LineSku[l], row2.location>>
  <2>1. IsFiniteSet(M) /\ Cardinality(M) \in Nat /\ Cardinality(M2) \in Nat
    BY MarkedFinite
  <2>2. M2 \subseteq M
    OBVIOUS
  <2>3. Cardinality(M2) <= Cardinality(M)
    BY <2>1, <2>2, FS_Subset
  <2>4. RowGood(row2) /\ s \in Slots /\ inflow'[s] \in Nat /\ inflow[s] \in Nat
    <3>1. row2 \in InventoryReservation
      BY <1>2 DEF RowsGood, RowGood
    <3>2. s \in Slots
      BY <3>1, LedgerAssumption DEF InventoryReservation, Slots
    <3> QED BY <1>2, <3>2 DEF RowsGood, LifecycleTypeOK, TypeOK
  <2>5. row2.quantity_consumed \in Nat
    BY <2>4, LedgerAssumption DEF RowGood, InventoryReservation
  <2>6. CASE M = {}
    <3>1. Cardinality(M2) = 0
      BY <2>6, <2>2, FS_EmptySet
    <3>2. 0 * row2.quantity_consumed = 0
      BY <2>5
    <3> QED BY <3>1, <3>2, <2>4 DEF LineRestocked
  <2>7. CASE M # {}
    <3>1. row # None /\ row.quantity_consumed > 0
      BY <2>7, MarkedConsumed
    <3>2. row2.quantity_consumed = row.quantity_consumed /\ row2.location = row.location
      BY <3>1 DEF Grows
    <3>3. Cardinality(M) * row2.quantity_consumed <= inflow[s]
      BY <3>1, <3>2 DEF StockAdded, LineRestocked
    <3>4. Cardinality(M2) * row2.quantity_consumed <= Cardinality(M) * row2.quantity_consumed
      BY <2>1, <2>3, <2>5, Multiplied
    <3>5. inflow[s] <= inflow'[s]
      BY <2>4
    <3>6. /\ Cardinality(M2) * row2.quantity_consumed \in Nat
          /\ Cardinality(M) * row2.quantity_consumed \in Nat
      BY <2>1, <2>5
    <3>7. Cardinality(M2) * row2.quantity_consumed <= inflow'[s]
      <4> HIDE DEF M, M2, row2, s
      <4> QED BY <3>3, <3>4, <3>5, <3>6, <2>4
    <3> QED BY <3>7 DEF LineRestocked
  <2> QED BY <2>6, <2>7
<1> QED BY <1>1, <1>2 DEF StockAdded

LEMMA ExecutorKept ==
  ASSUME CallsGood, OneExecutor, NEW c \in Calls, NEW r, call' = [call EXCEPT ![c] = r],
         \A k \in CancellationIds : Executes(r, k) => Executes(call[c], k),
         \A k \in CancellationIds : cancellation[k] = "completed" =>
           cancellation'[k] = "completed"
           \/ (Executes(call[c], k) /\ ~ Executes(r, k))
  PROVE  OneExecutor'
<1> SUFFICES ASSUME NEW k \in CancellationIds, NEW d \in Calls, Executes(call'[d], k)
             PROVE  /\ cancellation'[k] = "completed"
                    /\ \A e \in Calls : Executes(call'[e], k) => e = d
  BY DEF OneExecutor
<1>1. \A e \in Calls : Executes(call'[e], k) => Executes(call[e], k)
  BY OnlyCall
<1>2. Executes(call[d], k)
  BY <1>1
<1>3. cancellation[k] = "completed" /\ \A e \in Calls : Executes(call[e], k) => e = d
  BY <1>2 DEF OneExecutor
<1>4. cancellation'[k] = "completed"
  <2>1. CASE cancellation'[k] = "completed"
    BY <2>1
  <2>2. CASE Executes(call[c], k) /\ ~ Executes(r, k)
    <3>1. c = d
      BY <2>2, <1>3
    <3> QED BY <3>1, <2>2, OnlyCall
  <2> QED BY <2>1, <2>2, <1>3
<1> QED BY <1>1, <1>3, <1>4

LEMMA FinalKept ==
  ASSUME CallsGood, ReleaseIsFinal, NEW c \in Calls, NEW r, call' = [call EXCEPT ![c] = r],
         Released(reservation') => Released(reservation),
         \A k \in CancellationIds :
           cancellation[k] = "completed" /\ Executes(r, k) =>
             Executes(call[c], k) /\ (call[c].next = "release" => r.next = "release"),
         \A k \in CancellationIds :
           cancellation[k] = "completed" =>
             cancellation'[k] = "completed"
             \/ (Executes(call[c], k) /\ call[c].next # "release")
  PROVE  ReleaseIsFinal'
<1> SUFFICES ASSUME Released(reservation')
             PROVE  \E k \in CancellationIds :
                      /\ cancellation'[k] = "completed"
                      /\ \A d \in Calls : Executes(call'[d], k) => call'[d].next = "release"
  BY DEF ReleaseIsFinal
<1>1. PICK k \in CancellationIds :
        /\ cancellation[k] = "completed"
        /\ \A d \in Calls : Executes(call[d], k) => call[d].next = "release"
  BY DEF ReleaseIsFinal
<1>2. cancellation'[k] = "completed"
  BY <1>1
<1>3. ASSUME NEW d \in Calls, Executes(call'[d], k)
      PROVE  call'[d].next = "release"
  <2>1. CASE d = c
    BY <2>1, <1>1, <1>3, OnlyCall
  <2>2. CASE d # c
    BY <2>2, <1>1, <1>3, OnlyCall
  <2> QED BY <2>1, <2>2
<1> QED BY <1>2, <1>3

LEMMA SequenceKept ==
  ASSUME Sequenced,
         \A k \in CancellationIds : cancellation'[k] = None <=> cancellation[k] = None
  PROVE  Sequenced'
<1>1. CancellationRows' = CancellationRows
  BY DEF CancellationRows
<1> QED BY <1>1 DEF Sequenced

LEMMA ReturningKept ==
  ASSUME CallsGood, Returning(returns, call), returns' = returns, RowsGood,
         NEW c \in Calls, NEW r, call' = [call EXCEPT ![c] = r],
         r.pc # "create_return"
  PROVE  Returning(returns', call')
<1> DEFINE C == {d \in Calls : call[d].pc = "create_return"}
           C2 == {d \in Calls : call'[d].pc = "create_return"}
<1>1. C2 \subseteq C
  BY OnlyCall
<1>2. IsFiniteSet(C)
  BY LifecycleAssumption, FS_Subset
<1>3. Cardinality(C2) <= Cardinality(C) /\ Cardinality(C) \in Nat /\ Cardinality(C2) \in Nat
  BY <1>1, <1>2, FS_Subset, FS_CardinalityType
<1>4. Cardinality(returns) \in Nat
  <2>1. IsFiniteSet(ReturnIds)
    BY LifecycleAssumption, FS_Interval DEF ReturnIds
  <2>2. returns \subseteq ReturnIds
    BY DEF RowsGood, LifecycleTypeOK
  <2> QED BY <2>1, <2>2, FS_Subset, FS_CardinalityType
<1>5. MaxReturns \in Nat
  BY LifecycleAssumption
<1> QED BY <1>3, <1>4, <1>5 DEF Returning

LEMMA MarkedKept ==
  ASSUME CallsGood, restocked' = restocked,
         NEW c \in Calls, NEW r, call' = [call EXCEPT ![c] = r], r.pc # "mark",
         NEW l \in Lines
  PROVE  MarkedBy(restocked', call', l) \subseteq MarkedBy(restocked, call, l)
BY OnlyCall DEF MarkedBy

\* The variables that only have a type.
MinorTyped ==
  /\ order \in OrderRows
  /\ shipment \in {"none", "created", "cancelled"} /\ known \in BOOLEAN
  /\ cancelKey \in {"free", "reserved", "completed"} /\ confirmed \subseteq CancellationIds
  /\ tracked \in BOOLEAN /\ shortage \in BOOLEAN

\* A call moves on and touches neither stock nor any row but the order's.
LEMMA MoveKeeps ==
  ASSUME LInv, NEW c \in Calls, NEW r, call' = [call EXCEPT ![c] = r],
         UNCHANGED <<ledger, cancellation, returns, restocked, exchange>>,
         MinorTyped', CallGood(r, reservation, exchange),
         r.pc \notin {"mark", "create_return"},
         \A k \in CancellationIds : Executes(r, k) =>
           Executes(call[c], k) /\ (call[c].next = "release" => r.next = "release")
  PROVE  LInv'
<1>0. /\ reservation' = reservation /\ inventory' = inventory /\ inflow' = inflow
      /\ cancellation' = cancellation /\ returns' = returns
      /\ restocked' = restocked /\ exchange' = exchange
  BY DEF ledger
<1>1. RowsGood'
  BY <1>0 DEF LInv, RowsGood, LifecycleTypeOK, TypeOK, MinorTyped
<1>2. CallsGood'
  BY <1>0, CallsKept, SameGrows DEF LInv
<1>3. OneExecutor'
  BY <1>0, ExecutorKept DEF LInv
<1>4. ReleaseIsFinal'
  BY <1>0, FinalKept DEF LInv
<1>5. Sequenced'
  BY <1>0, SequenceKept DEF LInv
<1>6. StockAdded'
  <2>1. \A l \in Lines : MarkedBy(restocked', call', l) \subseteq MarkedBy(restocked, call, l)
    BY <1>0, MarkedKept DEF LInv
  <2>2. \A s \in Slots : inflow[s] <= inflow'[s]
    BY <1>0 DEF LInv, RowsGood, LifecycleTypeOK, TypeOK
  <2> QED BY <1>0, <1>1, <2>1, <2>2, StockKept, SameGrows DEF LInv
<1>7. Returning(returns', call')
  BY <1>0, ReturningKept DEF LInv
<1> QED BY <1>1, <1>2, <1>3, <1>4, <1>5, <1>6, <1>7 DEF LInv

-----------------------------------------------------------------------------
(* The calls move on.                                                      *)

LEMMA OfCall ==
  ASSUME LInv, NEW c \in Calls
  PROVE  /\ CallGood(call[c], reservation, exchange) /\ call[c] \in CallRows
         /\ CallsGood /\ MinorTyped
BY DEF LInv, RowsGood, LifecycleTypeOK, MinorTyped, CallsGood

LEMMA IdleGood ==
  ASSUME NEW rsv, NEW ex
  PROVE  /\ CallGood(Idle, rsv, ex) /\ Idle.pc = "idle"
         /\ \A k \in CancellationIds : ~ Executes(Idle, k)
<1>1. Idle \in CallRows
  BY DEF Idle, CallRows, Pcs
<1>2. CallGood(Idle, rsv, ex)
  BY <1>1, Basics DEF CallGood, Idle, Cancelling, HoldingOrder, Settling, Restocking,
     Exchanging, Resolving
<1>3. ASSUME NEW k \in CancellationIds
      PROVE  ~ Executes(Idle, k)
  BY Basics DEF Executes, Idle
<1> QED BY <1>2, <1>3 DEF Idle

LEMMA ReturnKeeps ==
  ASSUME LInv, NEW c \in Calls, Return(c), MinorTyped',
         UNCHANGED <<ledger, cancellation, returns, restocked, exchange>>
  PROVE  LInv'
<1>1. call' = [call EXCEPT ![c] = Idle]
  BY DEF Return
<1> QED BY <1>1, IdleGood, MoveKeeps

LEMMA GotoCall ==
  ASSUME CallsGood, NEW c \in Calls, NEW pc, Goto(c, pc)
  PROVE  call' = [call EXCEPT ![c] = [call[c] EXCEPT !.pc = pc]]
BY DEF Goto, CallsGood

\* After a line the next one, or what the call ends with.
LEMMA LineIsDone ==
  ASSUME CallsGood, NEW c \in Calls, NEW rsv, CallGood(call[c], rsv, exchange),
         call[c].pc \in Settling \cup Restocking, LineDone(c),
         call[c].source = TheExchange => Left(rsv[Replacement]) = 0
  PROVE  \E r \in CallRows :
           /\ call' = [call EXCEPT ![c] = r] /\ CallGood(r, rsv, exchange)
           /\ r.pc \notin {"mark", "create_return"}
           /\ \A k \in CancellationIds : Executes(r, k) =>
                Executes(call[c], k) /\ r.next = call[c].next
<1> DEFINE i == call[c]
           l == Picked(i)
<1>1. ThisLine(c) = l
  BY DEF ThisLine, Picked
<1>2. TodoGood(i, rsv) /\ i \in CallRows
  BY DEF CallGood, CallsGood
<1>3. l \in i.todo
  BY <1>2, TodosPicked DEF TodoGood
<1>4. CASE i.todo = {l} /\ i.source = TheOrder
  <2>1. call' = [call EXCEPT ![c] = Idle]
    BY <1>1, <1>4 DEF LineDone, Settled, Return
  <2>2. Idle \in CallRows
    BY IdleGood DEF CallGood
  <2> QED BY <2>1, <2>2, IdleGood
<1>5. CASE i.todo = {l} /\ i.source # TheOrder
  <2> DEFINE r == [i EXCEPT !.pc = "put_exchange"]
  <2>1. Goto(c, "put_exchange")
    BY <1>1, <1>5 DEF LineDone, Settled
  <2>2. call' = [call EXCEPT ![c] = r]
    BY <2>1, GotoCall
  <2>3. i.source = TheExchange
    BY <1>2, <1>5 DEF CallRows
  <2>4. r \in CallRows
    BY <1>2 DEF CallRows, Pcs
  <2>5. EndingGood(i, rsv, exchange) /\ rsv[Replacement] # None /\ i.next # None
    BY <2>3, <1>2, <1>3, Basics DEF CallGood, TodoGood, Settling, Restocking, Exchanging
  <2>6. EndingGood(r, rsv, exchange)
    BY <2>3, <2>4, <2>5, <1>2 DEF EndingGood, CallRows
  <2>7. /\ r.pc = "put_exchange" /\ r.next = i.next /\ r.source = i.source
        /\ r.id = i.id /\ r.flow = i.flow /\ r.result = i.result
    BY <1>2 DEF CallRows
  <2>8. CallGood(i, rsv, exchange)
    OBVIOUS
  <2> HIDE DEF r, i
  <2>9. CallGood(r, rsv, exchange)
    BY <2>3, <2>4, <2>6, <2>7, <2>8, Basics DEF CallGood, Cancelling, HoldingOrder,
       Settling, Restocking, Exchanging, Resolving
  <2>10. \A k \in CancellationIds : ~ Executes(r, k)
    BY <2>3, <2>7, Basics DEF Executes, Resolving
  <2> QED BY <2>2, <2>4, <2>7, <2>9, <2>10
<1>6. CASE i.todo # {l}
  <2> DEFINE r == [i EXCEPT !.todo = @ \ {l}, !.pc = i.next]
  <2>1. call' = [call EXCEPT ![c] = r]
    BY <1>1, <1>6 DEF LineDone, CallsGood
  <2>2. i.next \in Settling \cup {"restock"}
    BY DEF CallGood, Settling, Restocking
  <2>3. r \in CallRows
    BY <1>2, <2>2 DEF CallRows, Pcs, Settling, Restocking
  <2>4. TodoGood(r, rsv)
    <3>1. i.pc \in Restocking <=> i.next = "restock"
      BY DEF CallGood, Settling, Restocking
    <3> HIDE DEF i, l
    <3>2. /\ r.todo = i.todo \ {l} /\ r.source = i.source /\ r.pc = i.next
      BY <1>2 DEF CallRows
    <3> HIDE DEF r
    <3> QED BY <1>2, <1>3, <1>6, <2>2, <3>1, <3>2 DEF TodoGood, Settling, Restocking
  <2>5. /\ r.pc = i.next /\ r.next = i.next /\ r.source = i.source /\ r.id = i.id
        /\ r.flow = i.flow /\ r.result = i.result
    BY <1>2 DEF CallRows
  <2>6. CallGood(i, rsv, exchange) /\ i.pc \in Settling \cup Restocking
    OBVIOUS
  <2> HIDE DEF r, i
  <2>7. EndingGood(i, rsv, exchange) => EndingGood(r, rsv, exchange)
    BY <2>2, <2>5 DEF EndingGood, Settling
  <2>8. CallGood(r, rsv, exchange)
    BY <2>2, <2>3, <2>4, <2>5, <2>6, <2>7 DEF CallGood, Cancelling, HoldingOrder,
       Settling, Restocking, Exchanging, Resolving
  <2>9. \A k \in CancellationIds : Executes(r, k) => Executes(i, k)
    BY <2>2, <2>5 DEF Executes, Settling, Resolving
  <2> QED BY <2>1, <2>2, <2>3, <2>5, <2>8, <2>9 DEF i, Settling
<1> QED BY <1>4, <1>5, <1>6

LEMMA ListReservationsKeeps ==
  ASSUME LInv, NEW c \in Calls, ListReservations(c), begun' = begun
  PROVE  LInv'
<1> DEFINE i == call[c]
           found == {l \in LinesOf(i.source) :
                       /\ reservation[l] # None
                       /\ i.next = "restock" => Consumed(l) > 0}
<1>0. /\ UNCHANGED <<ledger, cancellation, returns, restocked, exchange>> /\ MinorTyped'
      /\ i.pc = "list" /\ CallGood(i, reservation, exchange) /\ i \in CallRows /\ CallsGood
  BY OfCall DEF ListReservations, logistics, returning, others, rows, MinorTyped, At
<1>1. CASE found = {} /\ i.source = TheOrder
  BY <1>0, <1>1, ReturnKeeps DEF ListReservations, Settled
<1>2. CASE found = {} /\ i.source # TheOrder
  <2> DEFINE r == [i EXCEPT !.pc = "put_exchange"]
  <2>1. call' = [call EXCEPT ![c] = r]
    BY <1>0, <1>2, GotoCall DEF ListReservations, Settled
  <2>2. i.source = TheExchange
    BY <1>0, <1>2 DEF CallRows
  <2>3. i.next \in Settling
    BY <1>0, <2>2, Basics DEF CallGood, CallRows
  <2>4. reservation[Replacement] = None
    BY <1>2, <2>2, <2>3, Basics DEF Settling
  <2>5. EndingGood(i, reservation, exchange) /\ i.id \in DOMAIN exchange
    BY <1>0, <2>2 DEF CallGood, Exchanging, EndingGood
  <2>6. exchange[i.id] # "reserved"
    BY <2>4, <2>5 DEF LInv, RowsGood
  <2>7. /\ r.pc = "put_exchange" /\ r.next = i.next /\ r.source = i.source /\ r.id = i.id
        /\ r.flow = i.flow /\ r.result = i.result /\ r \in CallRows
    BY <1>0 DEF CallRows, Pcs
  <2> HIDE DEF r, i
  <2>8. EndingGood(r, reservation, exchange)
    BY <2>5, <2>6, <2>7 DEF EndingGood
  <2>9. CallGood(r, reservation, exchange)
    BY <1>0, <2>2, <2>3, <2>7, <2>8, Basics DEF CallGood, Cancelling, HoldingOrder,
       Settling, Restocking, Exchanging, Resolving
  <2>10. \A k \in CancellationIds : ~ Executes(r, k)
    BY <2>2, <2>7, Basics DEF Executes, Resolving
  <2> QED BY <1>0, <2>1, <2>7, <2>9, <2>10, MoveKeeps
<1>3. CASE found # {}
  <2> DEFINE r == [i EXCEPT !.pc = i.next, !.todo = found]
  <2>1. call' = [call EXCEPT ![c] = r]
    BY <1>3, <1>0 DEF ListReservations, CallsGood
  <2>2. i.next \in Settling \cup {"restock"}
    BY <1>0 DEF CallGood, CallRows
  <2>3. found \subseteq Lines
    BY DEF LinesOf
  <2>4. /\ r.pc = i.next /\ r.next = i.next /\ r.source = i.source /\ r.id = i.id
        /\ r.flow = i.flow /\ r.result = i.result /\ r.todo = found /\ r \in CallRows
    <3>1. i.next \in Pcs
      BY <2>2 DEF Pcs, Settling, Restocking
    <3> HIDE DEF i
    <3> QED BY <1>0, <2>3, <3>1 DEF CallRows
  <2> HIDE DEF r, i
  <2>5. TodoGood(r, reservation)
    BY <1>3, <2>2, <2>4 DEF TodoGood, Settling, Restocking, Consumed
  <2>6. EndingGood(i, reservation, exchange) => EndingGood(r, reservation, exchange)
    BY <2>2, <2>4 DEF EndingGood, Settling
  <2>7. CallGood(r, reservation, exchange)
    BY <1>0, <2>2, <2>4, <2>5, <2>6, Basics DEF CallGood, Cancelling, HoldingOrder,
       Settling, Restocking, Exchanging, Resolving
  <2>8. \A k \in CancellationIds : Executes(r, k) => Executes(i, k) /\ r.next = i.next
    BY <2>2, <2>4 DEF Executes, Settling, Resolving
  <2>9. r.pc \notin {"mark", "create_return"}
    BY <2>2, <2>4 DEF Settling
  <2> QED BY <1>0, <2>1, <2>7, <2>8, <2>9, MoveKeeps DEF i
<1> QED BY <1>1, <1>2, <1>3

LEMMA CheckRestockKeeps ==
  ASSUME LInv, NEW c \in Calls, CheckRestock(c), begun' = begun
  PROVE  LInv'
<1> DEFINE i == call[c]
<1>0. /\ UNCHANGED <<ledger, cancellation, returns, restocked, exchange>> /\ MinorTyped'
      /\ i.pc = "restock" /\ CallGood(i, reservation, exchange) /\ i \in CallRows /\ CallsGood
  BY OfCall DEF CheckRestock, logistics, returning, others, rows, MinorTyped, At
<1>1. i.source = TheOrder
  BY <1>0 DEF CallGood, Restocking
<1>2. CASE LineDone(c)
  <2>1. PICK r \in CallRows :
           /\ call' = [call EXCEPT ![c] = r] /\ CallGood(r, reservation, exchange)
           /\ r.pc \notin {"mark", "create_return"}
           /\ \A k \in CancellationIds : Executes(r, k) =>
                Executes(call[c], k) /\ r.next = call[c].next
    BY <1>0, <1>1, <1>2, Basics, LineIsDone DEF Restocking
  <2> QED BY <1>0, <2>1, MoveKeeps
<1>3. CASE Goto(c, "adjust")
  <2> DEFINE r == [i EXCEPT !.pc = "adjust"]
  <2>1. call' = [call EXCEPT ![c] = r]
    BY <1>0, <1>3, GotoCall
  <2>2. /\ r.pc = "adjust" /\ r.next = i.next /\ r.source = i.source /\ r.id = i.id
        /\ r.flow = i.flow /\ r.result = i.result /\ r.todo = i.todo /\ r \in CallRows
    BY <1>0 DEF CallRows, Pcs, Restocking
  <2> HIDE DEF r, i
  <2>3. CallGood(r, reservation, exchange)
    BY <1>0, <1>1, <2>2, Basics DEF CallGood, Cancelling, HoldingOrder, TodoGood,
       Settling, Restocking, Exchanging, Resolving
  <2>4. \A k \in CancellationIds : ~ Executes(r, k)
    BY <1>0, <2>2 DEF Executes, Resolving, CallGood, Restocking
  <2> QED BY <1>0, <2>1, <2>2, <2>3, <2>4, MoveKeeps
<1> QED BY <1>2, <1>3 DEF CheckRestock

\* A call of the cancellation takes its next step.
LEMMA CancellingMoves ==
  ASSUME LInv, NEW c \in Calls, NEW r, call' = [call EXCEPT ![c] = r],
         UNCHANGED <<ledger, cancellation, returns, restocked, exchange>>, MinorTyped',
         r \in CallRows, r.id = call[c].id, r.source = call[c].source, r.next = call[c].next,
         call[c].pc \in Cancelling, r.pc \in Cancelling,
         r.pc \in HoldingOrder => r.held \in OrderRows,
         \A k \in CancellationIds : Executes(r, k) => Executes(call[c], k)
  PROVE  LInv'
<1> DEFINE i == call[c]
<1>1. CallGood(i, reservation, exchange)
  BY OfCall
<1>2. i.next = None
  BY <1>1 DEF CallGood
<1> HIDE DEF i
<1>3. CallGood(r, reservation, exchange)
  BY <1>1, <1>2, Basics DEF i, CallGood, Cancelling, HoldingOrder, Settling, Restocking, Exchanging,
     Resolving
<1>4. \A k \in CancellationIds : i.next # "release"
  BY <1>2, Basics DEF Settling
<1> QED BY <1>3, <1>4, MoveKeeps DEF i, Cancelling

\* A call is begun.
LEMMA StartKeeps ==
  ASSUME LInv, NEW c \in Calls, NEW r, Start(c, r),
         UNCHANGED <<ledger, cancellation, returns, restocked, exchange>>, MinorTyped',
         CallGood(r, reservation, exchange), r.pc \notin {"mark", "create_return"},
         \A k \in CancellationIds : ~ Executes(r, k)
  PROVE  LInv'
BY MoveKeeps DEF Start

LEMMA MonitorFulfilmentKeeps ==
  ASSUME LInv, NEW c \in Calls, MonitorFulfilment(c)
  PROVE  LInv'
<1> DEFINE r == [Idle EXCEPT !.pc = "fulfil", !.held = order]
<1>1. /\ UNCHANGED <<ledger, cancellation, returns, restocked, exchange>> /\ MinorTyped'
      /\ order \in OrderRows /\ Start(c, r)
  BY OfCall DEF MonitorFulfilment, logistics, returning, others, rows, MinorTyped
<1>2. r \in CallRows
  BY <1>1 DEF CallRows, Idle, Pcs, HoldingOrder
<1>3. CallGood(r, reservation, exchange)
  BY <1>1, <1>2, Basics DEF CallGood, Idle, Cancelling, HoldingOrder, Settling, Restocking,
     Exchanging, Resolving
<1>4. \A k \in CancellationIds : ~ Executes(r, k)
  BY Basics DEF Executes, Idle
<1> QED BY <1>1, <1>3, <1>4, StartKeeps DEF Idle

LEMMA ResumeShortageKeeps ==
  ASSUME LInv, NEW c \in Calls, ResumeShortage(c)
  PROVE  LInv'
<1> DEFINE r == [Idle EXCEPT !.pc = "quantities", !.held = order]
<1>1. /\ UNCHANGED <<ledger, cancellation, returns, restocked, exchange>> /\ MinorTyped'
      /\ order \in OrderRows /\ Start(c, r)
  BY OfCall DEF ResumeShortage, logistics, returning, others, rows, MinorTyped
<1>2. r \in CallRows
  BY <1>1 DEF CallRows, Idle, Pcs, HoldingOrder
<1>3. CallGood(r, reservation, exchange)
  BY <1>1, <1>2, Basics DEF CallGood, Idle, Cancelling, HoldingOrder, Settling, Restocking,
     Exchanging, Resolving
<1>4. \A k \in CancellationIds : ~ Executes(r, k)
  BY Basics DEF Executes, Idle
<1> QED BY <1>1, <1>3, <1>4, StartKeeps DEF Idle

LEMMA RequestCancellationKeeps ==
  ASSUME LInv, NEW c \in Calls, RequestCancellation(c)
  PROVE  LInv'
<1> DEFINE r == [Idle EXCEPT !.pc = "create_cancellation", !.held = order]
<1>1. /\ UNCHANGED <<ledger, cancellation, returns, restocked, exchange>> /\ MinorTyped'
      /\ order \in OrderRows /\ Start(c, r)
  BY OfCall DEF RequestCancellation, logistics, returning, others, rows, MinorTyped
<1>2. r \in CallRows
  BY <1>1 DEF CallRows, Idle, Pcs, HoldingOrder
<1>3. CallGood(r, reservation, exchange)
  BY <1>1, <1>2, Basics DEF CallGood, Idle, Cancelling, HoldingOrder, Settling, Restocking,
     Exchanging, Resolving
<1>4. \A k \in CancellationIds : ~ Executes(r, k)
  BY Basics DEF Executes, Idle
<1> QED BY <1>1, <1>3, <1>4, StartKeeps DEF Idle

LEMMA DecideCancellationKeeps ==
  ASSUME LInv, NEW c \in Calls, NEW k \in CancellationIds,
         DecideCancellation(c, k) \/ ExecuteCancellation(c, k)
  PROVE  LInv'
<1>1. UNCHANGED <<ledger, cancellation, returns, restocked, exchange>> /\ MinorTyped'
  BY OfCall DEF DecideCancellation, ExecuteCancellation, logistics, returning, others, rows,
     MinorTyped
<1>2. PICK pc \in {"approve", "reject", "read"} : Start(c, [Idle EXCEPT !.pc = pc, !.id = k])
  BY DEF DecideCancellation, ExecuteCancellation
<1> DEFINE r == [Idle EXCEPT !.pc = pc, !.id = k]
<1>3. r \in CallRows
  BY Basics DEF CallRows, Idle, Pcs, Cancelling
<1>4. CallGood(r, reservation, exchange)
  BY <1>3, Basics DEF CallGood, Idle, Cancelling, HoldingOrder, Settling, Restocking,
     Exchanging, Resolving
<1>5. \A n \in CancellationIds : ~ Executes(r, n)
  BY Basics DEF Executes, Idle, Resolving, Settling
<1> QED BY <1>1, <1>2, <1>4, <1>5, StartKeeps DEF Idle

LEMMA RecoverCancellationKeeps ==
  ASSUME LInv, NEW c \in Calls, NEW k \in CancellationIds, RecoverCancellation(c, k)
  PROVE  LInv'
<1> DEFINE r == [Idle EXCEPT !.pc = "readback", !.id = k, !.held = order, !.inline = FALSE]
<1>1. /\ UNCHANGED <<ledger, cancellation, returns, restocked, exchange>> /\ MinorTyped'
      /\ order \in OrderRows /\ Start(c, r)
  BY OfCall DEF RecoverCancellation, logistics, returning, others, rows, MinorTyped
<1>2. r \in CallRows
  BY <1>1, Basics DEF CallRows, Idle, Pcs, Cancelling
<1>3. CallGood(r, reservation, exchange)
  BY <1>1, <1>2, Basics DEF CallGood, Idle, Cancelling, HoldingOrder, Settling, Restocking,
     Exchanging, Resolving
<1>4. \A n \in CancellationIds : ~ Executes(r, n)
  BY Basics DEF Executes, Idle, Resolving, Settling
<1> QED BY <1>1, <1>3, <1>4, StartKeeps DEF Idle

LEMMA InspectReturnKeeps ==
  ASSUME LInv, NEW c \in Calls, (\E f \in ReturnIds : InspectReturn(c, f)) \/ IngestTracking(c)
  PROVE  LInv'
<1>1. UNCHANGED <<ledger, cancellation, returns, restocked, exchange>> /\ MinorTyped'
  BY OfCall DEF InspectReturn, IngestTracking, logistics, returning, others, rows, MinorTyped
<1>2. PICK f \in Flows : Start(c, [Idle EXCEPT !.pc = "list", !.next = "restock", !.flow = f])
  BY Basics DEF InspectReturn, IngestTracking, Flows
<1> DEFINE r == [Idle EXCEPT !.pc = "list", !.next = "restock", !.flow = f]
<1>3. r \in CallRows
  BY DEF CallRows, Idle, Pcs
<1>4. CallGood(r, reservation, exchange)
  BY <1>3, Basics DEF CallGood, Idle, Cancelling, HoldingOrder, Settling, Restocking,
     Exchanging, Resolving
<1>5. \A n \in CancellationIds : ~ Executes(r, n)
  BY Basics DEF Executes, Idle, Resolving
<1> QED BY <1>1, <1>2, <1>4, <1>5, StartKeeps DEF Idle

LEMMA EvaluateExchangeKeeps ==
  ASSUME LInv, NEW c \in Calls, EvaluateExchange(c)
  PROVE  LInv'
<1> DEFINE r == [Idle EXCEPT !.pc = "read_stock", !.source = TheExchange]
<1>1. /\ UNCHANGED <<ledger, cancellation, returns, restocked, exchange>> /\ MinorTyped'
      /\ Start(c, r)
  BY OfCall DEF EvaluateExchange, logistics, returning, others, rows, MinorTyped
<1>2. r \in CallRows
  BY DEF CallRows, Idle, Pcs, Exchanging
<1>3. CallGood(r, reservation, exchange)
  BY <1>2, Basics DEF CallGood, Idle, Cancelling, HoldingOrder, Settling, Restocking,
     Exchanging, Resolving
<1>4. \A n \in CancellationIds : ~ Executes(r, n)
  BY Basics DEF Executes, Idle, Resolving
<1> QED BY <1>1, <1>3, <1>4, StartKeeps DEF Idle

LEMMA EndExchangeKeeps ==
  ASSUME LInv, NEW c \in Calls, NEW k \in DOMAIN exchange,
         CancelExchange(c, k) \/ CompleteExchange(c, k)
  PROVE  LInv'
<1>0. /\ UNCHANGED <<ledger, cancellation, returns, restocked, exchange>> /\ MinorTyped'
      /\ k \in Nat /\ exchange[k] \in ExchangeStatuses
  BY OfCall DEF CancelExchange, CompleteExchange, logistics, returning, others, rows, MinorTyped,
     LInv, RowsGood, LifecycleTypeOK
<1>1. ASSUME NEW status \in ExchangeStatuses \ {"reserved"}, NEW next \in Settling,
             Start(c, Ending(k, status, next))
      PROVE  LInv'
  <2> DEFINE r == Ending(k, status, next)
  <2>1. /\ r.pc = "list" /\ r.id = k /\ r.result = status /\ r.source = TheExchange
        /\ r.next = next /\ r \in CallRows
    BY <1>0 DEF Ending, Idle, CallRows, Pcs
  <2> HIDE DEF r
  <2>2. EndingGood(r, reservation, exchange)
    BY <2>1 DEF EndingGood
  <2>3. CallGood(r, reservation, exchange)
    BY <2>1, <2>2, Basics DEF CallGood, Cancelling, HoldingOrder, Settling, Restocking,
       Exchanging, Resolving
  <2>4. \A n \in CancellationIds : ~ Executes(r, n)
    BY <2>1, Basics DEF Executes, Resolving
  <2> QED BY <1>0, <1>1, <2>1, <2>3, <2>4, StartKeeps DEF r
<1>2. ASSUME NEW status \in ExchangeStatuses \ {"reserved"}, exchange[k] # "reserved",
             Start(c, [Ending(k, status, None) EXCEPT !.pc = "put_exchange"])
      PROVE  LInv'
  <2> DEFINE r == [Ending(k, status, None) EXCEPT !.pc = "put_exchange"]
  <2>1. /\ r.pc = "put_exchange" /\ r.id = k /\ r.result = status /\ r.source = TheExchange
        /\ r.next = None /\ r \in CallRows
    BY <1>0 DEF Ending, Idle, CallRows, Pcs
  <2> HIDE DEF r
  <2>2. EndingGood(r, reservation, exchange)
    BY <1>2, <2>1 DEF EndingGood
  <2>3. CallGood(r, reservation, exchange)
    BY <2>1, <2>2, Basics DEF CallGood, Cancelling, HoldingOrder, Settling, Restocking,
       Exchanging, Resolving
  <2>4. \A n \in CancellationIds : ~ Executes(r, n)
    BY <2>1, Basics DEF Executes, Resolving
  <2> QED BY <1>0, <1>2, <2>1, <2>3, <2>4, StartKeeps DEF r
<1>3. CASE CancelExchange(c, k)
  BY <1>1, <1>3 DEF CancelExchange, ExchangeStatuses, Settling
<1>4. CASE CompleteExchange(c, k)
  BY <1>0, <1>1, <1>2, <1>4 DEF CompleteExchange, ExchangeStatuses, Settling
<1> QED BY <1>3, <1>4

LEMMA CancellingGoes ==
  ASSUME LInv, NEW c \in Calls, NEW pc \in Cancelling, Goto(c, pc),
         UNCHANGED <<ledger, cancellation, returns, restocked, exchange>>, MinorTyped',
         call[c].pc \in Cancelling \cap HoldingOrder,
         \A k \in CancellationIds :
           Executes([call[c] EXCEPT !.pc = pc], k) => Executes(call[c], k)
  PROVE  LInv'
<1> DEFINE i == call[c]
           r == [i EXCEPT !.pc = pc]
<1>1. CallGood(i, reservation, exchange) /\ i \in CallRows /\ CallsGood
  BY OfCall
<1>2. call' = [call EXCEPT ![c] = r]
  BY <1>1, GotoCall
<1>3. /\ r.id = i.id /\ r.source = i.source /\ r.next = i.next /\ r.pc = pc
      /\ r.held = i.held /\ r \in CallRows
  BY <1>1 DEF CallRows, Pcs
<1>4. r.held \in OrderRows
  BY <1>1, <1>3 DEF CallGood
<1> HIDE DEF r
<1> QED BY <1>2, <1>3, <1>4, CancellingMoves DEF r

LEMMA ShipmentStepsKeep ==
  ASSUME LInv, NEW c \in Calls,
         \/ NoShipment(c) \/ CancelShipment(c) \/ ShipmentCancelled(c)
         \/ CompleteKey(c) \/ CancelFails(c) \/ ReadBack(c)
  PROVE  LInv'
<1>1. /\ UNCHANGED <<ledger, cancellation, returns, restocked, exchange>> /\ MinorTyped'
      /\ call[c] \in CallRows
  BY OfCall DEF NoShipment, CancelShipment, ShipmentCancelled, CompleteKey, CancelFails,
     ReadBack, logistics, returning, others, rows, MinorTyped
<1>2. ASSUME Return(c)
      PROVE  LInv'
  BY <1>1, <1>2, ReturnKeeps
<1>3. ASSUME NEW pc \in Cancelling, Goto(c, pc),
             \/ call[c].pc \in {"shipment", "mutate", "complete"}
             \/ call[c].pc = "readback" /\ pc \in Resolving
      PROVE  LInv'
  <2>1. call[c].pc \in Cancelling \cap HoldingOrder
    BY <1>3 DEF Cancelling, HoldingOrder, Resolving
  <2>2. CallGood(call[c], reservation, exchange)
    BY OfCall
  <2>3. call[c].next = None
    BY <2>1, <2>2 DEF CallGood
  <2>4. ASSUME NEW k \in CancellationIds, Executes([call[c] EXCEPT !.pc = pc], k)
        PROVE  Executes(call[c], k)
    BY <1>1, <1>3, <2>3, <2>4, Basics DEF Executes, CallRows, Resolving, Settling
  <2> QED BY <1>1, <1>3, <2>1, <2>4, CancellingGoes
<1>4. CASE NoShipment(c)
  BY <1>3, <1>4 DEF NoShipment, At, Cancelling
<1>5. CASE CancelShipment(c)
  BY <1>2, <1>3, <1>5 DEF CancelShipment, At, Cancelling
<1>6. CASE ShipmentCancelled(c)
  BY <1>3, <1>6 DEF ShipmentCancelled, At, Cancelling
<1>7. CASE CompleteKey(c)
  BY <1>3, <1>7 DEF CompleteKey, At, Cancelling
<1>8. CASE CancelFails(c)
  BY <1>3, <1>8 DEF CancelFails, At, Cancelling
<1>9. CASE ReadBack(c)
  BY <1>3, <1>9 DEF ReadBack, At, Cancelling, Resolving
<1> QED BY <1>4, <1>5, <1>6, <1>7, <1>8, <1>9

LEMMA ReadForCancellationKeeps ==
  ASSUME LInv, NEW c \in Calls, ReadForCancellation(c)
  PROVE  LInv'
<1> DEFINE i == call[c]
<1>1. /\ UNCHANGED <<ledger, cancellation, returns, restocked, exchange>> /\ MinorTyped'
      /\ i \in CallRows /\ i.pc = "read" /\ order \in OrderRows /\ CallsGood
  BY OfCall DEF ReadForCancellation, At, logistics, returning, others, rows, MinorTyped
<1>2. CASE Return(c)
  BY <1>1, <1>2, ReturnKeeps
<1>3. ASSUME NEW pc \in {"stale", "claim"},
             call' = [call EXCEPT ![c].held = order, ![c].pc = pc]
      PROVE  LInv'
  <2> DEFINE r == [i EXCEPT !.held = order, !.pc = pc]
  <2>1. call' = [call EXCEPT ![c] = r]
    BY <1>1, <1>3 DEF CallsGood
  <2>2. /\ r.id = i.id /\ r.source = i.source /\ r.next = i.next /\ r.pc = pc
        /\ r.held = order /\ r.inline = i.inline /\ r \in CallRows
    <3>1. pc \in Pcs
      BY DEF Pcs, Cancelling
    <3> HIDE DEF i
    <3> QED BY <1>1, <3>1 DEF CallRows
  <2> HIDE DEF r
  <2>3. \A k \in CancellationIds : Executes(r, k) => Executes(i, k)
    BY <2>2 DEF Executes, Resolving
  <2> QED BY <1>1, <2>1, <2>2, <2>3, CancellingMoves DEF Cancelling
<1> QED BY <1>2, <1>3 DEF ReadForCancellation

LEMMA CancelOrderKeeps ==
  ASSUME LInv, NEW c \in Calls, CancelOrder(c)
  PROVE  LInv'
<1> DEFINE i == call[c]
           r == [i EXCEPT !.pc = "list", !.next = "release"]
<1>1. /\ UNCHANGED <<ledger, cancellation, returns, restocked, exchange>>
      /\ i.pc = "put_order" /\ i \in CallRows /\ CallGood(i, reservation, exchange) /\ CallsGood
      /\ call' = [call EXCEPT ![c] = r]
  BY OfCall DEF CancelOrder, At, logistics, returning, others, rows, CallsGood
<1>2. i.held \in OrderRows /\ i.id \in CancellationIds /\ i.source = TheOrder
  BY <1>1 DEF CallGood, HoldingOrder, Cancelling
<1>3. MinorTyped'
  BY <1>2, OfCall DEF CancelOrder, logistics, returning, others, MinorTyped, OrderRows
<1>4. /\ r.pc = "list" /\ r.next = "release" /\ r.id = i.id /\ r.source = i.source
      /\ r.held = i.held /\ r.inline = i.inline /\ r \in CallRows
  BY <1>1 DEF CallRows, Pcs, Settling
<1> HIDE DEF r, i
<1>5. CallGood(r, reservation, exchange)
  BY <1>1, <1>2, <1>4, Basics DEF CallGood, Cancelling, HoldingOrder, Settling, Restocking,
     Exchanging, Resolving
<1>6. \A k \in CancellationIds : Executes(r, k) => Executes(i, k)
  BY <1>1, <1>4 DEF Executes
<1> QED BY <1>1, <1>3, <1>4, <1>5, <1>6, MoveKeeps DEF i

LEMMA FulfilKeeps ==
  ASSUME LInv, NEW c \in Calls, Fulfil(c)
  PROVE  LInv'
<1> DEFINE i == call[c]
           r == [i EXCEPT !.pc = "list", !.next = "consume"]
<1>1. /\ UNCHANGED <<ledger, cancellation, returns, restocked, exchange>>
      /\ i.pc = "fulfil" /\ i \in CallRows /\ CallGood(i, reservation, exchange) /\ CallsGood
      /\ call' = [call EXCEPT ![c] = r]
  BY OfCall DEF Fulfil, At, logistics, returning, others, rows, CallsGood
<1>2. i.held \in OrderRows
  BY <1>1 DEF CallGood, HoldingOrder
<1>3. MinorTyped'
  BY <1>2, OfCall DEF Fulfil, logistics, returning, others, MinorTyped, OrderRows
<1>4. /\ r.pc = "list" /\ r.next = "consume" /\ r.id = i.id /\ r.source = i.source
      /\ r.held = i.held /\ r.inline = i.inline /\ r \in CallRows
  BY <1>1 DEF CallRows, Pcs, Settling
<1> HIDE DEF r, i
<1>5. i.source = TheOrder
  BY <1>1 DEF CallGood, CallRows, Exchanging, Settling
<1>6. CallGood(r, reservation, exchange)
  BY <1>1, <1>4, <1>5, Basics DEF CallGood, Cancelling, HoldingOrder, Settling, Restocking,
     Exchanging, Resolving
<1>7. \A k \in CancellationIds : ~ Executes(r, k)
  BY <1>4 DEF Executes, Resolving
<1> QED BY <1>1, <1>3, <1>4, <1>6, <1>7, MoveKeeps

LEMMA ShortageStepsKeep ==
  ASSUME LInv, NEW c \in Calls, ListQuantities(c) \/ FulfilAvailable(c) \/ PutFulfilled(c)
  PROVE  LInv'
<1> DEFINE i == call[c]
<1>1. /\ UNCHANGED <<ledger, cancellation, returns, restocked, exchange>>
      /\ i \in CallRows /\ CallGood(i, reservation, exchange) /\ CallsGood
      /\ i.pc \in {"quantities", "storefront", "put_fulfilled"}
  BY OfCall DEF ListQuantities, FulfilAvailable, PutFulfilled, At, logistics, returning,
     others, rows
<1>2. i.held \in OrderRows
  BY <1>1 DEF CallGood, HoldingOrder
<1>3. MinorTyped'
  <2>1. CASE PutFulfilled(c)
    BY <1>2, <2>1, OfCall DEF PutFulfilled, logistics, returning, others, MinorTyped, OrderRows
  <2>2. CASE ListQuantities(c) \/ FulfilAvailable(c)
    BY <2>2, OfCall DEF ListQuantities, FulfilAvailable, logistics, returning, others, rows,
       MinorTyped
  <2> QED BY <2>1, <2>2
<1>4. CASE Return(c)
  BY <1>1, <1>3, <1>4, ReturnKeeps
<1>5. ASSUME NEW pc \in {"storefront", "put_fulfilled"}, NEW todo \in SUBSET Lines,
             call' = [call EXCEPT ![c] = [i EXCEPT !.pc = pc, !.todo = todo]]
      PROVE  LInv'
  <2> DEFINE r == [i EXCEPT !.pc = pc, !.todo = todo]
  <2>0. pc \in Pcs
    BY DEF Pcs, HoldingOrder
  <2>1. /\ r.pc = pc /\ r.next = i.next /\ r.id = i.id /\ r.source = i.source
        /\ r.held = i.held /\ r.inline = i.inline /\ r \in CallRows
    BY <1>1, <2>0 DEF CallRows
  <2>2. call' = [call EXCEPT ![c] = r]
    BY <1>5
  <2> HIDE DEF r, i
  <2>3. i.source = TheOrder /\ i.next = None
    BY <1>1 DEF CallGood, CallRows, Exchanging, Settling, Restocking
  <2>4. CallGood(r, reservation, exchange)
    BY <1>1, <1>2, <2>1, <2>3, Basics DEF CallGood, Cancelling, HoldingOrder, Settling, Restocking,
       Exchanging, Resolving
  <2>5. \A k \in CancellationIds : ~ Executes(r, k)
    BY <2>1, <2>3, Basics DEF Executes, Resolving, Settling
  <2> QED BY <1>1, <1>3, <2>1, <2>2, <2>4, <2>5, MoveKeeps
<1>6. CASE ListQuantities(c) /\ ~ Return(c)
  <2> DEFINE got == {l \in LinesOf(TheOrder) :
                       reservation[l] # None /\ reservation[l].quantity_reserved > 0}
  <2>1. call' = [call EXCEPT ![c].pc = "storefront", ![c].todo = got]
    BY <1>6 DEF ListQuantities
  <2>2. call' = [call EXCEPT ![c] = [i EXCEPT !.pc = "storefront", !.todo = got]]
    BY <2>1, <1>1 DEF CallsGood
  <2>3. got \in SUBSET Lines
    BY DEF LinesOf
  <2> HIDE DEF got
  <2> QED BY <1>5, <2>2, <2>3
<1>7. CASE FulfilAvailable(c) /\ ~ Return(c)
  <2>1. call' = [call EXCEPT ![c] = [i EXCEPT !.pc = "put_fulfilled"]]
    BY <1>1, <1>7, GotoCall DEF FulfilAvailable
  <2>2. [i EXCEPT !.pc = "put_fulfilled"] = [i EXCEPT !.pc = "put_fulfilled", !.todo = i.todo]
        /\ i.todo \in SUBSET Lines
    BY <1>1 DEF CallRows
  <2> QED BY <1>5, <2>1, <2>2
<1> QED BY <1>4, <1>6, <1>7 DEF PutFulfilled

LEMMA ReadStockKeeps ==
  ASSUME LInv, NEW c \in Calls, ReadStock(c)
  PROVE  LInv'
<1> DEFINE i == call[c]
<1>1. /\ UNCHANGED <<ledger, cancellation, returns, restocked, exchange>> /\ MinorTyped'
      /\ i \in CallRows /\ CallGood(i, reservation, exchange) /\ CallsGood
      /\ i.pc = "read_stock"
  BY OfCall DEF ReadStock, At, logistics, returning, others, rows, MinorTyped
<1>2. i.source = TheExchange /\ i.next = None
  BY <1>1 DEF CallGood, CallRows, Exchanging, Settling, Restocking
<1>3. ASSUME NEW pc \in {"reserve", "create_exchange"}, NEW r,
             call' = [call EXCEPT ![c] = r], r \in CallRows, r.pc = pc, r.source = i.source,
             r.next = i.next, pc = "create_exchange" => r.result \in {"eligible", "escalated"}
      PROVE  LInv'
  <2>1. CallGood(r, reservation, exchange)
    BY <1>2, <1>3, Basics DEF CallGood, Cancelling, HoldingOrder, Settling, Restocking,
       Exchanging, Resolving, ExchangeStatuses
  <2>2. \A k \in CancellationIds : ~ Executes(r, k)
    BY <1>2, <1>3, Basics DEF Executes, Resolving
  <2> QED BY <1>1, <1>3, <2>1, <2>2, MoveKeeps
<1>4. CASE Goto(c, "reserve")
  <2>1. call' = [call EXCEPT ![c] = [i EXCEPT !.pc = "reserve"]]
    BY <1>1, <1>4, GotoCall
  <2>2. [i EXCEPT !.pc = "reserve"] \in CallRows
    BY <1>1 DEF CallRows, Pcs, Exchanging
  <2> QED BY <1>1, <1>3, <2>1, <2>2 DEF CallRows
<1>5. ASSUME NEW result \in {"eligible", "escalated"},
             call' = [call EXCEPT ![c].pc = "create_exchange", ![c].result = result]
      PROVE  LInv'
  <2> DEFINE r == [i EXCEPT !.pc = "create_exchange", !.result = result]
  <2>1. call' = [call EXCEPT ![c] = r]
    BY <1>1, <1>5 DEF CallsGood
  <2>2. /\ r \in CallRows /\ r.pc = "create_exchange" /\ r.source = i.source
        /\ r.next = i.next /\ r.result = result
    BY <1>1 DEF CallRows, Pcs, Exchanging, ExchangeStatuses
  <2> HIDE DEF r
  <2> QED BY <1>3, <2>1, <2>2
<1>6. HasStock \in BOOLEAN
  BY DEF HasStock
<1> QED BY <1>4, <1>5 DEF ReadStock

LEMMA DieKeeps ==
  ASSUME LInv, NEW c \in Calls, Die(c)
  PROVE  LInv'
<1>1. UNCHANGED <<ledger, cancellation, returns, restocked, exchange>> /\ MinorTyped'
  BY OfCall DEF Die, logistics, returning, others, rows, MinorTyped
<1> QED BY <1>1, ReturnKeeps DEF Die

LEMMA CreateShipmentKeeps ==
  ASSUME LInv, CreateShipment
  PROVE  LInv'
<1>1. /\ reservation' = reservation /\ inventory' = inventory /\ inflow' = inflow
      /\ cancellation' = cancellation /\ returns' = returns /\ call' = call
      /\ restocked' = restocked /\ exchange' = exchange
  BY DEF CreateShipment, ledger, logistics, returning, others, rows
<1>2. RowsGood'
  BY <1>1 DEF LInv, RowsGood, LifecycleTypeOK, TypeOK, CreateShipment, returning, others, rows
<1>3. CallsGood' /\ OneExecutor' /\ Returning(returns', call')
  BY <1>1 DEF LInv, CallsGood, OneExecutor
<1>4. ReleaseIsFinal' /\ StockAdded'
  BY <1>1 DEF LInv, ReleaseIsFinal, StockAdded
<1>5. Sequenced'
  BY <1>1, SequenceKept DEF LInv
<1> QED BY <1>2, <1>3, <1>4, <1>5 DEF LInv

-----------------------------------------------------------------------------
(* The status of a cancellation changes.                                   *)

LEMMA StatusChangeKeeps ==
  ASSUME LInv, NEW c \in Calls, NEW r, call' = [call EXCEPT ![c] = r],
         UNCHANGED <<ledger, returns, restocked, exchange>>, MinorTyped',
         CallGood(r, reservation, exchange), r.pc \notin {"mark", "create_return"},
         cancellation' \in [CancellationIds -> CancellationStatuses \cup {None}],
         Sequenced', OneExecutor', ReleaseIsFinal'
  PROVE  LInv'
<1>0. /\ reservation' = reservation /\ inventory' = inventory /\ inflow' = inflow
      /\ returns' = returns /\ restocked' = restocked /\ exchange' = exchange
  BY DEF ledger
<1>1. RowsGood'
  BY <1>0 DEF LInv, RowsGood, LifecycleTypeOK, TypeOK, MinorTyped
<1>2. CallsGood'
  BY <1>0, CallsKept, SameGrows DEF LInv
<1>3. StockAdded'
  <2>1. \A l \in Lines : MarkedBy(restocked', call', l) \subseteq MarkedBy(restocked, call, l)
    BY <1>0, MarkedKept DEF LInv
  <2>2. \A s \in Slots : inflow[s] <= inflow'[s]
    BY <1>0 DEF LInv, RowsGood, LifecycleTypeOK, TypeOK
  <2> QED BY <1>0, <1>1, <2>1, <2>2, StockKept, SameGrows DEF LInv
<1>4. Returning(returns', call')
  BY <1>0, ReturningKept DEF LInv
<1> QED BY <1>1, <1>2, <1>3, <1>4 DEF LInv

\* A transition of a row: it takes the row from "completed" only when its call
\* executed it and does no more.
LEMMA TransitionKeeps ==
  ASSUME LInv, NEW c \in Calls, NEW r, call' = [call EXCEPT ![c] = r],
         NEW j \in CancellationIds, NEW status \in CancellationStatuses,
         cancellation[j] # None, cancellation' = [cancellation EXCEPT ![j] = status],
         UNCHANGED <<ledger, returns, restocked, exchange>>, MinorTyped',
         CallGood(r, reservation, exchange), r.pc \notin {"mark", "create_return"},
         \A k \in CancellationIds : Executes(r, k) =>
           Executes(call[c], k) /\ (call[c].next = "release" => r.next = "release"),
         cancellation[j] = "completed" =>
           \/ status = "completed"
           \/ Executes(call[c], j) /\ call[c].next # "release" /\ ~ Executes(r, j)
  PROVE  LInv'
<1>0. cancellation \in [CancellationIds -> CancellationStatuses \cup {None}]
  BY DEF LInv, RowsGood, LifecycleTypeOK
<1>1. cancellation'[j] = status /\ \A k \in CancellationIds \ {j} : cancellation'[k] = cancellation[k]
  BY <1>0
<1>2. cancellation' \in [CancellationIds -> CancellationStatuses \cup {None}]
  BY <1>0
<1>3. Sequenced'
  BY <1>1, Basics, SequenceKept DEF LInv
<1>4. \A k \in CancellationIds : cancellation[k] = "completed" =>
        \/ cancellation'[k] = "completed"
        \/ Executes(call[c], k) /\ call[c].next # "release" /\ ~ Executes(r, k)
  BY <1>1
<1>5. OneExecutor'
  BY <1>4, ExecutorKept DEF LInv
<1>6. ReleaseIsFinal'
  <2>1. Released(reservation') => Released(reservation)
    BY DEF ledger
  <2> QED BY <1>4, <2>1, FinalKept DEF LInv
<1> QED BY <1>2, <1>3, <1>5, <1>6, StatusChangeKeeps

\* A row that was not completed is claimed.
LEMMA ClaimingKeeps ==
  ASSUME LInv, NEW c \in Calls, NEW r, call' = [call EXCEPT ![c] = r],
         NEW j \in CancellationIds, cancellation[j] \notin {None, "completed"},
         cancellation' = [cancellation EXCEPT ![j] = "completed"],
         UNCHANGED <<ledger, returns, restocked, exchange>>, MinorTyped',
         CallGood(r, reservation, exchange), r.pc \notin {"mark", "create_return"},
         r.id = j
  PROVE  LInv'
<1>0. cancellation \in [CancellationIds -> CancellationStatuses \cup {None}] /\ CallsGood
  BY DEF LInv, RowsGood, LifecycleTypeOK
<1>1. /\ cancellation'[j] = "completed"
      /\ \A k \in CancellationIds \ {j} : cancellation'[k] = cancellation[k]
  BY <1>0
<1>2. cancellation' \in [CancellationIds -> CancellationStatuses \cup {None}]
  BY <1>0 DEF CancellationStatuses
<1>3. Sequenced'
  BY <1>1, Basics, SequenceKept DEF LInv, CancellationStatuses
<1>4. \A d \in Calls : ~ Executes(call[d], j)
  BY DEF LInv, OneExecutor
<1>5. \A k \in CancellationIds \ {j} : ~ Executes(r, k)
  BY DEF Executes
<1>6. call'[c] = r /\ \A d \in Calls \ {c} : call'[d] = call[d]
  BY <1>0, OnlyCall
<1>7. OneExecutor'
  <2> SUFFICES ASSUME NEW k \in CancellationIds, NEW d \in Calls, Executes(call'[d], k)
               PROVE  /\ cancellation'[k] = "completed"
                      /\ \A e \in Calls : Executes(call'[e], k) => e = d
    BY DEF OneExecutor
  <2>1. CASE k = j
    <3>1. d = c
      BY <1>4, <1>6, <2>1
    <3>2. \A e \in Calls : Executes(call'[e], k) => e = c
      BY <1>4, <1>6, <2>1
    <3> QED BY <1>1, <2>1, <3>1, <3>2
  <2>2. CASE k # j
    <3>1. d # c
      BY <1>5, <1>6, <2>2
    <3>2. Executes(call[d], k)
      BY <1>6, <3>1
    <3>3. cancellation[k] = "completed" /\ \A e \in Calls : Executes(call[e], k) => e = d
      BY <3>2 DEF LInv, OneExecutor
    <3>4. \A e \in Calls : Executes(call'[e], k) => Executes(call[e], k)
      BY <1>5, <1>6, <2>2
    <3> QED BY <1>1, <2>2, <3>3, <3>4
  <2> QED BY <2>1, <2>2
<1>8. ReleaseIsFinal'
  <2>1. Released(reservation') => Released(reservation)
    BY DEF ledger
  <2>2. \A k \in CancellationIds : cancellation[k] = "completed" => k # j
    OBVIOUS
  <2>3. \A k \in CancellationIds : cancellation[k] = "completed" =>
          ~ Executes(r, k) /\ cancellation'[k] = "completed"
    BY <1>1, <1>5, <2>2
  <2>4. ReleaseIsFinal
    BY DEF LInv
  <2> QED BY <1>0, <2>1, <2>3, <2>4, FinalKept
<1> QED BY <1>2, <1>3, <1>7, <1>8, StatusChangeKeeps

\* What a call of the cancellation knows.
LEMMA CancellingCall ==
  ASSUME LInv, NEW c \in Calls, call[c].pc \in Cancelling
  PROVE  /\ call[c].id \in CancellationIds /\ call[c].next = None
         /\ call[c].source = TheOrder /\ call[c].next # "release"
         /\ call[c].pc \in HoldingOrder => call[c].held \in OrderRows
BY OfCall, Basics DEF CallGood, Settling

LEMMA DecisionsKeep ==
  ASSUME LInv, NEW c \in Calls, Approve(c) \/ Reject(c) \/ GoStale(c)
  PROVE  LInv'
<1> DEFINE i == call[c]
           j == i.id
<1>1. /\ UNCHANGED <<ledger, returns, restocked, exchange>> /\ MinorTyped'
      /\ i \in CallRows /\ CallsGood /\ i.pc \in {"approve", "reject", "stale"}
  BY OfCall DEF Approve, Reject, GoStale, At, logistics, returning, others, MinorTyped
<1>2. j \in CancellationIds /\ i.next = None /\ i.source = TheOrder /\ i.next # "release"
  BY <1>1, CancellingCall DEF Cancelling
<1>3. \E r : /\ call' = [call EXCEPT ![c] = r]
             /\ CallGood(r, reservation, exchange) /\ r.pc \in {"idle", "read"}
             /\ \A k \in CancellationIds : ~ Executes(r, k)
  <2>1. CASE Return(c)
    BY <2>1, IdleGood DEF Return
  <2>2. CASE Goto(c, "read")
    <3> DEFINE r == [i EXCEPT !.pc = "read"]
    <3>1. call' = [call EXCEPT ![c] = r]
      BY <1>1, <2>2, GotoCall
    <3>2. /\ r.id = j /\ r.source = TheOrder /\ r.next = None /\ r.pc = "read"
          /\ r \in CallRows
      BY <1>1, <1>2 DEF CallRows, Pcs, Cancelling
    <3> HIDE DEF r
    <3>3. CallGood(r, reservation, exchange)
      BY <1>2, <3>2, Basics DEF CallGood, Cancelling, HoldingOrder, Settling, Restocking,
         Exchanging, Resolving
    <3>4. \A k \in CancellationIds : ~ Executes(r, k)
      BY <3>2, Basics DEF Executes, Resolving, Settling
    <3> QED BY <3>1, <3>2, <3>3, <3>4
  <2> QED BY <2>1, <2>2 DEF Approve, Reject, GoStale
<1>4. PICK r : /\ call' = [call EXCEPT ![c] = r]
               /\ CallGood(r, reservation, exchange) /\ r.pc \in {"idle", "read"}
               /\ \A k \in CancellationIds : ~ Executes(r, k)
  BY <1>3
<1>5. CASE cancellation' = cancellation
  BY <1>1, <1>4, <1>5, MoveKeeps
<1>6. ASSUME NEW status \in CancellationStatuses,
             cancellation' = [cancellation EXCEPT ![j] = status],
             cancellation[j] \in {"approval_required", "eligible", "approved"}
      PROVE  LInv'
  BY <1>1, <1>2, <1>4, <1>6, Basics, TransitionKeeps, ZenonT(30)
  DEF CancellationStatuses
<1> QED BY <1>5, <1>6 DEF Approve, Reject, GoStale, Transition, Status, Executable,
        CancellationStatuses

LEMMA ClaimKeeps ==
  ASSUME LInv, NEW c \in Calls, Claim(c)
  PROVE  LInv'
<1> DEFINE i == call[c]
           j == i.id
<1>1. /\ UNCHANGED <<ledger, returns, restocked, exchange>> /\ MinorTyped'
      /\ i \in CallRows /\ CallsGood /\ i.pc = "claim"
  BY OfCall DEF Claim, At, logistics, returning, others, MinorTyped
<1>2. /\ j \in CancellationIds /\ i.next = None /\ i.source = TheOrder
      /\ i.held \in OrderRows
  BY <1>1, CancellingCall DEF Cancelling, HoldingOrder
<1>3. CASE Return(c) /\ cancellation' = cancellation
  BY <1>1, <1>3, ReturnKeeps
<1>4. CASE /\ Executable(Status(c)) /\ Transition(c, "completed") /\ Goto(c, "shipment")
  <2> DEFINE r == [i EXCEPT !.pc = "shipment"]
  <2>1. call' = [call EXCEPT ![c] = r]
    BY <1>1, <1>4, GotoCall
  <2>2. /\ r.id = j /\ r.source = TheOrder /\ r.next = None /\ r.pc = "shipment"
        /\ r.held = i.held /\ r \in CallRows
    BY <1>1, <1>2 DEF CallRows, Pcs, Cancelling
  <2> HIDE DEF r
  <2>3. CallGood(r, reservation, exchange)
    BY <1>2, <2>2, Basics DEF CallGood, Cancelling, HoldingOrder, Settling, Restocking,
       Exchanging, Resolving
  <2>4. cancellation[j] \notin {None, "completed"}
    BY <1>4, Basics DEF Executable, Status, CancellationStatuses
  <2> QED BY <1>1, <1>2, <1>4, <2>1, <2>2, <2>3, <2>4, ClaimingKeeps DEF Transition
<1> QED BY <1>3, <1>4 DEF Claim

LEMMA ResolveKeeps ==
  ASSUME LInv, NEW c \in Calls,
         ResolveSucceeded(c) \/ ResolveNotApplied(c) \/ ResolveUnknown(c)
  PROVE  LInv'
<1> DEFINE i == call[c]
           j == i.id
<1>1. /\ UNCHANGED <<ledger, returns, restocked, exchange>>
      /\ i \in CallRows /\ CallsGood /\ i.pc \in {"succeeded", "not_applied", "unknown"}
  BY OfCall DEF ResolveSucceeded, ResolveNotApplied, ResolveUnknown, At, logistics,
     returning, others
<1>2. /\ j \in CancellationIds /\ i.next = None /\ i.source = TheOrder
      /\ i.held \in OrderRows /\ i.next # "release"
  BY <1>1, CancellingCall DEF Cancelling, HoldingOrder, Resolving
<1>3. MinorTyped'
  BY <1>1, <1>2, OfCall DEF ResolveSucceeded, ResolveNotApplied, ResolveUnknown,
     returning, others, logistics, MinorTyped
<1>4. ASSUME Return(c), cancellation' = cancellation
      PROVE  LInv'
  BY <1>1, <1>3, <1>4, ReturnKeeps
<1>5. /\ i.inline => From(c) = "completed" /\ Executes(i, j)
      /\ ~ i.inline => From(c) = "mutation_uncertain"
  BY <1>1 DEF From, Executes, Resolving
<1>6. CASE ResolveSucceeded(c) /\ Status(c) = From(c)
  <2> DEFINE r == [i EXCEPT !.pc = "put_order"]
  <2>1. call' = [call EXCEPT ![c] = r]
    BY <1>1, <1>6, GotoCall DEF ResolveSucceeded
  <2>2. /\ r.id = j /\ r.source = TheOrder /\ r.next = None /\ r.pc = "put_order"
        /\ r.held = i.held /\ r \in CallRows
    BY <1>1, <1>2 DEF CallRows, Pcs, Cancelling
  <2>3. cancellation' = [cancellation EXCEPT ![j] = "completed"] /\ cancellation[j] = From(c)
    BY <1>6 DEF ResolveSucceeded, Transition, Status
  <2> HIDE DEF r
  <2>4. CallGood(r, reservation, exchange)
    BY <1>2, <2>2, Basics DEF CallGood, Cancelling, HoldingOrder, Settling, Restocking,
       Exchanging, Resolving
  <2>5. CASE i.inline
    <3>1. \A k \in CancellationIds : Executes(r, k) => Executes(i, k)
      BY <1>5, <2>2, <2>5 DEF Executes
    <3>2. cancellation[j] # None /\ "completed" \in CancellationStatuses
      BY <1>5, <2>3, <2>5, Basics DEF CancellationStatuses
    <3> QED BY <1>1, <1>2, <1>3, <2>1, <2>2, <2>3, <2>4, <3>1, <3>2, TransitionKeeps
  <2>6. CASE ~ i.inline
    <3>1. cancellation[j] \notin {None, "completed"}
      BY <1>5, <2>3, <2>6, Basics DEF CancellationStatuses
    <3> QED BY <1>1, <1>2, <1>3, <2>1, <2>2, <2>3, <2>4, <3>1, ClaimingKeeps
  <2> QED BY <2>5, <2>6
<1>7. ASSUME NEW status \in CancellationStatuses, Status(c) = From(c),
             cancellation' = [cancellation EXCEPT ![j] = status],
             NEW r, call' = [call EXCEPT ![c] = r], CallGood(r, reservation, exchange),
             r.pc \in {"idle", "read"}, \A k \in CancellationIds : ~ Executes(r, k)
      PROVE  LInv'
  <2>1. cancellation[j] = From(c)
    BY <1>7 DEF Status
  <2>2. cancellation[j] # None
    BY <1>5, <2>1, Basics DEF CancellationStatuses
  <2>3. cancellation[j] = "completed" => Executes(i, j)
    BY <1>5, <2>1
  <2> QED BY <1>1, <1>2, <1>3, <1>7, <2>2, <2>3, TransitionKeeps
<1>8. CASE ResolveNotApplied(c) /\ Status(c) = From(c)
  <2>1. cancellation' = [cancellation EXCEPT ![j] = "approved"]
        /\ "approved" \in CancellationStatuses
    BY <1>8 DEF ResolveNotApplied, Transition, CancellationStatuses
  <2>2. CASE i.inline
    <3>1. call' = [call EXCEPT ![c] = Idle]
      BY <1>8, <2>2 DEF ResolveNotApplied, Return
    <3> QED BY <1>7, <1>8, <2>1, <3>1, IdleGood
  <2>3. CASE ~ i.inline
    <3> DEFINE r == [i EXCEPT !.pc = "read", !.inline = TRUE]
    <3>1. call' = [call EXCEPT ![c] = r]
      BY <1>1, <1>8, <2>3 DEF ResolveNotApplied, CallsGood
    <3>2. /\ r.id = j /\ r.source = TheOrder /\ r.next = None /\ r.pc = "read"
          /\ r.held = i.held /\ r \in CallRows
      BY <1>1, <1>2, ZenonT(30) DEF CallRows, Pcs, Cancelling
    <3> HIDE DEF r
    <3>3. CallGood(r, reservation, exchange)
      BY <1>2, <3>2, Basics DEF CallGood, Cancelling, HoldingOrder, Settling, Restocking,
         Exchanging, Resolving
    <3>4. \A k \in CancellationIds : ~ Executes(r, k)
      BY <3>2, Basics DEF Executes, Resolving, Settling
    <3> QED BY <1>7, <1>8, <2>1, <3>1, <3>2, <3>3, <3>4
  <2> QED BY <2>2, <2>3
<1>9. CASE ResolveUnknown(c) /\ Status(c) = From(c)
  <2>1. cancellation' = [cancellation EXCEPT ![j] = "mutation_uncertain"]
        /\ "mutation_uncertain" \in CancellationStatuses
    BY <1>9 DEF ResolveUnknown, Transition, CancellationStatuses
  <2>2. call' = [call EXCEPT ![c] = Idle]
    BY <1>9 DEF ResolveUnknown, Return
  <2> QED BY <1>7, <1>9, <2>1, <2>2, IdleGood
<1>10. CASE Status(c) # From(c)
  BY <1>4, <1>10 DEF ResolveSucceeded, ResolveNotApplied, ResolveUnknown
<1> QED BY <1>6, <1>8, <1>9, <1>10

LEMMA RowsCounted ==
  ASSUME Sequenced
  PROVE  \E n \in 0..MaxCancellations :
           CancellationRows = 1..n /\ Cardinality(CancellationRows) = n
<1>1. PICK n \in 0..MaxCancellations : CancellationRows = 1..n
  BY DEF Sequenced
<1>2. n \in Nat
  BY LifecycleAssumption
<1>3. Cardinality(1..n) = n
  BY <1>2, FS_Interval
<1> QED BY <1>1, <1>3

LEMMA CreateCancellationKeeps ==
  ASSUME LInv, NEW c \in Calls, CreateCancellation(c)
  PROVE  LInv'
<1> DEFINE new == Cardinality(CancellationRows) + 1
           status == InitialStatus(call[c].held)
<1>1. /\ UNCHANGED <<ledger, returns, restocked, exchange>> /\ MinorTyped' /\ CallsGood
      /\ call' = [call EXCEPT ![c] = Idle]
      /\ cancellation' = [cancellation EXCEPT ![new] = status]
      /\ cancellation \in [CancellationIds -> CancellationStatuses \cup {None}]
  BY OfCall DEF CreateCancellation, Return, At, logistics, returning, others, MinorTyped,
     LInv, RowsGood, LifecycleTypeOK
<1>2. status \in {"denied", "approval_required", "eligible"}
  BY DEF InitialStatus
<1>3. status \in CancellationStatuses /\ status # "completed"
  BY <1>2 DEF CancellationStatuses
<1>4. PICK n \in 0..MaxCancellations :
        CancellationRows = 1..n /\ Cardinality(CancellationRows) = n
  BY RowsCounted DEF LInv
<1>5. new = n + 1 /\ n \in Nat /\ MaxCancellations \in Nat
  BY <1>4, LifecycleAssumption
<1> HIDE DEF new, status
<1>6. cancellation' \in [CancellationIds -> CancellationStatuses \cup {None}]
  BY <1>1, <1>3
<1>7. \A k \in CancellationIds : cancellation'[k] = IF k = new THEN status ELSE cancellation[k]
  BY <1>1
<1>8. \A k \in CancellationIds : cancellation[k] # None <=> k \in 1..n
  BY <1>4 DEF CancellationRows
<1>9. \A k \in CancellationIds : cancellation[k] = "completed" => cancellation'[k] = "completed"
  <2>1. \A k \in CancellationIds : cancellation[k] = "completed" => k # new
    BY <1>5, <1>8, Basics DEF CancellationStatuses
  <2> QED BY <1>7, <2>1
<1>10. Sequenced'
  <2>1. \A k \in CancellationIds : cancellation'[k] # None <=> k \in 1..n+1
    BY <1>3, <1>5, <1>7, <1>8, Basics DEF CancellationIds
  <2>2. CancellationRows' = {k \in CancellationIds : cancellation'[k] # None}
    BY DEF CancellationRows
  <2>3. CASE n < MaxCancellations
    <3>1. CancellationRows' = 1..n+1
      BY <2>1, <2>2, <2>3, <1>5 DEF CancellationIds
    <3> QED BY <3>1, <2>3, <1>5 DEF Sequenced
  <2>4. CASE n = MaxCancellations
    <3>1. CancellationRows' = 1..n
      BY <2>1, <2>2, <2>4, <1>5 DEF CancellationIds
    <3> QED BY <3>1, <2>4, <1>5 DEF Sequenced
  <2> QED BY <2>3, <2>4, <1>4, <1>5
<1>11. OneExecutor'
  BY <1>1, <1>9, IdleGood, ExecutorKept DEF LInv
<1>12. ReleaseIsFinal'
  <2>1. Released(reservation') => Released(reservation)
    BY <1>1 DEF ledger
  <2> QED BY <1>1, <1>9, <2>1, IdleGood, FinalKept DEF LInv
<1> QED BY <1>1, <1>6, <1>10, <1>11, <1>12, IdleGood, StatusChangeKeeps

-----------------------------------------------------------------------------
(* The ledger moves.                                                       *)

LEMMA InventoryTyped ==
  ASSUME NEW inv \in Inventory, NEW n \in Nat
  PROVE  /\ Reserved(inv, n) \in Inventory /\ GivenBack(inv, n) \in Inventory
         /\ Shipped(inv, n) \in Inventory /\ Received(inv, n) \in Inventory
<1>1. Reserved(inv, n) \in Inventory
  <2>1. inv.reserved + n \in Nat /\ AtLeast0(inv.available - n) \in Nat
    BY DEF Inventory, AtLeast0
  <2> QED BY <2>1 DEF Inventory, Reserved
<1>2. GivenBack(inv, n) \in Inventory
  <2>1. AtLeast0(inv.reserved - n) \in Nat /\ inv.available + n \in Nat
    BY DEF Inventory, AtLeast0
  <2> QED BY <2>1 DEF Inventory, GivenBack
<1>3. Shipped(inv, n) \in Inventory
  <2>1. AtLeast0(inv.quantity - n) \in Nat /\ AtLeast0(inv.reserved - n) \in Nat
    BY DEF Inventory, AtLeast0
  <2> QED BY <2>1 DEF Inventory, Shipped
<1>4. Received(inv, n) \in Inventory
  <2>1. inv.quantity + n \in Nat /\ inv.available + n \in Nat
    BY DEF Inventory, AtLeast0
  <2> QED BY <2>1 DEF Inventory, Received
<1> QED BY <1>1, <1>2, <1>3, <1>4

LEMMA ReservedLine ==
  ASSUME LInv, NEW l \in Lines, reservation[l] # None
  PROVE  /\ RowGood(reservation[l]) /\ SlotOf(l) \in Slots
         /\ Applied(l, reservation[l].quantity_reserved) = Left(reservation[l])
         /\ Left(reservation[l]) \in Nat
         /\ inventory[SlotOf(l)] \in Inventory /\ inflow[SlotOf(l)] \in Nat
         /\ Consumed(l) = reservation[l].quantity_consumed /\ Consumed(l) \in 0..MaxUnits
<1>1. RowGood(reservation[l])
  BY DEF LInv, RowsGood
<1>2. SlotOf(l) \in Slots
  BY <1>1, LedgerAssumption DEF RowGood, InventoryReservation, SlotOf, Slots
<1>3. /\ Applied(l, reservation[l].quantity_reserved) = Left(reservation[l])
      /\ Left(reservation[l]) \in Nat
  BY <1>1, LedgerAssumption DEF RowGood, InventoryReservation, Applied, AtLeast0, Lesser,
     Outstanding, Left
<1>4. Consumed(l) = reservation[l].quantity_consumed /\ Consumed(l) \in 0..MaxUnits
  BY <1>1 DEF RowGood, InventoryReservation, Consumed
<1> QED BY <1>1, <1>2, <1>3, <1>4 DEF LInv, RowsGood, LifecycleTypeOK, TypeOK

LEMMA LedgerKeeps ==
  ASSUME LInv, TypeOK', UNCHANGED <<logistics, returning, rows>>,
         \A l \in Lines : reservation'[l] # None => RowGood(reservation'[l]),
         Grows(reservation, reservation'),
         \A l \in Lines : reservation[l] = None /\ reservation'[l] # None =>
           reservation'[l].quantity_consumed = 0,
         \A s \in Slots : inflow[s] <= inflow'[s],
         \A l \in Lines : MarkedBy(restocked', call', l) \subseteq MarkedBy(restocked, call, l),
         CallsGood', OneExecutor', ReleaseIsFinal', Returning(returns', call')
  PROVE  LInv'
<1>0. /\ order' = order /\ cancellation' = cancellation /\ shipment' = shipment
      /\ known' = known /\ cancelKey' = cancelKey /\ confirmed' = confirmed
      /\ returns' = returns /\ tracked' = tracked /\ restocked' = restocked
      /\ exchange' = exchange /\ shortage' = shortage
  BY DEF logistics, returning, others, rows
<1>1. LifecycleTypeOK'
  BY <1>0 DEF LInv, RowsGood, LifecycleTypeOK
<1>2. \A k \in DOMAIN exchange : exchange[k] = "reserved" => reservation'[Replacement] # None
  BY LifecycleAssumption DEF LInv, RowsGood, Grows
<1>3. RowsGood'
  BY <1>0, <1>1, <1>2 DEF RowsGood
<1>4. StockAdded'
  BY <1>3, StockKept DEF LInv
<1>5. Sequenced'
  BY <1>0, SequenceKept DEF LInv
<1> QED BY <1>3, <1>4, <1>5 DEF LInv

\* The last settlement of a row, and of the current line of a call.
SettlesRow(row, row2) ==
  /\ row2.location = row.location
  /\ row2.quantity_requested = row.quantity_requested
  /\ row2.quantity_reserved = row.quantity_reserved
  /\ \/ /\ row2.quantity_released = row.quantity_released + Left(row)
        /\ row2.quantity_consumed = row.quantity_consumed
     \/ /\ row2.quantity_released = row.quantity_released
        /\ row2.quantity_consumed = row.quantity_consumed + Left(row)

LEMMA SettledRowGood ==
  ASSUME NEW row, RowGood(row), NEW row2,
         \/ row2 = [row EXCEPT !.quantity_released = row.quantity_released + Left(row)]
         \/ row2 = [row EXCEPT !.quantity_consumed = row.quantity_consumed + Left(row)]
  PROVE  /\ RowGood(row2) /\ Left(row2) = 0 /\ row2.location = row.location
         /\ row.quantity_consumed > 0 => row2.quantity_consumed = row.quantity_consumed
<1>1. /\ row \in InventoryReservation /\ Left(row) >= 0
      /\ row.quantity_consumed > 0 => Left(row) = 0
  BY DEF RowGood
<1>2. SettlesRow(row, row2)
  BY <1>1 DEF SettlesRow, InventoryReservation
<1>3. /\ row.quantity_reserved \in 0..MaxUnits /\ row.quantity_released \in 0..MaxUnits
      /\ row.quantity_consumed \in 0..MaxUnits /\ MaxUnits \in Nat
  BY <1>1, LedgerAssumption DEF InventoryReservation
<1>4. /\ row2.quantity_released \in 0..MaxUnits /\ row2.quantity_consumed \in 0..MaxUnits
      /\ Left(row2) = 0
  BY <1>1, <1>2, <1>3 DEF SettlesRow, Left
<1>5. row2 = [location |-> row2.location, quantity_requested |-> row2.quantity_requested,
              quantity_reserved |-> row2.quantity_reserved,
              quantity_released |-> row2.quantity_released,
              quantity_consumed |-> row2.quantity_consumed]
  BY <1>1 DEF InventoryReservation
<1>6. row2 \in InventoryReservation
  BY <1>1, <1>2, <1>4, <1>5 DEF InventoryReservation, SettlesRow
<1> QED BY <1>1, <1>2, <1>3, <1>4, <1>6 DEF RowGood, SettlesRow

Settlement(l, row2) ==
  /\ reservation[l] # None
  /\ reservation' = [reservation EXCEPT ![l] = row2]
  /\ inflow' = inflow /\ inventory' \in [Slots -> Inventory]

LEMMA SettlingKeeps ==
  ASSUME LInv, NEW c \in Calls, NEW row2, Settlement(ThisLine(c), row2),
         LineDone(c), UNCHANGED <<logistics, returning, rows>>,
         LET row == reservation[ThisLine(c)] IN
           \/ /\ call[c].pc = "release"
              /\ row2 = [row EXCEPT !.quantity_released = row.quantity_released + Left(row)]
           \/ /\ call[c].pc = "consume"
              /\ row2 = [row EXCEPT !.quantity_consumed = row.quantity_consumed + Left(row)]
  PROVE  LInv'
<1> DEFINE i == call[c]
           l == Picked(i)
           row == reservation[l]
<1>0. /\ CallGood(i, reservation, exchange) /\ i \in CallRows /\ CallsGood
      /\ ThisLine(c) = l
      /\ cancellation' = cancellation /\ restocked' = restocked /\ returns' = returns
      /\ exchange' = exchange
  BY OfCall DEF ThisLine, Picked, logistics, returning, others, rows
<1>1. TodoGood(i, reservation) /\ i.next = i.pc /\ i.pc \in Settling
  BY <1>0 DEF CallGood, Settling
<1>2. l \in i.todo /\ l \in Lines /\ l \in LinesOf(i.source)
  BY <1>1, TodosPicked DEF TodoGood, LinesOf
<1>3. reservation \in [Lines -> InventoryReservation \cup {None}]
  BY DEF LInv, RowsGood, LifecycleTypeOK, TypeOK
<1>4. /\ row # None /\ RowGood(row) /\ reservation'[l] = row2
      /\ \A k \in Lines \ {l} : reservation'[k] = reservation[k]
      /\ \/ /\ i.pc = "release"
            /\ row2 = [row EXCEPT !.quantity_released = row.quantity_released + Left(row)]
         \/ /\ i.pc = "consume"
            /\ row2 = [row EXCEPT !.quantity_consumed = row.quantity_consumed + Left(row)]
  BY <1>0, <1>2, <1>3 DEF Settlement, LInv, RowsGood
<1>5. /\ RowGood(row2) /\ Left(row2) = 0 /\ row2.location = row.location
      /\ row.quantity_consumed > 0 => row2.quantity_consumed = row.quantity_consumed
  <2> HIDE DEF row
  <2> QED BY <1>4, SettledRowGood
<1>6. row2 # None
  BY <1>5, LedgerAssumption DEF RowGood
<1>7. Grows(reservation, reservation')
  BY <1>2, <1>4, <1>5, <1>6 DEF Grows
<1>8. TypeOK'
  <2>1. reservation' \in [Lines -> InventoryReservation \cup {None}]
    <3>1. row2 \in InventoryReservation
      BY <1>5 DEF RowGood
    <3>2. reservation' = [reservation EXCEPT ![l] = row2]
      BY <1>0, <1>2, <1>3 DEF Settlement
    <3> HIDE DEF l
    <3> QED BY <1>3, <3>1, <3>2
  <2> QED BY <2>1 DEF Settlement, TypeOK, LInv, RowsGood, LifecycleTypeOK
<1>9. CallGood(i, reservation', exchange)
  BY <1>0, <1>7, CallKept, SameGrows
<1>10. i.source = TheExchange => l = Replacement
  BY <1>2, Basics
<1>11. PICK r \in CallRows :
         /\ call' = [call EXCEPT ![c] = r] /\ CallGood(r, reservation', exchange)
         /\ r.pc \notin {"mark", "create_return"}
         /\ \A k \in CancellationIds : Executes(r, k) =>
              Executes(call[c], k) /\ r.next = call[c].next
  BY <1>0, <1>1, <1>4, <1>5, <1>9, <1>10, LineIsDone
<1>12. CallsGood'
  BY <1>0, <1>7, <1>11, CallsKept, SameGrows
<1>13. OneExecutor'
  BY <1>0, <1>11, ExecutorKept DEF LInv
<1>14. ReleaseIsFinal'
  <2>1. CASE Released(reservation') => Released(reservation)
    BY <1>0, <1>11, <2>1, FinalKept DEF LInv
  <2>2. CASE Released(reservation') /\ ~ Released(reservation)
    <3>1. PICK m \in LinesOf(TheOrder) :
            reservation'[m] # None /\ reservation'[m].quantity_released > 0
      BY <2>2 DEF Released
    <3>2. m = l
      BY <1>4, <2>2, <3>1 DEF Released, LinesOf
    <3>3. i.source = TheOrder
      BY <1>0, <1>10, <3>1, <3>2, Basics DEF CallRows
    <3>4. i.pc = "release"
      <4>1. ~ (row.quantity_released > 0)
        BY <1>4, <2>2, <3>1, <3>2 DEF Released
      <4>2. CASE i.pc = "consume"
        <5>1. row2.quantity_released = row.quantity_released
          BY <1>4, <4>2 DEF RowGood, InventoryReservation
        <5> QED BY <1>4, <3>1, <3>2, <4>1, <5>1
      <4> QED BY <1>4, <4>2
    <3>5. i.next = "release" /\ i.id \in CancellationIds
      BY <1>0, <1>1, <3>3, <3>4 DEF CallGood
    <3>6. Executes(i, i.id)
      BY <3>3, <3>5 DEF Executes
    <3>7. /\ cancellation[i.id] = "completed"
          /\ \A d \in Calls : Executes(call[d], i.id) => d = c
      BY <3>5, <3>6 DEF LInv, OneExecutor
    <3>8. ASSUME NEW d \in Calls, Executes(call'[d], i.id)
          PROVE  call'[d].next = "release"
      <4>1. CASE d = c
        BY <1>0, <1>11, <3>5, <3>8, <4>1, OnlyCall
      <4>2. CASE d # c
        BY <1>0, <1>11, <3>7, <3>8, <4>2, OnlyCall
      <4> QED BY <4>1, <4>2
    <3> HIDE DEF i
    <3> QED BY <1>0, <3>5, <3>7, <3>8 DEF ReleaseIsFinal
  <2> QED BY <2>1, <2>2
<1>15. Returning(returns', call')
  BY <1>0, <1>11, ReturningKept DEF LInv
<1>16. \A m \in Lines : MarkedBy(restocked', call', m) \subseteq MarkedBy(restocked, call, m)
  BY <1>0, <1>11, MarkedKept
<1>17. \A m \in Lines : reservation'[m] # None => RowGood(reservation'[m])
  BY <1>4, <1>5 DEF LInv, RowsGood
<1>18. \A m \in Lines : reservation[m] = None /\ reservation'[m] # None =>
         reservation'[m].quantity_consumed = 0
  BY <1>4
<1>19. \A s \in Slots : inflow[s] <= inflow'[s]
  BY DEF Settlement, LInv, RowsGood, LifecycleTypeOK, TypeOK
<1> QED BY <1>7, <1>8, <1>12, <1>13, <1>14, <1>15, <1>16, <1>17, <1>18, <1>19, LedgerKeeps

LEMMA PickedLine ==
  ASSUME LInv, NEW c \in Calls, call[c].pc \in Settling \cup Restocking
  PROVE  /\ ThisLine(c) \in Lines /\ reservation[ThisLine(c)] # None
         /\ ThisLine(c) = Picked(call[c]) /\ ThisLine(c) \in LinesOf(call[c].source)
         /\ call[c].pc \in Restocking => reservation[ThisLine(c)].quantity_consumed > 0
<1>1. TodoGood(call[c], reservation)
  BY OfCall DEF CallGood
<1>2. ThisLine(c) = Picked(call[c])
  BY DEF ThisLine, Picked
<1>3. ThisLine(c) \in call[c].todo
  BY <1>1, <1>2, TodosPicked DEF TodoGood
<1> QED BY <1>1, <1>2, <1>3 DEF TodoGood, LinesOf

LEMMA ConsumeKeeps ==
  ASSUME LInv, NEW c \in Calls, Consume(c)
  PROVE  LInv'
<1> DEFINE l == ThisLine(c)
<1>1. call[c].pc = "consume" /\ l \in Lines /\ reservation[l] # None
  BY PickedLine DEF Consume, At, Settling
<1>2. /\ Applied(l, reservation[l].quantity_reserved) = Left(reservation[l])
      /\ Left(reservation[l]) \in Nat /\ inventory[SlotOf(l)] \in Inventory
  BY <1>1, ReservedLine
<1>3. Shipped(inventory[SlotOf(l)], Left(reservation[l])) \in Inventory
  BY <1>2, InventoryTyped
<1>4. inventory \in [Slots -> Inventory]
  BY DEF LInv, RowsGood, LifecycleTypeOK, TypeOK
<1> DEFINE row2 == [reservation[l] EXCEPT !.quantity_consumed = reservation[l].quantity_consumed
                                                               + Left(reservation[l])]
<1>5. /\ reservation' = [reservation EXCEPT ![l] = row2]
      /\ inventory' = [inventory EXCEPT ![SlotOf(l)] = Shipped(@, Left(reservation[l]))]
      /\ inflow' = inflow
  BY <1>2 DEF Consume, ConsumeReservation
<1>6. inventory' \in [Slots -> Inventory]
  BY <1>3, <1>4, <1>5
<1>7. Settlement(l, row2)
  BY <1>1, <1>5, <1>6 DEF Settlement
<1> QED BY <1>1, <1>7, SettlingKeeps DEF Consume

LEMMA ReleaseKeeps ==
  ASSUME LInv, NEW c \in Calls, Release(c)
  PROVE  LInv'
<1> DEFINE l == ThisLine(c)
<1>1. call[c].pc = "release" /\ l \in Lines /\ reservation[l] # None
  BY PickedLine DEF Release, At, Settling
<1>2. /\ Applied(l, reservation[l].quantity_reserved) = Left(reservation[l])
      /\ Left(reservation[l]) \in Nat /\ inventory[SlotOf(l)] \in Inventory
  BY <1>1, ReservedLine
<1>3. GivenBack(inventory[SlotOf(l)], Left(reservation[l])) \in Inventory
  BY <1>2, InventoryTyped
<1>4. inventory \in [Slots -> Inventory]
  BY DEF LInv, RowsGood, LifecycleTypeOK, TypeOK
<1> DEFINE row2 == [reservation[l] EXCEPT !.quantity_released = reservation[l].quantity_released
                                                               + Left(reservation[l])]
<1>5. /\ reservation' = [reservation EXCEPT ![l] = row2]
      /\ inventory' = [inventory EXCEPT ![SlotOf(l)] = GivenBack(@, Left(reservation[l]))]
      /\ inflow' = inflow
  BY <1>2 DEF Release, ReleaseReservation
<1>6. inventory' \in [Slots -> Inventory]
  BY <1>3, <1>4, <1>5
<1>7. Settlement(l, row2)
  BY <1>1, <1>5, <1>6 DEF Settlement
<1> QED BY <1>1, <1>7, SettlingKeeps DEF Release

LEMMA AdjustKeeps ==
  ASSUME LInv, NEW c \in Calls, Adjust(c)
  PROVE  LInv'
<1> DEFINE i == call[c]
           l == Picked(i)
           row == reservation[l]
           s == SlotOf(l)
           r == [i EXCEPT !.pc = "mark"]
<1>0. /\ CallGood(i, reservation, exchange) /\ i \in CallRows /\ CallsGood
      /\ ThisLine(c) = l /\ i.pc = "adjust"
      /\ cancellation' = cancellation /\ restocked' = restocked /\ returns' = returns
      /\ exchange' = exchange /\ reservation' = reservation
      /\ UNCHANGED <<logistics, returning, rows>>
  BY OfCall DEF Adjust, At, AdjustInventory, ThisLine, Picked, logistics, returning, others, rows
<1>1. l \in Lines /\ row # None
  BY <1>0, PickedLine DEF Restocking
<1>2. /\ RowGood(row) /\ s \in Slots /\ inventory[s] \in Inventory /\ inflow[s] \in Nat
      /\ Consumed(l) = row.quantity_consumed /\ Consumed(l) \in Nat
  BY <1>1, ReservedLine, LedgerAssumption
<1>3. inventory \in [Slots -> Inventory] /\ inflow \in [Slots -> Nat]
  BY DEF LInv, RowsGood, LifecycleTypeOK, TypeOK
<1>4. /\ inventory' = [inventory EXCEPT ![s] = Received(@, Consumed(l))]
      /\ inflow' = [inflow EXCEPT ![s] = @ + Consumed(l)]
  BY <1>0 DEF Adjust, AdjustInventory
<1>5. Received(inventory[s], Consumed(l)) \in Inventory
  BY <1>2, InventoryTyped
<1>6. inventory' \in [Slots -> Inventory] /\ inflow' \in [Slots -> Nat]
  <2> HIDE DEF s, l
  <2> QED BY <1>2, <1>3, <1>4, <1>5
<1>7. TypeOK' /\ LifecycleTypeOK'
  BY <1>0, <1>6 DEF LInv, RowsGood, LifecycleTypeOK, TypeOK, logistics, returning, others, rows
<1>8. RowsGood'
  BY <1>0, <1>7 DEF LInv, RowsGood
<1>9. /\ r.pc = "mark" /\ r.next = i.next /\ r.source = i.source /\ r.id = i.id
      /\ r.flow = i.flow /\ r.result = i.result /\ r.todo = i.todo /\ r \in CallRows
  BY <1>0 DEF CallRows, Pcs, Restocking
<1>10. call' = [call EXCEPT ![c] = r]
  BY <1>0, GotoCall DEF Adjust
<1> HIDE DEF r
<1>11. /\ i.source = TheOrder /\ i.flow \in Flows /\ TodoGood(i, reservation)
       /\ i.next = "restock"
  BY <1>0 DEF CallGood, Restocking
<1>12. CallGood(r, reservation, exchange)
  <2>1. TodoGood(r, reservation)
    BY <1>0, <1>9, <1>11 DEF TodoGood, Restocking
  <2> HIDE DEF i
  <2> QED BY <1>0, <1>9, <1>11, <2>1, Basics DEF CallGood, Cancelling, HoldingOrder,
       Settling, Restocking, Exchanging, Resolving
<1>13. CallsGood'
  BY <1>0, <1>10, <1>12, CallsKept, SameGrows
<1>14. \A k \in CancellationIds : ~ Executes(r, k)
  BY <1>9, <1>11 DEF Executes, Resolving
<1>15. OneExecutor' /\ ReleaseIsFinal' /\ Returning(returns', call') /\ Sequenced'
  BY <1>0, <1>9, <1>10, <1>14, ExecutorKept, FinalKept, ReturningKept, SequenceKept DEF LInv
<1>16. Picked(r) = l
  BY <1>9 DEF Picked
<1>17. \A m \in Lines :
         /\ MarkedBy(restocked', call', m) \subseteq MarkedBy(restocked, call, m) \cup {i.flow}
         /\ m # l => MarkedBy(restocked', call', m) \subseteq MarkedBy(restocked, call, m)
  <2> SUFFICES ASSUME NEW m \in Lines, NEW f \in MarkedBy(restocked', call', m)
               PROVE  f \in MarkedBy(restocked, call, m) \/ (m = l /\ f = i.flow)
    OBVIOUS
  <2>1. CASE <<f, m>> \in restocked'
    BY <1>0, <2>1 DEF MarkedBy
  <2>2. CASE \E d \in Calls : call'[d].pc = "mark" /\ call'[d].flow = f /\ Picked(call'[d]) = m
    <3>1. PICK d \in Calls : call'[d].pc = "mark" /\ call'[d].flow = f /\ Picked(call'[d]) = m
      BY <2>2
    <3>2. CASE d = c
      BY <1>0, <1>9, <1>10, <1>16, <3>1, <3>2, OnlyCall
    <3>3. CASE d # c
      BY <1>0, <1>10, <3>1, <3>3, OnlyCall DEF MarkedBy
    <3> QED BY <3>2, <3>3
  <2> QED BY <2>1, <2>2 DEF MarkedBy
<1>18. StockAdded'
  <2>1. ASSUME NEW f \in Flows, NEW m \in Lines, <<f, m>> \in restocked'
        PROVE  reservation'[m] # None /\ reservation'[m].quantity_consumed > 0
    BY <1>0, <2>1 DEF LInv, StockAdded
  <2>2. ASSUME NEW m \in Lines, reservation'[m] # None
        PROVE  LineRestocked(restocked', call', reservation'[m], m, inflow')
    <3> DEFINE M == MarkedBy(restocked, call, m)
               M2 == MarkedBy(restocked', call', m)
               q == reservation[m].quantity_consumed
               t == <<LineSku[m], reservation[m].location>>
    <3>1. /\ Cardinality(M) \in Nat /\ IsFiniteSet(M)
          /\ Cardinality(M2) \in Nat
      BY MarkedFinite
    <3>2. /\ t \in Slots /\ inflow[t] \in Nat /\ q \in Nat /\ t = SlotOf(m)
      BY <1>0, <2>2, ReservedLine, LedgerAssumption DEF SlotOf
    <3>3. Cardinality(M) * q <= inflow[t]
      BY <1>0, <2>2 DEF LInv, StockAdded, LineRestocked
    <3>4. inflow[t] <= inflow'[t] /\ inflow'[t] \in Nat
      <4>1. inflow'[t] = IF t = s THEN inflow[t] + Consumed(l) ELSE inflow[t]
        BY <1>3, <1>4, <3>2
      <4> QED BY <4>1, <1>2, <3>2
    <3>5. CASE m # l
      <4>1. Cardinality(M2) <= Cardinality(M)
        BY <1>17, <3>1, <3>5, FS_Subset
      <4> HIDE DEF M, M2, q, t
      <4>2. Cardinality(M2) * q <= Cardinality(M) * q
        BY <3>1, <3>2, <4>1, Multiplied
      <4>3. Cardinality(M2) * q \in Nat /\ Cardinality(M) * q \in Nat
        BY <3>1, <3>2
      <4>4. Cardinality(M2) * q <= inflow'[t]
        BY <3>2, <3>3, <3>4, <4>2, <4>3
      <4> QED BY <1>0, <4>4 DEF M2, q, t, LineRestocked
    <3>6. CASE m = l
      <4>1. inflow'[t] = inflow[t] + q
        BY <1>2, <1>3, <1>4, <3>2, <3>6
      <4>2. IsFiniteSet(M \cup {i.flow}) /\ Cardinality(M \cup {i.flow}) <= Cardinality(M) + 1
            /\ Cardinality(M \cup {i.flow}) \in Nat
        <5> DEFINE f == i.flow
        <5> HIDE DEF M, f
        <5>1. /\ IsFiniteSet(M \cup {f})
              /\ Cardinality(M \cup {f}) =
                   IF f \in M THEN Cardinality(M) ELSE Cardinality(M) + 1
          BY <3>1, FS_AddElement
        <5> QED BY <3>1, <5>1 DEF f
      <4>3. M2 \subseteq M \cup {i.flow}
        BY <1>17
      <4>4. Cardinality(M2) <= Cardinality(M) + 1
        <5>1. Cardinality(M2) <= Cardinality(M \cup {i.flow})
          BY <4>2, <4>3, FS_Subset
        <5> QED BY <3>1, <4>2, <5>1
      <4> HIDE DEF M, M2, q, t
      <4>5. Cardinality(M2) * q <= (Cardinality(M) + 1) * q
        BY <3>1, <3>2, <4>4, Multiplied
      <4>6. (Cardinality(M) + 1) * q = Cardinality(M) * q + q
        BY <3>1, <3>2
      <4>7. Cardinality(M2) * q \in Nat /\ Cardinality(M) * q \in Nat
        BY <3>1, <3>2
      <4>8. Cardinality(M2) * q <= inflow'[t]
        BY <3>2, <3>3, <4>1, <4>5, <4>6, <4>7
      <4> QED BY <1>0, <4>8 DEF M2, q, t, LineRestocked
    <3> QED BY <3>5, <3>6
  <2> QED BY <2>1, <2>2 DEF StockAdded
<1> QED BY <1>8, <1>13, <1>15, <1>18 DEF LInv

LEMMA MarkKeeps ==
  ASSUME LInv, NEW c \in Calls, Mark(c)
  PROVE  LInv'
<1> DEFINE i == call[c]
           l == Picked(i)
<1>0. /\ CallGood(i, reservation, exchange) /\ i \in CallRows /\ CallsGood
      /\ ThisLine(c) = l /\ i.pc = "mark"
      /\ order' = order /\ cancellation' = cancellation /\ shipment' = shipment
      /\ known' = known /\ cancelKey' = cancelKey /\ confirmed' = confirmed
      /\ returns' = returns /\ tracked' = tracked /\ inventory' = inventory
      /\ exchange' = exchange /\ shortage' = shortage
      /\ reservation' = reservation /\ inflow' = inflow
      /\ restocked' = restocked \cup {<<i.flow, l>>}
  BY OfCall DEF Mark, At, ThisLine, Picked, ledger, logistics, others, rows
<1>1. l \in Lines /\ i.flow \in Flows /\ i.source = TheOrder
  BY <1>0, PickedLine DEF Restocking, CallGood
<1>2. RowsGood'
  <2>1. restocked' \subseteq Flows \X Lines
    BY <1>0, <1>1 DEF LInv, RowsGood, LifecycleTypeOK
  <2> QED BY <1>0, <2>1 DEF LInv, RowsGood, LifecycleTypeOK, TypeOK
<1>3. PICK r \in CallRows :
        /\ call' = [call EXCEPT ![c] = r] /\ CallGood(r, reservation, exchange)
        /\ r.pc \notin {"mark", "create_return"}
        /\ \A k \in CancellationIds : Executes(r, k) =>
             Executes(call[c], k) /\ r.next = call[c].next
  BY <1>0, <1>1, Basics, LineIsDone DEF Restocking, Mark
<1>4. CallsGood'
  BY <1>0, <1>3, CallsKept, SameGrows
<1>5. OneExecutor' /\ ReleaseIsFinal' /\ Returning(returns', call') /\ Sequenced'
  BY <1>0, <1>3, ExecutorKept, FinalKept, ReturningKept, SequenceKept DEF LInv
<1>6. ASSUME NEW m \in Lines
      PROVE  MarkedBy(restocked', call', m) \subseteq MarkedBy(restocked, call, m)
  <2> SUFFICES ASSUME NEW f \in MarkedBy(restocked', call', m)
               PROVE  f \in MarkedBy(restocked, call, m)
    OBVIOUS
  <2>1. CASE <<f, m>> \in restocked
    BY <2>1 DEF MarkedBy
  <2>2. CASE f = i.flow /\ m = l
    BY <1>0, <1>1, <2>2 DEF MarkedBy
  <2>3. CASE \E d \in Calls : call'[d].pc = "mark" /\ call'[d].flow = f /\ Picked(call'[d]) = m
    BY <1>0, <1>3, <2>3, OnlyCall DEF MarkedBy
  <2> QED BY <1>0, <2>1, <2>2, <2>3 DEF MarkedBy
<1>7. StockAdded'
  <2>1. \A s \in Slots : inflow[s] <= inflow'[s]
    BY <1>0 DEF LInv, RowsGood, LifecycleTypeOK, TypeOK
  <2> QED BY <1>0, <1>2, <1>6, <2>1, StockKept, SameGrows DEF LInv
<1> QED BY <1>2, <1>4, <1>5, <1>7 DEF LInv

LEMMA DemandTyped ==
  ASSUME NEW o, NEW sku
  PROVE  OrderDemand(o, sku) \in Nat
<1>1. IsFiniteSet(Lines) /\ IsFiniteSet(1..MaxUnits)
  BY LedgerAssumption, FS_Interval
<1>2. IsFiniteSet(Lines \X (1..MaxUnits))
  BY <1>1, FS_Product
<1>3. Units({l \in LinesOf(o) : LineSku[l] = sku}, LineQty) \subseteq Lines \X (1..MaxUnits)
  BY DEF Units, LinesOf
<1> QED BY <1>2, <1>3, FS_Subset, FS_CardinalityType DEF OrderDemand

LEMMA NewRowGood ==
  ASSUME NEW location \in Locations, NEW l \in Lines, NEW n \in 0..MaxUnits
  PROVE  LET row == NewReservation(location, LineQty[l], n) IN
         /\ RowGood(row) /\ row # None
         /\ row.quantity_released = 0 /\ row.quantity_consumed = 0
         /\ row.quantity_reserved = n
<1> DEFINE row == NewReservation(location, LineQty[l], n)
<1>1. row \in InventoryReservation
  BY LedgerAssumption DEF NewReservation, InventoryReservation
<1>2. Left(row) = n /\ n >= 0
  BY LedgerAssumption DEF NewReservation, Left
<1> QED BY <1>1, <1>2, LedgerAssumption DEF RowGood, NewReservation

\* Reserving lines that had no reservation, whatever their location.
LEMMA NewRowsKeep ==
  ASSUME LInv, NEW ls \in SUBSET Lines, inventory' \in [Slots -> Inventory], inflow' = inflow,
         reservation' \in [Lines -> InventoryReservation \cup {None}],
         \A l \in ls : /\ reservation[l] = None /\ RowGood(reservation'[l])
                       /\ reservation'[l] # None /\ reservation'[l].quantity_released = 0
                       /\ reservation'[l].quantity_consumed = 0,
         \A l \in Lines \ ls : reservation'[l] = reservation[l]
  PROVE  /\ TypeOK' /\ Grows(reservation, reservation')
         /\ \A l \in Lines : reservation'[l] # None => RowGood(reservation'[l])
         /\ \A l \in Lines : reservation[l] = None /\ reservation'[l] # None =>
              reservation'[l].quantity_consumed = 0
         /\ Released(reservation') => Released(reservation)
         /\ \A s \in Slots : inflow[s] <= inflow'[s]
<1>1. TypeOK' /\ \A s \in Slots : inflow[s] <= inflow'[s]
  BY DEF LInv, RowsGood, LifecycleTypeOK, TypeOK
<1>2. Grows(reservation, reservation')
  BY DEF Grows
<1>3. \A l \in Lines : reservation'[l] # None => RowGood(reservation'[l])
  BY DEF LInv, RowsGood
<1>4. \A l \in Lines : reservation[l] = None /\ reservation'[l] # None =>
        reservation'[l].quantity_consumed = 0
  OBVIOUS
<1>5. Released(reservation') => Released(reservation)
  BY DEF Released, LinesOf
<1> QED BY <1>1, <1>2, <1>3, <1>4, <1>5

LEMMA ReserveInventoryRows ==
  ASSUME LInv, NEW l \in Lines, NEW location \in Locations, ReserveInventory(l, location)
  PROVE  /\ TypeOK' /\ Grows(reservation, reservation')
         /\ \A k \in Lines : reservation'[k] # None => RowGood(reservation'[k])
         /\ \A k \in Lines : reservation[k] = None /\ reservation'[k] # None =>
              reservation'[k].quantity_consumed = 0
         /\ Released(reservation') => Released(reservation)
         /\ \A s \in Slots : inflow[s] <= inflow'[s]
         /\ reservation'[l] # None
<1> DEFINE s == <<LineSku[l], location>>
           n == Lesser(Reservable(inventory[s]), LineQty[l])
           row == NewReservation(location, LineQty[l], n)
<1>1. s \in Slots /\ inventory \in [Slots -> Inventory]
      /\ reservation \in [Lines -> InventoryReservation \cup {None}]
  BY LedgerAssumption DEF Slots, LInv, RowsGood, LifecycleTypeOK, TypeOK
<1>2. n \in 0..MaxUnits /\ n \in Nat
  <2>1. inventory[s].quantity \in Nat /\ inventory[s].reserved \in Nat
    BY <1>1 DEF Inventory
  <2>2. LineQty[l] \in 1..MaxUnits /\ MaxUnits \in Nat
    BY LedgerAssumption
  <2> QED BY <2>1, <2>2 DEF Lesser, Reservable, AtLeast0
<1>3. Reserved(inventory[s], n) \in Inventory
  BY <1>1, <1>2, InventoryTyped
<1>4. /\ reservation[l] = None /\ reservation' = [reservation EXCEPT ![l] = row]
      /\ inventory' = [inventory EXCEPT ![s] = Reserved(@, n)] /\ inflow' = inflow
  BY DEF ReserveInventory
<1>5. RowGood(row) /\ row # None /\ row.quantity_released = 0 /\ row.quantity_consumed = 0
  BY <1>2, NewRowGood
<1>6. row \in InventoryReservation
  BY <1>5 DEF RowGood
<1> HIDE DEF s, n, row
<1>7. /\ inventory' \in [Slots -> Inventory]
      /\ reservation' \in [Lines -> InventoryReservation \cup {None}]
      /\ reservation'[l] = row
      /\ \A k \in Lines \ {l} : reservation'[k] = reservation[k]
  BY <1>1, <1>3, <1>4, <1>6
<1>8. {l} \in SUBSET Lines /\ Lines \ {l} = {k \in Lines : k \notin {l}}
  OBVIOUS
<1>9. \A k \in {l} : /\ reservation[k] = None /\ RowGood(reservation'[k])
                    /\ reservation'[k] # None /\ reservation'[k].quantity_released = 0
                    /\ reservation'[k].quantity_consumed = 0
  BY <1>4, <1>5, <1>7
<1>10. inflow' = inflow /\ reservation'[l] # None
  BY <1>4, <1>5, <1>7
<1> QED BY <1>7, <1>8, <1>9, <1>10, NewRowsKeep

LEMMA ReserveOrderRows ==
  ASSUME LInv, NEW location \in Locations, ReserveOrderLines(TheOrder, location)
  PROVE  /\ TypeOK' /\ Grows(reservation, reservation')
         /\ \A k \in Lines : reservation'[k] # None => RowGood(reservation'[k])
         /\ \A k \in Lines : reservation[k] = None /\ reservation'[k] # None =>
              reservation'[k].quantity_consumed = 0
         /\ Released(reservation') => Released(reservation)
         /\ \A s \in Slots : inflow[s] <= inflow'[s]
<1> DEFINE row(l) == NewReservation(location, LineQty[l], LineQty[l])
           ls == LinesOf(TheOrder)
<1>1. inventory \in [Slots -> Inventory]
      /\ reservation \in [Lines -> InventoryReservation \cup {None}]
  BY DEF LInv, RowsGood, LifecycleTypeOK, TypeOK
<1>2. ASSUME NEW l \in Lines
      PROVE  /\ RowGood(row(l)) /\ row(l) # None /\ row(l).quantity_released = 0
             /\ row(l).quantity_consumed = 0 /\ row(l) \in InventoryReservation
  <2>1. LineQty[l] \in 0..MaxUnits
    BY LedgerAssumption
  <2> QED BY <2>1, NewRowGood DEF RowGood
<1>3. /\ \A l \in ls : reservation[l] = None
      /\ reservation' = [l \in Lines |-> IF l \in ls THEN row(l) ELSE reservation[l]]
      /\ inventory' = [s \in Slots |->
           IF s[2] = location THEN Reserved(inventory[s], OrderDemand(TheOrder, s[1]))
           ELSE inventory[s]]
      /\ inflow' = inflow
  BY DEF ReserveOrderLines, CanReserveOrder
<1>4. ls \in SUBSET Lines
  BY DEF LinesOf
<1>5. inventory' \in [Slots -> Inventory]
  <2>1. \A s \in Slots : Reserved(inventory[s], OrderDemand(TheOrder, s[1])) \in Inventory
    BY <1>1, DemandTyped, InventoryTyped
  <2> QED BY <1>1, <1>3, <2>1
<1> HIDE DEF row, ls
<1>6. /\ reservation' \in [Lines -> InventoryReservation \cup {None}]
      /\ \A l \in ls : reservation'[l] = row(l)
      /\ \A l \in Lines \ ls : reservation'[l] = reservation[l]
  BY <1>1, <1>2, <1>3, <1>4
<1> QED BY <1>2, <1>3, <1>4, <1>5, <1>6, NewRowsKeep

LEMMA AllocateKeeps ==
  ASSUME LInv, NEW location \in Locations, Allocate(location)
  PROVE  LInv'
<1>0. /\ UNCHANGED <<logistics, returning, rows>> /\ call' = call
      /\ cancellation' = cancellation /\ restocked' = restocked /\ returns' = returns
      /\ exchange' = exchange
  BY DEF Allocate, logistics, returning, others, rows
<1>1. /\ TypeOK' /\ Grows(reservation, reservation')
      /\ \A k \in Lines : reservation'[k] # None => RowGood(reservation'[k])
      /\ \A k \in Lines : reservation[k] = None /\ reservation'[k] # None =>
           reservation'[k].quantity_consumed = 0
      /\ Released(reservation') => Released(reservation)
      /\ \A s \in Slots : inflow[s] <= inflow'[s]
  BY ReserveInventoryRows, ReserveOrderRows DEF Allocate, LinesOf
<1>2. CallsGood'
  <2>1. ASSUME NEW d \in Calls
        PROVE  CallGood(call'[d], reservation', exchange')
    BY <1>0, <1>1, CallKept, SameGrows DEF LInv, CallsGood
  <2> QED BY <1>0, <2>1 DEF LInv, CallsGood
<1>3. OneExecutor' /\ ReleaseIsFinal' /\ Returning(returns', call')
  BY <1>0, <1>1 DEF LInv, OneExecutor, ReleaseIsFinal
<1>4. \A l \in Lines : MarkedBy(restocked', call', l) \subseteq MarkedBy(restocked, call, l)
  BY <1>0
<1> QED BY <1>0, <1>1, <1>2, <1>3, <1>4, LedgerKeeps

LEMMA ReserveReplacementKeeps ==
  ASSUME LInv, NEW c \in Calls, ReserveReplacement(c)
  PROVE  LInv'
<1> DEFINE i == call[c]
           result == IF reservation'[Replacement].quantity_reserved > 0
                     THEN "reserved" ELSE "escalated"
           r == [i EXCEPT !.pc = "create_exchange", !.result = result]
<1>0. /\ UNCHANGED <<logistics, returning, rows>>
      /\ cancellation' = cancellation /\ restocked' = restocked /\ returns' = returns
      /\ exchange' = exchange /\ i.pc = "reserve" /\ i \in CallRows /\ CallsGood
      /\ CallGood(i, reservation, exchange) /\ Replacement \in Lines
  BY OfCall, LifecycleAssumption DEF ReserveReplacement, At, logistics, returning, others, rows
<1>1. /\ TypeOK' /\ Grows(reservation, reservation')
      /\ \A k \in Lines : reservation'[k] # None => RowGood(reservation'[k])
      /\ \A k \in Lines : reservation[k] = None /\ reservation'[k] # None =>
           reservation'[k].quantity_consumed = 0
      /\ Released(reservation') => Released(reservation)
      /\ \A s \in Slots : inflow[s] <= inflow'[s]
      /\ reservation'[Replacement] # None
  <2>1. CASE reservation[Replacement] = None
    BY <1>0, <2>1, LifecycleAssumption, ReserveInventoryRows DEF ReserveReplacement
  <2>2. CASE reservation[Replacement] # None
    <3>1. reservation' = reservation /\ inventory' = inventory /\ inflow' = inflow
      BY <2>2 DEF ReserveReplacement, ledger
    <3> QED BY <2>2, <3>1, SameGrows DEF LInv, RowsGood, LifecycleTypeOK, TypeOK
  <2> QED BY <2>1, <2>2
<1>2. call' = [call EXCEPT ![c] = r]
  BY <1>0 DEF ReserveReplacement, CallsGood
<1>3. result \in {"reserved", "escalated"}
  OBVIOUS
<1> HIDE DEF result
<1>4. /\ r.pc = "create_exchange" /\ r.source = i.source /\ r.next = i.next
      /\ r.result = result /\ r \in CallRows
  BY <1>0, <1>3 DEF CallRows, Pcs, Exchanging, ExchangeStatuses
<1> HIDE DEF r, i
<1>5. i.source = TheExchange /\ i.next = None
  BY <1>0 DEF CallGood, CallRows, Exchanging, Settling, Restocking
<1>6. CallGood(r, reservation', exchange)
  BY <1>1, <1>3, <1>4, <1>5, Basics DEF CallGood, Cancelling, HoldingOrder, Settling, Restocking,
     Exchanging, Resolving, ExchangeStatuses
<1>7. \A k \in CancellationIds : ~ Executes(r, k)
  BY <1>4, <1>5, Basics DEF Executes, Resolving
<1>8. CallsGood'
  BY <1>0, <1>1, <1>2, <1>6, CallsKept, SameGrows
<1>9. OneExecutor' /\ ReleaseIsFinal' /\ Returning(returns', call')
  BY <1>0, <1>1, <1>2, <1>4, <1>7, ExecutorKept, FinalKept, ReturningKept DEF LInv
<1>10. \A l \in Lines : MarkedBy(restocked', call', l) \subseteq MarkedBy(restocked, call, l)
  BY <1>0, <1>2, <1>4, MarkedKept
<1> QED BY <1>0, <1>1, <1>8, <1>9, <1>10, LedgerKeeps

-----------------------------------------------------------------------------
(* Returns and exchanges get their rows.                                   *)

\* A call moves on, and the returns or the exchanges change.
LEMMA RowsPutKeep ==
  ASSUME LInv, NEW c \in Calls, NEW r, call' = [call EXCEPT ![c] = r],
         UNCHANGED <<ledger, cancellation, restocked>>, LifecycleTypeOK',
         ExchangesGrow(exchange, exchange'), CallGood(r, reservation, exchange'),
         \A k \in DOMAIN exchange' : exchange'[k] = "reserved" => reservation[Replacement] # None,
         r.pc # "mark", \A k \in CancellationIds : ~ Executes(r, k),
         Returning(returns', call')
  PROVE  LInv'
<1>0. /\ reservation' = reservation /\ inventory' = inventory /\ inflow' = inflow
      /\ cancellation' = cancellation /\ restocked' = restocked
  BY DEF ledger
<1>1. RowsGood'
  BY <1>0 DEF LInv, RowsGood
<1>2. CallsGood'
  BY <1>0, CallsKept, SameGrows DEF LInv
<1>3. OneExecutor' /\ ReleaseIsFinal' /\ Sequenced'
  BY <1>0, ExecutorKept, FinalKept, SequenceKept DEF LInv
<1>4. StockAdded'
  <2>1. \A l \in Lines : MarkedBy(restocked', call', l) \subseteq MarkedBy(restocked, call, l)
    BY <1>0, MarkedKept DEF LInv
  <2>2. \A s \in Slots : inflow[s] <= inflow'[s]
    BY <1>0 DEF LInv, RowsGood, LifecycleTypeOK, TypeOK
  <2> QED BY <1>0, <1>1, <2>1, <2>2, StockKept, SameGrows DEF LInv
<1> QED BY <1>1, <1>2, <1>3, <1>4 DEF LInv

LEMMA ReturnsCounted ==
  ASSUME LInv
  PROVE  /\ IsFiniteSet(returns) /\ Cardinality(returns) \in Nat
         /\ IsFiniteSet({d \in Calls : call[d].pc = "create_return"})
         /\ Cardinality({d \in Calls : call[d].pc = "create_return"}) \in Nat
         /\ returns \subseteq ReturnIds
<1>1. IsFiniteSet(ReturnIds)
  BY LifecycleAssumption, FS_Interval DEF ReturnIds
<1>2. returns \subseteq ReturnIds
  BY DEF LInv, RowsGood, LifecycleTypeOK
<1>3. IsFiniteSet(returns)
  BY <1>1, <1>2, FS_Subset
<1>4. IsFiniteSet({d \in Calls : call[d].pc = "create_return"})
  BY LifecycleAssumption, FS_Subset
<1> QED BY <1>2, <1>3, <1>4, FS_CardinalityType

LEMMA RequestReturnKeeps ==
  ASSUME LInv, NEW c \in Calls, RequestReturn(c)
  PROVE  LInv'
<1> DEFINE r == [Idle EXCEPT !.pc = "create_return"]
           C == {d \in Calls : call[d].pc = "create_return"}
           C2 == {d \in Calls : call'[d].pc = "create_return"}
<1>1. /\ UNCHANGED <<ledger, cancellation, restocked>>
      /\ order' = order /\ shipment' = shipment
      /\ known' = known /\ cancelKey' = cancelKey /\ confirmed' = confirmed
      /\ returns' = returns /\ tracked' = tracked /\ exchange' = exchange
      /\ shortage' = shortage /\ call' = [call EXCEPT ![c] = r] /\ CallsGood
      /\ returns = {} /\ Cardinality(C) < MaxReturns
  BY DEF RequestReturn, Start, At, logistics, returning, others, rows, LInv
<1>2. LifecycleTypeOK'
  BY <1>1 DEF LInv, RowsGood, LifecycleTypeOK, TypeOK, ledger
<1>3. r \in CallRows
  BY DEF CallRows, Idle, Pcs
<1>4. CallGood(r, reservation, exchange)
  BY <1>3, Basics DEF CallGood, Idle, Cancelling, HoldingOrder, Settling, Restocking,
     Exchanging, Resolving
<1>5. \A n \in CancellationIds : ~ Executes(r, n)
  BY Basics DEF Executes, Idle, Resolving
<1>6. Returning(returns', call')
  <2>1. IsFiniteSet(C) /\ Cardinality(C) \in Nat
    BY ReturnsCounted
  <2>2. C2 \subseteq C \cup {c}
    BY <1>1, OnlyCall
  <2> HIDE DEF C
  <2>3. /\ IsFiniteSet(C \cup {c})
        /\ Cardinality(C \cup {c}) = IF c \in C THEN Cardinality(C) ELSE Cardinality(C) + 1
    BY <2>1, FS_AddElement
  <2>4. Cardinality(C2) <= Cardinality(C \cup {c}) /\ Cardinality(C2) \in Nat
    BY <2>2, <2>3, FS_Subset, FS_CardinalityType
  <2>5. Cardinality(returns') = 0
    BY <1>1, FS_EmptySet
  <2>6. MaxReturns \in Nat
    BY LifecycleAssumption
  <2> QED BY <1>1, <2>1, <2>3, <2>4, <2>5, <2>6 DEF Returning
<1>7. r.pc # "mark"
  BY DEF Idle
<1> HIDE DEF r
<1>8. \A k \in DOMAIN exchange' : exchange'[k] = "reserved" => reservation[Replacement] # None
  BY <1>1 DEF LInv, RowsGood
<1> QED BY <1>1, <1>2, <1>4, <1>5, <1>6, <1>7, <1>8, SameGrows, RowsPutKeep

LEMMA CreateReturnKeeps ==
  ASSUME LInv, NEW c \in Calls, CreateReturn(c)
  PROVE  LInv'
<1> DEFINE C == {d \in Calls : call[d].pc = "create_return"}
           C2 == {d \in Calls : call'[d].pc = "create_return"}
           n == Cardinality(returns)
<1>1. /\ UNCHANGED <<ledger, cancellation, restocked>>
      /\ order' = order /\ shipment' = shipment
      /\ known' = known /\ cancelKey' = cancelKey /\ confirmed' = confirmed
      /\ returns' = returns \cup {n + 1} /\ tracked' = tracked /\ exchange' = exchange
      /\ shortage' = shortage /\ call' = [call EXCEPT ![c] = Idle] /\ CallsGood
      /\ call[c].pc = "create_return"
  BY DEF CreateReturn, Return, At, logistics, others, rows, LInv
<1>2. /\ IsFiniteSet(C) /\ Cardinality(C) \in Nat /\ n \in Nat /\ IsFiniteSet(returns)
      /\ returns \subseteq ReturnIds /\ MaxReturns \in Nat
  BY ReturnsCounted, LifecycleAssumption
<1>3. C2 = C \ {c} /\ c \in C
  <2>1. call'[c].pc = "idle" /\ \A d \in Calls \ {c} : call'[d] = call[d]
    <3>1. call'[c] = Idle /\ \A d \in Calls \ {c} : call'[d] = call[d]
      BY <1>1, OnlyCall
    <3> QED BY <3>1 DEF Idle
  <2> QED BY <1>1, <2>1
<1>4. Cardinality(C2) = Cardinality(C) - 1 /\ Cardinality(C2) \in Nat
  <2> HIDE DEF C, C2
  <2> QED BY <1>2, <1>3, FS_RemoveElement, FS_CardinalityType
<1>5. n + Cardinality(C) <= MaxReturns
  BY DEF LInv, Returning
<1>6. n + 1 \in ReturnIds
  BY <1>2, <1>4, <1>5 DEF ReturnIds
<1>7. LifecycleTypeOK'
  BY <1>1, <1>2, <1>6 DEF LInv, RowsGood, LifecycleTypeOK, TypeOK, ledger
<1>8. Cardinality(returns') <= n + 1 /\ Cardinality(returns') \in Nat
  <2>1. /\ IsFiniteSet(returns \cup {n + 1})
        /\ Cardinality(returns \cup {n + 1}) =
             IF n + 1 \in returns THEN Cardinality(returns) ELSE Cardinality(returns) + 1
    BY <1>2, FS_AddElement
  <2> QED BY <1>1, <1>2, <2>1
<1>9. Returning(returns', call')
  <2> HIDE DEF C, n
  <2> QED BY <1>2, <1>4, <1>5, <1>8 DEF Returning
<1>10. \A k \in DOMAIN exchange' : exchange'[k] = "reserved" => reservation[Replacement] # None
  BY <1>1 DEF LInv, RowsGood
<1> QED BY <1>1, <1>7, <1>9, <1>10, IdleGood, SameGrows, RowsPutKeep

LEMMA CreateExchangeKeeps ==
  ASSUME LInv, NEW c \in Calls, CreateExchange(c)
  PROVE  LInv' /\ \A k \in DOMAIN exchange : exchange'[k] = exchange[k]
<1> DEFINE i == call[c]
           n == Len(exchange)
<1>1. /\ UNCHANGED <<ledger, cancellation, restocked>>
      /\ order' = order /\ shipment' = shipment
      /\ known' = known /\ cancelKey' = cancelKey /\ confirmed' = confirmed
      /\ returns' = returns /\ tracked' = tracked /\ exchange' = Append(exchange, i.result)
      /\ shortage' = shortage /\ call' = [call EXCEPT ![c] = Idle] /\ CallsGood
      /\ i.pc = "create_exchange" /\ CallGood(i, reservation, exchange)
  BY OfCall DEF CreateExchange, Return, At, logistics, rows, LInv
<1>2. i.result \in ExchangeStatuses /\ (i.result = "reserved" => reservation[Replacement] # None)
  BY <1>1 DEF CallGood
<1>3. exchange \in Seq(ExchangeStatuses) /\ n \in Nat
  BY DEF LInv, RowsGood, LifecycleTypeOK
<1> HIDE DEF i
<1>4. /\ exchange' \in Seq(ExchangeStatuses) /\ DOMAIN exchange = 1..n
      /\ DOMAIN exchange' = 1..n+1 /\ exchange'[n + 1] = i.result
      /\ \A k \in 1..n : exchange'[k] = exchange[k]
  BY <1>1, <1>2, <1>3
<1>5. ExchangesGrow(exchange, exchange')
  BY <1>3, <1>4 DEF ExchangesGrow
<1>6. \A k \in DOMAIN exchange' : exchange'[k] = "reserved" => reservation[Replacement] # None
  <2>1. ASSUME NEW k \in 1..n+1, exchange'[k] = "reserved"
        PROVE  reservation[Replacement] # None
    <3>1. k \in 1..n \/ k = n + 1
      BY <1>3
    <3> QED BY <1>2, <1>4, <2>1, <3>1 DEF LInv, RowsGood
  <2> QED BY <1>4, <2>1
<1>7. LifecycleTypeOK'
  BY <1>1, <1>4 DEF LInv, RowsGood, LifecycleTypeOK, TypeOK, ledger
<1>8. Returning(returns', call')
  BY <1>1, IdleGood, ReturningKept DEF LInv
<1> QED BY <1>1, <1>4, <1>5, <1>6, <1>7, <1>8, IdleGood, RowsPutKeep

LEMMA PutExchangeKeeps ==
  ASSUME LInv, NEW c \in Calls, PutExchange(c)
  PROVE  /\ LInv'
         /\ \A k \in DOMAIN exchange :
              exchange[k] = "reserved" /\ exchange'[k] \in ExchangeEnded
                => Outstanding(Replacement)' = 0
<1> DEFINE i == call[c]
           j == i.id
<1>1. /\ UNCHANGED <<ledger, cancellation, restocked>>
      /\ order' = order /\ shipment' = shipment
      /\ known' = known /\ cancelKey' = cancelKey /\ confirmed' = confirmed
      /\ returns' = returns /\ tracked' = tracked
      /\ exchange' = [exchange EXCEPT ![j] = i.result]
      /\ shortage' = shortage /\ call' = [call EXCEPT ![c] = Idle] /\ CallsGood
      /\ i.pc = "put_exchange" /\ CallGood(i, reservation, exchange) /\ i \in CallRows
  BY OfCall DEF PutExchange, Return, At, logistics, rows, LInv
<1>2. EndingGood(i, reservation, exchange)
  BY <1>1 DEF CallGood, CallRows, Exchanging
<1>3. j \in DOMAIN exchange /\ i.result \in ExchangeStatuses \ {"reserved"}
  BY <1>2 DEF EndingGood
<1>4. exchange \in [1..Len(exchange) -> ExchangeStatuses] /\ Len(exchange) \in Nat
  BY DEF LInv, RowsGood, LifecycleTypeOK
<1> HIDE DEF j
<1>5. /\ exchange' \in [1..Len(exchange) -> ExchangeStatuses]
      /\ DOMAIN exchange' = DOMAIN exchange
      /\ \A k \in DOMAIN exchange : exchange'[k] = IF k = j THEN i.result ELSE exchange[k]
  BY <1>1, <1>3, <1>4
<1>6. exchange' \in Seq(ExchangeStatuses)
  BY <1>4, <1>5
<1>7. ExchangesGrow(exchange, exchange')
  BY <1>3, <1>5 DEF ExchangesGrow
<1>8. \A k \in DOMAIN exchange' : exchange'[k] = "reserved" => reservation[Replacement] # None
  BY <1>3, <1>5 DEF LInv, RowsGood
<1>9. LifecycleTypeOK'
  BY <1>1, <1>6 DEF LInv, RowsGood, LifecycleTypeOK, TypeOK, ledger
<1>10. Returning(returns', call')
  BY <1>1, IdleGood, ReturningKept DEF LInv
<1>11. LInv'
  BY <1>1, <1>7, <1>8, <1>9, <1>10, IdleGood, RowsPutKeep
<1>12. ASSUME NEW k \in DOMAIN exchange, exchange[k] = "reserved", exchange'[k] \in ExchangeEnded
       PROVE  Outstanding(Replacement)' = 0
  <2>1. k = j
    BY <1>5, <1>12 DEF ExchangeEnded
  <2>2. reservation[Replacement] # None /\ Left(reservation[Replacement]) = 0
    BY <1>1, <1>2, <1>12, <2>1 DEF EndingGood, j
  <2> QED BY <1>1, <2>2 DEF Outstanding, Left, ledger
<1> QED BY <1>11, <1>12

-----------------------------------------------------------------------------
(* The invariant.                                                          *)

LEMMA InitLInv == LifecycleInit => LInv
<1> SUFFICES ASSUME LifecycleInit PROVE LInv
  OBVIOUS
<1>1. /\ order \in OrderRows /\ shortage \in BOOLEAN
      /\ cancellation = [k \in CancellationIds |-> None]
      /\ shipment = "none" /\ known = FALSE /\ cancelKey = "free" /\ confirmed = {}
      /\ returns = {} /\ tracked = FALSE /\ restocked = {} /\ exchange = <<>>
      /\ call = [c \in Calls |-> Idle] /\ reservation = [l \in Lines |-> None]
  BY DEF LifecycleInit, Init, OrderRows
<1>2. TypeOK
  BY LedgerAssumption DEF LifecycleInit, Init, TypeOK, Inventory
<1>3. RowsGood
  <2>1. exchange \in Seq(ExchangeStatuses) /\ DOMAIN exchange = {}
    BY <1>1
  <2>2. LifecycleTypeOK
    BY <1>1, <1>2, <2>1 DEF LifecycleTypeOK
  <2> QED BY <1>1, <2>1, <2>2 DEF RowsGood
<1>4. CallsGood
  <2>1. \A c \in Calls : call[c] = Idle /\ CallGood(call[c], reservation, exchange)
    BY <1>1, IdleGood
  <2> QED BY <1>1, <2>1 DEF CallsGood, CallGood
<1>5. OneExecutor
  BY <1>1, IdleGood DEF OneExecutor
<1>6. ReleaseIsFinal
  BY <1>1 DEF ReleaseIsFinal, Released, LinesOf
<1>7. Sequenced
  <2>1. CancellationRows = {}
    BY <1>1 DEF CancellationRows
  <2>2. 0 \in 0..MaxCancellations /\ 1..0 = {}
    BY LifecycleAssumption
  <2> QED BY <2>1, <2>2 DEF Sequenced
<1>8. StockAdded
  BY <1>1 DEF StockAdded
<1>9. Returning(returns, call)
  <2>1. {c \in Calls : call[c].pc = "create_return"} = {}
    BY <1>1 DEF Idle
  <2> QED BY <1>1, <2>1, FS_EmptySet, LifecycleAssumption DEF Returning
<1> QED BY <1>3, <1>4, <1>5, <1>6, <1>7, <1>8, <1>9 DEF LInv

LEMMA StepKeeps ==
  ASSUME LInv, NEW c \in Calls, Step(c), begun' = begun
  PROVE  LInv'
BY ListReservationsKeeps, ConsumeKeeps, ReleaseKeeps, CheckRestockKeeps, AdjustKeeps, MarkKeeps,
   FulfilKeeps, CreateCancellationKeeps, DecisionsKeep, ReadForCancellationKeeps, ClaimKeeps,
   ShipmentStepsKeep, ResolveKeeps, CancelOrderKeeps, CreateReturnKeeps, ShortageStepsKeep,
   ReadStockKeeps, ReserveReplacementKeeps, CreateExchangeKeeps, PutExchangeKeeps
DEF Step

LEMMA BeginKeeps ==
  ASSUME LInv, NEW c \in Calls, Begin(c)
  PROVE  LInv'
BY MonitorFulfilmentKeeps, RequestCancellationKeeps, DecideCancellationKeeps,
   RecoverCancellationKeeps, RequestReturnKeeps, InspectReturnKeeps, ResumeShortageKeeps,
   EvaluateExchangeKeeps, EndExchangeKeeps
DEF Begin

LEMMA NextLInv == LInv /\ [LifecycleNext]_lifecycleVars => LInv'
<1> SUFFICES ASSUME LInv, [LifecycleNext]_lifecycleVars
             PROVE  LInv'
  OBVIOUS
<1>1. CASE UNCHANGED lifecycleVars
  <2>1. /\ inventory' = inventory /\ reservation' = reservation /\ inflow' = inflow
        /\ order' = order /\ cancellation' = cancellation /\ shipment' = shipment
        /\ known' = known /\ cancelKey' = cancelKey /\ confirmed' = confirmed
        /\ returns' = returns /\ tracked' = tracked /\ restocked' = restocked
        /\ exchange' = exchange /\ shortage' = shortage /\ call' = call
    BY <1>1 DEF lifecycleVars, returning, others
  <2>2. RowsGood' /\ CallsGood' /\ OneExecutor'
    BY <2>1 DEF LInv, RowsGood, LifecycleTypeOK, TypeOK, CallsGood, OneExecutor
  <2>3. ReleaseIsFinal' /\ StockAdded' /\ Returning(returns', call')
    BY <2>1 DEF LInv, ReleaseIsFinal, StockAdded
  <2>4. Sequenced'
    BY <2>1, SequenceKept DEF LInv
  <2> QED BY <2>2, <2>3, <2>4 DEF LInv
<1>2. CASE LifecycleNext
  BY <1>2, AllocateKeeps, CreateShipmentKeeps, BeginKeeps, StepKeeps, DieKeeps
  DEF LifecycleNext
<1> QED BY <1>1, <1>2

\* The inductive invariant of the life of an order.
THEOREM LifecycleInvariant == LifecycleSpec => []LInv
<1> QED BY InitLInv, NextLInv, PTL DEF LifecycleSpec

-----------------------------------------------------------------------------
(* The theorems of the lifecycle.                                          *)

\* However many calls approve, execute and recover a cancellation and die, at most
\* one is past the claim (ExecutedByOne): nobody cancels the shipment or releases the
\* stock beside it.
THEOREM CancellationsRunOnce == LifecycleSpec => []ExecutedByOne
<1>1. ASSUME NEW k, NEW c \in Calls
      PROVE  Executing(c, k) <=> Executes(call[c], k)
  BY DEF Executing, Executes, Resolving
<1>2. LInv => ExecutedByOne
  BY <1>1 DEF LInv, OneExecutor, ExecutedByOne
<1> QED BY <1>2, LifecycleInvariant, PTL

\* Stock is released only behind a cancellation that is completed and stays so
\* (ReleasedOnlyWhenCancelled): the call that released its units was its only one, and
\* nobody resolves it to something else.
THEOREM ReleasesAreFinal == LifecycleSpec => []ReleasedOnlyWhenCancelled
<1>1. LInv => ReleasedOnlyWhenCancelled
  BY DEF LInv, ReleaseIsFinal, Released, ReleasedOnlyWhenCancelled
<1> QED BY <1>1, LifecycleInvariant, PTL

\* A restock that is recorded was made (MarkedWasRestocked), for any number of
\* inspections, parcels and deaths: the marker is put after the stock, and what a
\* reservation consumed does not change once it consumed something.
THEOREM RestocksWereMade == LifecycleSpec => []MarkedWasRestocked
<1>1. LInv => MarkedWasRestocked
  <2> SUFFICES ASSUME LInv, NEW l \in LinesOf(TheOrder), reservation[l] # None
               PROVE  Cardinality({f \in Flows : <<f, l>> \in restocked}) * Consumed(l)
                        <= inflow[SlotOf(l)]
    BY DEF MarkedWasRestocked, LInv, RowsGood
  <2> DEFINE D == {f \in Flows : <<f, l>> \in restocked}
             M == MarkedBy(restocked, call, l)
             q == Consumed(l)
  <2>1. l \in Lines
    BY DEF LinesOf
  <2>2. /\ q = reservation[l].quantity_consumed /\ q \in Nat
        /\ inflow[SlotOf(l)] \in Nat
    BY <2>1, ReservedLine, LedgerAssumption
  <2>3. Cardinality(M) * q <= inflow[SlotOf(l)]
    BY <2>1, <2>2 DEF LInv, StockAdded, LineRestocked, SlotOf
  <2>4. D \subseteq M
    BY DEF MarkedBy
  <2>5. /\ Cardinality(M) \in Nat /\ Cardinality(D) \in Nat
        /\ Cardinality(D) <= Cardinality(M)
    BY <2>4, MarkedFinite, FS_Subset, FS_CardinalityType
  <2> HIDE DEF D, M, q
  <2>6. Cardinality(D) * q <= Cardinality(M) * q
    BY <2>2, <2>5, Multiplied
  <2>7. Cardinality(D) * q \in Nat /\ Cardinality(M) * q \in Nat
    BY <2>2, <2>5
  <2>8. Cardinality(D) * q <= inflow[SlotOf(l)]
    BY <2>2, <2>3, <2>6, <2>7
  <2> QED BY <2>8 DEF D, q
<1> QED BY <1>1, LifecycleInvariant, PTL

\* What one step makes of a cancellation.
LEMMA StatusSteps ==
  ASSUME LInv, [LifecycleNext]_lifecycleVars, NEW k \in CancellationIds,
         cancellation[k] \notin {None, cancellation'[k]}
  PROVE  cancellation'[k] \in Successors(cancellation[k])
<1>1. cancellation' # cancellation
  OBVIOUS
<1>2. PICK c \in Calls :
        \/ CreateCancellation(c) \/ Approve(c) \/ Reject(c) \/ GoStale(c) \/ Claim(c)
        \/ ResolveSucceeded(c) \/ ResolveNotApplied(c) \/ ResolveUnknown(c)
  <2>1. ASSUME NEW c \in Calls, Begin(c)
        PROVE  cancellation' = cancellation
    BY <2>1 DEF Begin, rows, MonitorFulfilment, RequestCancellation, DecideCancellation,
       ExecuteCancellation, RecoverCancellation, RequestReturn, InspectReturn,
       IngestTracking, ResumeShortage, EvaluateExchange, CancelExchange, CompleteExchange
  <2>2. ASSUME NEW c \in Calls, Step(c),
               ~ CreateCancellation(c), ~ Approve(c), ~ Reject(c), ~ GoStale(c), ~ Claim(c),
               ~ ResolveSucceeded(c), ~ ResolveNotApplied(c), ~ ResolveUnknown(c)
        PROVE  cancellation' = cancellation
    <3>1. CASE \/ ListReservations(c) \/ Consume(c) \/ Release(c) \/ CheckRestock(c)
               \/ Adjust(c) \/ Mark(c) \/ Fulfil(c)
      BY <3>1 DEF rows, ListReservations, Consume, Release, CheckRestock, Adjust, Mark,
         Fulfil
    <3>2. CASE \/ ReadForCancellation(c) \/ NoShipment(c) \/ CancelShipment(c)
               \/ ShipmentCancelled(c) \/ CompleteKey(c) \/ CancelFails(c) \/ ReadBack(c)
               \/ CancelOrder(c)
      BY <3>2 DEF rows, ReadForCancellation, NoShipment, CancelShipment,
         ShipmentCancelled, CompleteKey, CancelFails, ReadBack, CancelOrder
    <3>3. CASE \/ CreateReturn(c) \/ ListQuantities(c) \/ FulfilAvailable(c)
               \/ PutFulfilled(c) \/ ReadStock(c) \/ ReserveReplacement(c)
               \/ CreateExchange(c) \/ PutExchange(c)
      BY <3>3 DEF rows, CreateReturn, ListQuantities, FulfilAvailable, PutFulfilled,
         ReadStock, ReserveReplacement, CreateExchange, PutExchange
    <3> QED BY <2>2, <3>1, <3>2, <3>3 DEF Step
  <2>3. (\E location \in Locations : Allocate(location)) \/ CreateShipment
        \/ (\E c \in Calls : Die(c)) \/ UNCHANGED lifecycleVars
        => cancellation' = cancellation
    BY DEF Allocate, CreateShipment, Die, lifecycleVars, rows
  <2> QED BY <1>1, <2>1, <2>2, <2>3 DEF LifecycleNext
<1> DEFINE j == call[c].id
<1>3. cancellation \in [CancellationIds -> CancellationStatuses \cup {None}]
  BY DEF LInv, RowsGood, LifecycleTypeOK
<1>4. ASSUME NEW status, cancellation' = [cancellation EXCEPT ![j] = status],
             status \in Successors(cancellation[j]) \/ status = cancellation[j]
      PROVE  cancellation'[k] \in Successors(cancellation[k])
  <2>1. k = j
    BY <1>3, <1>4
  <2> QED BY <1>3, <1>4, <2>1
<1>5. CASE CreateCancellation(c)
  <2>1. PICK n \in 0..MaxCancellations :
          CancellationRows = 1..n /\ Cardinality(CancellationRows) = n
    BY RowsCounted DEF LInv
  <2>2. k \in 1..n
    BY <2>1 DEF CancellationRows
  <2>3. k # n + 1
    BY <2>2, LifecycleAssumption
  <2>4. cancellation'[k] = cancellation[k]
    BY <1>3, <1>5, <2>1, <2>3 DEF CreateCancellation
  <2> QED BY <2>4
<1>6. CASE Approve(c) \/ Reject(c)
  BY <1>1, <1>4, <1>6 DEF Approve, Reject, Transition, Status, Successors
<1>7. CASE GoStale(c) \/ Claim(c)
  BY <1>1, <1>4, <1>7 DEF GoStale, Claim, Executable, Transition, Status, Successors
<1>8. CASE ResolveSucceeded(c) \/ ResolveNotApplied(c) \/ ResolveUnknown(c)
  <2>1. Status(c) = From(c)
    BY <1>1, <1>8 DEF ResolveSucceeded, ResolveNotApplied, ResolveUnknown
  <2>2. cancellation[j] = "completed" \/ cancellation[j] = "mutation_uncertain"
    BY <2>1 DEF Status, From
  <2> QED BY <1>4, <1>8, <2>1, <2>2
      DEF ResolveSucceeded, ResolveNotApplied, ResolveUnknown, Transition, Successors
<1> QED BY <1>2, <1>5, <1>6, <1>7, <1>8

\* No step takes a decision on a cancellation back (NeverRegresses): an approval or
\* an execution that was overtaken leaves the row alone.
THEOREM CancellationsNeverRegress == LifecycleSpec => NeverRegresses
<1>1. LInv /\ [LifecycleNext]_lifecycleVars =>
        [\A k \in CancellationIds :
           cancellation[k] \notin {None, cancellation'[k]} =>
             cancellation'[k] \in Successors(cancellation[k])]_cancellation
  BY StatusSteps
<1> QED BY <1>1, LifecycleInvariant, PTL DEF LifecycleSpec, NeverRegresses

\* When an exchange that reserved its replacement ends, nothing stays held for it
\* (EndsHoldingNothing): whoever puts its last row settled the shared reservation
\* first, or found it settled.
THEOREM EndedExchangesHoldNothing == LifecycleSpec => EndsHoldingNothing
<1>1. LInv /\ [LifecycleNext]_lifecycleVars =>
        [\A k \in DOMAIN exchange :
           exchange[k] = "reserved" /\ exchange'[k] \in ExchangeEnded
             => Outstanding(Replacement)' = 0]_exchange
  <2> SUFFICES ASSUME LInv, [LifecycleNext]_lifecycleVars, exchange' # exchange
               PROVE  \A k \in DOMAIN exchange :
                        exchange[k] = "reserved" /\ exchange'[k] \in ExchangeEnded
                          => Outstanding(Replacement)' = 0
    OBVIOUS
  <2>1. PICK c \in Calls : CreateExchange(c) \/ PutExchange(c)
    <3>1. ASSUME NEW c \in Calls, Begin(c)
          PROVE  exchange' = exchange
      BY <3>1 DEF Begin, returning, others, MonitorFulfilment, RequestCancellation,
         DecideCancellation, ExecuteCancellation, RecoverCancellation, RequestReturn,
         InspectReturn, IngestTracking, ResumeShortage, EvaluateExchange, CancelExchange,
         CompleteExchange
    <3>2. ASSUME NEW c \in Calls, Step(c), ~ CreateExchange(c), ~ PutExchange(c)
          PROVE  exchange' = exchange
      <4>1. CASE \/ ListReservations(c) \/ Consume(c) \/ Release(c) \/ CheckRestock(c)
                 \/ Adjust(c) \/ Mark(c) \/ Fulfil(c) \/ CreateReturn(c)
        BY <4>1 DEF returning, others, ListReservations, Consume, Release, CheckRestock,
           Adjust, Mark, Fulfil, CreateReturn
      <4>2. CASE \/ CreateCancellation(c) \/ Approve(c) \/ Reject(c)
                 \/ ReadForCancellation(c) \/ GoStale(c) \/ Claim(c) \/ CancelOrder(c)
                 \/ ResolveSucceeded(c) \/ ResolveNotApplied(c) \/ ResolveUnknown(c)
        BY <4>2 DEF returning, others, CreateCancellation, Approve, Reject,
           ReadForCancellation, GoStale, Claim, CancelOrder, ResolveSucceeded,
           ResolveNotApplied, ResolveUnknown
      <4>3. CASE \/ NoShipment(c) \/ CancelShipment(c) \/ ShipmentCancelled(c)
                 \/ CompleteKey(c) \/ CancelFails(c) \/ ReadBack(c)
                 \/ ListQuantities(c) \/ FulfilAvailable(c) \/ PutFulfilled(c)
                 \/ ReadStock(c) \/ ReserveReplacement(c)
        BY <4>3 DEF returning, others, NoShipment, CancelShipment, ShipmentCancelled,
           CompleteKey, CancelFails, ReadBack, ListQuantities, FulfilAvailable,
           PutFulfilled, ReadStock, ReserveReplacement
      <4> QED BY <3>2, <4>1, <4>2, <4>3 DEF Step
    <3>3. (\E location \in Locations : Allocate(location)) \/ CreateShipment
          \/ (\E c \in Calls : Die(c)) \/ UNCHANGED lifecycleVars => exchange' = exchange
      BY DEF Allocate, CreateShipment, Die, lifecycleVars, returning, others
    <3> QED BY <3>1, <3>2, <3>3 DEF LifecycleNext
  <2>2. CASE CreateExchange(c)
    BY <2>2, CreateExchangeKeeps DEF ExchangeEnded
  <2>3. CASE PutExchange(c)
    BY <2>3, PutExchangeKeeps
  <2> QED BY <2>1, <2>2, <2>3
<1> QED BY <1>1, LifecycleInvariant, PTL DEF LifecycleSpec, EndsHoldingNothing
=============================================================================
