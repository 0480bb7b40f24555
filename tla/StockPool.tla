------------------------------- MODULE StockPool -------------------------------
(***************************************************************************)
(* What a merchant is promised by the reservation ledger, without rows,    *)
(* counters or caches: units on hand in slots, and claims that hold some   *)
(* of them.  A claim is granted once, out of units no earlier claim holds, *)
(* and every unit it holds is either given back or shipped.  Claims that   *)
(* are granted together are measured one by one: only when two of them     *)
(* meet in a slot can that slot come to promise more than it has.          *)
(***************************************************************************)
EXTENDS Integers, FiniteSets

CONSTANTS Slots, Claims, InitialStock, MaxUnits, None

VARIABLES
  onHand,  \* units in each slot
  claim    \* [slot, held] once granted, None before

Held(c) == IF claim[c] = None THEN 0 ELSE claim[c].held

Promised(s) ==
  Cardinality({u \in Claims \X (1..MaxUnits) :
    claim[u[1]] # None /\ claim[u[1]].slot = s /\ u[2] <= Held(u[1])})

Init ==
  /\ onHand = InitialStock
  /\ claim = [c \in Claims |-> None]

\* What a slot has and no claim holds; nothing, when it promised too much.
AtLeast0(n) == IF n >= 0 THEN n ELSE 0
Free(s) == AtLeast0(onHand[s] - Promised(s))

\* Some claims are granted together, each within what its slot has free.
Grant ==
  /\ \E C \in (SUBSET Claims) \ {{}} :
       /\ \A c \in C :
            /\ claim[c] = None /\ claim'[c] # None
            /\ claim'[c].held <= Free(claim'[c].slot)
       /\ \A c \in Claims \ C : claim'[c] = claim[c]
  /\ UNCHANGED onHand

\* A claim gives up n of the units it holds, to the shelf or to a shipment.
GiveUp(c, n) ==
  /\ claim[c] # None
  /\ n <= claim[c].held
  /\ claim' = [claim EXCEPT ![c].held = @ - n]

Return(c, n) == GiveUp(c, n) /\ UNCHANGED onHand

\* A slot that promised too much runs empty before its last claim is shipped.
Ship(c, n) ==
  /\ GiveUp(c, n)
  /\ onHand' = [onHand EXCEPT ![claim[c].slot] = AtLeast0(@ - n)]

Receive(s, n) ==
  /\ onHand' = [onHand EXCEPT ![s] = @ + n]
  /\ UNCHANGED claim

Next ==
  \/ Grant
  \/ \E c \in Claims, n \in 0..MaxUnits : Return(c, n) \/ Ship(c, n)
  \/ \E s \in Slots, n \in 1..MaxUnits : Receive(s, n)

Spec == Init /\ [][Next]_<<onHand, claim>>
=============================================================================
