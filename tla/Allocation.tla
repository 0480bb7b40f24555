------------------------------ MODULE Allocation ------------------------------
(***************************************************************************)
(* PostOrderOperationsService.reserve_inventory_for_order of               *)
(* packages/post_order/operations.py over the reservation ledger: every    *)
(* paid-order webhook calls it (workers/workflow/order_orchestrator.py),   *)
(* so calls for one order and for orders competing for the same stock run  *)
(* concurrently.  Each store call is one transaction; a call is the steps  *)
(* between them, holding what it read.  A call may die between two steps;  *)
(* the redelivered webhook is a new call.                                  *)
(***************************************************************************)
EXTENDS InventoryLedger, FiniteSetsExt

CONSTANTS
  Threads,           \* request threads
  ExplicitLocation,  \* explicit_reservation_location, by order; None: allocate
  PriorityRank,      \* place in location_priority; 0 when not listed
  NameRank,          \* alphabetical place of a location_ref
  InflowSlots        \* bound: the slots that receive stock meanwhile

Outcomes == {"reserved", "shortfall"}

ASSUME AllocationAssumption ==
  /\ ExplicitLocation \in [Orders -> Locations \cup {None}]
  /\ PriorityRank \in [Locations -> Nat]
  /\ NameRank \in [Locations -> Nat]
  /\ InflowSlots \subseteq Slots
  /\ None \notin Outcomes

VARIABLES
  thread,  \* [Threads -> [pc, order, ats, tried, outcome]]
  marker   \* the reserve_inventory ConnectorCommand of each order

ledgerVars == <<inventory, reservation, inflow>>
allocVars == <<thread, marker, inventory, reservation, inflow>>

AllocationTypeOK ==
  /\ TypeOK
  /\ marker \in [Orders -> Outcomes \cup {None}]
  /\ \A c \in Threads :
       /\ thread[c].pc \in {"idle", "replay", "rank", "attempt", "reread",
                          "lines", "record", "put"}
       /\ thread[c].order \in Orders \cup {None}
       /\ thread[c].tried \subseteq Locations \cup Lines
       /\ thread[c].outcome \in Outcomes \cup {None}

IdleThread ==
  [pc |-> "idle", order |-> None,
   ats |-> [w \in Locations |-> None], tried |-> {}, outcome |-> None]

AllocInit ==
  /\ Init
  /\ thread = [c \in Threads |-> IdleThread]
  /\ marker = [o \in Orders |-> None]

Proceed(c, pc) == thread' = [thread EXCEPT ![c].pc = pc]
Finish(c, outcome) ==
  thread' = [thread EXCEPT ![c].pc = "record", ![c].outcome = outcome]
OrderOf(c) == thread[c].order

-----------------------------------------------------------------------------
\* Faults the properties must detect, by the definition they replace.
\* LinesDone that drops the shortfall of the lines.
LinesDoneReserved(c) ==
  /\ thread[c].pc = "lines"
  /\ LinesOf(OrderOf(c)) \subseteq thread[c].tried
  /\ Finish(c, "reserved")
  /\ UNCHANGED <<ledgerVars, marker>>

\* The order-level fast path: an order with a marker is not reserved again.
BeginAllocation(c, o) ==
  /\ thread[c].pc = "idle"
  /\ marker[o] = None
  /\ thread' = [thread EXCEPT ![c] =
       [IdleThread EXCEPT !.order = o,
          !.pc = IF ExplicitLocation[o] = None THEN "replay" ELSE "lines"]]
  /\ UNCHANGED <<ledgerVars, marker>>

\* The outcome a call derives from the reservations it finds for its order.
FoundOutcome(o) ==
  IF \A l \in LinesOf(o) : reservation[l] # None =>
       reservation[l].quantity_reserved = reservation[l].quantity_requested
  THEN "reserved" ELSE "shortfall"

\* Step 0 of _allocate_and_reserve_order, the idempotent replay.
Replay(c) ==
  LET o == OrderOf(c) IN
  /\ thread[c].pc = "replay"
  /\ IF \E l \in LinesOf(o) : reservation[l] # None
     THEN Finish(c, FoundOutcome(o))
     ELSE Proceed(c, "rank")
  /\ UNCHANGED <<ledgerVars, marker>>

\* Steps 1 to 3, one location at a time: the heuristic read of a candidate.
\* What it keeps is what rank_candidate_locations needs of it, the total ATS
\* of a location that can satisfy every line and -1 for one that cannot.
HeuristicAts(sku, w) == inventory[<<sku, w>>].quantity - inventory[<<sku, w>>].reserved

TotalAts(o, w) ==
  IF \A l \in LinesOf(o) : HeuristicAts(LineSku[l], w) >= LineQty[l]
  THEN MapThenSumSet(LAMBDA l : HeuristicAts(LineSku[l], w), LinesOf(o))
  ELSE -1

ReadCandidate(c, w) ==
  LET ats == [thread[c].ats EXCEPT ![w] = TotalAts(OrderOf(c), w)]
  IN  /\ thread[c].pc = "rank"
      /\ thread[c].ats[w] = None
      /\ \A v \in Locations :
           NameRank[v] < NameRank[w] => thread[c].ats[v] # None
      /\ IF \E v \in Locations : ats[v] = None
         THEN thread' = [thread EXCEPT ![c].ats = ats]
         ELSE IF \A v \in Locations : ats[v] = -1
         THEN thread' = [thread EXCEPT ![c].ats = ats, ![c].pc = "record",
                                   ![c].outcome = "shortfall"]
         ELSE thread' = [thread EXCEPT ![c].ats = ats, ![c].pc = "attempt"]
      /\ UNCHANGED <<ledgerVars, marker>>

\* The sort key of rank_candidate_locations: listed locations by priority,
\* then the others by descending ATS, then by name.
Preferred(ats, v, w) ==
  \/ PriorityRank[v] > 0 /\ PriorityRank[w] = 0
  \/ PriorityRank[v] > 0 /\ PriorityRank[v] < PriorityRank[w]
  \/ /\ PriorityRank[v] = 0 /\ PriorityRank[w] = 0
     /\ \/ ats[v] > ats[w]
        \/ ats[v] = ats[w] /\ NameRank[v] < NameRank[w]

Candidates(c) == {w \in Locations \ thread[c].tried : thread[c].ats[w] # -1}

IsNextCandidate(c, v) ==
  /\ v \in Candidates(c)
  /\ \A w \in Candidates(c) \ {v} : Preferred(thread[c].ats, v, w)

\* Step 4.  reserve_order_lines_atomic compares with the locked rows first and
\* meets the unique index only afterwards.
Sufficient(o, w) ==
  \A l \in LinesOf(o) : Ats(inventory[<<LineSku[l], w>>]) >= LineQty[l]

AttemptSucceeds(c, w) ==
  /\ thread[c].pc = "attempt"
  /\ IsNextCandidate(c, w)
  /\ ReserveOrderLines(OrderOf(c), w)
  /\ Finish(c, "reserved")
  /\ UNCHANGED marker

AttemptConflicts(c, w) ==
  LET o == OrderOf(c) IN
  /\ thread[c].pc = "attempt"
  /\ IsNextCandidate(c, w)
  /\ Sufficient(o, w)
  /\ \E l \in LinesOf(o) : reservation[l] # None
  /\ Proceed(c, "reread")
  /\ UNCHANGED <<ledgerVars, marker>>

AttemptInsufficient(c, w) ==
  /\ thread[c].pc = "attempt"
  /\ IsNextCandidate(c, w)
  /\ ~ Sufficient(OrderOf(c), w)
  /\ IF Candidates(c) = {w}
     THEN Finish(c, "shortfall")
     ELSE thread' = [thread EXCEPT ![c].tried = @ \cup {w}]
  /\ UNCHANGED <<ledgerVars, marker>>

\* After a conflict the committed reservations of the order are the answer.
Reread(c) ==
  /\ thread[c].pc = "reread"
  /\ Finish(c, FoundOutcome(OrderOf(c)))
  /\ UNCHANGED <<ledgerVars, marker>>

-----------------------------------------------------------------------------
\* _reserve_order_lines_at_location: one transaction per line, each partial.
NextLine(c) == CHOOSE l \in LinesOf(OrderOf(c)) \ thread[c].tried : TRUE

ReserveLine(c) ==
  LET o == OrderOf(c)
      l == NextLine(c)
      granted == reservation'[l].quantity_reserved
      worst == IF granted < LineQty[l] THEN "shortfall" ELSE thread[c].outcome
  IN  /\ thread[c].pc = "lines"
      /\ LinesOf(o) \ thread[c].tried # {}
      /\ IF reservation[l] = None
         THEN ReserveInventory(l, ExplicitLocation[o])
         ELSE UNCHANGED ledgerVars
      /\ thread' = [thread EXCEPT ![c].tried = @ \cup {l}, ![c].outcome = worst]
      /\ UNCHANGED marker

LinesDone(c) ==
  /\ thread[c].pc = "lines"
  /\ LinesOf(OrderOf(c)) \subseteq thread[c].tried
  /\ Finish(c, IF thread[c].outcome = None THEN "reserved" ELSE "shortfall")
  /\ UNCHANGED <<ledgerVars, marker>>

-----------------------------------------------------------------------------
\* _record_internal_command: look for the marker, then put one.  The put is an
\* upsert, so of two calls that both found none the later one stays.
CheckMarker(c) ==
  /\ thread[c].pc = "record"
  /\ IF marker[OrderOf(c)] # None
     THEN thread' = [thread EXCEPT ![c] = IdleThread]
     ELSE Proceed(c, "put")
  /\ UNCHANGED <<ledgerVars, marker>>

PutMarker(c) ==
  /\ thread[c].pc = "put"
  /\ marker' = [marker EXCEPT ![OrderOf(c)] = thread[c].outcome]
  /\ thread' = [thread EXCEPT ![c] = IdleThread]
  /\ UNCHANGED ledgerVars

\* The process dies, or the call fails, before its marker is written.
Abandon(c) ==
  /\ thread[c].pc # "idle"
  /\ thread' = [thread EXCEPT ![c] = IdleThread]
  /\ UNCHANGED <<ledgerVars, marker>>

\* What the rest of the system does to the ledger meanwhile: a cancellation
\* releases, a fulfilment consumes, a receipt or a return adds stock.
Environment ==
  /\ \/ \E l \in Lines : ReleaseReservation(l, MaxUnits)
     \/ \E l \in Lines : ConsumeReservation(l, MaxUnits)
     \/ \E s \in InflowSlots : AdjustInventory(s, 1)
  /\ UNCHANGED <<thread, marker>>

AllocStep(c) ==
  \/ Replay(c)
  \/ \E w \in Locations : ReadCandidate(c, w)
  \/ \E w \in Locations :
       AttemptSucceeds(c, w) \/ AttemptConflicts(c, w) \/ AttemptInsufficient(c, w)
  \/ Reread(c)
  \/ ReserveLine(c) \/ LinesDone(c)
  \/ CheckMarker(c) \/ PutMarker(c)

AllocNext ==
  \/ \E c \in Threads, o \in Orders : BeginAllocation(c, o)
  \/ \E c \in Threads : AllocStep(c)
  \/ \E c \in Threads : Abandon(c)
  \/ Environment

AllocSpec == AllocInit /\ [][AllocNext]_allocVars

-----------------------------------------------------------------------------
(* Properties.                                                             *)

\* An order is never split: whichever calls, conflicts and deaths led to its
\* reservations, they are all at one location, and automatic allocation shows
\* either all of them in full or none (_allocate_and_reserve_order).
NeverSplit ==
  /\ \A k, l \in Lines :
       /\ LineOrder[k] = LineOrder[l]
       /\ reservation[k] # None
       /\ reservation[l] # None
       => reservation[k].location = reservation[l].location
  /\ \A o \in Orders : ExplicitLocation[o] = None =>
       \/ \A l \in LinesOf(o) : reservation[l] = None
       \/ \A l \in LinesOf(o) :
            reservation[l] # None /\ reservation[l].quantity_reserved = LineQty[l]

\* The outcome recorded for an order as "reserved" is true: every line got its
\* full quantity, even when the call that recorded it was not the call that
\* reserved.
ReservedMarkerIsTrue ==
  AllocationTypeOK /\ \A o \in Orders : marker[o] = "reserved" =>
    \A l \in LinesOf(o) :
      reservation[l] # None /\ reservation[l].quantity_reserved = LineQty[l]
=============================================================================
