---------------------------- MODULE OrderLifecycle ----------------------------
(***************************************************************************)
(* What happens to one order after its allocation, in                      *)
(* packages/post_order/operations.py over the reservation ledger: its      *)
(* fulfilment consumes the reservations, its cancellation releases them,   *)
(* a return or a parcel that comes back restocks what was consumed, an     *)
(* exchange reserves a unit of its own, and when the owner approves a      *)
(* shortage what is reserved is fulfilled.                                 *)
(*                                                                         *)
(* A call is the sequence of its store and connector calls, each one step; *)
(* it holds the Order row it read, and it may die between two steps.       *)
(* Every put of an Order writes the row the call holds.                    *)
(*                                                                         *)
(* The unit of an exchange is that of a line, `Replacement`, whose order   *)
(* stands for the source ("exchange", order id): the idempotency key names *)
(* order and SKU, so all exchanges of the order share it.                  *)
(*                                                                         *)
(* Left out: the statuses of a Return, which no step looks at before it    *)
(* touches stock; the connector commands but for `confirmed`; Approval     *)
(* rows and audit.                                                         *)
(***************************************************************************)
EXTENDS InventoryLedger, Sequences

CONSTANTS
  TheOrder,
  Replacement,       \* the line that reserves the unit of an exchange
  ExchangeLocation,  \* resolve_location_ref, where exchanges reserve
  MaxCancellations,  \* bound: Cancellation rows
  MaxReturns,        \* bound: Return rows
  CancellationMode,  \* cancellations.before_fulfilment
  Calls,             \* request threads
  MaxBegun           \* bound: requests made in a behaviour

CancellationStatuses ==
  {"eligible", "approval_required", "approved", "denied", "rejected",
   "stale_not_executable", "completed", "mutation_uncertain"}

ASSUME LifecycleAssumption ==
  /\ TheOrder \in Orders
  /\ Replacement \in Lines /\ LineQty[Replacement] = 1
  /\ LineOrder[Replacement] # TheOrder
  /\ LinesOf(LineOrder[Replacement]) = {Replacement}
  /\ ExchangeLocation \in Locations
  /\ MaxCancellations \in Nat /\ MaxReturns \in Nat /\ MaxBegun \in Nat
  /\ CancellationMode \in {"ALLOW", "REQUIRE_APPROVAL", "DENY"}
  /\ IsFiniteSet(Calls)
  /\ None \notin CancellationStatuses \cup {"consume", "release", "restock"}

CancellationIds == 1..MaxCancellations
ReturnIds == 1..MaxReturns
RTO == 0   \* the flow of a parcel that came back; the others are returns
Flows == ReturnIds \cup {RTO}
TheExchange == LineOrder[Replacement]   \* the source of an exchange's reservation

VARIABLES
  order,         \* the Order row: [status, fulfilled]
  cancellation,  \* the status of each Cancellation row, None before it exists
  shipment,      \* the shipment of the logistics connector
  known,         \* the Shipment row and its mapping exist
  cancelKey,     \* the idempotency record of cancel_shipment
  confirmed,     \* cancellations whose command was read back as succeeded
  returns,       \* the Return rows
  tracked,       \* the RTO_DELIVERED event is recorded
  restocked,     \* restock_inventory markers: [flow, line]
  exchange,      \* the status of each Exchange row, in order of creation
  shortage,      \* an approval of the order's shortage is pending
  begun,         \* requests made
  call           \* [Calls -> [pc, id, held, source, result, todo, next, flow, inline]]

ledger == <<inventory, reservation, inflow>>
logistics == <<shipment, known, cancelKey, confirmed>>
others == <<exchange, shortage>>
returning == <<returns, tracked, restocked, others>>
rows == <<order, cancellation>>
lifecycleVars ==
  <<inventory, reservation, inflow, order, cancellation, shipment, known,
    cancelKey, confirmed, returning, begun, call>>

OrderRows ==
  [status : {"PAID", "CANCELLED"}, fulfilled : {"no", "partial", "fulfilled"}]
ExchangeStatuses == {"eligible", "reserved", "escalated", "completed", "cancelled"}
ExchangeEnded == {"completed", "cancelled"}

LifecycleTypeOK ==
  /\ TypeOK
  /\ order \in OrderRows
  /\ cancellation \in [CancellationIds -> CancellationStatuses \cup {None}]
  /\ shipment \in {"none", "created", "cancelled"}
  /\ known \in BOOLEAN
  /\ cancelKey \in {"free", "reserved", "completed"}
  /\ confirmed \subseteq CancellationIds
  /\ returns \subseteq ReturnIds
  /\ tracked \in BOOLEAN
  /\ restocked \subseteq Flows \X Lines
  /\ exchange \in Seq(ExchangeStatuses)
  /\ shortage \in BOOLEAN

Idle == [pc |-> "idle", id |-> None, held |-> None, source |-> TheOrder,
         result |-> None, todo |-> {}, next |-> None, flow |-> None, inline |-> TRUE]

LifecycleInit ==
  /\ Init
  /\ order = [status |-> "PAID", fulfilled |-> "no"]
  /\ cancellation = [k \in CancellationIds |-> None]
  /\ shipment = "none" /\ known = FALSE /\ cancelKey = "free" /\ confirmed = {}
  /\ returns = {} /\ tracked = FALSE /\ restocked = {}
  /\ exchange = <<>> /\ shortage \in BOOLEAN
  /\ begun = 0
  /\ call = [c \in Calls |-> Idle]

At(c, pc) == call[c].pc = pc
Goto(c, pc) == call' = [call EXCEPT ![c].pc = pc]
Return(c) == call' = [call EXCEPT ![c] = Idle]
Start(c, fields) == At(c, "idle") /\ call' = [call EXCEPT ![c] = fields]
Status(c) == cancellation[call[c].id]

\* atomic_transition_cancellation_status: the compare-and-swap.
Transition(c, status) ==
  cancellation' = [cancellation EXCEPT ![call[c].id] = status]

-----------------------------------------------------------------------------
(* The reservations of a source, one after the other.                      *)

\* After them an exchange has its row to put.
Settled(c) ==
  IF call[c].source = TheOrder THEN Return(c) ELSE Goto(c, "put_exchange")

\* _reservations_for_source; a restock skips what was not consumed.
ListReservations(c) ==
  LET found == {l \in LinesOf(call[c].source) :
                  /\ reservation[l] # None
                  /\ call[c].next = "restock" => Consumed(l) > 0}
  IN  /\ At(c, "list")
      /\ IF found = {} THEN Settled(c)
         ELSE call' = [call EXCEPT ![c].pc = call[c].next, ![c].todo = found]
      /\ UNCHANGED <<ledger, logistics, returning, rows>>

ThisLine(c) == CHOOSE l \in call[c].todo : TRUE
LineDone(c) ==
  IF call[c].todo = {ThisLine(c)} THEN Settled(c)
  ELSE call' = [call EXCEPT ![c].todo = @ \ {ThisLine(c)}, ![c].pc = call[c].next]

\* _consume_order_fulfilment.
Consume(c) ==
  LET l == ThisLine(c) IN
  /\ At(c, "consume")
  /\ ConsumeReservation(l, reservation[l].quantity_reserved)
  /\ LineDone(c)
  /\ UNCHANGED <<logistics, returning, rows>>

Release(c) ==
  LET l == ThisLine(c) IN
  /\ At(c, "release")
  /\ ReleaseReservation(l, reservation[l].quantity_reserved)
  /\ LineDone(c)
  /\ UNCHANGED <<logistics, returning, rows>>

\* A fault of CheckRestock: the marker first, so that a retry is always safe.
CheckAndMark(c) ==
  /\ At(c, "restock")
  /\ restocked' = restocked \cup {<<call[c].flow, ThisLine(c)>>}
  /\ IF <<call[c].flow, ThisLine(c)>> \in restocked
     THEN LineDone(c) ELSE Goto(c, "adjust")
  /\ UNCHANGED <<ledger, logistics, returns, tracked, others, rows>>

\* _restock_order_reservations: look for the marker, add the stock, record the
\* marker.  What a reservation consumed does not change any more.
CheckRestock(c) ==
  /\ At(c, "restock")
  /\ IF <<call[c].flow, ThisLine(c)>> \in restocked
     THEN LineDone(c) ELSE Goto(c, "adjust")
  /\ UNCHANGED <<ledger, logistics, returning, rows>>

Adjust(c) ==
  LET l == ThisLine(c) IN
  /\ At(c, "adjust")
  /\ AdjustInventory(SlotOf(l), Consumed(l))
  /\ Goto(c, "mark")
  /\ UNCHANGED <<logistics, returning, rows>>

Mark(c) ==
  /\ At(c, "mark")
  /\ restocked' = restocked \cup {<<call[c].flow, ThisLine(c)>>}
  /\ LineDone(c)
  /\ UNCHANGED <<ledger, logistics, returns, tracked, others, rows>>

-----------------------------------------------------------------------------
(* Allocation, fulfilment and shipment.                                    *)

\* The outcome of Allocation for this order, whole or line by line at a fixed
\* location; nothing orders it before the rest.
Allocate(location) ==
  /\ \/ ReserveOrderLines(TheOrder, location)
     \/ \E l \in LinesOf(TheOrder) : ReserveInventory(l, location)
  /\ UNCHANGED <<logistics, returning, rows, call, begun>>

\* monitor_fulfilment with the status "fulfilled": put the order, then consume.
MonitorFulfilment(c) ==
  /\ order.fulfilled # "fulfilled"
  /\ Start(c, [Idle EXCEPT !.pc = "fulfil", !.held = order])
  /\ UNCHANGED <<ledger, logistics, returning, rows>>

Fulfil(c) ==
  /\ At(c, "fulfil")
  /\ order' = [call[c].held EXCEPT !.fulfilled = "fulfilled"]
  /\ call' = [call EXCEPT ![c].pc = "list", ![c].next = "consume"]
  /\ UNCHANGED <<ledger, logistics, returning, cancellation>>

\* create_or_observe_shipment.  When the answer is lost, or the call dies, the
\* shipment exists and its row is never made: later calls find it "existing".
CreateShipment ==
  /\ shipment = "none"
  /\ shipment' = "created"
  /\ known' \in BOOLEAN
  /\ UNCHANGED <<ledger, cancelKey, confirmed, returning, rows, call, begun>>

\* resume_inventory_shortage, when the approval of an earlier allocation's
\* shortage is approved: the order is read, whatever its status, and then what its
\* reservations once got, released or not; without any, an exception.
ResumeShortage(c) ==
  /\ shortage
  /\ shortage' = FALSE
  /\ Start(c, [Idle EXCEPT !.pc = "quantities", !.held = order])
  /\ UNCHANGED <<ledger, logistics, returns, tracked, restocked, exchange, rows>>

ListQuantities(c) ==
  LET got == {l \in LinesOf(TheOrder) :
                reservation[l] # None /\ reservation[l].quantity_reserved > 0}
  IN  /\ At(c, "quantities")
      /\ IF got = {} THEN Return(c)
         ELSE call' = [call EXCEPT ![c].pc = "storefront", ![c].todo = got]
      /\ UNCHANGED <<ledger, logistics, returning, rows>>

\* _fulfil_available_quantities: the storefront fulfils them or raises, and the
\* order the call read is put back; its reservations are left as they are.
FulfilAvailable(c) ==
  /\ At(c, "storefront")
  /\ Return(c) \/ Goto(c, "put_fulfilled")
  /\ UNCHANGED <<ledger, logistics, returning, rows>>

PutFulfilled(c) ==
  LET covered(l) == l \in call[c].todo /\ reservation[l].quantity_reserved >= LineQty[l]
  IN  /\ At(c, "put_fulfilled")
      /\ order' = [call[c].held EXCEPT
           !.fulfilled = IF \A l \in LinesOf(TheOrder) : covered(l)
                         THEN "fulfilled" ELSE "partial"]
      /\ Return(c)
      /\ UNCHANGED <<ledger, logistics, returning, cancellation>>

-----------------------------------------------------------------------------
(* Cancellation.                                                           *)

CancellationRows == {k \in CancellationIds : cancellation[k] # None}

\* evaluate_cancellation: no row is found, then one is put.
RequestCancellation(c) ==
  /\ CancellationRows = {}
  /\ Cardinality({d \in Calls : At(d, "create_cancellation")}) < MaxCancellations
  /\ Start(c, [Idle EXCEPT !.pc = "create_cancellation", !.held = order])
  /\ UNCHANGED <<ledger, logistics, returning, rows>>

InitialStatus(o) ==
  IF o.fulfilled # "no" \/ CancellationMode = "DENY" THEN "denied"
  ELSE IF CancellationMode = "REQUIRE_APPROVAL" THEN "approval_required"
  ELSE "eligible"

CreateCancellation(c) ==
  /\ At(c, "create_cancellation")
  /\ cancellation' = [cancellation EXCEPT
       ![Cardinality(CancellationRows) + 1] = InitialStatus(call[c].held)]
  /\ Return(c)
  /\ UNCHANGED <<ledger, logistics, returning, order>>

\* approve_cancellation and reject_cancellation, called on a row that waits for
\* approval.  An approval executes, whether or not it won the transition.
DecideCancellation(c, k) ==
  /\ cancellation[k] = "approval_required"
  /\ \E pc \in {"approve", "reject"} : Start(c, [Idle EXCEPT !.pc = pc, !.id = k])
  /\ UNCHANGED <<ledger, logistics, returning, rows>>

\* A fault of Approve: the plain write it replaced.
ApproveBlindly(c) ==
  /\ At(c, "approve")
  /\ Transition(c, "approved")
  /\ Goto(c, "read")
  /\ UNCHANGED <<ledger, logistics, returning, order>>

Approve(c) ==
  /\ At(c, "approve")
  /\ IF Status(c) = "approval_required" THEN Transition(c, "approved")
     ELSE UNCHANGED cancellation
  /\ Goto(c, "read")
  /\ UNCHANGED <<ledger, logistics, returning, order>>

Reject(c) ==
  /\ At(c, "reject")
  /\ IF Status(c) = "approval_required" THEN Transition(c, "rejected")
     ELSE UNCHANGED cancellation
  /\ Return(c)
  /\ UNCHANGED <<ledger, logistics, returning, order>>

\* execute_cancellation: read the row and the order, then claim.
ExecuteCancellation(c, k) ==
  /\ cancellation[k] # None
  /\ Start(c, [Idle EXCEPT !.pc = "read", !.id = k])
  /\ UNCHANGED <<ledger, logistics, returning, rows>>

Executable(status) == status \in {"eligible", "approved"}

ReadForCancellation(c) ==
  /\ At(c, "read")
  /\ IF Executable(Status(c))
     THEN call' = [call EXCEPT ![c].held = order,
            ![c].pc = IF order.fulfilled # "no" THEN "stale" ELSE "claim"]
     ELSE Return(c)
  /\ UNCHANGED <<ledger, logistics, returning, rows>>

GoStale(c) ==
  /\ At(c, "stale")
  /\ IF Executable(Status(c)) THEN Transition(c, "stale_not_executable")
     ELSE UNCHANGED cancellation
  /\ Return(c)
  /\ UNCHANGED <<ledger, logistics, returning, order>>

\* A fault of Claim: the row is not looked at again before it is claimed.
ClaimBlindly(c) ==
  /\ At(c, "claim")
  /\ Transition(c, "completed")
  /\ Goto(c, "shipment")
  /\ UNCHANGED <<ledger, logistics, returning, order>>

Claim(c) ==
  /\ At(c, "claim")
  /\ IF Executable(Status(c)) THEN Transition(c, "completed") /\ Goto(c, "shipment")
     ELSE UNCHANGED cancellation /\ Return(c)
  /\ UNCHANGED <<ledger, logistics, returning, order>>

\* cancel_shipment, once per order: a command that succeeded or the result of
\* the key is replayed (IdempotencyService.run_once).  A call that finds the key
\* in use waits, and fails when the wait expires.
NoShipment(c) ==
  /\ At(c, "shipment")
  /\ shipment = "none"
  /\ Goto(c, "put_order")
  /\ UNCHANGED <<ledger, logistics, returning, rows>>

ShipmentIsCancelled == confirmed # {} \/ cancelKey = "completed"

CancelShipment(c) ==
  /\ At(c, "shipment")
  /\ shipment # "none"
  /\ \/ /\ ShipmentIsCancelled
        /\ Goto(c, "put_order") /\ UNCHANGED cancelKey
     \/ /\ ~ ShipmentIsCancelled /\ cancelKey = "free"
        /\ cancelKey' = "reserved" /\ Goto(c, "mutate")
     \/ /\ ~ ShipmentIsCancelled /\ cancelKey = "reserved"
        /\ Return(c) /\ UNCHANGED cancelKey
  /\ UNCHANGED <<ledger, shipment, known, confirmed, returning, rows>>

ShipmentCancelled(c) ==
  /\ At(c, "mutate")
  /\ shipment' = "cancelled"
  /\ Goto(c, "complete")
  /\ UNCHANGED <<ledger, known, cancelKey, confirmed, returning, rows>>

CompleteKey(c) ==
  /\ At(c, "complete")
  /\ cancelKey' = "completed"
  /\ Goto(c, "put_order")
  /\ UNCHANGED <<ledger, shipment, known, confirmed, returning, rows>>

\* A timeout, before or after the shipment was cancelled, or a rejection.
CancelFails(c) ==
  /\ At(c, "mutate")
  /\ shipment' \in {shipment, "cancelled"}
  /\ cancelKey' = "free"
  /\ Goto(c, "readback")
  /\ UNCHANGED <<ledger, known, confirmed, returning, rows>>

\* _cancellation_read_back and _resolve_cancellation_uncertainty.  Inline, the
\* row is the call's claim; in a recovery, it is uncertain.
From(c) == IF call[c].inline THEN "completed" ELSE "mutation_uncertain"

ReadBack(c) ==
  /\ At(c, "readback")
  /\ \E verdict \in {IF shipment = "cancelled" THEN "succeeded" ELSE "not_applied",
                     "unknown"} : Goto(c, verdict)
  /\ UNCHANGED <<ledger, logistics, returning, rows>>

ResolveSucceeded(c) ==
  /\ At(c, "succeeded")
  /\ confirmed' = confirmed \cup {call[c].id}
  /\ IF Status(c) = From(c) THEN Transition(c, "completed") /\ Goto(c, "put_order")
     ELSE UNCHANGED cancellation /\ Return(c)
  /\ UNCHANGED <<ledger, shipment, known, cancelKey, returning, order>>

ResolveNotApplied(c) ==
  /\ At(c, "not_applied")
  /\ confirmed' = confirmed \ {call[c].id}
  /\ IF Status(c) = From(c) THEN Transition(c, "approved") ELSE UNCHANGED cancellation
  /\ IF Status(c) = From(c) /\ ~ call[c].inline
     THEN call' = [call EXCEPT ![c].pc = "read", ![c].inline = TRUE]
     ELSE Return(c)
  /\ UNCHANGED <<ledger, shipment, known, cancelKey, returning, order>>

ResolveUnknown(c) ==
  /\ At(c, "unknown")
  /\ IF Status(c) = From(c) THEN Transition(c, "mutation_uncertain")
     ELSE UNCHANGED cancellation
  /\ Return(c)
  /\ UNCHANGED <<ledger, logistics, returning, order>>

\* The order the call read is put as cancelled, then its stock is released.
CancelOrder(c) ==
  /\ At(c, "put_order")
  /\ order' = [call[c].held EXCEPT !.status = "CANCELLED"]
  /\ call' = [call EXCEPT ![c].pc = "list", ![c].next = "release"]
  /\ UNCHANGED <<ledger, logistics, returning, cancellation>>

\* recover_cancellation_mutation.
RecoverCancellation(c, k) ==
  /\ cancellation[k] = "mutation_uncertain"
  /\ Start(c, [Idle EXCEPT !.pc = "readback", !.id = k, !.held = order,
                           !.inline = FALSE])
  /\ UNCHANGED <<ledger, logistics, returning, rows>>

-----------------------------------------------------------------------------
(* Goods that come back.                                                   *)

\* evaluate_return: no row is found, then one is put.
RequestReturn(c) ==
  /\ returns = {}
  /\ Cardinality({d \in Calls : At(d, "create_return")}) < MaxReturns
  /\ Start(c, [Idle EXCEPT !.pc = "create_return"])
  /\ UNCHANGED <<ledger, logistics, returning, rows>>

CreateReturn(c) ==
  /\ At(c, "create_return")
  /\ returns' = returns \cup {Cardinality(returns) + 1}
  /\ Return(c)
  /\ UNCHANGED <<ledger, logistics, tracked, restocked, others, rows>>

\* progress_return with inspection_passed and restockable goods, in any status.
InspectReturn(c, r) ==
  /\ r \in returns
  /\ Start(c, [Idle EXCEPT !.pc = "list", !.next = "restock", !.flow = r])
  /\ UNCHANGED <<ledger, logistics, returning, rows>>

\* ingest_tracking of RTO_DELIVERED: the event is recorded, by its unique index
\* once, and then the stock is added.
IngestTracking(c) ==
  /\ shipment # "none" /\ known
  /\ ~ tracked
  /\ tracked' = TRUE
  /\ Start(c, [Idle EXCEPT !.pc = "list", !.next = "restock", !.flow = RTO])
  /\ UNCHANGED <<ledger, logistics, returns, restocked, others, rows>>

-----------------------------------------------------------------------------
(* Exchanges.                                                              *)

\* evaluate_exchange: no row is found; then the stock is read.
EvaluateExchange(c) ==
  /\ exchange = <<>>
  /\ Start(c, [Idle EXCEPT !.pc = "read_stock", !.source = TheExchange])
  /\ UNCHANGED <<ledger, logistics, returning, rows>>

\* Units in quarantine count as stock here.
HasStock ==
  LET inv == inventory[<<LineSku[Replacement], ExchangeLocation>>]
  IN  inv.quantity - inv.reserved > 0

\* `auto` is exchanges.auto_reserve of the configuration.
ReadStock(c) ==
  /\ At(c, "read_stock")
  /\ \E auto \in BOOLEAN :
       IF HasStock /\ auto THEN Goto(c, "reserve")
       ELSE call' = [call EXCEPT ![c].pc = "create_exchange",
              ![c].result = IF HasStock THEN "eligible" ELSE "escalated"]
  /\ UNCHANGED <<ledger, logistics, returning, rows>>

\* A reservation under the same key is answered as it was made.
ReserveReplacement(c) ==
  /\ At(c, "reserve")
  /\ IF reservation[Replacement] = None
     THEN ReserveInventory(Replacement, ExchangeLocation)
     ELSE UNCHANGED ledger
  /\ call' = [call EXCEPT ![c].pc = "create_exchange",
       ![c].result = IF reservation'[Replacement].quantity_reserved > 0
                   THEN "reserved" ELSE "escalated"]
  /\ UNCHANGED <<logistics, returning, rows>>

CreateExchange(c) ==
  /\ At(c, "create_exchange")
  /\ exchange' = Append(exchange, call[c].result)
  /\ Return(c)
  /\ UNCHANGED <<ledger, logistics, returns, tracked, restocked, shortage, rows>>

Ending(k, status, next) ==
  [Idle EXCEPT !.pc = "list", !.id = k, !.result = status, !.source = TheExchange,
               !.next = next]

\* A fault of CancelExchange: the row alone is cancelled.
CancelRow(c, k) ==
  /\ exchange[k] \notin ExchangeEnded
  /\ Start(c, [Ending(k, "cancelled", None) EXCEPT !.pc = "put_exchange"])
  /\ UNCHANGED <<ledger, logistics, returning, rows>>

CancelExchange(c, k) ==
  /\ exchange[k] \notin ExchangeEnded
  /\ Start(c, Ending(k, "cancelled", "release"))
  /\ UNCHANGED <<ledger, logistics, returning, rows>>

\* complete_exchange puts the row it read in any case.
CompleteExchange(c, k) ==
  /\ IF exchange[k] \in {"eligible", "reserved"}
     THEN Start(c, Ending(k, "completed", "consume"))
     ELSE Start(c, [Ending(k, exchange[k], None) EXCEPT !.pc = "put_exchange"])
  /\ UNCHANGED <<ledger, logistics, returning, rows>>

PutExchange(c) ==
  /\ At(c, "put_exchange")
  /\ exchange' = [exchange EXCEPT ![call[c].id] = call[c].result]
  /\ Return(c)
  /\ UNCHANGED <<ledger, logistics, returns, tracked, restocked, shortage, rows>>

-----------------------------------------------------------------------------
Step(c) ==
  \/ ListReservations(c) \/ Consume(c) \/ Release(c)
  \/ CheckRestock(c) \/ Adjust(c) \/ Mark(c)
  \/ Fulfil(c)
  \/ CreateCancellation(c) \/ Approve(c) \/ Reject(c)
  \/ ReadForCancellation(c) \/ GoStale(c) \/ Claim(c)
  \/ NoShipment(c) \/ CancelShipment(c) \/ ShipmentCancelled(c)
  \/ CompleteKey(c) \/ CancelFails(c) \/ ReadBack(c)
  \/ ResolveSucceeded(c) \/ ResolveNotApplied(c) \/ ResolveUnknown(c)
  \/ CancelOrder(c)
  \/ CreateReturn(c)
  \/ ListQuantities(c) \/ FulfilAvailable(c) \/ PutFulfilled(c)
  \/ ReadStock(c) \/ ReserveReplacement(c) \/ CreateExchange(c) \/ PutExchange(c)

Begin(c) ==
  \/ MonitorFulfilment(c)
  \/ RequestCancellation(c)
  \/ \E k \in CancellationIds :
       \/ DecideCancellation(c, k)
       \/ ExecuteCancellation(c, k)
       \/ RecoverCancellation(c, k)
  \/ RequestReturn(c)
  \/ \E r \in ReturnIds : InspectReturn(c, r)
  \/ IngestTracking(c)
  \/ ResumeShortage(c)
  \/ EvaluateExchange(c)
  \/ \E k \in DOMAIN exchange : CancelExchange(c, k) \/ CompleteExchange(c, k)

\* The process dies between two steps of a call.
Die(c) ==
  /\ ~ At(c, "idle")
  /\ Return(c)
  /\ UNCHANGED <<ledger, logistics, returning, rows, begun>>

LifecycleNext ==
  \/ \E location \in Locations : Allocate(location)
  \/ CreateShipment
  \/ \E c \in Calls :
       \/ Begin(c) /\ begun < MaxBegun /\ begun' = begun + 1
       \/ Step(c) /\ UNCHANGED begun
       \/ Die(c)

LifecycleSpec == LifecycleInit /\ [][LifecycleNext]_lifecycleVars

-----------------------------------------------------------------------------
(* Properties.                                                             *)

Executing(c, k) ==
  /\ call[c].id = k
  /\ \/ call[c].pc \in {"shipment", "mutate", "complete", "put_order"}
     \/ call[c].next = "release" /\ call[c].source = TheOrder
     \/ call[c].inline /\ call[c].pc \in {"readback", "succeeded", "not_applied", "unknown"}

\* Concurrent approvals and executions of a cancellation produce exactly one
\* logical execution: nobody else is past the claim, not even while its outcome
\* is resolved or recovered (execute_cancellation).
ExecutedByOne ==
  \A k \in CancellationIds, c, d \in Calls :
    Executing(c, k) /\ Executing(d, k) => c = d

\* Stock is released only by a cancellation that was eligible or approved, and
\* then the cancellation stays completed: it is not rejected, stale or uncertain.
ReleasedOnlyWhenCancelled ==
  (\E l \in LinesOf(TheOrder) :
     reservation[l] # None /\ reservation[l].quantity_released > 0)
  => \E k \in CancellationIds : cancellation[k] = "completed"

\* What one transition may make of a status.
Successors(status) ==
  CASE status = "approval_required" -> {"approved", "rejected"}
    [] status \in {"eligible", "approved"} -> {"completed", "stale_not_executable"}
    [] status = "completed" -> {"approved", "mutation_uncertain"}
    [] status = "mutation_uncertain" -> {"completed", "approved"}
    [] OTHER -> {}

\* A decision is never taken back: no approval or execution that was overtaken
\* moves a row out of a final status or back to an earlier one.
NeverRegresses ==
  [][\A k \in CancellationIds :
       cancellation[k] \notin {None, cancellation'[k]} =>
         cancellation'[k] \in Successors(cancellation[k])]_cancellation

\* A restock that is recorded was made: units that came back are never lost
\* behind a marker, however calls die.
MarkedWasRestocked ==
  LifecycleTypeOK /\ \A l \in LinesOf(TheOrder) : reservation[l] # None =>
    Cardinality({f \in Flows : <<f, l>> \in restocked}) * Consumed(l)
      <= inflow[SlotOf(l)]

\* When an exchange that reserved its replacement ends, no unit stays held for
\* it: however cancellations, completions, other exchanges of the order and deaths
\* meet, the unit was given back or shipped before the row says so.
EndsHoldingNothing ==
  [][\A k \in DOMAIN exchange :
       exchange[k] = "reserved" /\ exchange'[k] \in ExchangeEnded
         => Outstanding(Replacement)' = 0]_exchange
=============================================================================
