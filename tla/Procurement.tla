----------------------------- MODULE Procurement -----------------------------
(***************************************************************************)
(* One purchase order of packages/procurement/operations.py: draft,        *)
(* approval, submission to the supplier and its recovery by the worker     *)
(* (workers/reconciliation_worker.py), the supplier's acknowledgements and *)
(* shipments, the warehouse's receipts, closing.                           *)
(*                                                                         *)
(* A call is the sequence of its store and connector calls, each one step; *)
(* it holds the rows it read, and it may die between two steps.  A put     *)
(* writes the whole row the call holds.  Acknowledgements, shipments and   *)
(* receipts are delivered at any time, in any order and repeatedly.        *)
(*                                                                         *)
(* Left out: reliability_score, which only decides later orders; Approval  *)
(* rows (`authorized` is their history); in_transit data; audit.           *)
(***************************************************************************)
EXTENDS Integers, FiniteSets

CONSTANTS
  Lines,        \* PurchaseOrderLine ids of the order
  Skus,
  LineSku,      \* [Lines -> Skus]
  Ordered,      \* [Lines -> Nat], quantity_ordered
  Acks,         \* acknowledgement events, by external_ref
  Shipments,    \* shipment events, by external_shipment_ref
  Receipts,     \* goods receipts, by external_receipt_ref
  Sequence,     \* [Acks \cup Shipments -> Nat]
  Rejecting,    \* the acknowledgements that reject the order
  Contents,     \* [events -> set of event lines]
  Calls,        \* request threads and the worker
  MaxBegun,     \* bound: requests and passes in a behaviour
  MaxAttempts,  \* max_attempts of the worker; exceptions are counted up to it
  None

Events == Acks \cup Shipments \cup Receipts
EventLines == [to : Lines \cup Skus \cup {None}, quantity : Nat, flagged : BOOLEAN]

Statuses ==
  {"DRAFT", "BLOCKED", "REQUIRES_APPROVAL", "AUTO_APPROVED", "APPROVED", "REJECTED",
   "SUBMITTED", "PARTIALLY_CONFIRMED", "CONFIRMED", "OVER_CONFIRMED", "INBOUND",
   "PARTIALLY_RECEIVED", "RECEIVED", "RECONCILED", "CLOSED"}
OrderRows == [status : Statuses, external_ref : BOOLEAN]

ASSUME ProcurementAssumption ==
  /\ IsFiniteSet(Lines) /\ Lines # {} /\ Lines \cap Skus = {}
  /\ LineSku \in [Lines -> Skus] /\ Ordered \in [Lines -> Nat]
  /\ Sequence \in [Acks \cup Shipments -> Nat]
  /\ Rejecting \subseteq Acks
  /\ \A e \in Events : Contents[e] \subseteq EventLines /\ IsFiniteSet(Contents[e])
  /\ None \notin Lines \cup Skus \cup Events \cup BOOLEAN \cup OrderRows
  /\ None \notin {"recorded", "applied"}
  /\ MaxBegun \in Nat /\ MaxAttempts \in Nat

VARIABLES
  po,          \* the PurchaseOrder row: [status, external_ref], or None
  line,        \* the PurchaseOrderLine rows: [confirmed, shipped, received]
  ack,         \* SupplierAcknowledgement rows: None, "recorded" or "applied"
  shipment,    \* InboundShipment rows: None, "stale" or "applied"
  receipt,     \* GoodsReceipt rows, by external_receipt_ref
  stock,       \* what the order added at each line's location: [quantity, inbound]
  open,        \* kinds of open exceptions of the order: "approval", "review"
  uncertain,   \* open po_submission_uncertain exceptions
  attempts,    \* po_submission_uncertain exceptions ever raised
  supplier,    \* orders the supplier created for this one
  submitKey,   \* the idempotency record of the submission
  authorized,  \* history: the policy allowed the order or somebody approved it
  begun,
  call         \* [Calls -> [pc, held, lines, event, todo, flag, over, scanned]]

order == <<po, authorized>>
events == <<ack, shipment, receipt>>
exceptions == <<open, uncertain, attempts>>
submission == <<supplier, submitKey>>
vars == <<po, line, ack, shipment, receipt, stock, open, uncertain, attempts,
          supplier, submitKey, authorized, begun, call>>

AckValid == {"SUBMITTED", "PARTIALLY_CONFIRMED", "CONFIRMED", "OVER_CONFIRMED"}
ShipmentValid == {"CONFIRMED", "PARTIALLY_CONFIRMED", "OVER_CONFIRMED", "INBOUND"}
ReceiptValid == {"INBOUND", "PARTIALLY_RECEIVED"}

\* A fault of Submittable: an order that waits for approval may be submitted.
SubmittableUnapproved == {"AUTO_APPROVED", "APPROVED", "REQUIRES_APPROVAL"}
Submittable == {"AUTO_APPROVED", "APPROVED"}

LineRows == [Lines -> [confirmed : Nat, shipped : Nat, received : Nat]]

TypeOK ==
  /\ po \in OrderRows \cup {None}
  /\ line \in LineRows
  /\ ack \in [Acks -> {None, "recorded", "applied"}]
  /\ shipment \in [Shipments -> {None, "stale", "applied"}]
  /\ receipt \subseteq Receipts
  /\ stock \in [Lines -> [quantity : Nat, inbound : Nat]]
  /\ open \subseteq {"approval", "review"}
  /\ uncertain \in Nat /\ attempts \in 0..MaxAttempts
  /\ supplier \in Nat
  /\ submitKey \in {"free", "reserved", "completed"}
  /\ authorized \in BOOLEAN
  /\ \A c \in Calls : call[c].held \in OrderRows \cup {None}

Idle == [pc |-> "idle", held |-> None, lines |-> None, event |-> None,
         todo |-> {}, flag |-> None, over |-> FALSE, scanned |-> 0]

Init ==
  /\ po = None
  /\ line = [l \in Lines |-> [confirmed |-> 0, shipped |-> 0, received |-> 0]]
  /\ ack = [a \in Acks |-> None]
  /\ shipment = [s \in Shipments |-> None]
  /\ receipt = {}
  /\ stock = [l \in Lines |-> [quantity |-> 0, inbound |-> 0]]
  /\ open = {} /\ uncertain = 0 /\ attempts = 0
  /\ supplier = 0 /\ submitKey = "free"
  /\ authorized = FALSE
  /\ begun = 0
  /\ call = [c \in Calls |-> Idle]

At(c, pc) == call[c].pc = pc
Goto(c, pc) == call' = [call EXCEPT ![c].pc = pc]
Return(c) == call' = [call EXCEPT ![c] = Idle]
Start(c, fields) == At(c, "idle") /\ call' = [call EXCEPT ![c] = fields]
Review == open' = open \cup {"review"}
ReviewIf(flagged) == open' = IF flagged THEN open \cup {"review"} ELSE open

Lesser(m, n) == IF m < n THEN m ELSE n
Greater(m, n) == IF m > n THEN m ELSE n

-----------------------------------------------------------------------------
(* Draft, authority, approval.                                             *)

Strictness == [ALLOW |-> 0, REQUIRE_APPROVAL |-> 1, DENY |-> 2]
Strictest(decisions) ==
  CHOOSE d \in decisions : \A e \in decisions : Strictness[e] <= Strictness[d]

\* evaluate_po_authority: an inactive supplier or incomplete lines deny; each
\* check that fails (spending limit, reliability, cost, quantity) escalates.
Authority(complete, escalations) ==
  IF complete THEN Strictest({"ALLOW"} \cup escalations) ELSE "DENY"

\* create_purchase_order, BLOCKED when no line has an offer; a second request
\* with the key gets the same draft.
CreatePurchaseOrder(c) ==
  /\ po = None
  /\ \E status \in {"DRAFT", "BLOCKED"} :
       /\ po' = [status |-> status, external_ref |-> FALSE]
       /\ IF status = "DRAFT" THEN Start(c, [Idle EXCEPT !.pc = "validate"])
          ELSE UNCHANGED call
  /\ UNCHANGED <<line, events, stock, exceptions, submission, authorized>>

Validated(decision) ==
  CASE decision = "DENY" -> "BLOCKED"
    [] decision = "REQUIRE_APPROVAL" -> "REQUIRES_APPROVAL"
    [] OTHER -> "AUTO_APPROVED"

ValidatePurchaseOrder(c) ==
  /\ At(c, "validate")
  /\ \E complete \in BOOLEAN, escalations \in SUBSET {"REQUIRE_APPROVAL", "DENY"} :
       LET decision == Authority(complete, escalations) IN
       /\ po' = [po EXCEPT !.status = Validated(decision)]
       /\ authorized' = (decision = "ALLOW")
       /\ open' = CASE decision = "DENY" -> open \cup {"review"}
                    [] decision = "REQUIRE_APPROVAL" -> open \cup {"approval"}
                    [] OTHER -> open
  /\ Return(c)
  /\ UNCHANGED <<line, events, stock, uncertain, attempts, submission>>

ReadForApproval(c) ==
  /\ po # None /\ po.status = "REQUIRES_APPROVAL"
  /\ Start(c, [Idle EXCEPT !.pc = "approve", !.held = po])
  /\ UNCHANGED <<order, line, events, stock, exceptions, submission>>

ApprovePurchaseOrder(c) ==
  /\ At(c, "approve")
  /\ po' = [call[c].held EXCEPT !.status = "APPROVED"]
  /\ authorized' = TRUE
  /\ Goto(c, "approved")
  /\ UNCHANGED <<line, events, stock, exceptions, submission>>

ResolveApproval(c) ==
  /\ At(c, "approved")
  /\ open' = open \ {"approval"}
  /\ Return(c)
  /\ UNCHANGED <<order, line, events, stock, uncertain, attempts, submission>>

-----------------------------------------------------------------------------
(* Submission, by a request or by the worker.                              *)

\* A put of the order the call holds; the worker then closes what it scanned.
PutPurchaseOrder(c) ==
  /\ At(c, "put")
  /\ po' = call[c].held
  /\ IF call[c].scanned > 0 THEN Goto(c, "settle") ELSE Return(c)
  /\ UNCHANGED <<authorized, line, events, stock, exceptions, submission>>

Put(c, row) == call' = [call EXCEPT ![c].pc = "put", ![c].held = row]

\* The end of submit_purchase_order without a new status.
Unsubmitted(c) ==
  IF call[c].scanned > 0 THEN Goto(c, "settle") ELSE Return(c)

SubmitPurchaseOrder(c) ==
  /\ po # None /\ po.status \in Submittable
  /\ Start(c, [Idle EXCEPT !.pc = "reserve", !.held = po])
  /\ UNCHANGED <<order, line, events, stock, exceptions, submission>>

Submitted(c) ==
  Put(c, [call[c].held EXCEPT !.status = "SUBMITTED", !.external_ref = TRUE])

\* run_once: a completed key is replayed, a reserved one is waited for in vain,
\* and the result that is missing then ends the call.
ReserveKey(c) ==
  /\ At(c, "reserve")
  /\ \/ submitKey = "free" /\ submitKey' = "reserved" /\ Goto(c, "create")
     \/ submitKey = "completed" /\ Submitted(c) /\ UNCHANGED submitKey
     \/ submitKey = "reserved" /\ Return(c) /\ UNCHANGED submitKey
  /\ UNCHANGED <<order, line, events, stock, exceptions, supplier>>

\* A fault of Created: the supplier does not look its business key up.
CreatedAgain == supplier + 1

\* The supplier answers a business key it knows with the order it has.
Created == IF supplier = 0 THEN 1 ELSE supplier

SupplierAccepts(c) ==
  /\ At(c, "create")
  /\ supplier' = Created
  /\ Goto(c, "complete")
  /\ UNCHANGED <<order, line, events, stock, exceptions, submitKey>>

CompleteKey(c) ==
  /\ At(c, "complete")
  /\ submitKey' = "completed"
  /\ Submitted(c)
  /\ UNCHANGED <<order, line, events, stock, exceptions, supplier>>

\* The answer is lost, before or after the supplier created the order.
SupplierTimesOut(c) ==
  /\ At(c, "create")
  /\ supplier' \in {supplier, Created}
  /\ submitKey' = "free"
  /\ Goto(c, "find")
  /\ UNCHANGED <<order, line, events, stock, exceptions>>

SupplierRejects(c) ==
  /\ At(c, "create")
  /\ submitKey' = "free"
  /\ Review
  /\ Unsubmitted(c)
  /\ UNCHANGED <<order, line, events, stock, uncertain, attempts, supplier>>

FindPurchaseOrder(c) ==
  /\ At(c, "find")
  /\ IF supplier > 0
     THEN Submitted(c) /\ UNCHANGED <<uncertain, attempts>>
     ELSE /\ uncertain' = uncertain + 1
          /\ attempts' = Lesser(attempts + 1, MaxAttempts)
          /\ Unsubmitted(c)
  /\ UNCHANGED <<order, line, events, stock, open, submission>>

\* _recover_uncertain_po_submissions: the order's open exceptions are scanned.
RecoveryPass(c) ==
  /\ uncertain > 0
  /\ \A d \in Calls : call[d].scanned = 0
  /\ Start(c, [Idle EXCEPT !.pc = "recover", !.scanned = uncertain])
  /\ UNCHANGED <<order, line, events, stock, exceptions, submission>>

\* Submitted meanwhile, given up, or held for the read of the supplier.
ReadForRecovery(c) ==
  /\ At(c, "recover")
  /\ IF po.status = "SUBMITTED" THEN Goto(c, "settle")
     ELSE IF attempts >= MaxAttempts THEN Return(c)
     ELSE call' = [call EXCEPT ![c].pc = "read_supplier", ![c].held = po]
  /\ UNCHANGED <<order, line, events, stock, exceptions, submission>>

ReadSupplier(c) ==
  /\ At(c, "read_supplier")
  /\ IF supplier > 0 THEN Submitted(c) ELSE Goto(c, "resubmit")
  /\ UNCHANGED <<order, line, events, stock, exceptions, submission>>

Resubmit(c) ==
  /\ At(c, "resubmit")
  /\ IF po.status \in Submittable
     THEN call' = [call EXCEPT ![c].pc = "reserve", ![c].held = po]
     ELSE Goto(c, "settle")
  /\ UNCHANGED <<order, line, events, stock, exceptions, submission>>

SettleExceptions(c) ==
  /\ At(c, "settle")
  /\ uncertain' = uncertain - call[c].scanned
  /\ Return(c)
  /\ UNCHANGED <<order, line, events, stock, open, attempts, submission>>

-----------------------------------------------------------------------------
(* What the supplier and the warehouse report.                             *)

\* An event names a line or, in the older form, a SKU, which must then be on
\* exactly one line (_resolve_po_line_for_event, record_goods_receipt).
Named(to) == {l \in Lines : l = to \/ LineSku[l] = to}
Resolves(to) == Cardinality(Named(to)) = 1
TheLine(to) == CHOOSE l \in Named(to) : TRUE

\* A line that is not in the order, or a SKU on several lines, asks for review; a
\* SKU on no line is skipped.
Unresolved(to) == to = None \/ Cardinality(Named(to)) > 1

This(c) == CHOOSE x \in call[c].todo : TRUE
Rest(c) == call[c].todo \ {This(c)}
Deliver(c, e, valid, pc, refused) ==
  /\ po # None /\ supplier > 0
  /\ Start(c, [Idle EXCEPT !.held = po, !.event = e,
               !.pc = IF po.status \in valid THEN pc ELSE refused])
  /\ UNCHANGED <<order, line, events, stock, exceptions, submission>>

\* The next place of a call that has those event lines to go through, or none.
PcWith(todo, pc, done) == IF todo = {} THEN done ELSE pc

\* Lists the lines that the call will put back.
HoldLines(c, pc) ==
  call' = [call EXCEPT ![c].lines = line, ![c].todo = Contents[call[c].event],
                       ![c].pc = pc]

DeliverAck(c, a) == Deliver(c, a, AckValid, "insert_ack", "refuse_ack")

\* The row of a refused event keeps its reference.
RefuseAck(c) ==
  /\ At(c, "refuse_ack")
  /\ ack' = [ack EXCEPT ![call[c].event] = IF @ = None THEN "recorded" ELSE @]
  /\ Review
  /\ Return(c)
  /\ UNCHANGED <<order, line, shipment, receipt, stock, uncertain, attempts, submission>>

\* A fault of InsertAck: the duplicate is not recognised by its reference.
InsertAckAgain(c) ==
  /\ At(c, "insert_ack")
  /\ ack' = [ack EXCEPT ![call[c].event] = "recorded"]
  /\ call' = [call EXCEPT ![c].pc = "apply", ![c].todo = Contents[call[c].event]]
  /\ UNCHANGED <<order, line, shipment, receipt, stock, exceptions, submission>>

InsertAck(c) ==
  /\ At(c, "insert_ack")
  /\ IF ack[call[c].event] = None
     THEN /\ ack' = [ack EXCEPT ![call[c].event] = "recorded"]
          /\ call' = [call EXCEPT ![c].pc = PcWith(Contents[call[c].event], "apply", "mark"),
                                  ![c].todo = Contents[call[c].event]]
     ELSE Return(c) /\ UNCHANGED ack
  /\ UNCHANGED <<order, line, shipment, receipt, stock, exceptions, submission>>

AppliedSequences == {Sequence[a] : a \in {b \in Acks : ack[b] = "applied"}}

\* atomic_apply_acknowledgement: the sequence, the line and the inbound stock,
\* which is credited up to the ordered quantity.
ApplyAckLine(c) ==
  LET x == This(c)
      resolved == Resolves(x.to)
      l == TheLine(x.to)
      fresh == Sequence[call[c].event] \notin AppliedSequences
      total == line[l].confirmed + x.quantity
      credit == Lesser(total, Ordered[l]) - Lesser(line[l].confirmed, Ordered[l])
      over == resolved /\ fresh /\ total > Ordered[l]
  IN
  /\ At(c, "apply")
  /\ IF resolved /\ fresh
     THEN /\ line' = [line EXCEPT ![l].confirmed = total]
          /\ stock' = [stock EXCEPT ![l].inbound = @ + credit]
     ELSE UNCHANGED <<line, stock>>
  /\ call' = [call EXCEPT ![c].todo = Rest(c),
                          ![c].pc = PcWith(Rest(c), "apply", "mark"),
                          ![c].over = @ \/ over,
                          ![c].flag = IF resolved /\ @ = None THEN fresh ELSE @]
  /\ ReviewIf(x.flagged \/ over \/ Unresolved(x.to))
  /\ UNCHANGED <<order, events, uncertain, attempts, submission>>

\* mark_acknowledgement_applied, unless the sequence had been applied before.
MarkAck(c) ==
  /\ At(c, "mark")
  /\ IF call[c].flag = FALSE
     THEN Review /\ Return(c) /\ UNCHANGED ack
     ELSE /\ ack' = [ack EXCEPT ![call[c].event] = "applied"]
          /\ Goto(c, "confirm") /\ UNCHANGED open
  /\ UNCHANGED <<order, line, shipment, receipt, stock, uncertain, attempts, submission>>

ConfirmedStatus(c) ==
  IF call[c].event \in Rejecting THEN "REJECTED"
  ELSE IF call[c].over THEN "OVER_CONFIRMED"
  ELSE IF \A l \in Lines : line[l].confirmed >= Ordered[l] THEN "CONFIRMED"
  ELSE "PARTIALLY_CONFIRMED"

ConfirmOrder(c) ==
  /\ At(c, "confirm")
  /\ Put(c, [call[c].held EXCEPT !.status = ConfirmedStatus(c)])
  /\ UNCHANGED <<order, line, events, stock, exceptions, submission>>

DeliverShipment(c, s) ==
  Deliver(c, s, ShipmentValid, "list_shipments", "refuse_shipment")

RefuseShipment(c) ==
  /\ At(c, "refuse_shipment")
  /\ shipment' = [shipment EXCEPT ![call[c].event] = IF @ = None THEN "stale" ELSE @]
  /\ Review
  /\ Return(c)
  /\ UNCHANGED <<order, line, ack, receipt, stock, uncertain, attempts, submission>>

ListShipments(c) ==
  /\ At(c, "list_shipments")
  /\ call' = [call EXCEPT ![c].pc = "insert_shipment", ![c].flag =
       \A s \in Shipments : shipment[s] = "applied" => Sequence[call[c].event] > Sequence[s]]
  /\ UNCHANGED <<order, line, events, stock, exceptions, submission>>

InsertShipment(c) ==
  /\ At(c, "insert_shipment")
  /\ IF shipment[call[c].event] = None
     THEN /\ shipment' = [shipment EXCEPT ![call[c].event] =
                            IF call[c].flag THEN "applied" ELSE "stale"]
          /\ ReviewIf(~ call[c].flag)
          /\ IF call[c].flag THEN Goto(c, "list_lines") ELSE Return(c)
     ELSE Return(c) /\ UNCHANGED <<shipment, open>>
  /\ UNCHANGED <<order, line, ack, receipt, stock, uncertain, attempts, submission>>

\* The order as record_inbound_shipment leaves it.
Inbound(c) ==
  IF call[c].held.status \in {"CONFIRMED", "PARTIALLY_CONFIRMED"}
  THEN [call EXCEPT ![c].pc = "put", ![c].held.status = "INBOUND"]
  ELSE [call EXCEPT ![c] = Idle]

ListLines(c) ==
  /\ At(c, "list_lines")
  /\ IF Contents[call[c].event] = {} THEN call' = Inbound(c) ELSE HoldLines(c, "ship")
  /\ UNCHANGED <<order, line, events, stock, exceptions, submission>>

ShipLine(c) ==
  LET x == This(c)
      l == TheLine(x.to)
      row == [call[c].lines[l] EXCEPT !.shipped = @ + x.quantity]
  IN
  /\ At(c, "ship")
  /\ line' = IF Resolves(x.to) THEN [line EXCEPT ![l] = row] ELSE line
  /\ call' = IF Rest(c) = {} THEN Inbound(c)
             ELSE [call EXCEPT ![c].todo = Rest(c),
                    ![c].lines = IF Resolves(x.to) THEN [@ EXCEPT ![l] = row] ELSE @]
  /\ ReviewIf(Unresolved(x.to))
  /\ UNCHANGED <<order, events, stock, uncertain, attempts, submission>>

DeliverReceipt(c, r) ==
  Deliver(c, r, ReceiptValid, "list_for_receipt", "refuse_receipt")

RefuseReceipt(c) ==
  /\ At(c, "refuse_receipt")
  /\ receipt' = receipt \cup {call[c].event}
  /\ Review
  /\ Return(c)
  /\ UNCHANGED <<order, line, ack, shipment, stock, uncertain, attempts, submission>>

ListForReceipt(c) ==
  /\ At(c, "list_for_receipt")
  /\ HoldLines(c, "insert_receipt")
  /\ UNCHANGED <<order, line, events, stock, exceptions, submission>>

InsertReceipt(c) ==
  /\ At(c, "insert_receipt")
  /\ receipt' = receipt \cup {call[c].event}
  /\ IF call[c].event \in receipt THEN Return(c)
     ELSE Goto(c, PcWith(call[c].todo, "receive", "advance"))
  /\ UNCHANGED <<order, line, ack, shipment, stock, exceptions, submission>>

\* The line is put with what was counted, whatever was expected; a reference
\* that does not resolve, a wrong location or another count asks for review.
ReceiveLine(c) ==
  LET x == This(c)
      l == TheLine(x.to)
      row == [call[c].lines[l] EXCEPT !.received = @ + x.quantity]
  IN
  /\ At(c, "receive")
  /\ IF Resolves(x.to)
     THEN /\ line' = [line EXCEPT ![l] = row]
          /\ call' = [call EXCEPT ![c].pc = "stock", ![c].lines[l] = row]
          /\ ReviewIf(x.flagged
                 \/ x.quantity # Ordered[l] - call[c].lines[l].received)
     ELSE /\ call' = [call EXCEPT ![c].todo = Rest(c),
                                  ![c].pc = PcWith(Rest(c), "receive", "advance")]
          /\ Review /\ UNCHANGED line
  /\ UNCHANGED <<order, events, stock, uncertain, attempts, submission>>

\* _apply_goods_receipt_to_inventory, at the line's own location.
StockLine(c) ==
  LET x == This(c)  l == TheLine(x.to) IN
  /\ At(c, "stock")
  /\ stock' = [stock EXCEPT ![l].quantity = @ + x.quantity,
                            ![l].inbound = Greater(@ - x.quantity, 0)]
  /\ call' = [call EXCEPT ![c].todo = Rest(c),
                          ![c].pc = PcWith(Rest(c), "receive", "advance")]
  /\ UNCHANGED <<order, line, events, exceptions, submission>>

\* _advance_po_receipt_status.
ReadForAdvance(c) ==
  /\ At(c, "advance")
  /\ call' = [call EXCEPT ![c].pc = "advance_lines", ![c].held = po]
  /\ UNCHANGED <<order, line, events, stock, exceptions, submission>>

AdvanceStatus(c) ==
  LET received == {l \in Lines : line[l].received > 0}
      complete == {l \in Lines : line[l].received >= Ordered[l]}
  IN
  /\ At(c, "advance_lines")
  /\ Put(c, [call[c].held EXCEPT !.status =
               IF complete = Lines THEN "RECEIVED"
               ELSE IF received # {} THEN "PARTIALLY_RECEIVED" ELSE @])
  /\ UNCHANGED <<order, line, events, stock, exceptions, submission>>

-----------------------------------------------------------------------------
(* reconcile_purchase_order.                                               *)

ReadForClosing(c) ==
  /\ po # None /\ po.status \in {"RECEIVED", "PARTIALLY_RECEIVED"}
  /\ Start(c, [Idle EXCEPT !.pc = "reconcile", !.held = po])
  /\ UNCHANGED <<order, line, events, stock, exceptions, submission>>

CheckExceptions(c) ==
  /\ At(c, "reconcile")
  /\ IF open = {} /\ uncertain = 0 THEN Goto(c, "reconciled") ELSE Return(c)
  /\ UNCHANGED <<order, line, events, stock, exceptions, submission>>

ReconcilePurchaseOrder(c) ==
  /\ At(c, "reconciled")
  /\ po' = [call[c].held EXCEPT !.status = "RECONCILED"]
  /\ Put(c, [call[c].held EXCEPT !.status = "CLOSED"])
  /\ UNCHANGED <<authorized, line, events, stock, exceptions, submission>>

-----------------------------------------------------------------------------
Step(c) ==
  \/ ValidatePurchaseOrder(c) \/ ApprovePurchaseOrder(c) \/ ResolveApproval(c)
  \/ PutPurchaseOrder(c)
  \/ ReserveKey(c) \/ SupplierAccepts(c) \/ CompleteKey(c)
  \/ SupplierTimesOut(c) \/ SupplierRejects(c) \/ FindPurchaseOrder(c)
  \/ ReadForRecovery(c) \/ ReadSupplier(c) \/ Resubmit(c) \/ SettleExceptions(c)
  \/ RefuseAck(c) \/ InsertAck(c) \/ ApplyAckLine(c) \/ MarkAck(c) \/ ConfirmOrder(c)
  \/ RefuseShipment(c) \/ ListShipments(c) \/ InsertShipment(c) \/ ListLines(c)
  \/ ShipLine(c)
  \/ RefuseReceipt(c) \/ ListForReceipt(c) \/ InsertReceipt(c) \/ ReceiveLine(c)
  \/ StockLine(c) \/ ReadForAdvance(c) \/ AdvanceStatus(c)
  \/ CheckExceptions(c) \/ ReconcilePurchaseOrder(c)

Begin(c) ==
  \/ CreatePurchaseOrder(c) \/ ReadForApproval(c) \/ SubmitPurchaseOrder(c)
  \/ RecoveryPass(c) \/ ReadForClosing(c)
  \/ \E a \in Acks : DeliverAck(c, a)
  \/ \E s \in Shipments : DeliverShipment(c, s)
  \/ \E r \in Receipts : DeliverReceipt(c, r)

\* The process dies between two steps of a call.
Die(c) ==
  /\ ~ At(c, "idle")
  /\ Return(c)
  /\ UNCHANGED <<order, line, events, stock, exceptions, submission, begun>>

\* Idle threads are interchangeable: what begins takes one of them.
Taken(c) == At(c, "idle") /\ c = CHOOSE d \in Calls : At(d, "idle")

Next == \E c \in Calls :
  \/ Taken(c) /\ Begin(c) /\ begun < MaxBegun /\ begun' = begun + 1
  \/ Step(c) /\ UNCHANGED begun
  \/ Die(c)

Spec == Init /\ [][Next]_vars

-----------------------------------------------------------------------------
(* Properties.                                                             *)

\* A lost answer, a retry and the worker never make a second order at the
\* supplier, and an order with an external reference exists there; the rows stay
\* well-formed under all of them.
OneExternalOrder ==
  /\ TypeOK
  /\ supplier <= 1
  /\ po # None /\ po.external_ref => supplier = 1

\* Nothing is ordered that neither the policy allowed nor a person approved,
\* whoever submits, from whatever row it read before.
SubmittedWasAuthorized == supplier > 0 => authorized

\* What events say of a line of the order, unit by unit.
About(xs, l) == {x \in xs : Resolves(x.to) /\ TheLine(x.to) = l}
UnitsOf(xs) == UNION {{x} \X (1..x.quantity) : x \in xs}
Units(es, l) == UNION {{e} \X UnitsOf(About(Contents[e], l)) : e \in es}

Recorded == {a \in Acks : ack[a] # None}

\* However often and late an event of the supplier is delivered, and wherever calls
\* die: an acknowledgement confirms once, and the units of a receipt enter the stock
\* of the line they belong to at most once.
EventsCountOnce ==
  \A l \in Lines :
    /\ line[l].confirmed <= Cardinality(Units(Recorded, l))
    /\ stock[l].quantity <= Cardinality(Units(receipt, l))
=============================================================================
