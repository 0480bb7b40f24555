-------------------------- MODULE ProcurementProofs --------------------------
(***************************************************************************)
(* For every order, every set of threads and every schedule of suppliers'  *)
(* and warehouses' events: the supplier never has a second order, and has  *)
(* none that neither the policy allowed nor a person approved; an event    *)
(* counts once.                                                            *)
(*                                                                         *)
(* A put writes a whole row that was read before, so the invariant speaks  *)
(* of rows wherever they are: a row is genuine when its external reference *)
(* stands for an order at the supplier and its status, if it may be        *)
(* submitted, for an authority.  Both stay true once they are, but for     *)
(* the validation of the draft, which runs before anything else can        *)
(* (NothingElse).  Exceptions are settled by number, and the number is     *)
(* there because one pass of the worker runs at a time (ScanTrue).         *)
(*                                                                         *)
(* What is confirmed and stocked is counted in units (event, event line,   *)
(* number): those of the recorded events that no call has still to go      *)
(* through.  A call starts to go through an event only when it was the     *)
(* first to record it, so no two go through the same one (OneEach), and    *)
(* what was counted is never taken back (Growing).  The confirmed count    *)
(* that a call will put back with the line it read is bounded alike.       *)
(***************************************************************************)
EXTENDS Procurement, FiniteSetTheorems, TLAPS

AckPlaces == {"refuse_ack", "insert_ack", "apply", "mark", "confirm"}
ShipmentPlaces == {"refuse_shipment", "list_shipments", "insert_shipment", "list_lines", "ship"}
ReceiptPlaces == {"refuse_receipt", "list_for_receipt", "insert_receipt", "receive", "stock",
                  "advance", "advance_lines"}
EventPlaces == AckPlaces \cup ShipmentPlaces \cup ReceiptPlaces
SubmissionPlaces == {"reserve", "create", "complete", "find"}
Places ==
  {"idle", "validate", "approve", "approved", "put", "recover", "read_supplier", "resubmit",
   "settle", "reconcile", "reconciled"} \cup SubmissionPlaces \cup EventPlaces

CallRows ==
  [pc : Places, held : OrderRows \cup {None}, lines : LineRows \cup {None},
   event : Events \cup {None}, todo : SUBSET EventLines, flag : BOOLEAN \cup {None},
   over : BOOLEAN, scanned : Nat]

TypeInv == TypeOK /\ call \in [Calls -> CallRows]

Genuine(row) ==
  /\ row \in OrderRows
  /\ row.external_ref => supplier = 1
  /\ row.status \in Submittable => authorized

CallGood(c) ==
  /\ call[c].pc \notin {"idle", "validate", "recover", "settle"} => Genuine(call[c].held)
  /\ call[c].pc \in SubmissionPlaces => authorized
  /\ call[c].pc = "complete" => supplier = 1
  /\ call[c].pc \in EventPlaces => call[c].event \in Events
  /\ call[c].pc \in ReceiptPlaces => call[c].event \in Receipts
  /\ call[c].pc \in {"apply", "ship", "receive", "stock"} => call[c].todo # {}
  /\ call[c].pc \in {"ship", "insert_receipt", "receive", "stock"} => call[c].lines \in LineRows

OrderGood ==
  /\ po # None => Genuine(po)
  /\ supplier \in {0, 1} /\ (supplier = 1 => authorized)
  /\ submitKey = "completed" => supplier = 1

ScanTrue ==
  /\ \A c \in Calls : call[c].scanned <= uncertain
  /\ \A c, d \in Calls : call[c].scanned > 0 /\ call[d].scanned > 0 => c = d

NothingElse ==
  /\ po = None => \A c \in Calls : call[c].pc = "idle"
  /\ \A c \in Calls : call[c].pc = "validate" =>
       po.status = "DRAFT" /\ \A d \in Calls \ {c} : call[d].pc = "idle"
  /\ po = None \/ (\E c \in Calls : call[c].pc = "validate") => supplier = 0 /\ uncertain = 0

IInv ==
  /\ TypeInv /\ OrderGood /\ ScanTrue /\ NothingElse
  /\ \A c \in Calls : CallGood(c)

-----------------------------------------------------------------------------
(* What a step has to show.                                                *)

LEMMA ConstantsTyped ==
  /\ IsFiniteSet(Lines) /\ LineSku \in [Lines -> Skus] /\ Ordered \in [Lines -> Nat]
  /\ \A e \in Events : Contents[e] \subseteq EventLines
  /\ None \notin OrderRows /\ None \notin BOOLEAN /\ MaxAttempts \in Nat
BY ProcurementAssumption DEF ProcurementAssumption

OthersKept(c) == \A d \in Calls \ {c} : call'[d] = call[d]

\* What stays true once it is, after the draft is validated.
Kept ==
  /\ supplier = 1 => supplier' = 1
  /\ authorized => authorized'
  /\ po # None => po' # None

LEMMA GenuineKept ==
  ASSUME Kept, NEW row, Genuine(row)
  PROVE  Genuine(row)'
BY DEF Kept, Genuine

LEMMA CallStaysGood ==
  ASSUME Kept, NEW d \in Calls, CallGood(d), call'[d] = call[d]
  PROVE  CallGood(d)'
BY DEF Kept, CallGood, Genuine

\* A call that runs is past the draft.
LEMMA PastDraft ==
  ASSUME IInv, NEW c \in Calls, call[c].pc \notin {"idle", "validate"}
  PROVE  po # None /\ po \in OrderRows /\ \A d \in Calls : call[d].pc # "validate"
<1>1. po # None /\ \A d \in Calls : call[d].pc # "validate"
  BY DEF IInv, NothingElse
<1>2. QED
  BY <1>1 DEF IInv, TypeInv, TypeOK

Sound(c) ==
  /\ TypeInv' /\ OthersKept(c) /\ Kept
  /\ call'[c].pc # "validate"
  /\ call'[c].scanned \in {0, call[c].scanned} /\ uncertain' >= uncertain
  /\ CallGood(c)' /\ OrderGood'

LEMMA SoundSuffices ==
  ASSUME IInv, NEW c \in Calls, po # None, \A d \in Calls : call[d].pc # "validate", Sound(c)
  PROVE  IInv'
<1>1. TypeInv' /\ OrderGood' /\ TypeInv
  BY DEF Sound, IInv
<1>2. \A d \in Calls : CallGood(d)'
  BY CallStaysGood DEF Sound, OthersKept, IInv
<1>3. NothingElse'
  BY DEF Sound, OthersKept, Kept, NothingElse
<1>4. ScanTrue'
  <2>1. uncertain \in Nat /\ uncertain' \in Nat /\ \A d \in Calls : call[d].scanned \in Nat
    BY <1>1 DEF TypeInv, TypeOK, CallRows
  <2>2. \A d \in Calls : call'[d].scanned \in {0, call[d].scanned}
    BY DEF Sound, OthersKept
  <2>3. QED
    BY <2>1, <2>2 DEF Sound, ScanTrue, IInv
<1>5. QED
  BY <1>1, <1>2, <1>3, <1>4 DEF IInv

Quiet == UNCHANGED <<order, line, events, stock, exceptions, submission>>

\* A step that only its own call notices.
LEMMA QuietSound ==
  ASSUME IInv, NEW c \in Calls, Quiet, call' \in [Calls -> CallRows], OthersKept(c),
         call'[c].pc # "validate", call'[c].scanned \in {0, call[c].scanned}, CallGood(c)'
  PROVE  Sound(c)
<1>1. /\ po' = po /\ authorized' = authorized /\ line' = line /\ ack' = ack /\ shipment' = shipment
      /\ receipt' = receipt /\ stock' = stock /\ open' = open /\ uncertain' = uncertain
      /\ attempts' = attempts /\ supplier' = supplier /\ submitKey' = submitKey
  BY DEF Quiet, order, events, exceptions, submission
<1>2. TypeInv'
  <2>1. \A d \in Calls : call'[d].held \in OrderRows \cup {None}
    BY DEF CallRows
  <2>2. QED
    BY <1>1, <2>1 DEF IInv, TypeInv, TypeOK
<1>3. Kept /\ OrderGood' /\ uncertain' >= uncertain
  BY <1>1 DEF Kept, IInv, OrderGood, Genuine, TypeInv, TypeOK
<1>4. QED
  BY <1>2, <1>3 DEF Sound

\* The rows a step of a call finds.
LEMMA Here ==
  ASSUME IInv, NEW c \in Calls
  PROVE  /\ TypeOK /\ call \in [Calls -> CallRows] /\ call[c] \in CallRows /\ CallGood(c)
         /\ OrderGood
BY DEF IInv, TypeInv

-----------------------------------------------------------------------------
(* How a step leaves the record of its call.                               *)

LEMMA CallTyped ==
  ASSUME call \in [Calls -> CallRows], NEW c \in Calls, NEW r \in CallRows,
         call' = [call EXCEPT ![c] = r]
  PROVE  call' \in [Calls -> CallRows] /\ OthersKept(c) /\ call'[c] = r
BY DEF OthersKept

LEMMA GotoTyped ==
  ASSUME call \in [Calls -> CallRows], NEW c \in Calls, NEW pc \in Places, Goto(c, pc)
  PROVE  /\ call' \in [Calls -> CallRows] /\ OthersKept(c)
         /\ call'[c] = [call[c] EXCEPT !.pc = pc]
<1>1. [call[c] EXCEPT !.pc = pc] \in CallRows
  BY DEF CallRows
<1>2. call' = [call EXCEPT ![c] = [call[c] EXCEPT !.pc = pc]]
  BY DEF Goto
<1>3. QED
  BY <1>1, <1>2, CallTyped

LEMMA IdleTyped == Idle \in CallRows
BY DEF Idle, CallRows, Places

LEMMA ReturnTyped ==
  ASSUME call \in [Calls -> CallRows], NEW c \in Calls, Return(c)
  PROVE  /\ call' \in [Calls -> CallRows] /\ OthersKept(c)
         /\ call'[c] = Idle /\ CallGood(c)'
         /\ call'[c].pc = "idle" /\ call'[c].scanned = 0
<1>1. call' \in [Calls -> CallRows] /\ OthersKept(c) /\ call'[c] = Idle
  BY CallTyped, IdleTyped DEF Return
<1>2. call'[c].pc = "idle" /\ call'[c].scanned = 0
  BY <1>1 DEF Idle
<1>3. CallGood(c)'
  BY <1>2 DEF CallGood, SubmissionPlaces, EventPlaces, AckPlaces, ShipmentPlaces, ReceiptPlaces
<1>4. QED
  BY <1>1, <1>2, <1>3

LEMMA PutTyped ==
  ASSUME call \in [Calls -> CallRows], NEW c \in Calls, NEW row \in OrderRows, Put(c, row)
  PROVE  /\ call' \in [Calls -> CallRows] /\ OthersKept(c)
         /\ call'[c].pc = "put" /\ call'[c].held = row /\ call'[c].scanned = call[c].scanned
<1> DEFINE r == [call[c] EXCEPT !.pc = "put", !.held = row]
<1>1. r \in CallRows /\ r.pc = "put" /\ r.held = row /\ r.scanned = call[c].scanned
  BY ZenonT(40) DEF CallRows, Places
<1>2. call' = [call EXCEPT ![c] = r]
  BY DEF Put
<1> HIDE DEF r
<1>3. QED
  BY <1>1, <1>2, CallTyped

\* Places that need no more than a genuine row.
LEMMA RowGood ==
  ASSUME NEW c \in Calls, Genuine(call[c].held)',
         call'[c].pc \in {"approve", "approved", "put", "read_supplier", "resubmit",
                          "reconcile", "reconciled"}
  PROVE  CallGood(c)'
BY DEF CallGood, SubmissionPlaces, EventPlaces, AckPlaces, ShipmentPlaces, ReceiptPlaces

LEMMA SettleGood ==
  ASSUME NEW c \in Calls, call'[c].pc \in {"recover", "settle"}
  PROVE  CallGood(c)'
BY DEF CallGood, SubmissionPlaces, EventPlaces, AckPlaces, ShipmentPlaces, ReceiptPlaces

\* The row a call of the supplier's or the warehouse's holds.
LEMMA HeldGenuine ==
  ASSUME IInv, NEW c \in Calls, call[c].pc \notin {"idle", "validate", "recover", "settle"}
  PROVE  Genuine(call[c].held) /\ call[c].held \in OrderRows
BY DEF IInv, CallGood, Genuine

\* A row of an order that was submitted keeps its reference under every status
\* that cannot be submitted again.
LEMMA StatusGenuine ==
  ASSUME NEW row, Genuine(row), NEW s \in Statuses \ Submittable
  PROVE  Genuine([row EXCEPT !.status = s])
BY DEF Genuine, OrderRows

\* A quiet step to a place that needs no more than a genuine row.
LEMMA QuietRow ==
  ASSUME IInv, NEW c \in Calls, Quiet, call' \in [Calls -> CallRows], OthersKept(c),
         call'[c].pc \in {"approve", "approved", "put", "read_supplier", "resubmit",
                          "reconcile", "reconciled"},
         call'[c].scanned \in {0, call[c].scanned},
         Genuine(call'[c].held)
  PROVE  Sound(c)
<1>1. Genuine(call[c].held)'
  BY DEF Genuine, Quiet, submission, order
<1>2. CallGood(c)'
  BY <1>1, RowGood
<1>3. QED
  BY <1>2, QuietSound

LEMMA QuietReturn ==
  ASSUME IInv, NEW c \in Calls, Quiet, Return(c)
  PROVE  Sound(c)
<1>1. call \in [Calls -> CallRows]
  BY Here
<1>2. QED
  BY <1>1, ReturnTyped, QuietSound

LEMMA QuietSettle ==
  ASSUME IInv, NEW c \in Calls, Quiet, Goto(c, "settle")
  PROVE  Sound(c)
<1>1. call \in [Calls -> CallRows] /\ call[c] \in CallRows
  BY Here
<1>2. /\ call' \in [Calls -> CallRows] /\ OthersKept(c)
      /\ call'[c] = [call[c] EXCEPT !.pc = "settle"]
  BY <1>1, GotoTyped DEF Places
<1>3. call'[c].pc = "settle" /\ call'[c].scanned = call[c].scanned
  BY <1>1, <1>2 DEF CallRows
<1>4. CallGood(c)'
  BY <1>3, SettleGood
<1>5. QED
  BY <1>2, <1>3, <1>4, QuietSound

-----------------------------------------------------------------------------
(* Approval.                                                               *)

\* What a call that begins with the order in hand leaves.
LEMMA StartsWith ==
  ASSUME IInv, po # None, NEW c \in Calls, NEW pc \in {"approve", "reconcile"},
         Start(c, [Idle EXCEPT !.pc = pc, !.held = po]), Quiet
  PROVE  Sound(c)
<1> DEFINE r == [Idle EXCEPT !.pc = pc, !.held = po]
<1>1. po \in OrderRows /\ Genuine(po)
  BY DEF IInv, OrderGood, Genuine
<1>2. r \in CallRows /\ r.pc = pc /\ r.held = po /\ r.scanned = 0
  BY <1>1 DEF Idle, CallRows, Places
<1>3. call \in [Calls -> CallRows] /\ call' = [call EXCEPT ![c] = r]
  BY Here DEF Start
<1> HIDE DEF r
<1>4. call' \in [Calls -> CallRows] /\ OthersKept(c) /\ call'[c] = r
  BY <1>2, <1>3, CallTyped
<1>5. QED
  BY <1>1, <1>2, <1>4, QuietRow

LEMMA ReadForApprovalSound ==
  ASSUME IInv, NEW c \in Calls, ReadForApproval(c)
  PROVE  Sound(c)
<1>1. po # None /\ Quiet /\ Start(c, [Idle EXCEPT !.pc = "approve", !.held = po])
  BY DEF ReadForApproval, Quiet
<1>2. QED
  BY <1>1, StartsWith

LEMMA ReadForClosingSound ==
  ASSUME IInv, NEW c \in Calls, ReadForClosing(c)
  PROVE  Sound(c)
<1>1. po # None /\ Quiet /\ Start(c, [Idle EXCEPT !.pc = "reconcile", !.held = po])
  BY DEF ReadForClosing, Quiet
<1>2. QED
  BY <1>1, StartsWith

\* What a put of the order has to show.
LEMMA OrderPut ==
  ASSUME IInv, NEW c \in Calls, Genuine(po)', authorized => authorized', authorized' \in BOOLEAN,
         UNCHANGED <<line, events, stock, exceptions, submission>>,
         call' \in [Calls -> CallRows], OthersKept(c),
         call'[c].pc # "validate", call'[c].scanned \in {0, call[c].scanned}, CallGood(c)'
  PROVE  Sound(c)
<1>1. /\ line' = line /\ ack' = ack /\ shipment' = shipment /\ receipt' = receipt
      /\ stock' = stock /\ open' = open /\ uncertain' = uncertain /\ attempts' = attempts
      /\ supplier' = supplier /\ submitKey' = submitKey
  BY DEF events, exceptions, submission
<1>2. TypeOK /\ OrderGood
  BY Here
<1>3. po' \in OrderRows /\ po' # None
  BY ConstantsTyped DEF Genuine
<1>4. Kept /\ uncertain' >= uncertain
  BY <1>1, <1>2, <1>3 DEF Kept, TypeOK
<1>5. OrderGood'
  BY <1>1, <1>2 DEF OrderGood
<1>6. TypeInv'
  BY <1>1, <1>2, <1>3 DEF TypeInv, TypeOK, CallRows
<1>7. QED
  BY <1>4, <1>5, <1>6 DEF Sound

LEMMA ApprovePurchaseOrderSound ==
  ASSUME IInv, NEW c \in Calls, ApprovePurchaseOrder(c)
  PROVE  Sound(c)
<1>1. /\ At(c, "approve") /\ authorized' = TRUE /\ Goto(c, "approved")
      /\ po' = [call[c].held EXCEPT !.status = "APPROVED"]
      /\ UNCHANGED <<line, events, stock, exceptions, submission>>
      /\ supplier' = supplier
  BY DEF ApprovePurchaseOrder, submission
<1>2. call \in [Calls -> CallRows] /\ call[c] \in CallRows
  BY Here
<1>3. Genuine(call[c].held) /\ call[c].held \in OrderRows
  BY <1>1, HeldGenuine DEF At
<1>4. /\ call' \in [Calls -> CallRows] /\ OthersKept(c)
      /\ call'[c] = [call[c] EXCEPT !.pc = "approved"]
  BY <1>1, <1>2, GotoTyped DEF Places
<1>5. /\ call'[c].pc = "approved" /\ call'[c].held = call[c].held
      /\ call'[c].scanned = call[c].scanned
  BY <1>2, <1>4 DEF CallRows
<1>6. Genuine(po)' /\ Genuine(call[c].held)'
  BY <1>1, <1>3, <1>5 DEF Genuine, OrderRows, Statuses
<1>7. CallGood(c)'
  BY <1>5, <1>6, RowGood
<1>8. QED
  BY <1>1, <1>4, <1>5, <1>6, <1>7, OrderPut

\* The end of a call that may have scanned exceptions to settle.
LEMMA UnsubmittedTyped ==
  ASSUME call \in [Calls -> CallRows], NEW c \in Calls, Unsubmitted(c)
  PROVE  /\ call' \in [Calls -> CallRows] /\ OthersKept(c)
         /\ call'[c].pc # "validate" /\ call'[c].scanned \in {0, call[c].scanned}
         /\ CallGood(c)'
<1>1. CASE Goto(c, "settle")
  <2>1. /\ call' \in [Calls -> CallRows] /\ OthersKept(c)
        /\ call'[c] = [call[c] EXCEPT !.pc = "settle"]
    BY <1>1, GotoTyped DEF Places
  <2>2. call'[c].pc = "settle" /\ call'[c].scanned = call[c].scanned
    BY <2>1 DEF CallRows
  <2>3. CallGood(c)'
    BY <2>2, SettleGood
  <2>4. QED
    BY <2>1, <2>2, <2>3
<1>2. CASE Return(c)
  BY <1>2, ReturnTyped
<1>3. QED
  BY <1>1, <1>2 DEF Unsubmitted

LEMMA PutPurchaseOrderSound ==
  ASSUME IInv, NEW c \in Calls, PutPurchaseOrder(c)
  PROVE  Sound(c)
<1>1. /\ At(c, "put") /\ Unsubmitted(c) /\ po' = call[c].held /\ authorized' = authorized
      /\ UNCHANGED <<line, events, stock, exceptions, submission>>
      /\ supplier' = supplier
  BY DEF PutPurchaseOrder, Unsubmitted, submission
<1>2. TypeOK /\ call \in [Calls -> CallRows]
  BY Here
<1>3. Genuine(call[c].held)
  BY <1>1, HeldGenuine DEF At
<1>4. Genuine(po)' /\ authorized' \in BOOLEAN
  BY <1>1, <1>2, <1>3 DEF Genuine, TypeOK
<1>5. QED
  BY <1>1, <1>2, <1>4, UnsubmittedTyped, OrderPut

\* What a step on the other rows has to show.
LEMMA RowsPut ==
  ASSUME IInv, NEW c \in Calls, UNCHANGED <<order, submission>>,
         (line \in LineRows)', (ack \in [Acks -> {None, "recorded", "applied"}])',
         (shipment \in [Shipments -> {None, "stale", "applied"}])',
         (receipt \subseteq Receipts)',
         (stock \in [Lines -> [quantity : Nat, inbound : Nat]])',
         (open \subseteq {"approval", "review"})',
         UNCHANGED <<uncertain, attempts>>,
         call' \in [Calls -> CallRows], OthersKept(c),
         call'[c].pc # "validate", call'[c].scanned \in {0, call[c].scanned}, CallGood(c)'
  PROVE  Sound(c)
<1>1. /\ po' = po /\ authorized' = authorized /\ supplier' = supplier
      /\ submitKey' = submitKey /\ uncertain' = uncertain /\ attempts' = attempts
  BY DEF order, submission
<1>2. TypeOK /\ OrderGood
  BY Here
<1>3. Kept /\ OrderGood' /\ uncertain' >= uncertain
  BY <1>1, <1>2 DEF Kept, OrderGood, Genuine, TypeOK
<1>4. TypeInv'
  BY <1>1, <1>2 DEF TypeInv, TypeOK, CallRows
<1>5. QED
  BY <1>3, <1>4 DEF Sound

LEMMA ResolveApprovalSound ==
  ASSUME IInv, NEW c \in Calls, ResolveApproval(c)
  PROVE  Sound(c)
<1>1. /\ Return(c) /\ open' = open \ {"approval"} /\ UNCHANGED <<order, submission>>
      /\ line' = line /\ ack' = ack /\ shipment' = shipment /\ receipt' = receipt
      /\ stock' = stock /\ UNCHANGED <<uncertain, attempts>>
  BY DEF ResolveApproval, events
<1>2. TypeOK /\ call \in [Calls -> CallRows]
  BY Here
<1>3. /\ call' \in [Calls -> CallRows] /\ OthersKept(c) /\ CallGood(c)'
      /\ call'[c].pc = "idle" /\ call'[c].scanned = 0
  BY <1>1, <1>2, ReturnTyped
<1>4. QED
  BY <1>1, <1>2, <1>3, RowsPut DEF TypeOK

-----------------------------------------------------------------------------
(* Submission.                                                             *)

\* What a step of a submission has to show.
LEMMA SubmissionPut ==
  ASSUME IInv, NEW c \in Calls, UNCHANGED <<order, line, events, stock>>,
         supplier' \in {0, 1}, supplier = 1 => supplier' = 1, supplier' = 1 => authorized,
         submitKey' \in {"free", "reserved", "completed"},
         submitKey' = "completed" => supplier' = 1,
         open' \subseteq {"approval", "review"}, uncertain' \in Nat, uncertain' >= uncertain,
         attempts' \in 0..MaxAttempts,
         call' \in [Calls -> CallRows], OthersKept(c),
         call'[c].pc # "validate", call'[c].scanned \in {0, call[c].scanned}, CallGood(c)'
  PROVE  Sound(c)
<1>1. /\ po' = po /\ authorized' = authorized /\ line' = line /\ ack' = ack
      /\ shipment' = shipment /\ receipt' = receipt /\ stock' = stock
  BY DEF order, events
<1>2. TypeOK /\ OrderGood
  BY Here
<1>3. Kept /\ OrderGood'
  BY <1>1, <1>2 DEF Kept, OrderGood, Genuine
<1>4. TypeInv'
  BY <1>1, <1>2 DEF TypeInv, TypeOK, CallRows
<1>5. QED
  BY <1>3, <1>4 DEF Sound

LEMMA SubmissionPlaceGood ==
  ASSUME NEW c \in Calls, call'[c].pc \in SubmissionPlaces, Genuine(call[c].held)',
         authorized', call'[c].pc = "complete" => supplier' = 1
  PROVE  CallGood(c)'
BY DEF CallGood, SubmissionPlaces, EventPlaces, AckPlaces, ShipmentPlaces, ReceiptPlaces

\* An order that may be submitted is authorized.
LEMMA SubmittableRow ==
  ASSUME IInv, po # None, po.status \in Submittable
  PROVE  po \in OrderRows /\ Genuine(po) /\ authorized
BY DEF IInv, OrderGood, Genuine

LEMMA SubmitPurchaseOrderSound ==
  ASSUME IInv, NEW c \in Calls, SubmitPurchaseOrder(c)
  PROVE  Sound(c)
<1> DEFINE r == [Idle EXCEPT !.pc = "reserve", !.held = po]
<1>1. Quiet /\ po # None /\ po.status \in Submittable /\ call' = [call EXCEPT ![c] = r]
  BY DEF SubmitPurchaseOrder, Start, Quiet
<1>2. po \in OrderRows /\ Genuine(po) /\ authorized
  BY <1>1, SubmittableRow
<1>3. r \in CallRows /\ r.pc = "reserve" /\ r.held = po /\ r.scanned = 0
  BY <1>2 DEF Idle, CallRows, Places, SubmissionPlaces
<1>4. call \in [Calls -> CallRows]
  BY Here
<1> HIDE DEF r
<1>5. call' \in [Calls -> CallRows] /\ OthersKept(c) /\ call'[c] = r
  BY <1>1, <1>3, <1>4, CallTyped
<1>6. Genuine(call[c].held)' /\ authorized'
  BY <1>1, <1>2, <1>3, <1>5 DEF Genuine, Quiet, order, submission
<1>7. CallGood(c)'
  BY <1>3, <1>5, <1>6, SubmissionPlaceGood DEF SubmissionPlaces
<1>8. QED
  BY <1>1, <1>3, <1>5, <1>7, QuietSound

\* The call holds the order as submitted_purchase_order leaves it.
LEMMA SubmittedTyped ==
  ASSUME IInv, NEW c \in Calls, Submitted(c),
         call[c].pc \notin {"idle", "validate", "recover", "settle"}, supplier' = 1
  PROVE  /\ call' \in [Calls -> CallRows] /\ OthersKept(c)
         /\ call'[c].pc = "put" /\ call'[c].scanned = call[c].scanned /\ CallGood(c)'
<1> DEFINE row == [call[c].held EXCEPT !.status = "SUBMITTED", !.external_ref = TRUE]
<1>1. call \in [Calls -> CallRows] /\ call[c].held \in OrderRows
  BY Here, HeldGenuine
<1>2. row \in OrderRows /\ row.status = "SUBMITTED"
  BY <1>1 DEF OrderRows, Statuses
<1>3. Put(c, row)
  BY DEF Submitted
<1> HIDE DEF row
<1>4. /\ call' \in [Calls -> CallRows] /\ OthersKept(c)
      /\ call'[c].pc = "put" /\ call'[c].held = row /\ call'[c].scanned = call[c].scanned
  BY <1>1, <1>2, <1>3, PutTyped
<1>5. Genuine(call[c].held)'
  BY <1>2, <1>4 DEF Genuine, Submittable
<1>6. QED
  BY <1>4, <1>5, RowGood

\* A step from one place of a submission to another.
LEMMA SubmissionGoto ==
  ASSUME IInv, NEW c \in Calls, NEW pc \in SubmissionPlaces, Goto(c, pc),
         call[c].pc \in SubmissionPlaces,
         UNCHANGED order, supplier = 1 => supplier' = 1, pc = "complete" => supplier' = 1
  PROVE  /\ call' \in [Calls -> CallRows] /\ OthersKept(c)
         /\ call'[c].pc = pc /\ call'[c].scanned = call[c].scanned /\ CallGood(c)'
<1>1. call \in [Calls -> CallRows] /\ call[c] \in CallRows /\ CallGood(c)
  BY Here
<1>2. /\ call' \in [Calls -> CallRows] /\ OthersKept(c)
      /\ call'[c] = [call[c] EXCEPT !.pc = pc]
  BY <1>1, GotoTyped DEF Places
<1>3. /\ call'[c].pc = pc /\ call'[c].held = call[c].held
      /\ call'[c].scanned = call[c].scanned
  BY <1>1, <1>2 DEF CallRows
<1>4. Genuine(call[c].held) /\ authorized
  BY <1>1, HeldGenuine DEF CallGood, SubmissionPlaces
<1>5. Genuine(call[c].held)' /\ authorized'
  BY <1>3, <1>4 DEF Genuine, order
<1>6. CallGood(c)'
  BY <1>3, <1>5, SubmissionPlaceGood
<1>7. QED
  BY <1>2, <1>3, <1>6

LEMMA ReserveKeySound ==
  ASSUME IInv, NEW c \in Calls, ReserveKey(c)
  PROVE  Sound(c)
<1>1. /\ call[c].pc = "reserve" /\ supplier' = supplier /\ open' = open
      /\ uncertain' = uncertain /\ attempts' = attempts
      /\ UNCHANGED <<order, line, events, stock>>
  BY DEF ReserveKey, At, exceptions
<1>2. TypeOK /\ OrderGood /\ call \in [Calls -> CallRows] /\ CallGood(c)
  BY Here
<1>3. supplier \in {0, 1} /\ authorized /\ uncertain' >= uncertain
  BY <1>1, <1>2 DEF OrderGood, CallGood, SubmissionPlaces, TypeOK
<1>4. CASE submitKey' = "reserved" /\ Goto(c, "create")
  <2>1. /\ call' \in [Calls -> CallRows] /\ OthersKept(c)
        /\ call'[c].pc = "create" /\ call'[c].scanned = call[c].scanned /\ CallGood(c)'
    BY <1>1, <1>4, SubmissionGoto DEF SubmissionPlaces
  <2>2. QED
    BY <1>1, <1>2, <1>3, <1>4, <2>1, SubmissionPut DEF TypeOK
<1>5. CASE submitKey = "completed" /\ Submitted(c) /\ UNCHANGED submitKey
  <2>1. supplier' = 1
    BY <1>1, <1>2, <1>5 DEF OrderGood
  <2>2. /\ call' \in [Calls -> CallRows] /\ OthersKept(c)
        /\ call'[c].pc = "put" /\ call'[c].scanned = call[c].scanned /\ CallGood(c)'
    BY <1>1, <1>5, <2>1, SubmittedTyped
  <2>3. QED
    BY <1>1, <1>2, <1>3, <1>5, <2>1, <2>2, SubmissionPut DEF TypeOK
<1>6. CASE Return(c) /\ UNCHANGED submitKey
  <2>1. Quiet
    BY <1>1, <1>6 DEF Quiet, exceptions, submission
  <2>2. QED
    BY <1>6, <2>1, QuietReturn
<1>7. QED
  BY <1>4, <1>5, <1>6 DEF ReserveKey

LEMMA CreatedOnce ==
  ASSUME supplier \in {0, 1}
  PROVE  Created = 1
BY DEF Created

LEMMA SupplierAcceptsSound ==
  ASSUME IInv, NEW c \in Calls, SupplierAccepts(c)
  PROVE  Sound(c)
<1>1. /\ call[c].pc = "create" /\ supplier' = Created /\ Goto(c, "complete")
      /\ submitKey' = submitKey /\ open' = open /\ uncertain' = uncertain
      /\ attempts' = attempts /\ UNCHANGED <<order, line, events, stock>>
  BY DEF SupplierAccepts, At, exceptions
<1>2. TypeOK /\ OrderGood /\ CallGood(c)
  BY Here
<1>3. supplier' = 1 /\ authorized /\ uncertain' >= uncertain
  BY <1>1, <1>2, CreatedOnce DEF OrderGood, CallGood, SubmissionPlaces, TypeOK
<1>4. /\ call' \in [Calls -> CallRows] /\ OthersKept(c)
      /\ call'[c].pc = "complete" /\ call'[c].scanned = call[c].scanned /\ CallGood(c)'
  BY <1>1, <1>3, SubmissionGoto DEF SubmissionPlaces
<1>5. QED
  BY <1>1, <1>2, <1>3, <1>4, SubmissionPut DEF TypeOK

LEMMA CompleteKeySound ==
  ASSUME IInv, NEW c \in Calls, CompleteKey(c)
  PROVE  Sound(c)
<1>1. /\ call[c].pc = "complete" /\ supplier' = supplier /\ Submitted(c)
      /\ submitKey' = "completed" /\ open' = open /\ uncertain' = uncertain
      /\ attempts' = attempts /\ UNCHANGED <<order, line, events, stock>>
  BY DEF CompleteKey, At, exceptions
<1>2. TypeOK /\ OrderGood /\ CallGood(c)
  BY Here
<1>3. supplier' = 1 /\ authorized /\ uncertain' >= uncertain
  BY <1>1, <1>2 DEF OrderGood, CallGood, SubmissionPlaces, TypeOK
<1>4. /\ call' \in [Calls -> CallRows] /\ OthersKept(c)
      /\ call'[c].pc = "put" /\ call'[c].scanned = call[c].scanned /\ CallGood(c)'
  BY <1>1, <1>3, SubmittedTyped
<1>5. QED
  BY <1>1, <1>2, <1>3, <1>4, SubmissionPut DEF TypeOK

LEMMA SupplierTimesOutSound ==
  ASSUME IInv, NEW c \in Calls, SupplierTimesOut(c)
  PROVE  Sound(c)
<1>1. /\ call[c].pc = "create" /\ supplier' \in {supplier, Created} /\ Goto(c, "find")
      /\ submitKey' = "free" /\ open' = open /\ uncertain' = uncertain
      /\ attempts' = attempts /\ UNCHANGED <<order, line, events, stock>>
  BY DEF SupplierTimesOut, At, exceptions
<1>2. TypeOK /\ OrderGood /\ CallGood(c)
  BY Here
<1>3. /\ supplier' \in {0, 1} /\ (supplier = 1 => supplier' = 1) /\ authorized
      /\ uncertain' >= uncertain
  BY <1>1, <1>2, CreatedOnce DEF OrderGood, CallGood, SubmissionPlaces, TypeOK
<1>4. /\ call' \in [Calls -> CallRows] /\ OthersKept(c)
      /\ call'[c].pc = "find" /\ call'[c].scanned = call[c].scanned /\ CallGood(c)'
  BY <1>1, <1>3, SubmissionGoto DEF SubmissionPlaces
<1>5. QED
  BY <1>1, <1>2, <1>3, <1>4, SubmissionPut DEF TypeOK

LEMMA SupplierRejectsSound ==
  ASSUME IInv, NEW c \in Calls, SupplierRejects(c)
  PROVE  Sound(c)
<1>1. /\ supplier' = supplier /\ Unsubmitted(c)
      /\ submitKey' = "free" /\ open' = open \cup {"review"} /\ uncertain' = uncertain
      /\ attempts' = attempts /\ UNCHANGED <<order, line, events, stock>>
  BY DEF SupplierRejects, Review
<1>2. TypeOK /\ OrderGood /\ call \in [Calls -> CallRows]
  BY Here
<1>3. supplier' \in {0, 1} /\ (supplier' = 1 => authorized) /\ uncertain' >= uncertain
  BY <1>1, <1>2 DEF OrderGood, TypeOK
<1>4. /\ call' \in [Calls -> CallRows] /\ OthersKept(c) /\ call'[c].pc # "validate"
      /\ call'[c].scanned \in {0, call[c].scanned} /\ CallGood(c)'
  BY <1>1, <1>2, UnsubmittedTyped
<1>5. QED
  BY <1>1, <1>2, <1>3, <1>4, SubmissionPut DEF TypeOK

LEMMA FindPurchaseOrderSound ==
  ASSUME IInv, NEW c \in Calls, FindPurchaseOrder(c)
  PROVE  Sound(c)
<1>1. /\ call[c].pc = "find" /\ supplier' = supplier /\ submitKey' = submitKey
      /\ open' = open /\ UNCHANGED <<order, line, events, stock>>
  BY DEF FindPurchaseOrder, At, submission
<1>2. TypeOK /\ OrderGood /\ call \in [Calls -> CallRows]
  BY Here
<1>3. supplier' \in {0, 1} /\ (supplier' = 1 => authorized)
  BY <1>1, <1>2 DEF OrderGood
<1>4. CASE supplier > 0
  <2>1. supplier' = 1 /\ Submitted(c) /\ uncertain' = uncertain /\ attempts' = attempts
    BY <1>1, <1>3, <1>4 DEF FindPurchaseOrder
  <2>2. /\ call' \in [Calls -> CallRows] /\ OthersKept(c)
        /\ call'[c].pc = "put" /\ call'[c].scanned = call[c].scanned /\ CallGood(c)'
    BY <1>1, <2>1, SubmittedTyped
  <2>3. uncertain' >= uncertain
    BY <1>2, <2>1 DEF TypeOK
  <2>4. QED
    BY <1>1, <1>2, <1>3, <2>1, <2>2, <2>3, SubmissionPut DEF TypeOK, OrderGood
<1>5. CASE ~ supplier > 0
  <2>1. /\ uncertain' = uncertain + 1 /\ attempts' = Lesser(attempts + 1, MaxAttempts)
        /\ Unsubmitted(c)
    BY <1>5 DEF FindPurchaseOrder
  <2>2. uncertain' \in Nat /\ uncertain' >= uncertain /\ attempts' \in 0..MaxAttempts
    BY <1>2, <2>1, ConstantsTyped DEF TypeOK, Lesser
  <2>3. /\ call' \in [Calls -> CallRows] /\ OthersKept(c) /\ call'[c].pc # "validate"
        /\ call'[c].scanned \in {0, call[c].scanned} /\ CallGood(c)'
    BY <1>2, <2>1, UnsubmittedTyped
  <2>4. QED
    BY <1>1, <1>2, <1>3, <2>2, <2>3, SubmissionPut DEF TypeOK, OrderGood
<1>6. QED
  BY <1>4, <1>5

-----------------------------------------------------------------------------
(* The recovery worker.                                                    *)

LEMMA ReadForRecoverySound ==
  ASSUME IInv, NEW c \in Calls, ReadForRecovery(c)
  PROVE  Sound(c)
<1>1. call[c].pc = "recover" /\ Quiet
  BY DEF ReadForRecovery, At, Quiet
<1>2. po \in OrderRows /\ Genuine(po) /\ call \in [Calls -> CallRows]
  BY <1>1, PastDraft, Here DEF OrderGood
<1>3. CASE Goto(c, "settle")
  BY <1>1, <1>3, QuietSettle
<1>4. CASE Return(c)
  BY <1>1, <1>4, QuietReturn
<1>5. CASE call' = [call EXCEPT ![c].pc = "read_supplier", ![c].held = po]
  <2> DEFINE r == [call[c] EXCEPT !.pc = "read_supplier", !.held = po]
  <2>1. r \in CallRows /\ r.pc = "read_supplier" /\ r.held = po /\ r.scanned = call[c].scanned
    BY <1>2 DEF CallRows, Places
  <2>2. call' = [call EXCEPT ![c] = r]
    BY <1>5
  <2> HIDE DEF r
  <2>3. call' \in [Calls -> CallRows] /\ OthersKept(c) /\ call'[c] = r
    BY <1>2, <2>1, <2>2, CallTyped
  <2>4. QED
    BY <1>1, <1>2, <2>1, <2>3, QuietRow
<1>6. QED
  BY <1>3, <1>4, <1>5 DEF ReadForRecovery

LEMMA ReadSupplierSound ==
  ASSUME IInv, NEW c \in Calls, ReadSupplier(c)
  PROVE  Sound(c)
<1>1. call[c].pc = "read_supplier" /\ Quiet /\ supplier' = supplier
  BY DEF ReadSupplier, At, Quiet, submission
<1>2. TypeOK /\ OrderGood /\ call \in [Calls -> CallRows] /\ call[c] \in CallRows
  BY Here
<1>3. CASE supplier > 0 /\ Submitted(c)
  <2>1. supplier' = 1
    BY <1>1, <1>2, <1>3 DEF OrderGood
  <2>2. /\ call' \in [Calls -> CallRows] /\ OthersKept(c)
        /\ call'[c].pc = "put" /\ call'[c].scanned = call[c].scanned /\ CallGood(c)'
    BY <1>1, <1>3, <2>1, SubmittedTyped
  <2>3. QED
    BY <1>1, <2>2, QuietSound
<1>4. CASE Goto(c, "resubmit")
  <2>1. /\ call' \in [Calls -> CallRows] /\ OthersKept(c)
        /\ call'[c] = [call[c] EXCEPT !.pc = "resubmit"]
    BY <1>2, <1>4, GotoTyped DEF Places
  <2>2. /\ call'[c].pc = "resubmit" /\ call'[c].held = call[c].held
        /\ call'[c].scanned = call[c].scanned
    BY <1>2, <2>1 DEF CallRows
  <2>3. Genuine(call'[c].held)
    BY <1>1, <2>2, HeldGenuine
  <2>4. QED
    BY <1>1, <2>1, <2>2, <2>3, QuietRow
<1>5. QED
  BY <1>3, <1>4 DEF ReadSupplier

LEMMA ResubmitSound ==
  ASSUME IInv, NEW c \in Calls, Resubmit(c)
  PROVE  Sound(c)
<1>1. call[c].pc = "resubmit" /\ Quiet
  BY DEF Resubmit, At, Quiet
<1>2. call \in [Calls -> CallRows] /\ po # None
  BY <1>1, Here, PastDraft
<1>3. CASE /\ po.status \in Submittable
           /\ call' = [call EXCEPT ![c].pc = "reserve", ![c].held = po]
  <2> DEFINE r == [call[c] EXCEPT !.pc = "reserve", !.held = po]
  <2>1. po \in OrderRows /\ Genuine(po) /\ authorized
    BY <1>2, <1>3, SubmittableRow
  <2>2. r \in CallRows /\ r.pc = "reserve" /\ r.held = po /\ r.scanned = call[c].scanned
    BY <1>2, <2>1, ZenonT(40) DEF CallRows, Places, SubmissionPlaces
  <2>3. call' = [call EXCEPT ![c] = r]
    BY <1>3
  <2> HIDE DEF r
  <2>4. call' \in [Calls -> CallRows] /\ OthersKept(c) /\ call'[c] = r
    BY <1>2, <2>2, <2>3, CallTyped
  <2>5. Genuine(call[c].held)' /\ authorized'
    BY <1>1, <2>1, <2>2, <2>4 DEF Genuine, Quiet, order, submission
  <2>6. CallGood(c)'
    BY <2>2, <2>4, <2>5, SubmissionPlaceGood DEF SubmissionPlaces
  <2>7. QED
    BY <1>1, <2>2, <2>4, <2>6, QuietSound
<1>4. CASE Goto(c, "settle")
  BY <1>1, <1>4, QuietSettle
<1>5. QED
  BY <1>3, <1>4 DEF Resubmit

\* A pass begins when no other scans, and scans the exceptions there are.
LEMMA RecoveryPassKeeps ==
  ASSUME IInv, NEW c \in Calls, RecoveryPass(c)
  PROVE  IInv'
<1> DEFINE r == [Idle EXCEPT !.pc = "recover", !.scanned = uncertain]
<1>1. /\ uncertain > 0 /\ (\A d \in Calls : call[d].scanned = 0) /\ Quiet
      /\ call[c].pc = "idle" /\ call' = [call EXCEPT ![c] = r]
  BY DEF RecoveryPass, Start, At, Quiet
<1>2. TypeOK /\ OrderGood /\ call \in [Calls -> CallRows]
  BY Here
<1>3. uncertain \in Nat /\ po # None /\ \A d \in Calls : call[d].pc # "validate"
  BY <1>1, <1>2 DEF TypeOK, IInv, NothingElse
<1>4. r \in CallRows /\ r.pc = "recover" /\ r.scanned = uncertain
  BY <1>3 DEF Idle, CallRows, Places
<1> HIDE DEF r
<1>5. call' \in [Calls -> CallRows] /\ OthersKept(c) /\ call'[c] = r
  BY <1>1, <1>2, <1>4, CallTyped
<1>6. /\ po' = po /\ authorized' = authorized /\ line' = line /\ ack' = ack /\ shipment' = shipment
      /\ receipt' = receipt /\ stock' = stock /\ open' = open /\ uncertain' = uncertain
      /\ attempts' = attempts /\ supplier' = supplier /\ submitKey' = submitKey
  BY <1>1 DEF Quiet, order, events, exceptions, submission
<1>7. TypeInv' /\ OrderGood' /\ Kept
  BY <1>2, <1>5, <1>6 DEF TypeInv, TypeOK, CallRows, OrderGood, Genuine, Kept
<1>8. CallGood(c)'
  BY <1>4, <1>5, SettleGood
<1>9. \A d \in Calls : CallGood(d)'
  BY <1>5, <1>7, <1>8, CallStaysGood DEF OthersKept, IInv
<1>10. ScanTrue'
  BY <1>1, <1>3, <1>4, <1>5, <1>6 DEF ScanTrue, OthersKept
<1>11. NothingElse'
  BY <1>3, <1>4, <1>5, <1>6 DEF NothingElse, OthersKept
<1>12. QED
  BY <1>7, <1>9, <1>10, <1>11 DEF IInv

\* The pass settles what it scanned: no other call has scanned anything.
LEMMA SettleExceptionsKeeps ==
  ASSUME IInv, NEW c \in Calls, SettleExceptions(c)
  PROVE  IInv'
<1>1. /\ call[c].pc = "settle" /\ uncertain' = uncertain - call[c].scanned /\ Return(c)
      /\ po' = po /\ authorized' = authorized /\ line' = line /\ ack' = ack
      /\ shipment' = shipment /\ receipt' = receipt /\ stock' = stock /\ open' = open
      /\ attempts' = attempts /\ supplier' = supplier /\ submitKey' = submitKey
  BY DEF SettleExceptions, At, order, events, submission
<1>2. TypeOK /\ OrderGood /\ call \in [Calls -> CallRows]
  BY Here
<1>3. po # None /\ \A d \in Calls : call[d].pc # "validate"
  BY <1>1, PastDraft
<1>4. /\ call' \in [Calls -> CallRows] /\ OthersKept(c) /\ CallGood(c)'
      /\ call'[c].pc = "idle" /\ call'[c].scanned = 0
  BY <1>1, <1>2, ReturnTyped
<1>5. uncertain \in Nat /\ \A d \in Calls : call[d].scanned \in Nat
  BY <1>2 DEF TypeOK, CallRows
<1>6. /\ \A d \in Calls : call[d].scanned <= uncertain
      /\ \A d \in Calls : call[d].scanned > 0 /\ call[c].scanned > 0 => d = c
  BY DEF IInv, ScanTrue
<1>7. uncertain' \in Nat
  BY <1>1, <1>5, <1>6
<1>8. TypeInv' /\ OrderGood' /\ Kept
  BY <1>1, <1>2, <1>4, <1>7 DEF TypeInv, TypeOK, CallRows, OrderGood, Genuine, Kept
<1>9. \A d \in Calls : CallGood(d)'
  BY <1>4, <1>8, CallStaysGood DEF OthersKept, IInv
<1>10. ScanTrue'
  <2>1. \A d \in Calls : call'[d].scanned <= uncertain'
    <3> SUFFICES ASSUME NEW d \in Calls
                 PROVE  call'[d].scanned <= uncertain'
      OBVIOUS
    <3>1. CASE d = c
      BY <1>4, <1>7, <3>1
    <3>2. CASE d # c
      <4>1. call'[d] = call[d]
        BY <1>4, <3>2 DEF OthersKept
      <4>2. call[d].scanned = 0 \/ call[c].scanned = 0
        BY <1>5, <1>6, <3>2
      <4>3. QED
        BY <1>1, <1>5, <1>6, <1>7, <4>1, <4>2
    <3>3. QED
      BY <3>1, <3>2
  <2>2. \A d, e \in Calls : call'[d].scanned > 0 /\ call'[e].scanned > 0 => d = e
    BY <1>4 DEF OthersKept, IInv, ScanTrue
  <2>3. QED
    BY <2>1, <2>2 DEF ScanTrue
<1>11. NothingElse'
  BY <1>1, <1>3, <1>4 DEF NothingElse, OthersKept
<1>12. QED
  BY <1>8, <1>9, <1>10, <1>11 DEF IInv

-----------------------------------------------------------------------------
(* The draft.                                                              *)

LEMMA CreatePurchaseOrderKeeps ==
  ASSUME IInv, NEW c \in Calls, At(c, "idle"), CreatePurchaseOrder(c)
  PROVE  IInv'
<1>1. PICK status \in {"DRAFT", "BLOCKED"} :
        /\ po' = [status |-> status, external_ref |-> FALSE]
        /\ IF status = "DRAFT" THEN Start(c, [Idle EXCEPT !.pc = "validate"])
           ELSE UNCHANGED call
  BY DEF CreatePurchaseOrder
<1>2. /\ po = None
      /\ authorized' = authorized /\ line' = line /\ ack' = ack /\ shipment' = shipment
      /\ receipt' = receipt /\ stock' = stock /\ open' = open /\ uncertain' = uncertain
      /\ attempts' = attempts /\ supplier' = supplier /\ submitKey' = submitKey
  BY DEF CreatePurchaseOrder, events, exceptions, submission
<1>3. TypeOK /\ OrderGood /\ call \in [Calls -> CallRows] /\ uncertain \in Nat
  BY Here DEF TypeOK
<1>4. supplier = 0 /\ uncertain = 0 /\ \A d \in Calls : call[d].pc = "idle"
  BY <1>2 DEF IInv, NothingElse
<1>5. po' \in OrderRows /\ po'.status = status /\ ~ po'.external_ref /\ po' # None
  <2>1. po' \in OrderRows /\ po'.status = status /\ ~ po'.external_ref
    BY <1>1 DEF OrderRows, Statuses
  <2>2. QED
    BY <2>1, ConstantsTyped
<1>6. /\ call' \in [Calls -> CallRows] /\ OthersKept(c)
      /\ call'[c].pc = IF status = "DRAFT" THEN "validate" ELSE "idle"
      /\ call'[c].scanned = 0
  <2>1. CASE status = "DRAFT"
    <3> DEFINE r == [Idle EXCEPT !.pc = "validate"]
    <3>1. r \in CallRows /\ r.pc = "validate" /\ r.scanned = 0
      BY DEF Idle, CallRows, Places
    <3>2. call' = [call EXCEPT ![c] = r]
      BY <1>1, <2>1 DEF Start
    <3> HIDE DEF r
    <3>3. QED
      BY <1>3, <2>1, <3>1, <3>2, CallTyped
  <2>2. CASE status # "DRAFT"
    <3>1. call' = call
      BY <1>1, <2>2
    <3>2. call[c].scanned = 0
      BY <1>3, <1>4 DEF IInv, ScanTrue, CallRows
    <3>3. QED
      BY <1>3, <1>4, <2>2, <3>1, <3>2 DEF OthersKept
  <2>3. QED
    BY <2>1, <2>2
<1>7. TypeInv'
  BY <1>2, <1>3, <1>5, <1>6 DEF TypeInv, TypeOK, CallRows
<1>8. OrderGood'
  BY <1>1, <1>2, <1>3, <1>5 DEF OrderGood, Genuine, Submittable
<1>9. \A d \in Calls : CallGood(d)'
  BY <1>4, <1>6 DEF CallGood, OthersKept, SubmissionPlaces, EventPlaces, AckPlaces, ShipmentPlaces,
     ReceiptPlaces
<1>10. ScanTrue'
  BY <1>2, <1>3, <1>6 DEF ScanTrue, OthersKept, IInv
<1>11. NothingElse'
  BY <1>1, <1>2, <1>4, <1>5, <1>6 DEF NothingElse, OthersKept
<1>12. QED
  BY <1>7, <1>8, <1>9, <1>10, <1>11 DEF IInv

\* The policy's first answer: nothing has been read of the order before.
LEMMA ValidatePurchaseOrderKeeps ==
  ASSUME IInv, NEW c \in Calls, ValidatePurchaseOrder(c)
  PROVE  IInv'
<1>1. PICK complete \in BOOLEAN, escalations \in SUBSET {"REQUIRE_APPROVAL", "DENY"} :
        LET decision == Authority(complete, escalations) IN
        /\ po' = [po EXCEPT !.status = Validated(decision)]
        /\ authorized' = (decision = "ALLOW")
        /\ open' = CASE decision = "DENY" -> open \cup {"review"}
                     [] decision = "REQUIRE_APPROVAL" -> open \cup {"approval"}
                     [] OTHER -> open
  BY DEF ValidatePurchaseOrder
<1> DEFINE decision == Authority(complete, escalations)
<1>2. /\ call[c].pc = "validate" /\ Return(c)
      /\ line' = line /\ ack' = ack /\ shipment' = shipment
      /\ receipt' = receipt /\ stock' = stock /\ uncertain' = uncertain
      /\ attempts' = attempts /\ supplier' = supplier /\ submitKey' = submitKey
  BY DEF ValidatePurchaseOrder, At, events, submission
<1>3. decision \in {"ALLOW", "REQUIRE_APPROVAL", "DENY"}
  <2>1. CASE ~ complete
    BY <2>1 DEF Authority
  <2>2. CASE complete
    <3> DEFINE D == {"ALLOW"} \cup escalations
    <3>1. \E d \in D : \A e \in D : Strictness[e] <= Strictness[d]
      <4>1. CASE "DENY" \in escalations
        BY <4>1 DEF Strictness
      <4>2. CASE "DENY" \notin escalations /\ "REQUIRE_APPROVAL" \in escalations
        BY <4>2 DEF Strictness
      <4>3. CASE escalations = {}
        BY <4>3 DEF Strictness
      <4>4. QED
        BY <4>1, <4>2, <4>3
    <3>2. Strictest(D) \in D
      BY <3>1 DEF Strictest
    <3>3. QED
      BY <2>2, <3>2 DEF Authority
  <2>3. QED
    BY <2>1, <2>2
<1> HIDE DEF decision
<1>4. TypeOK /\ OrderGood /\ call \in [Calls -> CallRows] /\ uncertain \in Nat
  BY Here DEF TypeOK
<1>5. /\ po # None /\ supplier = 0 /\ uncertain = 0
      /\ \A d \in Calls \ {c} : call[d].pc = "idle"
  BY <1>2 DEF IInv, NothingElse
<1>6. po \in OrderRows /\ Genuine(po)
  BY <1>4, <1>5 DEF TypeOK, OrderGood
<1>7. /\ call' \in [Calls -> CallRows] /\ OthersKept(c) /\ CallGood(c)'
      /\ call'[c].pc = "idle" /\ call'[c].scanned = 0
  BY <1>2, <1>4, ReturnTyped
<1>8. /\ po' = [po EXCEPT !.status = Validated(decision)] /\ authorized' = (decision = "ALLOW")
      /\ open' \subseteq open \cup {"review", "approval"}
  BY <1>1 DEF decision
<1>9. po' \in OrderRows /\ Genuine(po)'
  BY <1>2, <1>3, <1>5, <1>6, <1>8 DEF Validated, Genuine, OrderRows, Statuses, Submittable
<1>10. po' # None
  BY <1>9, ConstantsTyped
<1>11. TypeInv'
  BY <1>2, <1>4, <1>7, <1>8, <1>9 DEF TypeInv, TypeOK, CallRows
<1>12. OrderGood'
  BY <1>2, <1>4, <1>5, <1>9 DEF OrderGood
<1>13. \A d \in Calls : CallGood(d)'
  BY <1>5, <1>7 DEF CallGood, OthersKept, SubmissionPlaces, EventPlaces, AckPlaces, ShipmentPlaces,
     ReceiptPlaces
<1>14. ScanTrue'
  BY <1>2, <1>4, <1>7 DEF ScanTrue, OthersKept, IInv
<1>15. NothingElse'
  BY <1>5, <1>7, <1>10 DEF NothingElse, OthersKept
<1>16. QED
  BY <1>11, <1>12, <1>13, <1>14, <1>15 DEF IInv

-----------------------------------------------------------------------------
(* The supplier's and the warehouse's events.                              *)

\* What the record of a call says at one of the places of an event.
EventRow(r) ==
  /\ r \in CallRows /\ r.pc \in EventPlaces /\ Genuine(r.held) /\ r.event \in Events
  /\ r.pc \in ReceiptPlaces => r.event \in Receipts
  /\ r.pc \in {"apply", "ship", "receive", "stock"} => r.todo # {}
  /\ r.pc \in {"ship", "insert_receipt", "receive", "stock"} => r.lines \in LineRows

Moved(c) ==
  /\ call' \in [Calls -> CallRows] /\ OthersKept(c) /\ call'[c].pc # "validate"
  /\ call'[c].scanned \in {0, call[c].scanned} /\ CallGood(c)'

LEMMA EventMoves ==
  ASSUME IInv, NEW c \in Calls, UNCHANGED <<order, submission>>, NEW r, EventRow(r),
         call' = [call EXCEPT ![c] = r], r.scanned \in {0, call[c].scanned}
  PROVE  Moved(c)
<1>1. call \in [Calls -> CallRows]
  BY Here
<1>2. r \in CallRows
  BY DEF EventRow
<1>3. call' \in [Calls -> CallRows] /\ OthersKept(c) /\ call'[c] = r
  BY <1>1, <1>2, CallTyped
<1>4. CallGood(c)'
  BY <1>3 DEF EventRow, CallGood, Genuine, order, submission, SubmissionPlaces, EventPlaces,
     AckPlaces, ShipmentPlaces, ReceiptPlaces
<1>5. call'[c].pc # "validate"
  BY <1>3 DEF EventRow, EventPlaces, AckPlaces, ShipmentPlaces, ReceiptPlaces
<1>6. QED
  BY <1>3, <1>4, <1>5 DEF Moved

\* The record a call of an event finds.
LEMMA EventHere ==
  ASSUME IInv, NEW c \in Calls, call[c].pc \in EventPlaces
  PROVE  /\ call[c] \in CallRows /\ EventRow(call[c]) /\ call[c].held \in OrderRows
         /\ Contents[call[c].event] \subseteq EventLines
<1>1. call[c] \in CallRows /\ CallGood(c)
  BY Here
<1>2. Genuine(call[c].held) /\ call[c].event \in Events
  BY <1>1 DEF CallGood, EventPlaces, AckPlaces, ShipmentPlaces, ReceiptPlaces
<1>3. EventRow(call[c])
  BY <1>1, <1>2 DEF CallGood, EventRow
<1>4. QED
  BY <1>1, <1>2, <1>3, ConstantsTyped DEF Genuine

LEMMA ReturnMoves ==
  ASSUME IInv, NEW c \in Calls, Return(c)
  PROVE  Moved(c)
<1>1. call \in [Calls -> CallRows]
  BY Here
<1>2. QED
  BY <1>1, ReturnTyped DEF Moved

\* A step to the place pc with the lines to go through.
LEMMA PlaceMoves ==
  ASSUME IInv, NEW c \in Calls, UNCHANGED <<order, submission>>,
         NEW pc \in EventPlaces, NEW todo \in SUBSET EventLines,
         call[c].pc \in EventPlaces,
         call' = [call EXCEPT ![c].pc = pc, ![c].todo = todo],
         pc \in ReceiptPlaces => call[c].event \in Receipts,
         pc \in {"apply", "ship", "receive", "stock"} => todo # {},
         pc \in {"ship", "insert_receipt", "receive", "stock"} => call[c].lines \in LineRows
  PROVE  Moved(c)
<1> DEFINE r == [call[c] EXCEPT !.pc = pc, !.todo = todo]
<1>1. call \in [Calls -> CallRows] /\ call[c] \in CallRows /\ EventRow(call[c])
  BY Here, EventHere
<1>2. /\ r \in CallRows /\ r.pc = pc /\ r.todo = todo /\ r.held = call[c].held
      /\ r.event = call[c].event /\ r.lines = call[c].lines /\ r.scanned = call[c].scanned
  BY <1>1 DEF CallRows, Places
<1>3. call' = [call EXCEPT ![c] = r]
  BY <1>1
<1> HIDE DEF r
<1>4. EventRow(r)
  BY <1>1, <1>2 DEF EventRow
<1>5. QED
  BY <1>2, <1>3, <1>4, EventMoves

LEMMA PutMoves ==
  ASSUME IInv, NEW c \in Calls, UNCHANGED <<order, submission>>, NEW row, Genuine(row),
         Put(c, row)
  PROVE  Moved(c)
<1>1. call \in [Calls -> CallRows] /\ row \in OrderRows
  BY Here DEF Genuine
<1>2. /\ call' \in [Calls -> CallRows] /\ OthersKept(c)
      /\ call'[c].pc = "put" /\ call'[c].held = row /\ call'[c].scanned = call[c].scanned
  BY <1>1, PutTyped
<1>3. Genuine(call[c].held)'
  BY <1>2 DEF Genuine, order, submission
<1>4. CallGood(c)'
  BY <1>2, <1>3, RowGood
<1>5. QED
  BY <1>2, <1>4 DEF Moved

LEMMA QuietMoves ==
  ASSUME IInv, NEW c \in Calls, Quiet, Moved(c)
  PROVE  Sound(c)
BY QuietSound DEF Moved

LEMMA QuietUnchanged ==
  ASSUME Quiet
  PROVE  UNCHANGED <<order, submission>>
BY DEF Quiet

LEMMA DeliverSound ==
  ASSUME IInv, NEW c \in Calls, NEW e \in Events, NEW valid, NEW pc, NEW refused,
         Deliver(c, e, valid, pc, refused),
         {pc, refused} \subseteq EventPlaces
           \ {"apply", "ship", "insert_receipt", "receive", "stock"},
         {pc, refused} \cap ReceiptPlaces # {} => e \in Receipts
  PROVE  Sound(c)
<1> DEFINE place == IF po.status \in valid THEN pc ELSE refused
           r == [Idle EXCEPT !.held = po, !.event = e, !.pc = place]
<1>1. Quiet /\ po # None /\ call' = [call EXCEPT ![c] = r]
  BY DEF Deliver, Start, Quiet
<1>2. po \in OrderRows /\ Genuine(po)
  BY <1>1 DEF IInv, OrderGood, Genuine
<1>3. place \in {pc, refused}
  OBVIOUS
<1> HIDE DEF place
<1>4. /\ r \in CallRows /\ r.pc = place /\ r.held = po /\ r.event = e /\ r.scanned = 0
  BY <1>2, <1>3 DEF Idle, CallRows, Places
<1> HIDE DEF r
<1>5. EventRow(r)
  BY <1>2, <1>3, <1>4 DEF EventRow
<1>6. Moved(c)
  BY <1>1, <1>4, <1>5, QuietUnchanged, EventMoves
<1>7. QED
  BY <1>1, <1>6, QuietMoves

LEMMA DeliverAckSound ==
  ASSUME IInv, NEW c \in Calls, NEW a \in Acks, DeliverAck(c, a)
  PROVE  Sound(c)
<1>1. Deliver(c, a, AckValid, "insert_ack", "refuse_ack") /\ a \in Events
  BY DEF DeliverAck, Events
<1>2. {"insert_ack", "refuse_ack"} \subseteq
        EventPlaces \ {"apply", "ship", "insert_receipt", "receive", "stock"}
  BY DEF EventPlaces, AckPlaces
<1>3. {"insert_ack", "refuse_ack"} \cap ReceiptPlaces = {}
  BY DEF ReceiptPlaces
<1>4. QED
  BY <1>1, <1>2, <1>3, DeliverSound

LEMMA DeliverShipmentSound ==
  ASSUME IInv, NEW c \in Calls, NEW s \in Shipments, DeliverShipment(c, s)
  PROVE  Sound(c)
<1>1. Deliver(c, s, ShipmentValid, "list_shipments", "refuse_shipment") /\ s \in Events
  BY DEF DeliverShipment, Events
<1>2. {"list_shipments", "refuse_shipment"} \subseteq
        EventPlaces \ {"apply", "ship", "insert_receipt", "receive", "stock"}
  BY DEF EventPlaces, ShipmentPlaces
<1>3. {"list_shipments", "refuse_shipment"} \cap ReceiptPlaces = {}
  BY DEF ReceiptPlaces
<1>4. QED
  BY <1>1, <1>2, <1>3, DeliverSound

LEMMA DeliverReceiptSound ==
  ASSUME IInv, NEW c \in Calls, NEW x \in Receipts, DeliverReceipt(c, x)
  PROVE  Sound(c)
<1>1. Deliver(c, x, ReceiptValid, "list_for_receipt", "refuse_receipt") /\ x \in Events
  BY DEF DeliverReceipt, Events
<1>2. {"list_for_receipt", "refuse_receipt"} \subseteq
        EventPlaces \ {"apply", "ship", "insert_receipt", "receive", "stock"}
  BY DEF EventPlaces, ReceiptPlaces
<1>3. QED
  BY <1>1, <1>2, DeliverSound

\* What a step on the rows of an event has to show.
LEMMA RowsMoves ==
  ASSUME IInv, NEW c \in Calls, UNCHANGED <<order, submission>>,
         (line \in LineRows)', (ack \in [Acks -> {None, "recorded", "applied"}])',
         (shipment \in [Shipments -> {None, "stale", "applied"}])',
         (receipt \subseteq Receipts)',
         (stock \in [Lines -> [quantity : Nat, inbound : Nat]])',
         (open \subseteq {"approval", "review"})',
         UNCHANGED <<uncertain, attempts>>, Moved(c)
  PROVE  Sound(c)
BY RowsPut DEF Moved

LEMMA ReviewTyped ==
  ASSUME open \subseteq {"approval", "review"}, NEW flagged,
         Review \/ ReviewIf(flagged) \/ open' = open
  PROVE  (open \subseteq {"approval", "review"})'
BY DEF Review, ReviewIf

\* An event that resolves names a line of the order.
LEMMA LineFound ==
  ASSUME NEW to, Resolves(to)
  PROVE  TheLine(to) \in Lines
<1>1. Cardinality({}) = 0
  BY FS_EmptySet
<1>2. Named(to) # {}
  BY <1>1 DEF Resolves
<1>3. TheLine(to) \in Named(to)
  BY <1>2 DEF TheLine
<1>4. QED
  BY <1>3 DEF Named

LEMMA ThisTyped ==
  ASSUME NEW c \in Calls, call[c] \in CallRows, call[c].todo # {}
  PROVE  /\ This(c) \in call[c].todo /\ This(c) \in EventLines /\ This(c).quantity \in Nat
         /\ Rest(c) \in SUBSET EventLines
<1>1. call[c].todo \subseteq EventLines
  BY DEF CallRows
<1>2. This(c) \in call[c].todo
  BY DEF This
<1>3. QED
  BY <1>1, <1>2 DEF Rest, EventLines

\* Where PcWith leads.
LEMMA PcWithPlace ==
  ASSUME NEW todo, NEW pc, NEW done
  PROVE  PcWith(todo, pc, done) = done \/ (PcWith(todo, pc, done) = pc /\ todo # {})
BY DEF PcWith

LEMMA RefuseAckSound ==
  ASSUME IInv, NEW c \in Calls, RefuseAck(c)
  PROVE  Sound(c)
<1>1. /\ ack' = [ack EXCEPT ![call[c].event] = IF @ = None THEN "recorded" ELSE @]
      /\ Review /\ Return(c) /\ UNCHANGED <<order, submission>>
      /\ line' = line /\ shipment' = shipment /\ receipt' = receipt /\ stock' = stock
      /\ UNCHANGED <<uncertain, attempts>>
  BY DEF RefuseAck
<1>2. TypeOK
  BY Here
<1>3. (ack \in [Acks -> {None, "recorded", "applied"}])'
  BY <1>1, <1>2 DEF TypeOK
<1>4. (open \subseteq {"approval", "review"})'
  BY <1>1, <1>2, ReviewTyped DEF TypeOK
<1>5. Moved(c)
  BY <1>1, ReturnMoves
<1>6. QED
  BY <1>1, <1>2, <1>3, <1>4, <1>5, RowsMoves DEF TypeOK

LEMMA RefuseShipmentSound ==
  ASSUME IInv, NEW c \in Calls, RefuseShipment(c)
  PROVE  Sound(c)
<1>1. /\ shipment' = [shipment EXCEPT ![call[c].event] = IF @ = None THEN "stale" ELSE @]
      /\ Review /\ Return(c) /\ UNCHANGED <<order, submission>>
      /\ line' = line /\ ack' = ack /\ receipt' = receipt /\ stock' = stock
      /\ UNCHANGED <<uncertain, attempts>>
  BY DEF RefuseShipment
<1>2. TypeOK
  BY Here
<1>3. (shipment \in [Shipments -> {None, "stale", "applied"}])'
  BY <1>1, <1>2 DEF TypeOK
<1>4. (open \subseteq {"approval", "review"})'
  BY <1>1, <1>2, ReviewTyped DEF TypeOK
<1>5. Moved(c)
  BY <1>1, ReturnMoves
<1>6. QED
  BY <1>1, <1>2, <1>3, <1>4, <1>5, RowsMoves DEF TypeOK

LEMMA RefuseReceiptSound ==
  ASSUME IInv, NEW c \in Calls, RefuseReceipt(c)
  PROVE  Sound(c)
<1>1. /\ call[c].pc = "refuse_receipt" /\ receipt' = receipt \cup {call[c].event}
      /\ Review /\ Return(c) /\ UNCHANGED <<order, submission>>
      /\ line' = line /\ ack' = ack /\ shipment' = shipment /\ stock' = stock
      /\ UNCHANGED <<uncertain, attempts>>
  BY DEF RefuseReceipt, At
<1>2. TypeOK /\ CallGood(c)
  BY Here
<1>3. (receipt \subseteq Receipts)'
  BY <1>1, <1>2 DEF TypeOK, CallGood, ReceiptPlaces
<1>4. (open \subseteq {"approval", "review"})'
  BY <1>1, <1>2, ReviewTyped DEF TypeOK
<1>5. Moved(c)
  BY <1>1, ReturnMoves
<1>6. QED
  BY <1>1, <1>2, <1>3, <1>4, <1>5, RowsMoves DEF TypeOK

LEMMA InsertAckSound ==
  ASSUME IInv, NEW c \in Calls, InsertAck(c)
  PROVE  Sound(c)
<1>1. /\ call[c].pc = "insert_ack" /\ UNCHANGED <<order, submission>>
      /\ line' = line /\ shipment' = shipment /\ receipt' = receipt /\ stock' = stock
      /\ open' = open /\ UNCHANGED <<uncertain, attempts>>
  BY DEF InsertAck, At, exceptions
<1>2. TypeOK
  BY Here
<1>3. CASE Return(c) /\ UNCHANGED ack
  <2>1. Moved(c)
    BY <1>3, ReturnMoves
  <2>2. QED
    BY <1>1, <1>2, <1>3, <2>1, RowsMoves DEF TypeOK
<1>4. CASE /\ ack' = [ack EXCEPT ![call[c].event] = "recorded"]
           /\ call' = [call EXCEPT ![c].pc = PcWith(Contents[call[c].event], "apply", "mark"),
                                   ![c].todo = Contents[call[c].event]]
  <2> DEFINE todo == Contents[call[c].event]
             pc == PcWith(todo, "apply", "mark")
  <2>1. todo \in SUBSET EventLines
    BY <1>1, EventHere DEF EventPlaces, AckPlaces
  <2>2. pc = "mark" \/ (pc = "apply" /\ todo # {})
    BY PcWithPlace
  <2>3. call' = [call EXCEPT ![c].pc = pc, ![c].todo = todo]
    BY <1>4
  <2> HIDE DEF todo, pc
  <2>4. pc \in EventPlaces /\ pc \notin ReceiptPlaces /\ call[c].pc \in EventPlaces
    BY <1>1, <2>2 DEF EventPlaces, AckPlaces, ReceiptPlaces
  <2>5. Moved(c)
    BY <1>1, <2>1, <2>2, <2>3, <2>4, PlaceMoves
  <2>6. (ack \in [Acks -> {None, "recorded", "applied"}])'
    BY <1>2, <1>4 DEF TypeOK
  <2>7. QED
    BY <1>1, <1>2, <2>5, <2>6, RowsMoves DEF TypeOK
<1>5. QED
  BY <1>3, <1>4 DEF InsertAck

LEMMA ApplyAckLineSound ==
  ASSUME IInv, NEW c \in Calls, ApplyAckLine(c)
  PROVE  Sound(c)
<1> DEFINE x == This(c)
           l == TheLine(x.to)
           fresh == Sequence[call[c].event] \notin AppliedSequences
           total == line[l].confirmed + x.quantity
           credit == Lesser(total, Ordered[l]) - Lesser(line[l].confirmed, Ordered[l])
           over == Resolves(x.to) /\ fresh /\ total > Ordered[l]
           flag == IF Resolves(x.to) /\ call[c].flag = None THEN fresh ELSE call[c].flag
           pc == PcWith(Rest(c), "apply", "mark")
           r == [call[c] EXCEPT !.todo = Rest(c), !.pc = pc, !.over = @ \/ over,
                                !.flag = flag]
<1>1. call[c].pc = "apply"
  BY DEF ApplyAckLine, At
<1>2. /\ TypeOK /\ call[c] \in CallRows /\ EventRow(call[c]) /\ call[c].todo # {}
  BY <1>1, Here, EventHere DEF CallGood, EventPlaces, AckPlaces
<1>3. /\ x \in EventLines /\ x.quantity \in Nat /\ Rest(c) \in SUBSET EventLines
  BY <1>2, ThisTyped
<1>4. /\ (line \in LineRows)' /\ (stock \in [Lines -> [quantity : Nat, inbound : Nat]])'
  <2>1. CASE Resolves(x.to) /\ fresh
    <3>1. /\ line' = [line EXCEPT ![l].confirmed = total]
          /\ stock' = [stock EXCEPT ![l].inbound = @ + credit]
      BY <2>1 DEF ApplyAckLine
    <3>2. l \in Lines
      BY <2>1, LineFound
    <3>3. Ordered[l] \in Nat /\ line[l].confirmed \in Nat
      BY <1>2, <3>2, ConstantsTyped DEF TypeOK, LineRows
    <3>4. total \in Nat /\ credit \in Nat
      BY <1>3, <3>3 DEF Lesser
    <3> HIDE DEF total, credit, l, x
    <3>5. (line \in LineRows)'
      BY <1>2, <3>1, <3>2, <3>4 DEF TypeOK, LineRows
    <3>6. (stock \in [Lines -> [quantity : Nat, inbound : Nat]])'
      BY <1>2, <3>1, <3>2, <3>4 DEF TypeOK
    <3>7. QED
      BY <3>5, <3>6
  <2>2. CASE ~ (Resolves(x.to) /\ fresh)
    <3>1. UNCHANGED <<line, stock>>
      BY <2>2 DEF ApplyAckLine
    <3>2. QED
      BY <1>2, <3>1 DEF TypeOK
  <2>3. QED
    BY <2>1, <2>2
<1>5. /\ call' = [call EXCEPT ![c] = r]
      /\ UNCHANGED <<order, submission>> /\ UNCHANGED <<uncertain, attempts>>
      /\ ack' = ack /\ shipment' = shipment /\ receipt' = receipt
      /\ ReviewIf(x.flagged \/ over \/ Unresolved(x.to))
  BY DEF ApplyAckLine, events
<1>6. pc = "mark" \/ (pc = "apply" /\ Rest(c) # {})
  BY PcWithPlace
<1>7. over \in BOOLEAN /\ flag \in BOOLEAN \cup {None}
  BY <1>2 DEF CallRows
<1>8. (open \subseteq {"approval", "review"})'
  BY <1>2, <1>5, ReviewTyped DEF TypeOK
<1> HIDE DEF pc, over, flag, x
<1>9. /\ r \in CallRows /\ r.pc = pc /\ r.todo = Rest(c) /\ r.held = call[c].held
      /\ r.event = call[c].event /\ r.scanned = call[c].scanned
  <2>1. pc \in Places
    BY <1>6 DEF Places, EventPlaces, AckPlaces
  <2>2. QED
    BY <1>2, <1>3, <1>7, <2>1 DEF CallRows
<1> HIDE DEF r
<1>10. EventRow(r)
  BY <1>2, <1>6, <1>9 DEF EventRow, EventPlaces, AckPlaces, ReceiptPlaces
<1>11. Moved(c)
  BY <1>5, <1>9, <1>10, EventMoves
<1>12. QED
  BY <1>2, <1>4, <1>5, <1>8, <1>11, RowsMoves DEF TypeOK

LEMMA MarkAckSound ==
  ASSUME IInv, NEW c \in Calls, MarkAck(c)
  PROVE  Sound(c)
<1>1. /\ call[c].pc = "mark" /\ UNCHANGED <<order, submission>>
      /\ line' = line /\ shipment' = shipment /\ receipt' = receipt /\ stock' = stock
      /\ UNCHANGED <<uncertain, attempts>>
  BY DEF MarkAck, At
<1>2. TypeOK /\ call \in [Calls -> CallRows]
  BY Here
<1>3. CASE Review /\ Return(c) /\ UNCHANGED ack
  <2>1. Moved(c)
    BY <1>3, ReturnMoves
  <2>2. (open \subseteq {"approval", "review"})'
    BY <1>2, <1>3, ReviewTyped DEF TypeOK
  <2>3. QED
    BY <1>1, <1>2, <1>3, <2>1, <2>2, RowsMoves DEF TypeOK
<1>4. CASE /\ ack' = [ack EXCEPT ![call[c].event] = "applied"]
           /\ Goto(c, "confirm") /\ UNCHANGED open
  <2>1. call[c].todo \in SUBSET EventLines
    BY <1>2 DEF CallRows
  <2>2. call' = [call EXCEPT ![c].pc = "confirm", ![c].todo = call[c].todo]
    BY <1>2, <1>4 DEF Goto, CallRows
  <2>3. "confirm" \in EventPlaces /\ "confirm" \notin ReceiptPlaces /\ call[c].pc \in EventPlaces
    BY <1>1 DEF EventPlaces, AckPlaces, ReceiptPlaces
  <2>4. Moved(c)
    BY <1>1, <2>1, <2>2, <2>3, PlaceMoves
  <2>5. (ack \in [Acks -> {None, "recorded", "applied"}])'
    BY <1>2, <1>4 DEF TypeOK
  <2>6. QED
    BY <1>1, <1>2, <1>4, <2>4, <2>5, RowsMoves DEF TypeOK
<1>5. QED
  BY <1>3, <1>4 DEF MarkAck

LEMMA ConfirmOrderSound ==
  ASSUME IInv, NEW c \in Calls, ConfirmOrder(c)
  PROVE  Sound(c)
<1> DEFINE row == [call[c].held EXCEPT !.status = ConfirmedStatus(c)]
<1>1. call[c].pc = "confirm" /\ Quiet /\ Put(c, row)
  BY DEF ConfirmOrder, At, Quiet
<1>2. Genuine(call[c].held)
  BY <1>1, HeldGenuine
<1>3. ConfirmedStatus(c) \in Statuses \ Submittable
  BY DEF ConfirmedStatus, Statuses, Submittable
<1>4. Genuine(row)
  BY <1>2, <1>3, StatusGenuine
<1> HIDE DEF row
<1>5. Moved(c)
  BY <1>1, <1>4, QuietUnchanged, PutMoves
<1>6. QED
  BY <1>1, <1>5, QuietMoves

\* A quiet step from one place of an event to another.
LEMMA QuietPlace ==
  ASSUME IInv, NEW c \in Calls, Quiet, NEW r, EventRow(r), call' = [call EXCEPT ![c] = r],
         r.scanned \in {0, call[c].scanned}
  PROVE  Sound(c)
<1>1. Moved(c)
  BY QuietUnchanged, EventMoves
<1>2. QED
  BY <1>1, QuietMoves

LEMMA ListShipmentsSound ==
  ASSUME IInv, NEW c \in Calls, ListShipments(c)
  PROVE  Sound(c)
<1> DEFINE flag == \A s \in Shipments :
                     shipment[s] = "applied" => Sequence[call[c].event] > Sequence[s]
           r == [call[c] EXCEPT !.pc = "insert_shipment", !.flag = flag]
<1>1. /\ call[c].pc = "list_shipments" /\ Quiet
      /\ call' = [call EXCEPT ![c].pc = "insert_shipment", ![c].flag = flag]
  BY DEF ListShipments, At, Quiet
<1>2. call \in [Calls -> CallRows] /\ call[c] \in CallRows /\ EventRow(call[c])
  BY <1>1, Here, EventHere DEF EventPlaces, ShipmentPlaces
<1>3. flag \in BOOLEAN
  OBVIOUS
<1> HIDE DEF flag
<1>4. call' = [call EXCEPT ![c] = r]
  BY <1>1, <1>2
<1>5. /\ r \in CallRows /\ r.pc = "insert_shipment" /\ r.held = call[c].held
      /\ r.event = call[c].event /\ r.scanned = call[c].scanned
  BY <1>2, <1>3 DEF CallRows, Places, EventPlaces, ShipmentPlaces
<1> HIDE DEF r
<1>6. EventRow(r)
  BY <1>2, <1>5 DEF EventRow, EventPlaces, ShipmentPlaces, ReceiptPlaces
<1>7. QED
  BY <1>1, <1>4, <1>5, <1>6, QuietPlace

LEMMA InsertShipmentSound ==
  ASSUME IInv, NEW c \in Calls, InsertShipment(c)
  PROVE  Sound(c)
<1>1. /\ call[c].pc = "insert_shipment" /\ UNCHANGED <<order, submission>>
      /\ line' = line /\ ack' = ack /\ receipt' = receipt /\ stock' = stock
      /\ UNCHANGED <<uncertain, attempts>>
      /\ \/ UNCHANGED <<shipment, open>>
         \/ /\ shipment' = [shipment EXCEPT ![call[c].event] =
                              IF call[c].flag THEN "applied" ELSE "stale"]
            /\ ReviewIf(~ call[c].flag)
      /\ Return(c) \/ Goto(c, "list_lines")
  BY DEF InsertShipment, At
<1>2. TypeOK /\ call \in [Calls -> CallRows] /\ call[c] \in CallRows
  BY Here
<1>3. /\ (shipment \in [Shipments -> {None, "stale", "applied"}])'
      /\ (open \subseteq {"approval", "review"})'
  BY <1>1, <1>2 DEF TypeOK, ReviewIf
<1>4. Moved(c)
  <2>1. CASE Return(c)
    BY <2>1, ReturnMoves
  <2>2. CASE Goto(c, "list_lines")
    <3>1. /\ "list_lines" \in EventPlaces /\ "list_lines" \notin ReceiptPlaces
          /\ call[c].pc \in EventPlaces /\ call[c].todo \in SUBSET EventLines
      BY <1>1, <1>2 DEF EventPlaces, ShipmentPlaces, ReceiptPlaces, CallRows
    <3>2. call' = [call EXCEPT ![c].pc = "list_lines", ![c].todo = call[c].todo]
      BY <1>2, <2>2 DEF Goto, CallRows
    <3>3. QED
      BY <1>1, <3>1, <3>2, PlaceMoves
  <2>3. QED
    BY <1>1, <2>1, <2>2
<1>5. QED
  BY <1>1, <1>2, <1>3, <1>4, RowsMoves DEF TypeOK

\* The end of a shipment: INBOUND cannot be submitted again.
LEMMA InboundMoves ==
  ASSUME IInv, NEW c \in Calls, UNCHANGED <<order, submission>>,
         call[c].pc \in EventPlaces, call' = Inbound(c)
  PROVE  Moved(c)
<1>1. /\ call \in [Calls -> CallRows] /\ call[c] \in CallRows
      /\ EventRow(call[c]) /\ call[c].held \in OrderRows
  BY Here, EventHere
<1>2. CASE call[c].held.status \in {"CONFIRMED", "PARTIALLY_CONFIRMED"}
  <2> DEFINE row == [call[c].held EXCEPT !.status = "INBOUND"]
  <2>1. Genuine(call[c].held) /\ "INBOUND" \in Statuses \ Submittable
    BY <1>1 DEF EventRow, Statuses, Submittable
  <2>2. Genuine(row)
    BY <2>1, StatusGenuine
  <2>3. Put(c, row)
    BY <1>1, <1>2 DEF Inbound, Put, CallRows
  <2> HIDE DEF row
  <2>4. QED
    BY <2>2, <2>3, PutMoves
<1>3. CASE call[c].held.status \notin {"CONFIRMED", "PARTIALLY_CONFIRMED"}
  <2>1. Return(c)
    BY <1>3 DEF Inbound, Return
  <2>2. QED
    BY <2>1, ReturnMoves
<1>4. QED
  BY <1>2, <1>3

\* A call takes the lines of the order and of its event.
LEMMA HoldLinesSound ==
  ASSUME IInv, NEW c \in Calls, Quiet, NEW pc \in {"ship", "insert_receipt"}, HoldLines(c, pc),
         call[c].pc \in EventPlaces,
         pc = "ship" => Contents[call[c].event] # {},
         pc = "insert_receipt" => call[c].event \in Receipts
  PROVE  Sound(c)
<1> DEFINE r == [call[c] EXCEPT !.lines = line, !.todo = Contents[call[c].event], !.pc = pc]
<1>1. /\ TypeOK /\ call \in [Calls -> CallRows] /\ call[c] \in CallRows /\ EventRow(call[c])
      /\ Contents[call[c].event] \subseteq EventLines
  BY Here, EventHere
<1>2. call' = [call EXCEPT ![c] = r]
  BY <1>1 DEF HoldLines
<1>3. /\ r \in CallRows /\ r.pc = pc /\ r.held = call[c].held /\ r.lines \in LineRows
      /\ r.todo = Contents[call[c].event]
      /\ r.event = call[c].event /\ r.scanned = call[c].scanned
  BY <1>1 DEF CallRows, Places, EventPlaces, ShipmentPlaces, ReceiptPlaces, TypeOK
<1> HIDE DEF r
<1>4. EventRow(r)
  BY <1>1, <1>3 DEF EventRow, EventPlaces, ShipmentPlaces, ReceiptPlaces
<1>5. QED
  BY <1>2, <1>3, <1>4, QuietPlace

LEMMA ListLinesSound ==
  ASSUME IInv, NEW c \in Calls, ListLines(c)
  PROVE  Sound(c)
<1>1. call[c].pc = "list_lines" /\ Quiet
  BY DEF ListLines, At, Quiet
<1>2. call[c].pc \in EventPlaces
  BY <1>1 DEF EventPlaces, ShipmentPlaces
<1>3. CASE call' = Inbound(c)
  BY <1>1, <1>2, <1>3, QuietUnchanged, InboundMoves, QuietMoves
<1>4. CASE Contents[call[c].event] # {} /\ HoldLines(c, "ship")
  BY <1>1, <1>2, <1>4, HoldLinesSound
<1>5. QED
  BY <1>3, <1>4 DEF ListLines

LEMMA ListForReceiptSound ==
  ASSUME IInv, NEW c \in Calls, ListForReceipt(c)
  PROVE  Sound(c)
<1>1. call[c].pc = "list_for_receipt" /\ Quiet /\ HoldLines(c, "insert_receipt")
  BY DEF ListForReceipt, At, Quiet
<1>2. call[c].pc \in EventPlaces /\ call[c].event \in Receipts
  BY <1>1, Here DEF EventPlaces, ReceiptPlaces, CallGood
<1>3. QED
  BY <1>1, <1>2, HoldLinesSound

\* A line of the order that a call puts back with other counts.
LEMMA LinePut ==
  ASSUME NEW lines \in LineRows, NEW l \in Lines, NEW n \in Nat
  PROVE  /\ [lines[l] EXCEPT !.shipped = @ + n] \in [confirmed : Nat, shipped : Nat, received : Nat]
         /\ [lines[l] EXCEPT !.received = @ + n] \in [confirmed : Nat, shipped : Nat, received : Nat]
BY DEF LineRows

LEMMA ShipLineSound ==
  ASSUME IInv, NEW c \in Calls, ShipLine(c)
  PROVE  Sound(c)
<1> DEFINE x == This(c)
           l == TheLine(x.to)
           row == [call[c].lines[l] EXCEPT !.shipped = @ + x.quantity]
           lines == IF Resolves(x.to) THEN [call[c].lines EXCEPT ![l] = row] ELSE call[c].lines
           r == [call[c] EXCEPT !.todo = Rest(c), !.lines = lines]
<1>1. /\ call[c].pc = "ship" /\ UNCHANGED <<order, submission>>
      /\ ack' = ack /\ shipment' = shipment /\ receipt' = receipt /\ stock' = stock
      /\ UNCHANGED <<uncertain, attempts>> /\ ReviewIf(Unresolved(x.to))
      /\ line' = IF Resolves(x.to) THEN [line EXCEPT ![l] = row] ELSE line
  BY DEF ShipLine, At, events
<1>2. call[c].pc \in EventPlaces
  BY <1>1 DEF EventPlaces, ShipmentPlaces
<1>3. /\ TypeOK /\ call \in [Calls -> CallRows] /\ call[c] \in CallRows /\ EventRow(call[c])
      /\ call[c].todo # {} /\ call[c].lines \in LineRows
  BY <1>1, <1>2, Here, EventHere DEF EventRow
<1>4. x.quantity \in Nat /\ Rest(c) \in SUBSET EventLines
  BY <1>3, ThisTyped
<1>5. Resolves(x.to) =>
        l \in Lines /\ row \in [confirmed : Nat, shipped : Nat, received : Nat]
  BY <1>3, <1>4, LineFound, LinePut
<1>6. (open \subseteq {"approval", "review"})'
  BY <1>1, <1>3, ReviewTyped DEF TypeOK
<1> HIDE DEF x, l, row
<1>7. (line \in LineRows)' /\ lines \in LineRows
  BY <1>1, <1>3, <1>5 DEF TypeOK, LineRows
<1>8. Moved(c)
  <2>1. CASE Rest(c) = {}
    <3>1. call' = Inbound(c)
      BY <2>1 DEF ShipLine
    <3>2. QED
      BY <1>1, <1>2, <3>1, InboundMoves
  <2>2. CASE Rest(c) # {}
    <3>1. call' = [call EXCEPT ![c].todo = Rest(c), ![c].lines =
                     IF Resolves(x.to) THEN [@ EXCEPT ![l] = row] ELSE @]
      BY <2>2 DEF ShipLine, x, l, row
    <3>2. call' = [call EXCEPT ![c] = r]
      BY <1>3, <3>1
    <3> HIDE DEF lines
    <3>3. /\ r \in CallRows /\ r.pc = "ship" /\ r.held = call[c].held /\ r.lines \in LineRows
          /\ r.todo = Rest(c) /\ r.event = call[c].event /\ r.scanned = call[c].scanned
      BY <1>1, <1>3, <1>4, <1>7 DEF CallRows
    <3> HIDE DEF r
    <3>4. EventRow(r)
      BY <1>1, <1>3, <2>2, <3>3 DEF EventRow
    <3>5. QED
      BY <1>1, <3>2, <3>3, <3>4, EventMoves
  <2>3. QED
    BY <2>1, <2>2
<1>9. QED
  BY <1>1, <1>3, <1>6, <1>7, <1>8, RowsMoves DEF TypeOK

LEMMA InsertReceiptSound ==
  ASSUME IInv, NEW c \in Calls, InsertReceipt(c)
  PROVE  Sound(c)
<1>1. /\ call[c].pc = "insert_receipt" /\ UNCHANGED <<order, submission>>
      /\ receipt' = receipt \cup {call[c].event}
      /\ line' = line /\ ack' = ack /\ shipment' = shipment /\ stock' = stock
      /\ open' = open /\ UNCHANGED <<uncertain, attempts>>
  BY DEF InsertReceipt, At, exceptions
<1>2. /\ call[c].pc \in EventPlaces /\ call[c].pc \in ReceiptPlaces
  BY <1>1 DEF EventPlaces, ReceiptPlaces
<1>3. /\ TypeOK /\ call \in [Calls -> CallRows] /\ call[c] \in CallRows
      /\ call[c].event \in Receipts /\ call[c].lines \in LineRows
  BY <1>1, <1>2, Here, EventHere DEF EventRow
<1>4. (receipt \subseteq Receipts)'
  BY <1>1, <1>3 DEF TypeOK
<1>5. CASE Return(c)
  <2>1. Moved(c)
    BY <1>5, ReturnMoves
  <2>2. QED
    BY <1>1, <1>3, <1>4, <2>1, RowsMoves DEF TypeOK
<1>6. CASE Goto(c, PcWith(call[c].todo, "receive", "advance"))
  <2> DEFINE pc == PcWith(call[c].todo, "receive", "advance")
  <2>1. pc = "advance" \/ (pc = "receive" /\ call[c].todo # {})
    BY PcWithPlace
  <2>2. Goto(c, pc)
    BY <1>6
  <2> HIDE DEF pc
  <2>3. pc \in EventPlaces /\ call[c].todo \in SUBSET EventLines
    BY <1>3, <2>1 DEF EventPlaces, ReceiptPlaces, CallRows
  <2>4. call' = [call EXCEPT ![c].pc = pc, ![c].todo = call[c].todo]
    BY <1>3, <2>2 DEF Goto, CallRows
  <2>5. Moved(c)
    BY <1>1, <1>2, <1>3, <2>1, <2>3, <2>4, PlaceMoves
  <2>6. QED
    BY <1>1, <1>3, <1>4, <2>5, RowsMoves DEF TypeOK
<1>7. QED
  BY <1>5, <1>6 DEF InsertReceipt

\* A receipt goes on to its next line, or to the status of the order.
LEMMA NextLineMoves ==
  ASSUME IInv, NEW c \in Calls, UNCHANGED <<order, submission>>,
         call[c].pc \in {"receive", "stock"},
         call' = [call EXCEPT ![c].todo = Rest(c),
                              ![c].pc = PcWith(Rest(c), "receive", "advance")]
  PROVE  Moved(c)
<1> DEFINE pc == PcWith(Rest(c), "receive", "advance")
<1>1. call[c].pc \in EventPlaces /\ call[c].pc \in ReceiptPlaces
  BY DEF EventPlaces, ReceiptPlaces
<1>2. /\ call \in [Calls -> CallRows] /\ call[c] \in CallRows /\ call[c].todo # {}
      /\ call[c].event \in Receipts /\ call[c].lines \in LineRows
  BY <1>1, Here, EventHere DEF EventRow
<1>3. Rest(c) \in SUBSET EventLines
  BY <1>2, ThisTyped
<1>4. pc = "advance" \/ (pc = "receive" /\ Rest(c) # {})
  BY PcWithPlace
<1>5. call' = [call EXCEPT ![c].pc = pc, ![c].todo = Rest(c)]
  BY <1>2
<1> HIDE DEF pc
<1>6. pc \in EventPlaces
  BY <1>4 DEF EventPlaces, ReceiptPlaces
<1>7. QED
  BY <1>1, <1>2, <1>3, <1>4, <1>5, <1>6, PlaceMoves

LEMMA ReceiveLineSound ==
  ASSUME IInv, NEW c \in Calls, ReceiveLine(c)
  PROVE  Sound(c)
<1> DEFINE x == This(c)
           l == TheLine(x.to)
           row == [call[c].lines[l] EXCEPT !.received = @ + x.quantity]
           lines == [call[c].lines EXCEPT ![l] = row]
           r == [call[c] EXCEPT !.pc = "stock", !.lines = lines]
<1>1. /\ call[c].pc = "receive" /\ UNCHANGED <<order, submission>>
      /\ ack' = ack /\ shipment' = shipment /\ receipt' = receipt /\ stock' = stock
      /\ UNCHANGED <<uncertain, attempts>>
  BY DEF ReceiveLine, At, events
<1>2. call[c].pc \in EventPlaces /\ call[c].pc \in ReceiptPlaces
  BY <1>1 DEF EventPlaces, ReceiptPlaces
<1>3. /\ TypeOK /\ call \in [Calls -> CallRows] /\ call[c] \in CallRows /\ EventRow(call[c])
      /\ call[c].todo # {} /\ call[c].lines \in LineRows /\ call[c].event \in Receipts
  BY <1>1, <1>2, Here, EventHere DEF EventRow
<1>4. x.quantity \in Nat
  BY <1>3, ThisTyped
<1>5. CASE Resolves(x.to)
  <2>1. /\ line' = [line EXCEPT ![l] = row]
        /\ call' = [call EXCEPT ![c].pc = "stock", ![c].lines[l] = row]
        /\ ReviewIf(x.flagged \/ x.quantity # Ordered[l] - call[c].lines[l].received)
    BY <1>5 DEF ReceiveLine
  <2>2. l \in Lines /\ row \in [confirmed : Nat, shipped : Nat, received : Nat]
    BY <1>3, <1>4, <1>5, LineFound, LinePut
  <2>3. (open \subseteq {"approval", "review"})'
    BY <1>3, <2>1, ReviewTyped DEF TypeOK
  <2> HIDE DEF x, l, row
  <2>4. (line \in LineRows)' /\ lines \in LineRows
    BY <1>3, <2>1, <2>2 DEF TypeOK, LineRows
  <2>5. call' = [call EXCEPT ![c] = r]
    BY <1>3, <2>1 DEF CallRows
  <2> HIDE DEF lines
  <2>6. /\ r \in CallRows /\ r.pc = "stock" /\ r.held = call[c].held /\ r.lines \in LineRows
        /\ r.todo = call[c].todo /\ r.event = call[c].event /\ r.scanned = call[c].scanned
    BY <1>3, <2>4 DEF CallRows, Places, EventPlaces, ReceiptPlaces
  <2> HIDE DEF r
  <2>7. EventRow(r)
    BY <1>3, <2>6 DEF EventRow, EventPlaces, ReceiptPlaces
  <2>8. Moved(c)
    BY <1>1, <2>5, <2>6, <2>7, EventMoves
  <2>9. QED
    BY <1>1, <1>3, <2>3, <2>4, <2>8, RowsMoves DEF TypeOK
<1>6. CASE ~ Resolves(x.to)
  <2>1. /\ call' = [call EXCEPT ![c].todo = Rest(c),
                                ![c].pc = PcWith(Rest(c), "receive", "advance")]
        /\ Review /\ line' = line
    BY <1>6 DEF ReceiveLine
  <2>2. Moved(c)
    BY <1>1, <2>1, NextLineMoves
  <2>3. (open \subseteq {"approval", "review"})'
    BY <1>3, <2>1, ReviewTyped DEF TypeOK
  <2>4. QED
    BY <1>1, <1>3, <2>1, <2>2, <2>3, RowsMoves DEF TypeOK
<1>7. QED
  BY <1>5, <1>6

\* A line that resolved when it was received resolves when it is stocked, or
\* nothing is written.
LEMMA StockLineSound ==
  ASSUME IInv, NEW c \in Calls, StockLine(c)
  PROVE  Sound(c)
<1> DEFINE x == This(c)
           l == TheLine(x.to)
<1>1. /\ call[c].pc = "stock" /\ UNCHANGED <<order, submission>>
      /\ line' = line /\ ack' = ack /\ shipment' = shipment /\ receipt' = receipt
      /\ open' = open /\ UNCHANGED <<uncertain, attempts>>
      /\ stock' = [stock EXCEPT ![l].quantity = @ + x.quantity,
                                ![l].inbound = Greater(@ - x.quantity, 0)]
      /\ call' = [call EXCEPT ![c].todo = Rest(c),
                              ![c].pc = PcWith(Rest(c), "receive", "advance")]
  BY DEF StockLine, At, events, exceptions
<1>2. call[c].pc \in EventPlaces
  BY <1>1 DEF EventPlaces, ReceiptPlaces
<1>3. TypeOK /\ call[c] \in CallRows /\ call[c].todo # {}
  BY <1>1, <1>2, Here, EventHere DEF EventRow
<1>4. x.quantity \in Nat
  BY <1>3, ThisTyped
<1> HIDE DEF x, l
<1>5. (stock \in [Lines -> [quantity : Nat, inbound : Nat]])'
  <2>1. CASE l \in Lines
    <3>1. stock[l].quantity \in Nat /\ stock[l].inbound \in Nat
      BY <1>3, <2>1 DEF TypeOK
    <3>2. PICK q \in Nat, i \in Nat :
            q = stock[l].quantity + x.quantity /\ i = Greater(stock[l].inbound - x.quantity, 0)
      BY <1>4, <3>1 DEF Greater
    <3>3. stock' = [stock EXCEPT ![l].quantity = q, ![l].inbound = i]
      BY <1>1, <1>3, <2>1, <3>2 DEF TypeOK
    <3>4. QED
      BY <1>3, <2>1, <3>3 DEF TypeOK
  <2>2. CASE l \notin Lines
    BY <1>1, <1>3, <2>2 DEF TypeOK
  <2>3. QED
    BY <2>1, <2>2
<1>6. Moved(c)
  BY <1>1, NextLineMoves
<1>7. QED
  BY <1>1, <1>3, <1>5, <1>6, RowsMoves DEF TypeOK

LEMMA ReadForAdvanceSound ==
  ASSUME IInv, NEW c \in Calls, ReadForAdvance(c)
  PROVE  Sound(c)
<1> DEFINE r == [call[c] EXCEPT !.pc = "advance_lines", !.held = po]
<1>1. /\ call[c].pc = "advance" /\ Quiet
      /\ call' = [call EXCEPT ![c].pc = "advance_lines", ![c].held = po]
  BY DEF ReadForAdvance, At, Quiet
<1>2. call[c].pc \in EventPlaces /\ call[c].pc \in ReceiptPlaces
  BY <1>1 DEF EventPlaces, ReceiptPlaces
<1>3. /\ call \in [Calls -> CallRows] /\ call[c] \in CallRows /\ EventRow(call[c])
      /\ po \in OrderRows /\ Genuine(po)
  BY <1>1, <1>2, Here, EventHere, PastDraft DEF OrderGood
<1>4. call' = [call EXCEPT ![c] = r]
  BY <1>1, <1>3
<1>5. /\ r \in CallRows /\ r.pc = "advance_lines" /\ r.held = po
      /\ r.event = call[c].event /\ r.scanned = call[c].scanned
  BY <1>3 DEF CallRows, Places, EventPlaces, ReceiptPlaces
<1> HIDE DEF r
<1>6. EventRow(r)
  BY <1>2, <1>3, <1>5 DEF EventRow, EventPlaces, ReceiptPlaces
<1>7. QED
  BY <1>1, <1>4, <1>5, <1>6, QuietPlace

LEMMA AdvanceStatusSound ==
  ASSUME IInv, NEW c \in Calls, AdvanceStatus(c)
  PROVE  Sound(c)
<1>1. call[c].pc = "advance_lines" /\ Quiet
  BY DEF AdvanceStatus, At, Quiet
<1>2. Genuine(call[c].held) /\ call[c].held \in OrderRows
  BY <1>1, HeldGenuine
<1>3. PICK s \in {"RECEIVED", "PARTIALLY_RECEIVED", call[c].held.status} :
        Put(c, [call[c].held EXCEPT !.status = s])
  BY DEF AdvanceStatus
<1> DEFINE row == [call[c].held EXCEPT !.status = s]
<1>4. Genuine(row)
  <2>1. CASE s = call[c].held.status
    BY <1>2, <2>1 DEF Genuine, OrderRows
  <2>2. CASE s \in {"RECEIVED", "PARTIALLY_RECEIVED"}
    <3>1. s \in Statuses \ Submittable
      BY <2>2 DEF Statuses, Submittable
    <3>2. QED
      BY <1>2, <3>1, StatusGenuine
  <2>3. QED
    BY <1>3, <2>1, <2>2
<1>5. Put(c, row)
  BY <1>3
<1> HIDE DEF row
<1>6. Moved(c)
  BY <1>1, <1>4, <1>5, QuietUnchanged, PutMoves
<1>7. QED
  BY <1>1, <1>6, QuietMoves

-----------------------------------------------------------------------------
(* Closing.                                                                *)

LEMMA CheckExceptionsSound ==
  ASSUME IInv, NEW c \in Calls, CheckExceptions(c)
  PROVE  Sound(c)
<1>1. call[c].pc = "reconcile" /\ Quiet
  BY DEF CheckExceptions, At, Quiet
<1>2. call \in [Calls -> CallRows] /\ call[c] \in CallRows /\ Genuine(call[c].held)
  BY <1>1, Here, HeldGenuine
<1>3. CASE Goto(c, "reconciled")
  <2>1. /\ call' \in [Calls -> CallRows] /\ OthersKept(c)
        /\ call'[c] = [call[c] EXCEPT !.pc = "reconciled"]
    BY <1>2, <1>3, GotoTyped DEF Places
  <2>2. /\ call'[c].pc = "reconciled" /\ call'[c].held = call[c].held
        /\ call'[c].scanned = call[c].scanned
    BY <1>2, <2>1 DEF CallRows
  <2>3. Genuine(call'[c].held)
    BY <1>2, <2>2
  <2>4. QED
    BY <1>1, <2>1, <2>2, <2>3, QuietRow
<1>4. CASE Return(c)
  BY <1>1, <1>4, QuietReturn
<1>5. QED
  BY <1>3, <1>4 DEF CheckExceptions

LEMMA ReconcilePurchaseOrderSound ==
  ASSUME IInv, NEW c \in Calls, ReconcilePurchaseOrder(c)
  PROVE  Sound(c)
<1> DEFINE row == [call[c].held EXCEPT !.status = "CLOSED"]
<1>1. /\ call[c].pc = "reconciled" /\ authorized' = authorized /\ supplier' = supplier
      /\ po' = [call[c].held EXCEPT !.status = "RECONCILED"]
      /\ Put(c, row) /\ UNCHANGED <<line, events, stock, exceptions, submission>>
  BY DEF ReconcilePurchaseOrder, At, submission
<1>2. TypeOK /\ call \in [Calls -> CallRows] /\ Genuine(call[c].held)
  BY <1>1, Here, HeldGenuine
<1>3. "RECONCILED" \in Statuses \ Submittable /\ "CLOSED" \in Statuses \ Submittable
  BY DEF Statuses, Submittable
<1>4. Genuine([call[c].held EXCEPT !.status = "RECONCILED"]) /\ Genuine(row)
  BY <1>2, <1>3, StatusGenuine
<1> HIDE DEF row
<1>5. row \in OrderRows /\ Genuine(po)'
  BY <1>1, <1>4 DEF Genuine
<1>6. /\ call' \in [Calls -> CallRows] /\ OthersKept(c)
      /\ call'[c].pc = "put" /\ call'[c].held = row /\ call'[c].scanned = call[c].scanned
  BY <1>1, <1>2, <1>5, PutTyped
<1>7. Genuine(call[c].held)'
  BY <1>1, <1>4, <1>6 DEF Genuine
<1>8. CallGood(c)'
  BY <1>6, <1>7, RowGood
<1>9. authorized' \in BOOLEAN
  BY <1>1, <1>2 DEF TypeOK
<1>10. QED
  BY <1>1, <1>5, <1>6, <1>8, <1>9, OrderPut

-----------------------------------------------------------------------------
(* The invariant.                                                          *)

\* A call that runs a step of its own, past the draft.
LEMMA StepSound ==
  ASSUME IInv, NEW c \in Calls, Step(c), ~ ValidatePurchaseOrder(c), ~ SettleExceptions(c)
  PROVE  Sound(c)
BY ApprovePurchaseOrderSound, ResolveApprovalSound, PutPurchaseOrderSound, ReserveKeySound,
   SupplierAcceptsSound, CompleteKeySound, SupplierTimesOutSound, SupplierRejectsSound,
   FindPurchaseOrderSound, ReadForRecoverySound, ReadSupplierSound, ResubmitSound,
   RefuseAckSound, InsertAckSound, ApplyAckLineSound, MarkAckSound, ConfirmOrderSound,
   RefuseShipmentSound, ListShipmentsSound, InsertShipmentSound, ListLinesSound, ShipLineSound,
   RefuseReceiptSound, ListForReceiptSound, InsertReceiptSound, ReceiveLineSound,
   StockLineSound, ReadForAdvanceSound, AdvanceStatusSound, CheckExceptionsSound,
   ReconcilePurchaseOrderSound
DEF Step

\* Nothing but the validation moves while the draft is validated.
LEMMA StepIsPastDraft ==
  ASSUME IInv, NEW c \in Calls, Step(c), ~ ValidatePurchaseOrder(c)
  PROVE  po # None /\ \A d \in Calls : call[d].pc # "validate"
<1>1. call[c].pc \notin {"idle", "validate"}
  BY DEF Step, At, ApprovePurchaseOrder, ResolveApproval, PutPurchaseOrder, ReserveKey,
     SupplierAccepts, CompleteKey, SupplierTimesOut, SupplierRejects, FindPurchaseOrder,
     ReadForRecovery, ReadSupplier, Resubmit, SettleExceptions, RefuseAck, InsertAck,
     ApplyAckLine, MarkAck, ConfirmOrder, RefuseShipment, ListShipments, InsertShipment,
     ListLines, ShipLine, RefuseReceipt, ListForReceipt, InsertReceipt, ReceiveLine, StockLine,
     ReadForAdvance, AdvanceStatus, CheckExceptions, ReconcilePurchaseOrder
<1>2. QED
  BY <1>1, PastDraft

LEMMA StepKeeps ==
  ASSUME IInv, NEW c \in Calls, Step(c)
  PROVE  IInv'
<1>1. CASE ValidatePurchaseOrder(c)
  BY <1>1, ValidatePurchaseOrderKeeps
<1>2. CASE SettleExceptions(c)
  BY <1>2, SettleExceptionsKeeps
<1>3. CASE ~ ValidatePurchaseOrder(c) /\ ~ SettleExceptions(c)
  <2>1. Sound(c) /\ po # None /\ \A d \in Calls : call[d].pc # "validate"
    BY <1>3, StepSound, StepIsPastDraft
  <2>2. QED
    BY <2>1, SoundSuffices
<1>4. QED
  BY <1>1, <1>2, <1>3

\* A draft that is being validated can be neither approved nor submitted nor closed,
\* and its supplier knows nothing of it.
LEMMA BeginIsPastDraft ==
  ASSUME IInv, NEW c \in Calls, Begin(c), ~ CreatePurchaseOrder(c)
  PROVE  po # None /\ \A d \in Calls : call[d].pc # "validate"
<1>1. /\ \/ po # None /\ po.status # "DRAFT"
         \/ supplier > 0
         \/ uncertain > 0
  BY DEF Begin, ReadForApproval, SubmitPurchaseOrder, RecoveryPass, ReadForClosing, DeliverAck,
     DeliverShipment, DeliverReceipt, Deliver, Submittable
<1>2. QED
  BY <1>1 DEF IInv, NothingElse

LEMMA BeginKeeps ==
  ASSUME IInv, NEW c \in Calls, At(c, "idle"), Begin(c)
  PROVE  IInv'
<1>1. CASE CreatePurchaseOrder(c)
  BY <1>1, CreatePurchaseOrderKeeps
<1>2. CASE RecoveryPass(c)
  BY <1>2, RecoveryPassKeeps
<1>3. CASE ~ CreatePurchaseOrder(c) /\ ~ RecoveryPass(c)
  <2>1. Sound(c)
    BY <1>3, ReadForApprovalSound, SubmitPurchaseOrderSound, ReadForClosingSound,
       DeliverAckSound, DeliverShipmentSound, DeliverReceiptSound DEF Begin
  <2>2. po # None /\ \A d \in Calls : call[d].pc # "validate"
    BY <1>3, BeginIsPastDraft
  <2>3. QED
    BY <2>1, <2>2, SoundSuffices
<1>4. QED
  BY <1>1, <1>2, <1>3

\* A death leaves every row as it is, and the draft unvalidated for ever.
LEMMA DieKeeps ==
  ASSUME IInv, NEW c \in Calls, Die(c)
  PROVE  IInv'
<1>1. Return(c) /\ Quiet /\ call[c].pc # "idle"
  BY DEF Die, At, Quiet
<1>2. Sound(c)
  BY <1>1, QuietReturn
<1>3. CASE call[c].pc # "validate"
  <2>1. po # None /\ \A d \in Calls : call[d].pc # "validate"
    BY <1>1, <1>3, PastDraft
  <2>2. QED
    BY <1>2, <2>1, SoundSuffices
<1>4. CASE call[c].pc = "validate"
  <2>1. po # None /\ \A d \in Calls \ {c} : call[d].pc = "idle"
    BY <1>1, <1>4 DEF IInv, NothingElse
  <2>2. TypeOK /\ call \in [Calls -> CallRows]
    BY Here
  <2>3. /\ call' \in [Calls -> CallRows] /\ OthersKept(c) /\ CallGood(c)'
        /\ call'[c].pc = "idle" /\ call'[c].scanned = 0
    BY <1>1, <2>2, ReturnTyped
  <2>4. po' = po /\ uncertain' = uncertain /\ uncertain \in Nat
    BY <1>1, <2>2 DEF Quiet, order, exceptions, TypeOK
  <2>5. TypeInv' /\ OrderGood'
    BY <1>2 DEF Sound
  <2>6. \A d \in Calls : CallGood(d)'
    BY <2>1, <2>3 DEF CallGood, OthersKept, SubmissionPlaces, EventPlaces, AckPlaces,
       ShipmentPlaces, ReceiptPlaces
  <2>7. ScanTrue'
    BY <2>3, <2>4 DEF ScanTrue, OthersKept, IInv
  <2>8. NothingElse'
    BY <2>1, <2>3, <2>4 DEF NothingElse, OthersKept
  <2>9. QED
    BY <2>5, <2>6, <2>7, <2>8 DEF IInv
<1>5. QED
  BY <1>3, <1>4

LEMMA StutterKeeps ==
  ASSUME IInv, UNCHANGED vars
  PROVE  IInv'
BY DEF vars, IInv, TypeInv, TypeOK, OrderGood, ScanTrue, NothingElse, CallGood, Genuine

LEMMA InitGood ==
  ASSUME Init
  PROVE  IInv
<1>1. TypeInv
  <2>1. line \in LineRows /\ stock \in [Lines -> [quantity : Nat, inbound : Nat]]
    BY DEF Init, LineRows
  <2>2. /\ ack \in [Acks -> {None, "recorded", "applied"}]
        /\ shipment \in [Shipments -> {None, "stale", "applied"}]
        /\ receipt = {} /\ open = {} /\ uncertain = 0 /\ attempts = 0 /\ supplier = 0
        /\ submitKey = "free" /\ authorized = FALSE /\ po = None
    BY DEF Init
  <2>3. call \in [Calls -> CallRows] /\ \A c \in Calls : call[c].held \in OrderRows \cup {None}
    <3>1. call = [c \in Calls |-> Idle] /\ Idle.held = None
      BY DEF Init, Idle
    <3>2. QED
      BY <3>1, IdleTyped
  <2>4. TypeOK
    <3>1. /\ receipt \subseteq Receipts /\ open \subseteq {"approval", "review"}
          /\ uncertain \in Nat /\ supplier \in Nat /\ authorized \in BOOLEAN
          /\ submitKey \in {"free", "reserved", "completed"} /\ po \in OrderRows \cup {None}
      BY <2>2
    <3>2. attempts \in 0..MaxAttempts
      BY <2>2, ConstantsTyped
    <3>3. QED
      BY <2>1, <2>2, <2>3, <3>1, <3>2, Zenon DEF TypeOK
  <2>5. QED
    BY <2>3, <2>4 DEF TypeInv
<1>2. OrderGood
  BY DEF Init, OrderGood
<1>3. \A c \in Calls : call[c] = Idle /\ Idle.pc = "idle" /\ Idle.scanned = 0
  BY DEF Init, Idle
<1>4. ScanTrue /\ NothingElse
  BY <1>3 DEF Init, ScanTrue, NothingElse
<1>5. \A c \in Calls : CallGood(c)
  BY <1>3 DEF CallGood, SubmissionPlaces, EventPlaces, AckPlaces, ShipmentPlaces, ReceiptPlaces
<1>6. QED
  BY <1>1, <1>2, <1>4, <1>5 DEF IInv

\* The invariant holds for every order and every set of threads, without bounds on
\* what is delivered, retried or lost.
THEOREM ProcurementInvariant == Spec => []IInv
<1>1. Init => IInv
  BY InitGood
<1>2. IInv /\ [Next]_vars => IInv'
  <2> SUFFICES ASSUME IInv, [Next]_vars
               PROVE  IInv'
    OBVIOUS
  <2>1. ASSUME NEW c \in Calls, Taken(c) /\ Begin(c)
        PROVE  IInv'
    BY <2>1, BeginKeeps DEF Taken
  <2>2. ASSUME NEW c \in Calls, Step(c)
        PROVE  IInv'
    BY <2>2, StepKeeps
  <2>3. ASSUME NEW c \in Calls, Die(c)
        PROVE  IInv'
    BY <2>3, DieKeeps
  <2>4. CASE UNCHANGED vars
    BY <2>4, StutterKeeps
  <2>5. QED
    BY <2>1, <2>2, <2>3, <2>4 DEF Next
<1>3. QED
  BY <1>1, <1>2, PTL DEF Spec

\* A lost answer, a retry and the worker never make a second order at the supplier,
\* and an order with an external reference exists there (submit_purchase_order,
\* _recover_uncertain_po_submissions); the rows keep their types.
THEOREM OneOrderAtTheSupplier == Spec => []OneExternalOrder
<1>1. IInv => OneExternalOrder
  BY DEF IInv, TypeInv, OrderGood, Genuine, OneExternalOrder
<1>2. QED
  BY <1>1, ProcurementInvariant, PTL

\* Nothing is ordered that neither the policy allowed nor a person approved,
\* whatever row the submission read before (evaluate_po_authority,
\* approve_purchase_order).
THEOREM OrdersWereAuthorized == Spec => []SubmittedWasAuthorized
<1>1. IInv => SubmittedWasAuthorized
  BY DEF IInv, OrderGood, SubmittedWasAuthorized
<1>2. QED
  BY <1>1, ProcurementInvariant, PTL

-----------------------------------------------------------------------------
(* What was confirmed and received: counted in units of the events.        *)

Confirming == {"apply"}
Stocking == {"receive", "stock"}
Counting == Confirming \cup Stocking \cup {"insert_ack", "ship", "insert_receipt"}

\* The units that calls at some place have still to go through.
LeftOf(c, P, l) ==
  IF call[c].pc \in P THEN {call[c].event} \X UnitsOf(About(call[c].todo, l)) ELSE {}
Left(P, l) == UNION {LeftOf(c, P, l) : c \in Calls}

Confirmed(l) == Units(Recorded, l) \ Left(Confirming, l)
Stocked(l) == Units(receipt, l) \ Left(Stocking, l)

OneEach(P) ==
  \A c, d \in Calls :
    call[c].pc \in P /\ call[d].pc \in P /\ call[c].event = call[d].event => c = d

CallCounted(c) ==
  /\ call[c].pc = "insert_ack" => call[c].event \in Acks
  /\ call[c].pc \in Confirming => call[c].event \in Recorded
  /\ call[c].pc \in Stocking => call[c].event \in receipt
  /\ call[c].pc \in Confirming \cup Stocking \cup {"insert_receipt"} =>
       call[c].todo \subseteq Contents[call[c].event]
  /\ call[c].pc = "stock" => Resolves(This(c).to)
  /\ call[c].pc \in {"ship", "insert_receipt"} \cup Stocking =>
       \A l \in Lines : call[c].lines[l].confirmed <= Cardinality(Confirmed(l))

LineCounted(l) ==
  /\ line[l].confirmed <= Cardinality(Confirmed(l))
  /\ stock[l].quantity <= Cardinality(Stocked(l))

CInv ==
  /\ IsFiniteSet(Recorded) /\ IsFiniteSet(receipt)
  /\ OneEach(Confirming) /\ OneEach(Stocking)
  /\ \A c \in Calls : CallCounted(c)
  /\ \A l \in Lines : LineCounted(l)

\* Lines are put back as they were read, so the count is also of the rows that calls
\* hold; what has been counted is never taken back.
LEMMA ContentsFinite ==
  \A e \in Events : IsFiniteSet(Contents[e]) /\ Contents[e] \subseteq EventLines
BY ProcurementAssumption DEF ProcurementAssumption

LEMMA UnionFinite ==
  ASSUME NEW es, IsFiniteSet(es), NEW units, DOMAIN units = es,
         units = [e \in es |-> units[e]], \A e \in es : IsFiniteSet(units[e])
  PROVE  IsFiniteSet(UNION {units[e] : e \in es})
<1>1. units \in Surjection(es, {units[e] : e \in es})
  BY DEF Surjection
<1>2. IsFiniteSet({units[e] : e \in es})
  BY <1>1, FS_Surjection
<1>3. \A T \in {units[e] : e \in es} : IsFiniteSet(T)
  OBVIOUS
<1> QED BY <1>2, <1>3, FS_UNION

LEMMA UnitsOfFinite ==
  ASSUME NEW xs \in SUBSET EventLines, IsFiniteSet(xs)
  PROVE  IsFiniteSet(UnitsOf(xs))
<1>1. ASSUME NEW x \in xs PROVE IsFiniteSet({x} \X (1..x.quantity))
  <2>1. x.quantity \in Int /\ 1 \in Int
    BY DEF EventLines
  <2>2. IsFiniteSet(1..x.quantity)
    BY <2>1, FS_Interval
  <2>3. IsFiniteSet({x})
    BY FS_Singleton
  <2> QED BY <2>2, <2>3, FS_Product
<1> DEFINE units == [x \in xs |-> {x} \X (1..x.quantity)]
<1>2. /\ DOMAIN units = xs /\ units = [x \in xs |-> units[x]]
      /\ \A x \in xs : IsFiniteSet(units[x])
  BY <1>1
<1>3. UnitsOf(xs) = UNION {units[x] : x \in xs}
  BY DEF UnitsOf
<1> HIDE DEF units
<1> QED BY <1>2, <1>3, UnionFinite

LEMMA UnitsFinite ==
  ASSUME NEW es \in SUBSET Events, IsFiniteSet(es), NEW l
  PROVE  IsFiniteSet(Units(es, l)) /\ Cardinality(Units(es, l)) \in Nat
<1>1. ASSUME NEW e \in es PROVE IsFiniteSet({e} \X UnitsOf(About(Contents[e], l)))
  <2>1. PICK xs : xs = About(Contents[e], l)
    OBVIOUS
  <2>2. xs \subseteq Contents[e]
    BY <2>1 DEF About
  <2>3. IsFiniteSet(Contents[e]) /\ Contents[e] \subseteq EventLines
    BY ContentsFinite
  <2>4. IsFiniteSet(xs)
    BY <2>2, <2>3, FS_Subset
  <2>5. IsFiniteSet(UnitsOf(xs)) /\ IsFiniteSet({e})
    BY <2>2, <2>3, <2>4, UnitsOfFinite, FS_Singleton
  <2> QED BY <2>1, <2>5, FS_Product
<1> DEFINE units == [e \in es |-> {e} \X UnitsOf(About(Contents[e], l))]
<1>2. /\ DOMAIN units = es /\ units = [e \in es |-> units[e]]
      /\ \A e \in es : IsFiniteSet(units[e])
  BY <1>1
<1>3. Units(es, l) = UNION {units[e] : e \in es}
  BY DEF Units
<1> HIDE DEF units
<1> QED BY <1>2, <1>3, UnionFinite, FS_CardinalityType

\* More events, and less to go through: no less was counted.
LEMMA CountGrows ==
  ASSUME NEW es, NEW fs \in SUBSET Events, es \subseteq fs, IsFiniteSet(fs), NEW l,
         NEW L, NEW M, M \cap Units(es, l) \subseteq L
  PROVE  /\ Cardinality(Units(es, l) \ L) <= Cardinality(Units(fs, l) \ M)
         /\ Cardinality(Units(es, l) \ L) \in Nat /\ Cardinality(Units(fs, l) \ M) \in Nat
<1>1. Units(es, l) \subseteq Units(fs, l)
  BY DEF Units
<1>2. Units(es, l) \ L \subseteq Units(fs, l) \ M /\ Units(fs, l) \ M \subseteq Units(fs, l)
  BY <1>1
<1>3. IsFiniteSet(Units(fs, l) \ M)
  BY <1>2, UnitsFinite, FS_Subset
<1> QED BY <1>2, <1>3, FS_Subset, FS_CardinalityType

\* The units of an event line are as many as its quantity.
LEMMA UnitsOfOne ==
  ASSUME NEW e, NEW x \in EventLines, NEW B, B = {e} \X ({x} \X (1..x.quantity))
  PROVE  IsFiniteSet(B) /\ Cardinality(B) = x.quantity /\ x.quantity \in Nat
<1>1. x.quantity \in Nat
  BY DEF EventLines
<1>2. IsFiniteSet({x}) /\ IsFiniteSet({e}) /\ Cardinality({x}) = 1 /\ Cardinality({e}) = 1
  BY FS_Singleton
<1>3. IsFiniteSet(1..x.quantity) /\ Cardinality(1..x.quantity) = x.quantity
  <2>1. x.quantity \in Int /\ 1 \in Int
    BY <1>1
  <2>2. /\ IsFiniteSet(1..x.quantity)
        /\ Cardinality(1..x.quantity) = IF 1 > x.quantity THEN 0 ELSE x.quantity - 1 + 1
    BY <2>1, FS_Interval
  <2> QED BY <1>1, <2>2
<1>4. \A n \in Nat : 1 * n = n
  OBVIOUS
<1>5. /\ IsFiniteSet({x} \X (1..x.quantity))
      /\ Cardinality({x} \X (1..x.quantity)) = x.quantity
  <2>1. /\ IsFiniteSet({x} \X (1..x.quantity))
        /\ Cardinality({x} \X (1..x.quantity)) = Cardinality({x}) * Cardinality(1..x.quantity)
    BY <1>2, <1>3, FS_Product
  <2> QED BY <1>1, <1>2, <1>3, <1>4, <2>1, Zenon
<1>6. /\ IsFiniteSet(B)
      /\ Cardinality(B) = Cardinality({e}) * Cardinality({x} \X (1..x.quantity))
  BY <1>2, <1>5, FS_Product
<1> QED BY <1>1, <1>2, <1>4, <1>5, <1>6, Zenon

\* What is no longer left counts.
LEMMA CountGains ==
  ASSUME NEW U, IsFiniteSet(U), NEW L, NEW M, M \subseteq L, NEW B,
         B \subseteq L, B \subseteq U, M \cap B = {}
  PROVE  /\ Cardinality(U \ L) + Cardinality(B) <= Cardinality(U \ M)
         /\ Cardinality(U \ L) \in Nat /\ Cardinality(U \ M) \in Nat
<1>1. PICK A, C : A = U \ L /\ C = U \ M
  OBVIOUS
<1>2. A \cup B \subseteq C /\ A \cap B = {}
  BY <1>1
<1>3. IsFiniteSet(A) /\ IsFiniteSet(C) /\ IsFiniteSet(B)
  <2>1. A \subseteq U /\ C \subseteq U
    BY <1>1
  <2> QED BY <2>1, FS_Subset
<1>4. Cardinality(A \cup B) = Cardinality(A) + Cardinality(B)
  <2>1. Cardinality(A \cup B) = Cardinality(A) + Cardinality(B) - Cardinality(A \cap B)
    BY <1>3, FS_Union
  <2>2. Cardinality(A \cap B) = 0
    BY <1>2, FS_EmptySet
  <2>3. Cardinality(A) \in Nat /\ Cardinality(B) \in Nat
    BY <1>3, FS_CardinalityType
  <2> QED BY <2>1, <2>2, <2>3
<1>5. Cardinality(A \cup B) <= Cardinality(C)
  BY <1>2, <1>3, FS_Subset
<1>6. Cardinality(A) \in Nat /\ Cardinality(C) \in Nat
  BY <1>3, FS_CardinalityType
<1> QED BY <1>1, <1>4, <1>5, <1>6

\* A call of its own takes nothing back, or goes through an event that was not there.
LEMMA LeftKept ==
  ASSUME NEW c \in Calls, OthersKept(c), NEW P, NEW es, NEW l,
         call'[c].pc \in P =>
           \/ call'[c].event \notin es
           \/ /\ call[c].pc \in P /\ call'[c].event = call[c].event
              /\ call'[c].todo \subseteq call[c].todo
  PROVE  Left(P, l)' \cap Units(es, l) \subseteq Left(P, l)
<1>1. SUFFICES ASSUME NEW u \in Left(P, l)', u \in Units(es, l)
               PROVE  u \in Left(P, l)
  OBVIOUS
<1>2. PICK d \in Calls : u \in LeftOf(d, P, l)'
  BY <1>1 DEF Left
<1>3. PICK e \in es : u \in {e} \X UnitsOf(About(Contents[e], l))
  BY <1>1 DEF Units
<1>4. u[1] = e
  BY <1>3
<1>5. CASE d # c
  <2>1. call'[d] = call[d]
    BY <1>5 DEF OthersKept
  <2>2. LeftOf(d, P, l)' = LeftOf(d, P, l)
    BY <2>1 DEF LeftOf
  <2> QED BY <1>2, <2>2 DEF Left
<1>6. CASE d = c
  <2>1. call'[c].pc \in P /\ u \in {call'[c].event} \X UnitsOf(About(call'[c].todo, l))
    BY <1>2, <1>6 DEF LeftOf
  <2>2. call'[c].event \in es
    BY <1>4, <2>1
  <2>3. /\ call[c].pc \in P /\ call'[c].event = call[c].event
        /\ call'[c].todo \subseteq call[c].todo
    BY <2>1, <2>2
  <2>4. UnitsOf(About(call'[c].todo, l)) \subseteq UnitsOf(About(call[c].todo, l))
    BY <2>3 DEF UnitsOf, About
  <2>5. u \in LeftOf(c, P, l)
    BY <2>1, <2>3, <2>4 DEF LeftOf
  <2> QED BY <2>5 DEF Left
<1> QED BY <1>5, <1>6

\* What every step shows of the units: none is taken back, and a call that starts to
\* go through an event was the first to record it.
Growing(c) ==
  /\ OthersKept(c)
  /\ Recorded \subseteq Recorded' /\ IsFiniteSet(Recorded')
  /\ receipt \subseteq receipt' /\ IsFiniteSet(receipt')
  /\ call'[c].pc \in Confirming =>
       \/ call'[c].event \notin Recorded
       \/ /\ call[c].pc \in Confirming /\ call'[c].event = call[c].event
          /\ call'[c].todo \subseteq call[c].todo
  /\ call'[c].pc \in Stocking =>
       \/ call'[c].event \notin receipt
       \/ /\ call[c].pc \in Stocking /\ call'[c].event = call[c].event
          /\ call'[c].todo \subseteq call[c].todo

LEMMA CountsGrow ==
  ASSUME IInv', NEW c \in Calls, Growing(c), NEW l
  PROVE  /\ Cardinality(Confirmed(l)) <= Cardinality(Confirmed(l))'
         /\ Cardinality(Confirmed(l)) \in Nat /\ Cardinality(Confirmed(l))' \in Nat
         /\ Cardinality(Stocked(l)) <= Cardinality(Stocked(l))'
         /\ Cardinality(Stocked(l)) \in Nat /\ Cardinality(Stocked(l))' \in Nat
<1>1. PICK es, fs, L, M : /\ es = Recorded /\ fs = Recorded'
                          /\ L = Left(Confirming, l) /\ M = Left(Confirming, l)'
  OBVIOUS
<1>2. PICK gs, hs, N, O : /\ gs = receipt /\ hs = receipt'
                          /\ N = Left(Stocking, l) /\ O = Left(Stocking, l)'
  OBVIOUS
<1>3. OthersKept(c)
  BY DEF Growing
<1>4. es \subseteq fs /\ IsFiniteSet(fs) /\ fs \in SUBSET Events
  BY <1>1 DEF Growing, Recorded, Events
<1>5. M \cap Units(es, l) \subseteq L
  <2>1. call'[c].pc \in Confirming =>
          \/ call'[c].event \notin es
          \/ /\ call[c].pc \in Confirming /\ call'[c].event = call[c].event
             /\ call'[c].todo \subseteq call[c].todo
    BY <1>1 DEF Growing
  <2> QED BY <1>1, <1>3, <2>1, LeftKept
<1>6. gs \subseteq hs /\ IsFiniteSet(hs) /\ hs \in SUBSET Events
  <2>1. receipt' \subseteq Receipts
    BY DEF IInv, TypeInv, TypeOK
  <2> QED BY <1>2, <2>1 DEF Growing, Events
<1>7. O \cap Units(gs, l) \subseteq N
  <2>1. call'[c].pc \in Stocking =>
          \/ call'[c].event \notin gs
          \/ /\ call[c].pc \in Stocking /\ call'[c].event = call[c].event
             /\ call'[c].todo \subseteq call[c].todo
    BY <1>2 DEF Growing
  <2> QED BY <1>2, <1>3, <2>1, LeftKept
<1>8. /\ Cardinality(Units(es, l) \ L) <= Cardinality(Units(fs, l) \ M)
      /\ Cardinality(Units(es, l) \ L) \in Nat /\ Cardinality(Units(fs, l) \ M) \in Nat
  BY <1>4, <1>5, CountGrows
<1>9. /\ Cardinality(Units(gs, l) \ N) <= Cardinality(Units(hs, l) \ O)
      /\ Cardinality(Units(gs, l) \ N) \in Nat /\ Cardinality(Units(hs, l) \ O) \in Nat
  BY <1>6, <1>7, CountGrows
<1>10. /\ Confirmed(l) = Units(es, l) \ L /\ Confirmed(l)' = Units(fs, l) \ M
       /\ Stocked(l) = Units(gs, l) \ N /\ Stocked(l)' = Units(hs, l) \ O
  BY <1>1, <1>2 DEF Confirmed, Stocked, Units
<1> QED BY <1>8, <1>9, <1>10

\* The rows another call holds stay counted.
LEMMA OtherCounted ==
  ASSUME IInv, IInv', CInv, NEW c \in Calls, Growing(c), NEW d \in Calls \ {c}
  PROVE  CallCounted(d)'
<1>1. call'[d] = call[d]
  BY DEF Growing, OthersKept
<1>2. CallCounted(d)
  BY DEF CInv
<1>3. call[d].pc = "stock" => Resolves(This(d).to)'
  BY <1>1, <1>2 DEF CallCounted, This
<1>4. ASSUME NEW l \in Lines, call[d].pc \in {"ship", "insert_receipt"} \cup Stocking
      PROVE  call[d].lines[l].confirmed <= Cardinality(Confirmed(l))'
  <2>1. call[d].lines[l].confirmed <= Cardinality(Confirmed(l))
    BY <1>2, <1>4 DEF CallCounted
  <2>2. call[d].lines \in LineRows
    BY <1>4 DEF IInv, CallGood, Stocking
  <2>3. call[d].lines[l].confirmed \in Nat
    BY <2>2 DEF LineRows
  <2> QED BY <2>1, <2>3, CountsGrow
<1> QED BY <1>1, <1>2, <1>3, <1>4 DEF CallCounted, Growing

LEMMA OneEachKept ==
  ASSUME CInv, NEW c \in Calls, Growing(c)
  PROVE  OneEach(Confirming)' /\ OneEach(Stocking)'
<1>1. /\ \A d \in Calls : call[d].pc \in Confirming => call[d].event \in Recorded
      /\ \A d \in Calls : call[d].pc \in Stocking => call[d].event \in receipt
      /\ OneEach(Confirming) /\ OneEach(Stocking)
  BY DEF CInv, CallCounted
<1>2. \A d \in Calls \ {c} : call'[d] = call[d]
  BY DEF Growing, OthersKept
<1>3. OneEach(Confirming)'
  BY <1>1, <1>2 DEF OneEach, Growing
<1>4. OneEach(Stocking)'
  BY <1>1, <1>2 DEF OneEach, Growing
<1> QED BY <1>3, <1>4

LEMMA CountedSuffices ==
  ASSUME IInv, IInv', CInv, NEW c \in Calls, Growing(c), CallCounted(c)',
         \A l \in Lines : LineCounted(l)'
  PROVE  CInv'
<1>1. \A d \in Calls : CallCounted(d)'
  BY OtherCounted
<1>2. IsFiniteSet(Recorded)' /\ IsFiniteSet(receipt)'
  BY DEF Growing
<1> QED BY <1>1, <1>2, OneEachKept DEF CInv

\* A step that puts no line and no stock.
LEMMA LinesKept ==
  ASSUME IInv, IInv', CInv, NEW c \in Calls, Growing(c), CallCounted(c)', UNCHANGED <<line, stock>>
  PROVE  CInv'
<1>1. ASSUME NEW l \in Lines PROVE LineCounted(l)'
  <2>1. LineCounted(l)
    BY DEF CInv
  <2>2. line[l].confirmed \in Nat /\ stock[l].quantity \in Nat
    BY DEF IInv, TypeInv, TypeOK, LineRows
  <2> QED BY <2>1, <2>2, CountsGrow DEF LineCounted
<1> QED BY <1>1, CountedSuffices

\* A step that leaves the counts, of a call that goes through no event.
LEMMA AsideCounted ==
  ASSUME IInv, IInv', CInv, NEW c \in Calls, OthersKept(c), call'[c].pc \notin Counting,
         UNCHANGED <<line, ack, receipt, stock>>
  PROVE  CInv'
<1>1. Recorded' = Recorded
  BY DEF Recorded
<1>2. Growing(c)
  BY <1>1 DEF Growing, CInv, Counting
<1>3. CallCounted(c)'
  BY DEF CallCounted, Counting, Confirming, Stocking
<1> QED BY <1>2, <1>3, LinesKept

-----------------------------------------------------------------------------
(* Steps of calls that go through no event.                                *)

Away(c) == OthersKept(c) /\ call'[c].pc \notin Counting
Still == UNCHANGED <<line, ack, receipt, stock>>

LEMMA AwayRow ==
  ASSUME IInv, NEW c \in Calls, NEW r, call' = [call EXCEPT ![c] = r], r.pc \notin Counting
  PROVE  Away(c)
BY DEF IInv, TypeInv, Away, OthersKept

LEMMA AwayReturn ==
  ASSUME IInv, NEW c \in Calls, Return(c)
  PROVE  Away(c)
<1>1. Idle.pc \notin Counting
  BY DEF Idle, Counting, Confirming, Stocking
<1> QED BY <1>1, AwayRow DEF Return

LEMMA AwayGoto ==
  ASSUME IInv, NEW c \in Calls, NEW pc, pc \notin Counting, Goto(c, pc)
  PROVE  Away(c)
<1>1. call \in [Calls -> CallRows] /\ call[c] \in CallRows
  BY Here
<1>2. PICK r : r = [call[c] EXCEPT !.pc = pc]
  OBVIOUS
<1>3. call' = [call EXCEPT ![c] = r] /\ r.pc = pc
  BY <1>1, <1>2 DEF Goto, CallRows
<1> QED BY <1>3, AwayRow

LEMMA AwayPut ==
  ASSUME IInv, NEW c \in Calls, NEW row, Put(c, row)
  PROVE  Away(c)
<1>1. call \in [Calls -> CallRows] /\ call[c] \in CallRows
  BY Here
<1>2. PICK r : r = [call[c] EXCEPT !.pc = "put", !.held = row]
  OBVIOUS
<1>3. call' = [call EXCEPT ![c] = r] /\ r.pc = "put"
  BY <1>1, <1>2 DEF Put, CallRows
<1>4. r.pc \notin Counting
  BY <1>3 DEF Counting, Confirming, Stocking
<1> QED BY <1>3, <1>4, AwayRow

LEMMA AwayHolding ==
  ASSUME IInv, NEW c \in Calls, NEW pc, pc \notin Counting, NEW row,
         call' = [call EXCEPT ![c].pc = pc, ![c].held = row]
  PROVE  Away(c)
<1>1. call \in [Calls -> CallRows] /\ call[c] \in CallRows
  BY Here
<1>2. PICK r : r = [call[c] EXCEPT !.pc = pc, !.held = row]
  OBVIOUS
<1>3. call' = [call EXCEPT ![c] = r] /\ r.pc = pc
  BY <1>1, <1>2 DEF CallRows
<1> QED BY <1>3, AwayRow

LEMMA AwayPlaces ==
  {"idle", "validate", "approve", "approved", "put", "recover", "read_supplier", "resubmit",
   "settle", "reconcile", "reconciled", "reserve", "create", "complete", "find", "confirm",
   "refuse_ack", "mark", "list_shipments", "refuse_shipment", "insert_shipment", "list_lines",
   "list_for_receipt", "refuse_receipt", "advance", "advance_lines"} \cap Counting = {}
BY DEF Counting, Confirming, Stocking

LEMMA AwayUnsubmitted ==
  ASSUME IInv, NEW c \in Calls, Unsubmitted(c)
  PROVE  Away(c)
BY AwayReturn, AwayGoto, AwayPlaces DEF Unsubmitted

LEMMA AwaySubmitted ==
  ASSUME IInv, NEW c \in Calls, Submitted(c)
  PROVE  Away(c)
BY AwayPut DEF Submitted

LEMMA AwayInbound ==
  ASSUME IInv, NEW c \in Calls, call' = Inbound(c)
  PROVE  Away(c)
<1>1. CASE call' = [call EXCEPT ![c] = Idle]
  BY <1>1, AwayReturn DEF Return
<1>2. CASE call' = [call EXCEPT ![c].pc = "put", ![c].held.status = "INBOUND"]
  <2>1. call \in [Calls -> CallRows] /\ call[c] \in CallRows
    BY Here
  <2>2. PICK r : r = [call[c] EXCEPT !.pc = "put", !.held.status = "INBOUND"]
    OBVIOUS
  <2>3. call' = [call EXCEPT ![c] = r] /\ r.pc = "put"
    BY <1>2, <2>1, <2>2 DEF CallRows
  <2> QED BY <2>3, AwayRow, AwayPlaces
<1> QED BY <1>1, <1>2 DEF Inbound

\* Draft, approval, submission, recovery, closing, and the ends of the events.
LEMMA OrderStepsCounted ==
  ASSUME IInv, IInv', CInv, NEW c \in Calls,
         \/ ValidatePurchaseOrder(c) \/ ApprovePurchaseOrder(c) \/ ResolveApproval(c)
         \/ PutPurchaseOrder(c)
         \/ ReserveKey(c) \/ SupplierAccepts(c) \/ CompleteKey(c)
         \/ SupplierTimesOut(c) \/ SupplierRejects(c) \/ FindPurchaseOrder(c)
         \/ ReadForRecovery(c) \/ ReadSupplier(c) \/ Resubmit(c) \/ SettleExceptions(c)
         \/ ConfirmOrder(c) \/ RefuseShipment(c) \/ ListShipments(c) \/ InsertShipment(c)
         \/ ReadForAdvance(c) \/ AdvanceStatus(c) \/ CheckExceptions(c)
         \/ ReconcilePurchaseOrder(c) \/ Die(c)
  PROVE  CInv'
<1>1. CASE ValidatePurchaseOrder(c) \/ ResolveApproval(c) \/ SettleExceptions(c)
             \/ RefuseShipment(c) \/ Die(c)
  <2>1. Return(c) /\ Still
    BY <1>1 DEF ValidatePurchaseOrder, ResolveApproval, SettleExceptions, RefuseShipment, Die,
                events, Still
  <2> QED BY <2>1, AwayReturn, AsideCounted DEF Away, Still
<1>2. CASE ApprovePurchaseOrder(c) \/ SupplierAccepts(c) \/ SupplierTimesOut(c)
  <2>1. (Goto(c, "approved") \/ Goto(c, "complete") \/ Goto(c, "find")) /\ Still
    BY <1>2 DEF ApprovePurchaseOrder, SupplierAccepts, SupplierTimesOut, events, Still
  <2>2. Away(c)
    BY <2>1, AwayGoto, AwayPlaces
  <2> QED BY <2>1, <2>2, AsideCounted DEF Away, Still
<1>3. CASE PutPurchaseOrder(c) \/ SupplierRejects(c)
  <2>1. Unsubmitted(c) /\ Still
    BY <1>3 DEF PutPurchaseOrder, SupplierRejects, Unsubmitted, events, Still
  <2> QED BY <2>1, AwayUnsubmitted, AsideCounted DEF Away, Still
<1>4. CASE ReserveKey(c) \/ CompleteKey(c) \/ FindPurchaseOrder(c) \/ ReadSupplier(c)
  <2>1. /\ \/ Submitted(c) \/ Unsubmitted(c) \/ Return(c)
           \/ Goto(c, "create") \/ Goto(c, "resubmit")
        /\ Still
    BY <1>4 DEF ReserveKey, CompleteKey, FindPurchaseOrder, ReadSupplier, events, Still
  <2>2. Away(c)
    BY <2>1, AwaySubmitted, AwayUnsubmitted, AwayReturn, AwayGoto, AwayPlaces
  <2> QED BY <2>1, <2>2, AsideCounted DEF Away, Still
<1>5. CASE ReadForRecovery(c) \/ Resubmit(c) \/ ReadForAdvance(c)
  <2>1. /\ \/ Return(c) \/ Goto(c, "settle")
           \/ call' = [call EXCEPT ![c].pc = "read_supplier", ![c].held = po]
           \/ call' = [call EXCEPT ![c].pc = "reserve", ![c].held = po]
           \/ call' = [call EXCEPT ![c].pc = "advance_lines", ![c].held = po]
        /\ Still
    BY <1>5 DEF ReadForRecovery, Resubmit, ReadForAdvance, events, Still
  <2>2. Away(c)
    BY <2>1, AwayReturn, AwayGoto, AwayHolding, AwayPlaces
  <2> QED BY <2>1, <2>2, AsideCounted DEF Away, Still
<1>6. CASE ConfirmOrder(c) \/ AdvanceStatus(c) \/ ReconcilePurchaseOrder(c)
  <2>1. (\E row : Put(c, row)) /\ Still
    BY <1>6 DEF ConfirmOrder, AdvanceStatus, ReconcilePurchaseOrder, events, Still
  <2>2. Away(c)
    BY <2>1, AwayPut
  <2> QED BY <2>1, <2>2, AsideCounted DEF Away, Still
<1>7. CASE InsertShipment(c) \/ CheckExceptions(c)
  <2>1. (Return(c) \/ Goto(c, "list_lines") \/ Goto(c, "reconciled")) /\ Still
    BY <1>7 DEF InsertShipment, CheckExceptions, events, Still
  <2>2. Away(c)
    BY <2>1, AwayReturn, AwayGoto, AwayPlaces
  <2> QED BY <2>1, <2>2, AsideCounted DEF Away, Still
<1>8. CASE ListShipments(c)
  <2>1. call \in [Calls -> CallRows] /\ call[c] \in CallRows
    BY Here
  <2>2. PICK flag : flag = \A s \in Shipments :
                             shipment[s] = "applied" => Sequence[call[c].event] > Sequence[s]
    OBVIOUS
  <2>3. PICK r : r = [call[c] EXCEPT !.pc = "insert_shipment", !.flag = flag]
    OBVIOUS
  <2>4. call' = [call EXCEPT ![c] = r] /\ r.pc = "insert_shipment" /\ Still
    BY <1>8, <2>1, <2>2, <2>3 DEF ListShipments, CallRows, events, Still
  <2> QED BY <2>4, AwayRow, AwayPlaces, AsideCounted DEF Away, Still
<1> QED BY <1>1, <1>2, <1>3, <1>4, <1>5, <1>6, <1>7, <1>8

\* The beginnings, of which only an acknowledgement's goes to a place that counts.
LEMMA BeginningsCounted ==
  ASSUME IInv, IInv', CInv, NEW c \in Calls, At(c, "idle"), Begin(c)
  PROVE  CInv'
<1>1. /\ Still
      /\ \/ call' = call
         \/ \E r : call' = [call EXCEPT ![c] = r]
                   /\ \/ r.pc \in {"validate", "approve", "reserve", "recover", "reconcile",
                                   "list_shipments", "refuse_shipment", "list_for_receipt",
                                   "refuse_receipt", "refuse_ack"}
                      \/ r.pc = "insert_ack" /\ r.event \in Acks
  <2>1. ASSUME NEW e, NEW valid, NEW pc, NEW refused, Deliver(c, e, valid, pc, refused)
        PROVE  Still /\ \E r : call' = [call EXCEPT ![c] = r] /\ r.pc \in {pc, refused} /\ r.event = e
    <3>1. PICK r : r = [Idle EXCEPT !.held = po, !.event = e,
                                    !.pc = IF po.status \in valid THEN pc ELSE refused]
      OBVIOUS
    <3>2. r.pc \in {pc, refused} /\ r.event = e
      BY <3>1 DEF Idle
    <3> QED BY <2>1, <3>1, <3>2 DEF Deliver, Start, events, Still
  <2>7. PICK v, approve, submit, p, x :
            /\ v = [Idle EXCEPT !.pc = "validate"]
            /\ approve = [Idle EXCEPT !.pc = "approve", !.held = po]
            /\ submit = [Idle EXCEPT !.pc = "reserve", !.held = po]
            /\ p = [Idle EXCEPT !.pc = "recover", !.scanned = uncertain]
            /\ x = [Idle EXCEPT !.pc = "reconcile", !.held = po]
    OBVIOUS
  <2>8. /\ v.pc = "validate" /\ approve.pc = "approve" /\ submit.pc = "reserve"
        /\ p.pc = "recover" /\ x.pc = "reconcile"
    BY <2>7 DEF Idle
  <2>2. CASE CreatePurchaseOrder(c)
    <3>1. Still /\ (call' = call \/ call' = [call EXCEPT ![c] = v])
      BY <2>7, <2>2 DEF CreatePurchaseOrder, Start, events, Still
    <3> QED BY <2>8, <3>1
  <2>3. CASE ReadForApproval(c) \/ SubmitPurchaseOrder(c) \/ RecoveryPass(c) \/ ReadForClosing(c)
    <3>1. \E r \in {approve, submit, p, x} : call' = [call EXCEPT ![c] = r]
      BY <2>7, <2>3 DEF ReadForApproval, SubmitPurchaseOrder, RecoveryPass, ReadForClosing, Start
    <3>2. Still
      BY <2>3 DEF ReadForApproval, SubmitPurchaseOrder, RecoveryPass, ReadForClosing, events, Still
    <3> QED BY <2>8, <3>1, <3>2
  <2>4. CASE \E a \in Acks : DeliverAck(c, a)
    BY <2>1, <2>4 DEF DeliverAck
  <2>5. CASE \E s \in Shipments : DeliverShipment(c, s)
    BY <2>1, <2>5 DEF DeliverShipment
  <2>6. CASE \E r \in Receipts : DeliverReceipt(c, r)
    BY <2>1, <2>6 DEF DeliverReceipt
  <2> QED BY <2>2, <2>3, <2>4, <2>5, <2>6 DEF Begin
<1>2. CASE call' = call
  <2>1. OthersKept(c) /\ call'[c].pc \notin Counting
    BY <1>2, AwayPlaces DEF OthersKept, At
  <2> QED BY <1>1, <2>1, AsideCounted DEF Still
<1>3. ASSUME NEW r, call' = [call EXCEPT ![c] = r],
             r.pc \in {"validate", "approve", "reserve", "recover", "reconcile",
                       "list_shipments", "refuse_shipment", "list_for_receipt",
                       "refuse_receipt", "refuse_ack"}
      PROVE  CInv'
  BY <1>1, <1>3, AwayRow, AwayPlaces, AsideCounted DEF Away, Still
<1>4. ASSUME NEW r, call' = [call EXCEPT ![c] = r], r.pc = "insert_ack", r.event \in Acks
      PROVE  CInv'
  <2>1. call'[c] = r /\ OthersKept(c)
    BY <1>4, Here DEF OthersKept
  <2>2. Growing(c)
    BY <1>1, <1>4, <2>1 DEF Growing, Still, Recorded, CInv, Confirming, Stocking
  <2>3. CallCounted(c)'
    BY <1>4, <2>1 DEF CallCounted, Confirming, Stocking
  <2> QED BY <1>1, <2>2, <2>3, LinesKept DEF Still
<1> QED BY <1>1, <1>2, <1>3, <1>4

-----------------------------------------------------------------------------
(* Steps of calls that go through an event.                                *)

LEMMA RecordedGrows ==
  ASSUME IInv, CInv, NEW e, NEW v, v # None, ack' = [ack EXCEPT ![e] = v]
  PROVE  /\ Recorded \subseteq Recorded' /\ IsFiniteSet(Recorded')
         /\ e \in Acks => e \in Recorded'
<1>1. /\ Recorded \subseteq Recorded' /\ Recorded' \subseteq Recorded \cup {e}
      /\ e \in Acks => e \in Recorded'
  BY DEF IInv, TypeInv, TypeOK, Recorded
<1>2. IsFiniteSet(Recorded \cup {e})
  BY FS_AddElement DEF CInv
<1> QED BY <1>1, <1>2, FS_Subset

LEMMA ReceiptGrows ==
  ASSUME CInv, NEW e, receipt' = receipt \cup {e}
  PROVE  receipt \subseteq receipt' /\ IsFiniteSet(receipt') /\ e \in receipt'
BY FS_AddElement DEF CInv

LEMMA NoneIsNoMark == None # "recorded" /\ None # "applied"
BY ProcurementAssumption DEF ProcurementAssumption

\* A call that leaves the events it goes through.
LEMMA EndCounted ==
  ASSUME IInv, IInv', CInv, NEW c \in Calls, Away(c), UNCHANGED <<line, stock>>,
         Recorded \subseteq Recorded' /\ IsFiniteSet(Recorded'),
         receipt \subseteq receipt' /\ IsFiniteSet(receipt')
  PROVE  CInv'
<1>1. Growing(c)
  BY DEF Growing, Away, Counting
<1>2. CallCounted(c)'
  BY DEF Away, CallCounted, Counting, Confirming, Stocking
<1> QED BY <1>1, <1>2, LinesKept

LEMMA RefuseAckCounted ==
  ASSUME IInv, IInv', CInv, NEW c \in Calls, RefuseAck(c)
  PROVE  CInv'
<1>1. PICK e, v : e = call[c].event /\ v = IF ack[e] = None THEN "recorded" ELSE ack[e]
  OBVIOUS
<1>2. v # None
  BY <1>1, NoneIsNoMark
<1>3. ack' = [ack EXCEPT ![e] = v] /\ Return(c) /\ UNCHANGED <<line, receipt, stock>>
  BY <1>1 DEF RefuseAck
<1>4. Recorded \subseteq Recorded' /\ IsFiniteSet(Recorded') /\ IsFiniteSet(receipt)
  BY <1>2, <1>3, RecordedGrows DEF CInv
<1> QED BY <1>3, <1>4, AwayReturn, EndCounted

LEMMA RefuseReceiptCounted ==
  ASSUME IInv, IInv', CInv, NEW c \in Calls, RefuseReceipt(c)
  PROVE  CInv'
<1>1. /\ receipt' = receipt \cup {call[c].event} /\ Return(c)
      /\ line' = line /\ stock' = stock /\ Recorded' = Recorded
  BY DEF RefuseReceipt, Recorded
<1> QED BY <1>1, ReceiptGrows, AwayReturn, EndCounted DEF CInv

LEMMA MarkAckCounted ==
  ASSUME IInv, IInv', CInv, NEW c \in Calls, MarkAck(c)
  PROVE  CInv'
<1>1. CASE call[c].flag = FALSE
  <2>1. Return(c) /\ Still
    BY <1>1 DEF MarkAck, Still
  <2> QED BY <2>1, AwayReturn, AsideCounted DEF Away, Still
<1>2. CASE call[c].flag # FALSE
  <2>1. /\ ack' = [ack EXCEPT ![call[c].event] = "applied"] /\ Goto(c, "confirm")
        /\ UNCHANGED <<line, receipt, stock>>
    BY <1>2 DEF MarkAck
  <2>2. Recorded \subseteq Recorded' /\ IsFiniteSet(Recorded') /\ IsFiniteSet(receipt)
    BY <2>1, NoneIsNoMark, RecordedGrows DEF CInv
  <2>3. Away(c)
    BY <2>1, AwayGoto, AwayPlaces
  <2> QED BY <2>1, <2>2, <2>3, EndCounted
<1> QED BY <1>1, <1>2

LEMMA InsertAckCounted ==
  ASSUME IInv, IInv', CInv, NEW c \in Calls, InsertAck(c)
  PROVE  CInv'
<1>1. PICK e : e = call[c].event
  OBVIOUS
<1>2. /\ call[c].pc = "insert_ack" /\ e \in Acks /\ call \in [Calls -> CallRows]
      /\ call[c] \in CallRows /\ UNCHANGED <<line, receipt, stock>>
  BY <1>1, Here DEF InsertAck, At, CInv, CallCounted
<1>3. CASE ack[e] # None
  <2>1. Return(c) /\ Still
    BY <1>1, <1>3 DEF InsertAck, Still
  <2> QED BY <2>1, AwayReturn, AsideCounted DEF Away, Still
<1>4. CASE ack[e] = None
  <2>1. PICK pc : pc = PcWith(Contents[e], "apply", "mark")
    OBVIOUS
  <2>2. PICK r : r = [call[c] EXCEPT !.pc = pc, !.todo = Contents[e]]
    OBVIOUS
  <2>3. ack' = [ack EXCEPT ![e] = "recorded"] /\ call' = [call EXCEPT ![c] = r]
    BY <1>1, <1>2, <1>4, <2>1, <2>2 DEF InsertAck
  <2>4. r.pc = pc /\ pc \in {"apply", "mark"} /\ r.todo = Contents[e] /\ r.event = e
    BY <1>1, <1>2, <2>1, <2>2 DEF CallRows, PcWith
  <2>5. Recorded \subseteq Recorded' /\ IsFiniteSet(Recorded') /\ e \in Recorded' /\ e \notin Recorded
    BY <1>2, <1>4, <2>3, NoneIsNoMark, RecordedGrows DEF Recorded
  <2>6. call'[c] = r /\ OthersKept(c)
    BY <1>2, <2>3 DEF OthersKept
  <2>7. Growing(c)
    BY <1>2, <2>4, <2>5, <2>6 DEF Growing, CInv, Confirming, Stocking
  <2>8. CallCounted(c)'
    BY <2>4, <2>5, <2>6 DEF CallCounted, Confirming, Stocking
  <2> QED BY <1>2, <2>7, <2>8, LinesKept
<1> QED BY <1>3, <1>4

\* What a call has gone through leaves the units that are left, and no other call's.
LEMMA GoneThrough ==
  ASSUME NEW c \in Calls, OthersKept(c), NEW P, OneEach(P), call[c].pc \in P,
         NEW x \in call[c].todo, NEW l, Resolves(x.to), TheLine(x.to) = l,
         call'[c].pc \in P =>
           call'[c].event = call[c].event /\ call'[c].todo = call[c].todo \ {x},
         NEW B, B = {call[c].event} \X ({x} \X (1..x.quantity))
  PROVE  Left(P, l)' \subseteq Left(P, l) /\ B \subseteq Left(P, l) /\ Left(P, l)' \cap B = {}
<1>1. ASSUME NEW d \in Calls
      PROVE  LeftOf(d, P, l)' \subseteq LeftOf(d, P, l) /\ LeftOf(d, P, l)' \cap B = {}
  <2>1. CASE d = c /\ call'[c].pc \in P
    <3>1. /\ call'[c].event = call[c].event /\ call'[c].todo \subseteq call[c].todo
          /\ x \notin call'[c].todo
      BY <2>1
    <3>2. UnitsOf(About(call'[c].todo, l)) \subseteq UnitsOf(About(call[c].todo, l))
      BY <3>1 DEF UnitsOf, About
    <3>3. UnitsOf(About(call'[c].todo, l)) \cap ({x} \X (1..x.quantity)) = {}
      BY <3>1 DEF UnitsOf, About
    <3>4. LeftOf(d, P, l)' = {call[c].event} \X UnitsOf(About(call'[c].todo, l))
      BY <2>1, <3>1 DEF LeftOf
    <3>5. LeftOf(d, P, l) = {call[c].event} \X UnitsOf(About(call[c].todo, l))
      BY <2>1 DEF LeftOf
    <3> QED BY <3>2, <3>3, <3>4, <3>5
  <2>2. CASE d # c
    <3>1. call'[d] = call[d]
      BY <2>2 DEF OthersKept
    <3>2. LeftOf(d, P, l)' = LeftOf(d, P, l)
      BY <3>1 DEF LeftOf
    <3>3. call[d].pc \in P => call[d].event # call[c].event
      BY <2>2 DEF OneEach
    <3>4. LeftOf(d, P, l) \cap B = {}
      BY <3>3 DEF LeftOf
    <3> QED BY <3>2, <3>4
  <2>3. CASE d = c /\ call'[c].pc \notin P
    BY <2>3 DEF LeftOf
  <2> QED BY <2>1, <2>2, <2>3
<1>2. B \subseteq LeftOf(c, P, l)
  <2>1. x \in About(call[c].todo, l)
    BY DEF About
  <2>2. {x} \X (1..x.quantity) \subseteq UnitsOf(About(call[c].todo, l))
    BY <2>1 DEF UnitsOf
  <2> QED BY <2>2 DEF LeftOf
<1> QED BY <1>1, <1>2 DEF Left

LEMMA UnitsAbout ==
  ASSUME NEW es, NEW e \in es, NEW x \in Contents[e], NEW l, Resolves(x.to), TheLine(x.to) = l
  PROVE  {e} \X ({x} \X (1..x.quantity)) \subseteq Units(es, l)
<1>1. x \in About(Contents[e], l)
  BY DEF About
<1>2. {x} \X (1..x.quantity) \subseteq UnitsOf(About(Contents[e], l))
  BY <1>1 DEF UnitsOf
<1> QED BY <1>2 DEF Units

\* Once it went through an event line, a call has counted its quantity.
LEMMA Gained ==
  ASSUME NEW c \in Calls, OthersKept(c), NEW P, OneEach(P), call[c].pc \in P,
         NEW es \in SUBSET Events, IsFiniteSet(es), call[c].event \in es,
         NEW x \in call[c].todo, x \in EventLines, x \in Contents[call[c].event],
         NEW l, Resolves(x.to), TheLine(x.to) = l,
         call'[c].pc \in P =>
           call'[c].event = call[c].event /\ call'[c].todo = call[c].todo \ {x},
         NEW L, L = Left(P, l), NEW M, M = Left(P, l)'
  PROVE  /\ Cardinality(Units(es, l) \ L) + x.quantity <= Cardinality(Units(es, l) \ M)
         /\ Cardinality(Units(es, l) \ L) \in Nat /\ Cardinality(Units(es, l) \ M) \in Nat
<1>1. PICK B : B = {call[c].event} \X ({x} \X (1..x.quantity))
  OBVIOUS
<1>2. Left(P, l)' \subseteq Left(P, l) /\ B \subseteq Left(P, l) /\ Left(P, l)' \cap B = {}
  BY <1>1, GoneThrough
<1>3. M \subseteq L /\ B \subseteq L /\ M \cap B = {}
  BY <1>2
<1>4. B \subseteq Units(es, l)
  BY <1>1, UnitsAbout
<1>5. IsFiniteSet(Units(es, l))
  BY UnitsFinite
<1>6. Cardinality(B) = x.quantity
  BY <1>1, UnitsOfOne
<1>7. /\ Cardinality(Units(es, l) \ L) + Cardinality(B) <= Cardinality(Units(es, l) \ M)
      /\ Cardinality(Units(es, l) \ L) \in Nat /\ Cardinality(Units(es, l) \ M) \in Nat
  BY <1>3, <1>4, <1>5, CountGains
<1> QED BY <1>6, <1>7

\* A held row that is counted stays so.
LEMMA HeldStays ==
  ASSUME IInv, IInv', NEW c \in Calls, Growing(c), NEW lines \in LineRows, NEW l \in Lines,
         lines[l].confirmed <= Cardinality(Confirmed(l))
  PROVE  lines[l].confirmed <= Cardinality(Confirmed(l))'
<1>1. lines[l].confirmed \in Nat
  BY DEF LineRows
<1> QED BY <1>1, CountsGrow

LEMMA LineStays ==
  ASSUME IInv, IInv', CInv, NEW c \in Calls, Growing(c), NEW l \in Lines
  PROVE  /\ line[l].confirmed <= Cardinality(Confirmed(l))'
         /\ stock[l].quantity <= Cardinality(Stocked(l))'
<1>1. LineCounted(l)
  BY DEF CInv
<1>2. line[l].confirmed \in Nat /\ stock[l].quantity \in Nat
  BY DEF IInv, TypeInv, TypeOK, LineRows
<1> QED BY <1>1, <1>2, CountsGrow DEF LineCounted

LEMMA ApplyAckLineCounted ==
  ASSUME IInv, IInv', CInv, NEW c \in Calls, ApplyAckLine(c)
  PROVE  CInv'
<1>1. PICK e, x, l, rest : e = call[c].event /\ x = This(c) /\ l = TheLine(x.to) /\ rest = Rest(c)
  OBVIOUS
<1>2. /\ call[c].pc = "apply" /\ call \in [Calls -> CallRows] /\ call[c] \in CallRows
      /\ call[c].todo # {} /\ e \in Recorded /\ call[c].todo \subseteq Contents[e]
  BY <1>1, Here DEF ApplyAckLine, At, CInv, CallCounted, CallGood, Confirming
<1>3. x \in call[c].todo /\ x \in EventLines /\ rest = call[c].todo \ {x}
  BY <1>1, <1>2, ThisTyped DEF Rest
<1>4. Sound(c)
  BY ApplyAckLineSound
<1>5. /\ call'[c].pc = PcWith(rest, "apply", "mark") /\ call'[c].event = e
      /\ call'[c].todo = rest
  BY <1>1, <1>2 DEF ApplyAckLine, CallRows
<1>6. UNCHANGED <<ack, receipt>> /\ Recorded' = Recorded
  BY DEF ApplyAckLine, events, Recorded
<1>7. call'[c].pc \in {"apply", "mark"}
  BY <1>5 DEF PcWith
<1>8. Growing(c)
  BY <1>1, <1>2, <1>3, <1>4, <1>5, <1>6, <1>7 DEF Growing, Sound, CInv, Confirming, Stocking
<1>9. CallCounted(c)'
  BY <1>2, <1>3, <1>5, <1>6, <1>7 DEF CallCounted, Confirming, Stocking
<1>10. \A m \in Lines : stock'[m].quantity = stock[m].quantity
  <2> DEFINE k == TheLine(This(c).to)
             total == line[k].confirmed + This(c).quantity
             credit == Lesser(total, Ordered[k]) - Lesser(line[k].confirmed, Ordered[k])
  <2>1. stock \in [Lines -> [quantity : Nat, inbound : Nat]]
    BY DEF IInv, TypeInv, TypeOK
  <2>2. stock' = stock \/ stock' = [stock EXCEPT ![k].inbound = @ + credit]
    BY DEF ApplyAckLine
  <2> HIDE DEF credit, k
  <2> QED BY <2>1, <2>2
<1>11. ASSUME NEW m \in Lines PROVE LineCounted(m)'
  <2>1. line \in LineRows
    BY DEF IInv, TypeInv, TypeOK
  <2>2. CASE line'[m].confirmed = line[m].confirmed
    BY <1>8, <1>10, <2>2, LineStays DEF LineCounted
  <2>3. CASE line'[m].confirmed # line[m].confirmed
    <3>1. /\ Resolves(x.to) /\ m = l
          /\ line' = [line EXCEPT ![l].confirmed = line[l].confirmed + x.quantity]
      BY <1>1, <2>1, <2>3 DEF ApplyAckLine, LineRows
    <3>2. line'[m].confirmed = line[m].confirmed + x.quantity
      BY <2>1, <3>1 DEF LineRows
    <3>3. PICK es, L, M : /\ es = Recorded
                          /\ L = Left(Confirming, l) /\ M = Left(Confirming, l)'
      OBVIOUS
    <3>4. OthersKept(c) /\ OneEach(Confirming) /\ call[c].pc \in Confirming
      BY <1>2, <1>4 DEF Sound, CInv, Confirming
    <3>5. es \in SUBSET Events /\ IsFiniteSet(es) /\ e \in es
      BY <1>2, <3>3 DEF CInv, Recorded, Events
    <3>6. /\ call'[c].event = call[c].event /\ call'[c].todo = call[c].todo \ {x}
          /\ Resolves(x.to) /\ TheLine(x.to) = l /\ x \in Contents[call[c].event]
          /\ call[c].event \in es
      BY <1>1, <1>2, <1>3, <1>5, <3>1, <3>5
    <3>7. /\ Cardinality(Units(es, l) \ L) + x.quantity <= Cardinality(Units(es, l) \ M)
          /\ Cardinality(Units(es, l) \ L) \in Nat /\ Cardinality(Units(es, l) \ M) \in Nat
      BY <1>3, <3>3, <3>4, <3>5, <3>6, Gained
    <3>8. Confirmed(l) = Units(es, l) \ L /\ Confirmed(l)' = Units(es, l) \ M
      BY <1>6, <3>3 DEF Confirmed, Units
    <3>9. line[m].confirmed <= Cardinality(Confirmed(l))
      BY <3>1 DEF CInv, LineCounted
    <3>10. line[m].confirmed \in Nat /\ x.quantity \in Nat
      BY <1>3, <2>1 DEF LineRows, EventLines
    <3>11. line'[m].confirmed <= Cardinality(Confirmed(l))'
      BY <3>2, <3>7, <3>8, <3>9, <3>10
    <3>12. stock'[m].quantity <= Cardinality(Stocked(m))'
      BY <1>8, <1>10, LineStays
    <3> QED BY <3>1, <3>11, <3>12 DEF LineCounted
  <2> QED BY <2>2, <2>3
<1> QED BY <1>8, <1>9, <1>11, CountedSuffices

\* The lines a call will put back are those of now.
LEMMA HoldLinesCounted ==
  ASSUME IInv, IInv', CInv, NEW c \in Calls, Still, NEW pc \in {"ship", "insert_receipt"},
         HoldLines(c, pc)
  PROVE  CInv'
<1>1. PICK r : r = [call[c] EXCEPT !.lines = line, !.todo = Contents[call[c].event], !.pc = pc]
  OBVIOUS
<1>2. call \in [Calls -> CallRows] /\ call[c] \in CallRows /\ line \in LineRows
  BY Here DEF TypeOK
<1>3. call' = [call EXCEPT ![c] = r]
  BY <1>1 DEF HoldLines
<1>4. /\ r.lines = line /\ r.todo = Contents[call[c].event] /\ r.pc = pc
      /\ r.event = call[c].event
  BY <1>1, <1>2 DEF CallRows
<1>5. call'[c] = r /\ OthersKept(c)
  BY <1>2, <1>3 DEF OthersKept
<1>6. Growing(c)
  BY <1>4, <1>5 DEF Growing, Still, Recorded, CInv, Confirming, Stocking
<1>7. \A l \in Lines : line[l].confirmed <= Cardinality(Confirmed(l))'
  BY <1>6, LineStays
<1>8. CallCounted(c)'
  BY <1>4, <1>5, <1>7 DEF CallCounted, Confirming, Stocking
<1> QED BY <1>6, <1>8, LinesKept DEF Still

LEMMA ListLinesCounted ==
  ASSUME IInv, IInv', CInv, NEW c \in Calls, ListLines(c) \/ ListForReceipt(c)
  PROVE  CInv'
<1>1. /\ Still
      /\ call' = Inbound(c) \/ HoldLines(c, "ship") \/ HoldLines(c, "insert_receipt")
  BY DEF ListLines, ListForReceipt, Still, events
<1>2. CASE call' = Inbound(c)
  BY <1>1, <1>2, AwayInbound, AsideCounted DEF Away, Still
<1> QED BY <1>1, <1>2, HoldLinesCounted

\* A shipment's put writes a confirmed quantity that was read, and so counted, before.
LEMMA ShipLineCounted ==
  ASSUME IInv, IInv', CInv, NEW c \in Calls, ShipLine(c)
  PROVE  CInv'
<1>1. PICK x, l, row, lines : /\ x = This(c) /\ l = TheLine(x.to)
                              /\ row = [call[c].lines[l] EXCEPT !.shipped = @ + x.quantity]
                              /\ lines = IF Resolves(x.to) THEN [call[c].lines EXCEPT ![l] = row]
                                         ELSE call[c].lines
  OBVIOUS
<1>2. /\ call[c].pc = "ship" /\ call \in [Calls -> CallRows] /\ call[c] \in CallRows
      /\ call[c].todo # {} /\ call[c].lines \in LineRows /\ line \in LineRows
  BY Here DEF ShipLine, At, CallGood, TypeOK
<1>3. \A m \in Lines : call[c].lines[m].confirmed <= Cardinality(Confirmed(m))
  BY <1>2 DEF CInv, CallCounted
<1>4. /\ line' = IF Resolves(x.to) THEN [line EXCEPT ![l] = row] ELSE line
      /\ call' = IF Rest(c) = {} THEN Inbound(c)
                 ELSE [call EXCEPT ![c].todo = Rest(c), ![c].lines = lines]
      /\ UNCHANGED <<ack, receipt, stock>>
  BY <1>1 DEF ShipLine, events
<1>5. Resolves(x.to) => l \in Lines /\ row.confirmed = call[c].lines[l].confirmed
  <2>1. Resolves(x.to) => l \in Lines
    BY <1>1, LineFound
  <2> QED BY <1>1, <1>2, <2>1 DEF LineRows
<1>6. \A m \in Lines : lines[m].confirmed = call[c].lines[m].confirmed
  BY <1>1, <1>2, <1>5 DEF LineRows
<1>7. Sound(c)
  BY ShipLineSound
<1>8. Away(c) \/ (call'[c].pc = "ship" /\ call'[c].lines = lines)
  <2>1. CASE Rest(c) = {}
    BY <1>4, <2>1, AwayInbound
  <2>2. CASE Rest(c) # {}
    BY <1>2, <1>4, <2>2 DEF CallRows
  <2> QED BY <2>1, <2>2
<1>9. Growing(c)
  BY <1>4, <1>7, <1>8 DEF Growing, Sound, Recorded, CInv, Away, Counting, Confirming, Stocking
<1>10. \A m \in Lines : call[c].lines[m].confirmed <= Cardinality(Confirmed(m))'
  BY <1>2, <1>3, <1>9, HeldStays
<1>11. CallCounted(c)'
  <2>1. CASE Away(c)
    BY <2>1 DEF Away, CallCounted, Counting, Confirming, Stocking
  <2>2. CASE call'[c].pc = "ship" /\ call'[c].lines = lines
    BY <1>6, <1>10, <2>2 DEF CallCounted, Confirming, Stocking
  <2> QED BY <1>8, <2>1, <2>2
<1>12. ASSUME NEW m \in Lines PROVE LineCounted(m)'
  <2>1. line'[m].confirmed \in {line[m].confirmed, call[c].lines[m].confirmed}
    BY <1>2, <1>4, <1>5 DEF LineRows
  <2>2. stock'[m].quantity = stock[m].quantity
    BY <1>4
  <2> QED BY <1>9, <1>10, <2>1, <2>2, LineStays DEF LineCounted
<1> QED BY <1>9, <1>11, <1>12, CountedSuffices

LEMMA InsertReceiptCounted ==
  ASSUME IInv, IInv', CInv, NEW c \in Calls, InsertReceipt(c)
  PROVE  CInv'
<1>1. PICK e, pc : e = call[c].event /\ pc = PcWith(call[c].todo, "receive", "advance")
  OBVIOUS
<1>2. /\ call[c].pc = "insert_receipt" /\ call \in [Calls -> CallRows] /\ call[c] \in CallRows
      /\ call[c].lines \in LineRows
  BY Here DEF InsertReceipt, At, CallGood
<1>3. /\ receipt' = receipt \cup {e} /\ line' = line /\ stock' = stock /\ Recorded' = Recorded
  BY <1>1 DEF InsertReceipt, Recorded
<1>4. receipt \subseteq receipt' /\ IsFiniteSet(receipt') /\ e \in receipt' /\ IsFiniteSet(Recorded)
  BY <1>3, ReceiptGrows DEF CInv
<1>5. CASE e \in receipt
  <2>1. Return(c)
    BY <1>1, <1>5 DEF InsertReceipt
  <2> QED BY <1>3, <1>4, <2>1, AwayReturn, EndCounted
<1>6. CASE e \notin receipt
  <2>1. PICK r : r = [call[c] EXCEPT !.pc = pc]
    OBVIOUS
  <2>2. call' = [call EXCEPT ![c] = r]
    BY <1>1, <1>2, <1>6, <2>1 DEF InsertReceipt, Goto
  <2>3. /\ r.pc \in {"receive", "advance"} /\ r.event = e /\ r.todo = call[c].todo
        /\ r.lines = call[c].lines
    BY <1>1, <1>2, <2>1 DEF CallRows, PcWith
  <2>4. call'[c] = r /\ OthersKept(c)
    BY <1>2, <2>2 DEF OthersKept
  <2>5. Growing(c)
    BY <1>3, <1>4, <1>6, <2>3, <2>4 DEF Growing, Confirming, Stocking
  <2>6. CallCounted(c)
    BY DEF CInv
  <2>7. call[c].todo \subseteq Contents[e]
    BY <1>1, <1>2, <2>6 DEF CallCounted
  <2>8. \A l \in Lines : call[c].lines[l].confirmed <= Cardinality(Confirmed(l))
    BY <1>2, <2>6 DEF CallCounted
  <2>9. \A l \in Lines : call[c].lines[l].confirmed <= Cardinality(Confirmed(l))'
    BY <1>2, <2>5, <2>8, HeldStays
  <2>10. CallCounted(c)'
    BY <1>4, <2>3, <2>4, <2>7, <2>9 DEF CallCounted, Confirming, Stocking
  <2> QED BY <1>3, <2>5, <2>10, LinesKept
<1> QED BY <1>5, <1>6

\* A receipt that goes on to its next line has no more to go through than before.
LEMMA NextLineCounted ==
  ASSUME IInv, IInv', CInv, NEW c \in Calls, OthersKept(c), call[c].pc \in Stocking,
         Recorded' = Recorded, receipt' = receipt,
         call' = [call EXCEPT ![c].todo = Rest(c),
                              ![c].pc = PcWith(Rest(c), "receive", "advance")]
  PROVE  Growing(c) /\ CallCounted(c)'
<1>1. /\ call \in [Calls -> CallRows] /\ call[c] \in CallRows /\ call[c].lines \in LineRows
      /\ call[c].event \in receipt /\ call[c].todo \subseteq Contents[call[c].event]
  BY Here DEF CallGood, CInv, CallCounted, Stocking
<1>2. \A m \in Lines : call[c].lines[m].confirmed <= Cardinality(Confirmed(m))
  BY DEF CInv, CallCounted
<1>3. /\ call'[c].pc \in {"receive", "advance"} /\ call'[c].event = call[c].event
      /\ call'[c].todo \subseteq call[c].todo /\ call'[c].lines = call[c].lines
  BY <1>1 DEF CallRows, PcWith, Rest
<1>4. Growing(c)
  BY <1>1, <1>3 DEF Growing, CInv, Confirming, Stocking
<1>5. \A m \in Lines : call[c].lines[m].confirmed <= Cardinality(Confirmed(m))'
  BY <1>1, <1>2, <1>4, HeldStays
<1>6. CallCounted(c)'
  BY <1>1, <1>3, <1>5 DEF CallCounted, Confirming, Stocking
<1> QED BY <1>4, <1>6

\* What is received goes into the row that the call read, and into the stock next.
LEMMA ReceiveLineCounted ==
  ASSUME IInv, IInv', CInv, NEW c \in Calls, ReceiveLine(c)
  PROVE  CInv'
<1>1. PICK x, l, row : /\ x = This(c) /\ l = TheLine(x.to)
                       /\ row = [call[c].lines[l] EXCEPT !.received = @ + x.quantity]
  OBVIOUS
<1>2. /\ call[c].pc = "receive" /\ call \in [Calls -> CallRows] /\ call[c] \in CallRows
      /\ call[c].todo # {} /\ call[c].lines \in LineRows /\ line \in LineRows
      /\ call[c].event \in receipt /\ call[c].todo \subseteq Contents[call[c].event]
  BY Here DEF ReceiveLine, At, CallGood, TypeOK, CInv, CallCounted, Stocking
<1>3. \A m \in Lines : call[c].lines[m].confirmed <= Cardinality(Confirmed(m))
  BY <1>2 DEF CInv, CallCounted, Stocking
<1>4. UNCHANGED <<ack, receipt, stock>> /\ OthersKept(c) /\ Recorded' = Recorded
  BY ReceiveLineSound DEF Sound, ReceiveLine, events, Recorded
<1>5. CASE Resolves(x.to)
  <2>1. PICK lines : lines = [call[c].lines EXCEPT ![l] = row]
    OBVIOUS
  <2>2. line' = [line EXCEPT ![l] = row] /\ l \in Lines
    BY <1>1, <1>5, LineFound DEF ReceiveLine
  <2>3. /\ call'[c].pc = "stock" /\ call'[c].lines = lines
        /\ call'[c].event = call[c].event /\ call'[c].todo = call[c].todo
    <3>1. call' = [call EXCEPT ![c].pc = "stock", ![c].lines[l] = row]
      BY <1>1, <1>5 DEF ReceiveLine
    <3> QED BY <1>2, <2>1, <3>1 DEF CallRows
  <2>4. row.confirmed = call[c].lines[l].confirmed
    BY <1>1, <1>2, <2>2 DEF LineRows
  <2>5. \A m \in Lines : lines[m].confirmed = call[c].lines[m].confirmed
    BY <1>2, <2>1, <2>4 DEF LineRows
  <2>6. Growing(c)
    BY <1>2, <1>4, <2>3 DEF Growing, CInv, Confirming, Stocking
  <2>7. \A m \in Lines : call[c].lines[m].confirmed <= Cardinality(Confirmed(m))'
    BY <1>2, <1>3, <2>6, HeldStays
  <2>8. Resolves(This(c).to)'
    BY <1>1, <1>5, <2>3 DEF This
  <2>9. CallCounted(c)'
    BY <1>2, <1>4, <2>3, <2>5, <2>7, <2>8 DEF CallCounted, Confirming, Stocking
  <2>10. ASSUME NEW m \in Lines PROVE LineCounted(m)'
    <3>1. line'[m].confirmed \in {line[m].confirmed, call[c].lines[m].confirmed}
      BY <1>2, <2>2, <2>4 DEF LineRows
    <3>2. stock'[m].quantity = stock[m].quantity
      BY <1>4
    <3> QED BY <2>6, <2>7, <3>1, <3>2, LineStays DEF LineCounted
  <2> QED BY <2>6, <2>9, <2>10, CountedSuffices
<1>6. CASE ~ Resolves(x.to)
  <2>1. UNCHANGED <<line, stock>>
    BY <1>1, <1>4, <1>6 DEF ReceiveLine
  <2>2. call' = [call EXCEPT ![c].todo = Rest(c),
                             ![c].pc = PcWith(Rest(c), "receive", "advance")]
    BY <1>1, <1>6 DEF ReceiveLine
  <2>3. Growing(c) /\ CallCounted(c)'
    BY <1>2, <1>4, <2>2, NextLineCounted DEF Stocking
  <2> QED BY <2>1, <2>3, LinesKept
<1> QED BY <1>5, <1>6

LEMMA StockLineCounted ==
  ASSUME IInv, IInv', CInv, NEW c \in Calls, StockLine(c)
  PROVE  CInv'
<1>1. PICK e, x, l : e = call[c].event /\ x = This(c) /\ l = TheLine(x.to)
  OBVIOUS
<1>2. /\ call[c].pc = "stock" /\ call \in [Calls -> CallRows] /\ call[c] \in CallRows
      /\ call[c].todo # {} /\ call[c].lines \in LineRows
      /\ e \in receipt /\ call[c].todo \subseteq Contents[e] /\ Resolves(x.to)
  BY <1>1, Here DEF StockLine, At, CallGood, CInv, CallCounted, Stocking
<1>3. x \in call[c].todo /\ x \in EventLines /\ Rest(c) = call[c].todo \ {x} /\ l \in Lines
  BY <1>1, <1>2, ThisTyped, LineFound DEF Rest
<1>4. UNCHANGED <<line, ack, receipt>> /\ OthersKept(c) /\ Recorded' = Recorded
  BY StockLineSound DEF Sound, StockLine, events, Recorded
<1>5. call' = [call EXCEPT ![c].todo = Rest(c),
                           ![c].pc = PcWith(Rest(c), "receive", "advance")]
  BY DEF StockLine
<1>6. Growing(c) /\ CallCounted(c)'
  BY <1>2, <1>4, <1>5, NextLineCounted DEF Stocking
<1>7. \A m \in Lines : stock'[m].quantity = stock[m].quantity + IF m = l THEN x.quantity ELSE 0
  <2>1. stock \in [Lines -> [quantity : Nat, inbound : Nat]] /\ x.quantity \in Nat
    BY <1>3 DEF IInv, TypeInv, TypeOK, EventLines
  <2>2. PICK i : i = Greater(stock[l].inbound - x.quantity, 0)
    OBVIOUS
  <2>3. stock' = [stock EXCEPT ![l].quantity = stock[l].quantity + x.quantity, ![l].inbound = i]
    BY <1>1, <1>3, <2>1, <2>2 DEF StockLine
  <2> QED BY <1>3, <2>1, <2>3
<1>8. ASSUME NEW m \in Lines PROVE LineCounted(m)'
  <2>1. line'[m].confirmed <= Cardinality(Confirmed(m))'
    BY <1>4, <1>6, LineStays
  <2>2. CASE m # l
    <3>1. stock'[m].quantity = stock[m].quantity
      BY <1>7, <2>2 DEF IInv, TypeInv, TypeOK
    <3> QED BY <1>6, <2>1, <3>1, LineStays DEF LineCounted
  <2>3. CASE m = l
    <3>1. PICK es, L, M : /\ es = receipt
                          /\ L = Left(Stocking, l) /\ M = Left(Stocking, l)'
      OBVIOUS
    <3>2. OneEach(Stocking) /\ call[c].pc \in Stocking
      BY <1>2 DEF CInv, Stocking
    <3>3. es \in SUBSET Events /\ IsFiniteSet(es) /\ e \in es
      BY <1>2, <3>1 DEF CInv, IInv, TypeInv, TypeOK, Events
    <3>4. call'[c].event = call[c].event /\ call'[c].todo = call[c].todo \ {x}
      BY <1>2, <1>3, <1>5 DEF CallRows
    <3>5. /\ Resolves(x.to) /\ TheLine(x.to) = l /\ x \in Contents[call[c].event]
          /\ call[c].event \in es
      BY <1>1, <1>2, <1>3, <3>3
    <3>6. /\ Cardinality(Units(es, l) \ L) + x.quantity <= Cardinality(Units(es, l) \ M)
          /\ Cardinality(Units(es, l) \ L) \in Nat /\ Cardinality(Units(es, l) \ M) \in Nat
      BY <1>3, <1>4, <3>1, <3>2, <3>3, <3>4, <3>5, Gained
    <3>7. Stocked(l) = Units(es, l) \ L /\ Stocked(l)' = Units(es, l) \ M
      BY <1>4, <3>1 DEF Stocked, Units
    <3>8. stock[l].quantity <= Cardinality(Stocked(l))
      BY <1>3 DEF CInv, LineCounted
    <3>9. stock[l].quantity \in Nat /\ x.quantity \in Nat
      BY <1>3 DEF IInv, TypeInv, TypeOK, EventLines
    <3>10. stock'[l].quantity = stock[l].quantity + x.quantity
      BY <1>3, <1>7
    <3>11. stock'[l].quantity <= Cardinality(Stocked(l))'
      BY <3>6, <3>7, <3>8, <3>9, <3>10
    <3> QED BY <2>1, <2>3, <3>11 DEF LineCounted
  <2> QED BY <2>2, <2>3
<1> QED BY <1>6, <1>8, CountedSuffices

-----------------------------------------------------------------------------
(* The count is an invariant.                                              *)

LEMMA StepCounted ==
  ASSUME IInv, IInv', CInv, NEW c \in Calls, Step(c)
  PROVE  CInv'
BY OrderStepsCounted, RefuseAckCounted, InsertAckCounted, ApplyAckLineCounted, MarkAckCounted,
   ListLinesCounted, ShipLineCounted, RefuseReceiptCounted, InsertReceiptCounted,
   ReceiveLineCounted, StockLineCounted
DEF Step

LEMMA StutterCounted ==
  ASSUME CInv, UNCHANGED vars
  PROVE  CInv'
<1>1. Recorded' = Recorded
  BY DEF vars, Recorded
<1>2. \A c, l, P : LeftOf(c, P, l)' = LeftOf(c, P, l)
  BY DEF vars, LeftOf
<1>3. \A l, P : Left(P, l)' = Left(P, l)
  BY <1>2 DEF Left
<1>4. \A l : Confirmed(l)' = Confirmed(l) /\ Stocked(l)' = Stocked(l)
  BY <1>1, <1>3 DEF Confirmed, Stocked, Units, vars
<1>5. \A c \in Calls : This(c)' = This(c)
  BY DEF vars, This
<1> QED BY <1>1, <1>4, <1>5 DEF CInv, CallCounted, LineCounted, OneEach, vars

LEMMA InitCounted ==
  ASSUME Init
  PROVE  CInv
<1>1. Recorded = {} /\ receipt = {}
  BY DEF Init, Recorded
<1>2. \A c \in Calls : call[c].pc \notin Counting
  BY DEF Init, Idle, Counting, Confirming, Stocking
<1>3. IsFiniteSet({}) /\ Cardinality({}) = 0
  BY FS_EmptySet
<1>4. \A l \in Lines : Confirmed(l) = {} /\ Stocked(l) = {}
  BY <1>1 DEF Confirmed, Stocked, Units
<1>5. ASSUME NEW l \in Lines PROVE LineCounted(l)
  <2>1. line[l].confirmed = 0 /\ stock[l].quantity = 0
    BY DEF Init
  <2>2. Cardinality(Confirmed(l)) = 0 /\ Cardinality(Stocked(l)) = 0
    BY <1>3, <1>4
  <2> QED BY <2>1, <2>2 DEF LineCounted
<1>6. OneEach(Confirming) /\ OneEach(Stocking) /\ \A c \in Calls : CallCounted(c)
  BY <1>2 DEF OneEach, CallCounted, Counting, Confirming, Stocking
<1> QED BY <1>1, <1>3, <1>5, <1>6 DEF CInv

\* What was confirmed and stocked are units of recorded events that no call has still
\* to go through, for every contents of every event, however often it is delivered.
THEOREM EventsAreCounted == Spec => []CInv
<1>1. Init => CInv
  BY InitCounted
<1>2. IInv /\ IInv' /\ CInv /\ [Next]_vars => CInv'
  <2> SUFFICES ASSUME IInv, IInv', CInv, [Next]_vars
               PROVE  CInv'
    OBVIOUS
  <2>1. ASSUME NEW c \in Calls, Taken(c) /\ Begin(c)
        PROVE  CInv'
    BY <2>1, BeginningsCounted DEF Taken
  <2>2. ASSUME NEW c \in Calls, Step(c) \/ Die(c)
        PROVE  CInv'
    BY <2>2, StepCounted, OrderStepsCounted
  <2>3. CASE UNCHANGED vars
    BY <2>3, StutterCounted
  <2> QED BY <2>1, <2>2, <2>3 DEF Next
<1> QED BY <1>1, <1>2, ProcurementInvariant, PTL DEF Spec

\* An acknowledgement confirms once, and the units of a receipt enter the stock of
\* their line at most once, however often and late events are delivered and wherever
\* calls die (insert_acknowledgement, insert_goods_receipt, record_goods_receipt).
THEOREM EventsAreCountedOnce == Spec => []EventsCountOnce
<1>1. IInv /\ CInv => EventsCountOnce
  <2> SUFFICES ASSUME IInv, CInv, NEW l \in Lines
               PROVE  /\ line[l].confirmed <= Cardinality(Units(Recorded, l))
                      /\ stock[l].quantity <= Cardinality(Units(receipt, l))
    BY DEF EventsCountOnce
  <2>1. Recorded \in SUBSET Events /\ receipt \in SUBSET Events
    BY DEF Recorded, Events, IInv, TypeInv, TypeOK
  <2>2. IsFiniteSet(Units(Recorded, l)) /\ IsFiniteSet(Units(receipt, l))
    BY <2>1, UnitsFinite DEF CInv
  <2>3. /\ Cardinality(Confirmed(l)) <= Cardinality(Units(Recorded, l))
        /\ Cardinality(Stocked(l)) <= Cardinality(Units(receipt, l))
        /\ IsFiniteSet(Confirmed(l)) /\ IsFiniteSet(Stocked(l))
    <3>1. Confirmed(l) \subseteq Units(Recorded, l) /\ Stocked(l) \subseteq Units(receipt, l)
      BY DEF Confirmed, Stocked
    <3> QED BY <2>2, <3>1, FS_Subset
  <2>4. /\ Cardinality(Confirmed(l)) \in Nat /\ Cardinality(Units(Recorded, l)) \in Nat
        /\ Cardinality(Stocked(l)) \in Nat /\ Cardinality(Units(receipt, l)) \in Nat
    BY <2>2, <2>3, FS_CardinalityType
  <2>5. line[l].confirmed \in Nat /\ stock[l].quantity \in Nat
    BY DEF IInv, TypeInv, TypeOK, LineRows
  <2>6. LineCounted(l)
    BY DEF CInv
  <2> QED BY <2>3, <2>4, <2>5, <2>6 DEF LineCounted
<1> QED BY <1>1, ProcurementInvariant, EventsAreCounted, PTL
=============================================================================
