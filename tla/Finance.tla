------------------------------- MODULE Finance -------------------------------
(***************************************************************************)
(* Finance reconciliation (packages/finance/operations.py): payments that  *)
(* are observed and reconciled, settlement batches of a provider that are  *)
(* ingested entry by entry and reconciled against orders, refunds and      *)
(* configured charges, beside the execution of the refunds                 *)
(* (PostOrderOperationsService.execute_refund) that writes the same rows.  *)
(*                                                                         *)
(* Every call is its store calls, each one step: the unique indexes make   *)
(* the inserts idempotent, what is read before them is not protected, and  *)
(* the put of a Refund writes the whole row its caller read.               *)
(*                                                                         *)
(* Left out: evidence, audit, the exceptions that go with a verdict, and   *)
(* what an exception leads to.                                             *)
(***************************************************************************)
EXTENDS Integers, Sequences, FiniteSets, Threads

CONSTANTS
  Orders, Total,       \* [Orders -> total_amount]
  Payments, Pays,      \* external_payment_id, [Payments -> [order, amount]]
  Refunds, Refunded,   \* [Refunds -> amount]
  Entries, Entry,      \* external_entry_id (numbers),
                       \* [Entries -> [type, ref, amount, currency]]
  Batches, Payload,    \* external_batch_id, [Batches -> Seq(Entries)]
  Currency,            \* [Batches -> currency]
  Local,               \* the currency of orders and refunds
  Expected,            \* finance.expected_charges, [charge types -> amount]
  Tolerance

OrderTypes == {"payment", "cod_collection"}
ChargeTypes == {"fee", "courier_charge", "marketplace_deduction"}

EntryRows == [batch : Batches, resolved : BOOLEAN]
Results == {"MATCH", "DIVERGENCE", "DUPLICATE", "UNRESOLVED_REFERENCE", "EXTERNAL_ONLY",
            "CANONICAL_ONLY", "REQUIRES_CONFIGURATION", "ADJUSTMENT_RECORDED",
            "PARTIAL_SETTLEMENT", "OVER_SETTLED", "UNDER_SETTLED"}

ASSUME FinanceAssumption ==
  /\ Entries \subseteq Nat /\ IsFiniteSet(Entries)
  /\ Total \in [Orders -> Nat] /\ Refunded \in [Refunds -> Nat]
  /\ \A p \in Payments : Pays[p].order \in Orders /\ Pays[p].amount \in Int
  /\ \A e \in Entries :
       /\ Entry[e].type \in OrderTypes \cup ChargeTypes \cup {"refund", "adjustment"}
       /\ Entry[e].amount \in Int
  /\ \A b \in Batches : Payload[b] \in Seq(Entries)
  /\ DOMAIN Expected \subseteq ChargeTypes
  /\ Tolerance \in Nat /\ MaxBegun \in Nat
  /\ None \notin Payments \cup Refunds \cup Orders \cup EntryRows \cup Results

VARIABLES
  observed,   \* PaymentObservation rows
  booked,     \* how many FinanceReconciliation rows a payment has
  mapped,     \* provider references in external_id_mappings
  refundRow,     \* [Refunds -> [status, financial]]
  batch,      \* SettlementBatch rows
  entry,      \* [Entries -> EntryRows or None], SettlementEntry rows
  records,    \* FinanceReconciliation rows of settlements: [about, result]
  whole,      \* history: batches some ingestion went through to the end
  closed      \* history: batches reconciled as a whole

payments == <<observed, booked>>
settled == <<batch, entry, whole>>
financeVars == <<observed, booked, mapped, refundRow, batch, entry, records, whole, closed,
          begun, call>>

RefundStatuses == {"mutation_submitted", "external_confirmed", "completed"}
RefundStates == [status : RefundStatuses, financial : {"pending", "matched", "discrepancy"}]
Free == [pc |-> "idle", id |-> None, at |-> 1, resolved |-> FALSE,
         complete |-> FALSE, listed |-> {}, todo |-> {}, refunds |-> {}, touched |-> {},
         row |-> None, verdict |-> None, next |-> "idle"]

FinanceTypeOK ==
  /\ observed \subseteq Payments /\ booked \in [Payments -> Nat]
  /\ mapped \subseteq Payments \cup Refunds
  /\ refundRow \in [Refunds -> RefundStates]
  /\ batch \subseteq Batches /\ whole \subseteq batch /\ closed \subseteq whole
  /\ entry \in [Entries -> EntryRows \cup {None}]
  /\ records \subseteq [about : Entries \cup Orders \cup Refunds \cup Batches, result : Results]
  /\ begun \in 0..MaxBegun

FinanceInit ==
  /\ observed = {} /\ booked = [p \in Payments |-> 0]
  /\ mapped = {}
  /\ refundRow = [r \in Refunds |-> [status |-> "mutation_submitted", financial |-> "pending"]]
  /\ batch = {} /\ entry = [e \in Entries |-> None]
  /\ records = {} /\ whole = {} /\ closed = {}
  /\ begun = 0
  /\ call = [c \in Calls |-> Free]

Leave(c) == call' = [call EXCEPT ![c] = Free]
Record(about, result) == records' = records \cup {[about |-> about, result |-> result]}
Within(expected, amount) == expected - amount \in -Tolerance..Tolerance

-----------------------------------------------------------------------------
(* Payments.                                                               *)

\* observe_payment: inserted, or the row that is there is returned.
ObservePayment(c) ==
  /\ \E p \in Payments :
       observed' = observed \cup {p} /\ Start(c, [Free EXCEPT !.pc = "map", !.id = p])
  /\ UNCHANGED <<booked, mapped, refundRow, settled, records, closed>>

MapPayment(c) ==
  /\ At(c, "map")
  /\ mapped' = mapped \cup {call[c].id}
  /\ Goto(c, "find_record")
  /\ UNCHANGED <<payments, refundRow, settled, records, closed>>

Agrees(p) == Within(Total[Pays[p].order], Pays[p].amount)

\* reconcile_payment finds only the records whose scope starts with "payment": the
\* one of a mismatch starts with "finance".
Found(p) == booked[p] > 0 /\ Agrees(p)

FindRecord(c) ==
  /\ At(c, "find_record")
  /\ IF Found(call[c].id) THEN Leave(c) ELSE Goto(c, "book")
  /\ UNCHANGED <<payments, mapped, refundRow, settled, records, closed>>

ReconcilePayment(c) ==
  /\ At(c, "book")
  /\ booked' = [booked EXCEPT ![call[c].id] = @ + 1]
  /\ Leave(c)
  /\ UNCHANGED <<observed, mapped, refundRow, settled, records, closed>>

-----------------------------------------------------------------------------
(* ingest_settlement_batch.                                                *)

\* A batch that is known is returned, however much of it was ingested.
IngestBatch(c) ==
  /\ \E b \in Batches \ batch : Start(c, [Free EXCEPT !.pc = "put_batch", !.id = b])
  /\ UNCHANGED <<payments, mapped, refundRow, settled, records, closed>>

PutBatch(c) ==
  /\ At(c, "put_batch")
  /\ batch' = batch \cup {call[c].id}
  /\ Goto(c, "entry")
  /\ UNCHANGED <<payments, mapped, refundRow, entry, whole, records, closed>>

\* The entry of the payload that is at hand.
Incoming(c) == Payload[call[c].id][call[c].at]
\* A reference resolves as what the entry is about.
Resolves(e) ==
  Entry[e].ref \in mapped \cap (IF Entry[e].type \in OrderTypes THEN Payments ELSE Refunds)
Seen(c) == \E i \in 1..call[c].at - 1 : Payload[call[c].id][i] = Incoming(c)
Advance(c) == call' = [call EXCEPT ![c].pc = "entry", ![c].at = @ + 1]

\* The look for a duplicate, and for the mapping of the provider's reference.
ReadEntry(c) ==
  /\ At(c, "entry") /\ call[c].at <= Len(Payload[call[c].id])
  /\ IF Seen(c) \/ entry[Incoming(c)] # None
     THEN Record(call[c].id, "DUPLICATE") /\ Advance(c)
     ELSE /\ call' = [call EXCEPT ![c].pc = "put_entry", ![c].resolved = Resolves(Incoming(c))]
          /\ UNCHANGED records
  /\ UNCHANGED <<payments, mapped, refundRow, settled, closed>>

\* The unique index decides a race that passed the look before it.
PutEntry(c) ==
  /\ At(c, "put_entry")
  /\ IF entry[Incoming(c)] = None
     THEN /\ entry' = [entry EXCEPT ![Incoming(c)] =
                         [batch |-> call[c].id, resolved |-> call[c].resolved]]
          /\ UNCHANGED records
     ELSE Record(call[c].id, "DUPLICATE") /\ UNCHANGED entry
  /\ Advance(c)
  /\ UNCHANGED <<payments, mapped, refundRow, batch, whole, closed>>

EndOfBatch(c) ==
  /\ At(c, "entry") /\ call[c].at > Len(Payload[call[c].id])
  /\ whole' = whole \cup {call[c].id}
  /\ Leave(c)
  /\ UNCHANGED <<payments, mapped, refundRow, batch, entry, records, closed>>

-----------------------------------------------------------------------------
(* reconcile_settlement_batch.                                             *)

ReconcileBatch(c) ==
  /\ \E b \in batch : Start(c, [Free EXCEPT !.pc = "list_entries", !.id = b])
  /\ UNCHANGED <<payments, mapped, refundRow, settled, records, closed>>

EntriesOf(b) == {e \in Entries : entry[e] # None /\ entry[e].batch = b}

ListEntries(c) ==
  /\ At(c, "list_entries")
  /\ call' = [call EXCEPT ![c].pc = "list_refunds",
                ![c].listed = EntriesOf(call[c].id), ![c].todo = EntriesOf(call[c].id),
                ![c].complete = call[c].id \in whole]
  /\ UNCHANGED <<payments, mapped, refundRow, settled, records, closed>>

ListRefunds(c) ==
  /\ At(c, "list_refunds")
  /\ call' = [call EXCEPT ![c].pc = "judge",
                ![c].refunds = {r \in Refunds : refundRow[r].status = "completed"}]
  /\ UNCHANGED <<payments, mapped, refundRow, settled, records, closed>>

\* _reconcile_charge: never compared with itself when nothing is configured.
ChargeVerdict(e) ==
  IF Entry[e].type \notin DOMAIN Expected THEN "REQUIRES_CONFIGURATION"
  ELSE IF Within(Expected[Entry[e].type], Entry[e].amount) THEN "MATCH" ELSE "DIVERGENCE"

\* A reference that was given and did not resolve is an error of its own.
WithoutReference(e) ==
  IF Entry[e].type = "refund" /\ Entry[e].ref = None THEN "EXTERNAL_ONLY"
  ELSE "UNRESOLVED_REFERENCE"

\* A fault of Verdict: a reference that does not resolve is passed over.
VerdictOfResolved(c, e) ==
  IF Entry[e].currency # Currency[call[c].id] THEN "DIVERGENCE"
  ELSE IF Entry[e].type \in ChargeTypes THEN ChargeVerdict(e)
  ELSE IF Entry[e].type = "adjustment" THEN "ADJUSTMENT_RECORDED"
  ELSE IF Entry[e].type \in OrderTypes /\ Entry[e].currency # Local THEN "DIVERGENCE"
  ELSE None

\* What the entry by itself is judged to be, or None.
Verdict(c, e) ==
  IF Entry[e].currency # Currency[call[c].id] THEN "DIVERGENCE"
  ELSE IF Entry[e].type \in ChargeTypes THEN ChargeVerdict(e)
  ELSE IF Entry[e].type = "adjustment" THEN "ADJUSTMENT_RECORDED"
  ELSE IF ~ entry[e].resolved THEN WithoutReference(e)
  ELSE IF Entry[e].type \in OrderTypes /\ Entry[e].currency # Local THEN "DIVERGENCE"
  ELSE None

TheEntry(c) == CHOOSE e \in call[c].todo : \A f \in call[c].todo : e <= f
Later(c, e) == call[c].todo \ {e}

JudgeEntry(c) ==
  LET e == TheEntry(c) IN
  /\ At(c, "judge") /\ call[c].todo # {}
  /\ Verdict(c, e) # None
  /\ Record(e, Verdict(c, e))
  /\ call' = [call EXCEPT ![c].todo = Later(c, e)]
  /\ UNCHANGED <<payments, mapped, refundRow, settled, closed>>

\* A payment is only noted: its order is judged once, after the entries.
TouchOrder(c) ==
  LET e == TheEntry(c) IN
  /\ At(c, "judge") /\ call[c].todo # {}
  /\ Verdict(c, e) = None /\ Entry[e].type \in OrderTypes
  /\ call' = [call EXCEPT ![c].todo = Later(c, e),
                          ![c].touched = @ \cup {Pays[Entry[e].ref].order}]
  /\ UNCHANGED <<payments, mapped, refundRow, settled, records, closed>>

JudgeRefund(c) ==
  LET e == TheEntry(c)
      ref == Entry[e].ref
      v == IF Within(-Refunded[ref], Entry[e].amount) THEN "MATCH" ELSE "DIVERGENCE" IN
  /\ At(c, "judge") /\ call[c].todo # {}
  /\ Verdict(c, e) = None /\ Entry[e].type = "refund"
  /\ Record(ref, v)
  /\ call' = [call EXCEPT ![c].todo = Later(c, e), ![c].pc = "read_refund",
                          ![c].row = ref, ![c].verdict = v, ![c].next = "judge"]
  /\ UNCHANGED <<payments, mapped, refundRow, settled, closed>>

\* _apply_refund_reconciliation_to_canonical reads the row and puts it whole.
ReadRefund(c) ==
  /\ At(c, "read_refund")
  /\ call' = [call EXCEPT ![c].pc = "put_refund", ![c].row = <<@, refundRow[@]>>]
  /\ UNCHANGED <<payments, mapped, refundRow, settled, records, closed>>

PutRefund(c) ==
  /\ At(c, "put_refund")
  /\ refundRow' = [refundRow EXCEPT ![call[c].row[1]] = [call[c].row[2] EXCEPT !.financial =
                  IF call[c].verdict = "MATCH" THEN "matched" ELSE "discrepancy"]]
  /\ call' = [call EXCEPT ![c].pc = call[c].next, ![c].row = None, ![c].verdict = None]
  /\ UNCHANGED <<payments, mapped, settled, records, closed>>

\* A fault of Contributing: the entries of the batch alone.
ContributingInBatch(c, o) ==
  {e \in call[c].listed : /\ entry[e].resolved
                          /\ Entry[e].type \in OrderTypes /\ Entry[e].currency = Local
                          /\ Pays[Entry[e].ref].order = o}

\* Every entry of the order that was ever stored, of whatever batch.
Contributing(c, o) ==
  {e \in Entries : /\ entry[e] # None /\ entry[e].resolved
                   /\ Entry[e].type \in OrderTypes /\ Entry[e].currency = Local
                   /\ Pays[Entry[e].ref].order = o}

\* Money of the entries of a set, unit by unit: what came in, what was taken back.
Credits(es) == UNION {{e} \X (1..Entry[e].amount) : e \in es}
Debits(es) == UNION {{e} \X (1..-Entry[e].amount) : e \in es}
Observed(c, o) ==
  Cardinality(Credits(Contributing(c, o))) - Cardinality(Debits(Contributing(c, o)))

\* reconcile_cumulative_settlement: final when the caller expects no more.
CumulativeVerdict(c, o, final) ==
  IF Within(Total[o], Observed(c, o)) THEN "MATCH"
  ELSE IF Observed(c, o) > Total[o] THEN "OVER_SETTLED"
  ELSE IF final THEN "UNDER_SETTLED" ELSE "PARTIAL_SETTLEMENT"

JudgeOrder(c) ==
  /\ At(c, "judge") /\ call[c].todo = {}
  /\ \E o \in call[c].touched, final \in BOOLEAN :
       /\ Record(o, CumulativeVerdict(c, o, final))
       /\ call' = [call EXCEPT ![c].touched = @ \ {o}]
  /\ UNCHANGED <<payments, mapped, refundRow, settled, closed>>

\* A completed refund is missing when no entry of this batch is about it.
IsMissing(c, r) ==
  ~ \E e \in call[c].listed :
      Entry[e].type = "refund" /\ entry[e].resolved /\ Entry[e].ref = r

JudgeMissing(c) ==
  /\ At(c, "judge") /\ call[c].todo = {} /\ call[c].touched = {}
  /\ \E r \in call[c].refunds :
       IF IsMissing(c, r)
       THEN /\ Record(r, "CANONICAL_ONLY")
            /\ call' = [call EXCEPT ![c].refunds = @ \ {r}, ![c].pc = "read_refund",
                          ![c].row = r, ![c].verdict = "CANONICAL_ONLY",
                          ![c].next = "judge"]
       ELSE /\ call' = [call EXCEPT ![c].refunds = @ \ {r}]
            /\ UNCHANGED records
  /\ UNCHANGED <<payments, mapped, refundRow, settled, closed>>

EndOfReconciliation(c) ==
  /\ At(c, "judge")
  /\ call[c].todo = {} /\ call[c].touched = {} /\ call[c].refunds = {}
  /\ closed' = IF call[c].complete THEN closed \cup {call[c].id} ELSE closed
  /\ Leave(c)
  /\ UNCHANGED <<payments, mapped, refundRow, settled, records>>

-----------------------------------------------------------------------------
(* execute_refund, from the provider's answer on.                          *)

ConfirmRefund(c) ==
  /\ \E r \in Refunds :
       /\ refundRow[r].status = "mutation_submitted"
       /\ refundRow' = [refundRow EXCEPT ![r].status = "external_confirmed"]
       /\ Start(c, [Free EXCEPT !.pc = "register", !.id = r])
  /\ UNCHANGED <<payments, mapped, settled, records, closed>>

RegisterRefundReference(c) ==
  /\ At(c, "register")
  /\ mapped' = mapped \cup {call[c].id}
  /\ Goto(c, "read_for_completion")
  /\ UNCHANGED <<payments, refundRow, settled, records, closed>>

ReadForCompletion(c) ==
  /\ At(c, "read_for_completion")
  /\ call' = [call EXCEPT ![c].pc = "complete", ![c].row = refundRow[call[c].id]]
  /\ UNCHANGED <<payments, mapped, refundRow, settled, records, closed>>

CompleteRefund(c) ==
  /\ At(c, "complete")
  /\ refundRow' = [refundRow EXCEPT ![call[c].id] = [call[c].row EXCEPT !.status = "completed"]]
  /\ Leave(c)
  /\ UNCHANGED <<payments, mapped, settled, records, closed>>

-----------------------------------------------------------------------------
FinanceStep(c) ==
  \/ MapPayment(c) \/ FindRecord(c) \/ ReconcilePayment(c)
  \/ PutBatch(c) \/ ReadEntry(c) \/ PutEntry(c) \/ EndOfBatch(c)
  \/ ListEntries(c) \/ ListRefunds(c) \/ JudgeEntry(c) \/ TouchOrder(c) \/ JudgeRefund(c)
  \/ ReadRefund(c) \/ PutRefund(c) \/ JudgeOrder(c) \/ JudgeMissing(c)
  \/ EndOfReconciliation(c)
  \/ RegisterRefundReference(c) \/ ReadForCompletion(c) \/ CompleteRefund(c)

FinanceBegin(c) ==
  \/ ObservePayment(c) \/ IngestBatch(c) \/ ReconcileBatch(c) \/ ConfirmRefund(c)

Crash(c) == ~ At(c, "idle") /\ Leave(c)
          /\ UNCHANGED <<payments, mapped, refundRow, settled, records, closed>>

\* Idle threads are interchangeable: what begins takes one of them.
Taken(c) == At(c, "idle") /\ c = CHOOSE d \in Calls : At(d, "idle")

FinanceNext ==
  \/ \E c \in Calls :
       begun < MaxBegun /\ begun' = begun + 1 /\ Taken(c) /\ FinanceBegin(c)
  \/ \E c \in Calls : (FinanceStep(c) \/ Crash(c)) /\ UNCHANGED begun

FinanceSpec == FinanceInit /\ [][FinanceNext]_financeVars

-----------------------------------------------------------------------------
(* Properties.                                                             *)

\* What an order was paid through entries of a set.
PaidBy(es, o) ==
  {e \in es : /\ entry[e] # None /\ entry[e].resolved
              /\ Entry[e].type \in OrderTypes /\ Entry[e].currency = Local
              /\ Pays[Entry[e].ref].order = o}
ClosedFor(o) ==
  {e \in PaidBy(Entries, o) : entry[e].batch \in closed /\ Currency[entry[e].batch] = Local}

\* Money that comes twice is seen: when the batches of an order's payments have
\* been ingested to the end and then reconciled, in whatever order and by whatever
\* threads, and together exceed its total by more than all that was taken back
\* since, some verdict says so.
OverSettlementIsSeen ==
  \A o \in Orders :
    Cardinality(Credits(ClosedFor(o))) - Cardinality(Debits(PaidBy(Entries, o)))
      > Total[o] + Tolerance =>
    [about |-> o, result |-> "OVER_SETTLED"] \in records

\* Nothing in a batch passes unseen: once it has been ingested to the end and then
\* reconciled, each entry of it has a verdict, by itself, through its order or its
\* refund, or the batch has a duplicate and the entry is another batch's.
Judged(x) == \E r \in records : r.about = x
EveryEntryIsJudged ==
  /\ FinanceTypeOK
  /\ \A b \in closed : \A i \in DOMAIN Payload[b] :
       LET e == Payload[b][i] IN
       IF entry[e].batch # b THEN [about |-> b, result |-> "DUPLICATE"] \in records
       ELSE \/ Judged(e)
            \/ /\ Entry[e].type \in OrderTypes /\ entry[e].resolved
               /\ Judged(Pays[Entry[e].ref].order)
            \/ Entry[e].type = "refund" /\ entry[e].resolved /\ Judged(Entry[e].ref)
=============================================================================
