# Sanocea Commerce OS: a TLA+ model of its core

This directory holds TLA+ specifications of the part of Sanocea that moves
stock, money, orders, purchase orders, product drafts and the owner's
decisions, the TLC configurations that check them on small instances, and
proofs that the TLA+ proof system checks for instances of every size.

Sanocea is a multi-merchant back office for online shops.  Orders arrive as
webhooks from storefronts, stock is reserved, fulfilments, cancellations,
returns and refunds follow, purchase orders go to suppliers, mails with product
files become drafts and listings, and whatever the merchant's policy does not
allow by itself waits for the owner, who answers over WhatsApp or in the Command
Center.  All canonical records are rows of PostgreSQL
(`packages/domain_contract/postgres_store.py`); most API handlers are
synchronous FastAPI functions and run in a thread pool, and workers and
subscribers are processes of their own, so any two calls may run at the same
time, and every call of a store method is a transaction of its own.  That is the
shape of every model here: a store method is one step, a service operation is
the sequence of its store and connector calls, and between any two of them
another thread may run or the process may die.

Sections: 1 the system, 2 the modules, 3 the runs, 4 the proofs, 5 what the
models show about the code, 6 what is left out, 7 the plan.

## 1. Inventory of the system

| Component | State | Operations | What is hard, what makes it correct | Module |
|---|---|---|---|---|
| Reservation ledger (`domain_contract/postgres_store.py`, `models.py`) | `Inventory` rows (quantity, sellable, quarantine, reserved, available), `InventoryReservation` rows | reserve a line, reserve an order, release, consume, quarantine, release quarantine, adjust | Two representations of one number (the aggregate and the rows that own it), a cache kept by deltas, floors at zero; no unit promised twice, none lost | `InventoryLedger`, `StockPool`, `LedgerRefinement` |
| Order ingress (`shopify_live/connector.py`, `workers/workflow/*`) | `Order`, `OrderLine`, `ExternalMapping`, `WorkflowExecution`, webhook keys | webhook, resync, start or signal, advance | Late, repeated and reordered webhooks, times compared as texts, row and lines in two steps; no update lost, a paid order reserved | `OrderIngress` |
| Order allocation (`post_order/operations.py`, `allocation.py`) | `reserve_inventory` commands; what a call has read | `reserve_inventory_for_order` | Heuristic reads that are stale when used, concurrent webhooks of one order, death between reservation and marker; an order is never split | `Allocation` |
| Order lifecycle (`post_order/operations.py`) | `Order`, `Cancellation`, `Return`, `Exchange`, observations | fulfil, cancel, parcel back, return, exchange, approved shortage, restock | Whole-row puts of stale orders, claims followed by several steps, restock markers written after the stock; one execution of a cancellation, no lost restock | `OrderLifecycle` |
| Refunds (`post_order/operations.py`) | `Refund` rows, commands, exceptions | request, evaluate for a return, approve, execute, recover, reconcile | Shared capacity of one order, lost answers, retries, placeholder statuses; never more than the total, never "completed" without a payment, never above the limit without approval | `Refunds` |
| Idempotent mutations (`idempotency/service.py`, `connector_sdk/base.py`) | idempotency records | `run_once` | Waiting for a result another thread is producing, release on failure, death while reserved | in `Refunds`, `Procurement`, `OrderLifecycle`, `ChannelOps`, `EmailIngress`, `OrderIngress`, `Publication` |
| Recovery worker (`workers/reconciliation_worker.py`) | exceptions, escalations | one pass every interval | Bounded retries, the provider is read first | in `Refunds`, `Procurement`, `OrderLifecycle` |
| Procurement (`procurement/operations.py`) | purchase orders, lines, acknowledgements, shipments, receipts | draft, approve, submit, acknowledge, ship, receive, close | Uncertain submission, stale approvals, sequence numbers out of order, receipt and stock in two steps | `Procurement` |
| Approvals, owner notification (`approvals/service.py`, `notifications/*`) | `Approval` rows, the conversation row | create, send, hold back, resolve, dispatch, notify next; menu, resume, choice, price, questions | Check-then-put from two channels, redelivered messages, whole-row puts of one conversation, death before dispatch | `OwnerDecisions`, `OwnerConversation` |
| Channel operations (`channel_ops/service.py`, `prospect_demo/reset.py`) | an operation per draft and channel, the tenant's generation | run, ask, resume, reset | Generation compared before the write, not with it; two resolutions; store errors | `ChannelOps` |
| Email ingress, Gmail watch (`email_ingress`, `gmail_watch`) | checkpoint, idempotency records | notify, list, fetch, post, ingest, renew | Checkpoint against gaps and repetitions, two processes that die, lost answers | `EmailIngress` |
| Product onboarding (`product_onboarding/*`) | drafts, facts, variants, questions | ingest, merge, validate, ask, answer, resolve, approve, publish | Evidence in any order, rows put back whole, a queue of one question, publication in several requests | `Catalogue`, `Publication` |
| Finance (`finance/operations.py`) | payments, settlement entries, verdicts | observe, ingest, reconcile | Insert-if-absent beside unprotected reads, batches that share entries, deaths in mid-batch | `Finance` |
| Inventory synchronisation (`observe_inventory`, the connectors' catalogue sync) | a process-local cache of `Inventory` rows | observe, put the whole row | A put row overwrites the reservations made since | not modelled |
| Policy engine, API, authentication, audit | configuration, keys, log | evaluate, route, append | Pure, or append only; policy outcomes are constants | not modelled |
| Connectors | external | fetch, execute | Lost answers and rejections: modelled where a module meets them; the Shopify connector in `OrderIngress` and `Publication` | partly |
| Customer support, outreach gate, Tally, content engine, SEO stack, website | conversations, counters, vouchers, content | classify, check, export, generate | They call the operations above or none of them | not modelled |

How they interact: a webhook puts the order and starts or signals its workflow
(`OrderIngress`), which calls the allocation; allocation, fulfilment,
cancellation, exchange, receipt and restock all go through the methods of the
ledger; a shortage, a refund, a cancellation, a purchase order and a listing may
each wait for an approval, and `ApprovalService.resolve` dispatches them
(`OwnerDecisions`); the owner's messages reach it through the conversation
(`OwnerConversation`).  A return that is accepted evaluates its refund.  Refunds,
cancellations, submissions and publications go through `run_once` to a
connector; what times out raises an exception record, which the worker scans.
A mail becomes an ingestion, an ingestion drafts, a ready draft a channel
operation and a publication.

`PROJECT.json` lists the hazards this code has, at their lines, each with the
properties that would catch it going wrong.

## 2. The modules and the code

Conventions.  A request thread, a worker's pass or a callback is a *call*: a
record with a program counter `pc` and what the call has read and still holds.
Every action is one store, connector or provider call with the code up to the
next one.  A put writes the row the call holds, whole; only the methods that
lock or compare do more.  `Threads` has what `Refunds`, `Finance`, `Publication`
and `Catalogue` share of this: the threads, their program counters (`At`, `Goto`,
`Start`) and the count of calls begun.  `Die`, `Crash` or `Raise` ends a call between two
steps.  `begun`, `faults` and the like only bound the runs (`MaxBegun`,
`MaxFaults`, `MaxInflow`, ...).  Variables whose comment begins "history" are
not in the program; no guard reads them.  Operators whose comment begins "A
fault of" are not used by the specification: they are the mutants.

### InventoryLedger, StockPool, LedgerRefinement

One record per SKU and location (`inventory`), one per order line
(`reservation`), since the line is the idempotency key of its reservation.

| Action | Code |
|---|---|
| `ReserveInventory` | `reserve_inventory_atomic`: as much of a line as there is |
| `ReserveOrderLines` | `reserve_order_lines_atomic`: all lines at one location, or nothing |
| `ReleaseReservation`, `ConsumeReservation` | `adjust_reservation_atomic`, its two modes, the amount clamped to what is outstanding |
| `Quarantine`, `ReleaseQuarantine` | the two quarantine methods; the first turns `sellable` from "derived" into a number |
| `AdjustInventory` | `atomic_adjust_inventory` as goods receipts and restocks call it |

The row updates are operators of their own (`Reserved`, `GivenBack`, `Shipped`,
`Received`, `Quarantined`): the properties are about how these deltas, written
in different methods, fit together.  Left out: `in_transit`, which no code
assigns; `confirmed_inbound`, which no operation of the ledger reads; the
reservation status, which is derived.

`StockPool` is the abstract promise: a claim on units of a slot is granted once,
within what the slot has and no earlier claim holds (`Free`), then returned or
shipped.  Claims granted together are measured one by one, as
`reserve_order_lines_atomic` measures the lines of an order: an order that names a SKU
twice can be promised more than there is.  `LedgerRefinement` maps the ledger to it
(`PoolClaim`), for behaviours without a quarantine and orders of any lines.

### Allocation

Extends the ledger by request threads (`thread`) and the commands that mark an
order as handled (`marker`).  Each step is one store call of
`reserve_inventory_for_order`: the replay check, one heuristic read per location
(`ReadCandidate`, `TotalAts`), one attempt per ranked location
(`AttemptSucceeds`, `AttemptConflicts`, `AttemptInsufficient`), the re-read
after a conflict, or one partial reservation per line on the path with an
explicit location; then the check for a marker and its put, which are two steps.
`Preferred` is the sort key of `rank_candidate_locations`.  `Environment` is what
the rest of the system does to the ledger in the meantime.

### OrderIngress

One order of the storefront with a history of `Updates`.  A webhook carries the
time of its update as the shop wrote it (`LocalText`), a resync gets UTC (`UtcText`);
both are compared as texts.  `zone` is the shop's, an offset from UTC at each update:
ahead of it or behind, and with clocks that may change between two updates.

| Actions | Code |
|---|---|
| `IngestWebhook`, `ReserveKey`, `WaitForResult`, `Complete`, `Raise` | `ingest_webhook` under `run_once` |
| `ResyncOrder` | `resync_order` |
| `ReadOrder`, `PutOrder`, `PutMapping`, `PutLines` | `_upsert_order`; every update that is not stale appends its lines again |
| `FindExecution`, `PutExecution` | `start_or_signal_order` |
| `Advance` to `PutStep`, `EvaluateShortage` | `_advance` of the orchestrator with `reserve_inventory_for_order`, whose search for a location is `Allocation` |

History: `applied` (updates some call put), `resynced` (those a resync put), `putBy` (the call that put the row
and has not answered), `empty` (a reservation found the order without lines).

### OrderLifecycle

Extends the ledger by the life of one order after its allocation.  A request
thread holds the Order row it read; a put writes that row back whole, so what
another thread put in between is lost (`Fulfil`, `CancelOrder`).

| Actions | Code |
|---|---|
| `Allocate` | the outcome of `Allocation`, whole or partial; nothing orders it before the rest |
| `MonitorFulfilment`, `Fulfil`, then `Consume` per line | `monitor_fulfilment`, `_consume_order_fulfilment` |
| `CreateShipment` | `create_or_observe_shipment`; after a lost answer the shipment exists and its row does not (`known`) |
| `RequestCancellation`, `CreateCancellation`, `DecideCancellation`, `Approve`, `Reject` | `evaluate_cancellation`, `approve_cancellation`, `reject_cancellation` |
| `ExecuteCancellation` to `Claim`, `NoShipment` to `CancelFails` | `execute_cancellation`, its claim, and `cancel_shipment` under `run_once` |
| `ReadBack`, `ResolveSucceeded`, `ResolveNotApplied`, `ResolveUnknown`, `RecoverCancellation` | `_cancellation_read_back`, `_resolve_cancellation_uncertainty`, inline and in `recover_cancellation_mutation` |
| `CancelOrder`, then `Release` per line | the end of `execute_cancellation` |
| `RequestReturn`, `CreateReturn`, `InspectReturn`, `IngestTracking` | `evaluate_return`, `progress_return`, `ingest_tracking` of a parcel that came back |
| `ListReservations`, `CheckRestock`, `Adjust`, `Mark` | `_restock_order_reservations`: marker looked for, stock added, marker put, three transactions |
| the exchange actions | `evaluate_exchange`, its reservation, `complete_exchange`, `cancel_exchange`; all exchanges of an order share one reservation key |
| the shortage actions | `resume_inventory_shortage`, which fulfils what is reserved after the owner approved |

### Refunds

Calls follow `evaluate_refund`, `evaluate_return_refund`, `approve_refund`,
`execute_refund`, `recover_refund_mutation` and the worker's pass.  The payment
provider is the set of business keys it has paid (`paid`): a known key is
answered without a second refund, an answer may be lost before or after the
refund was made, a refund may be rejected, and the lookup that follows may fail.
`run_once` is `ReserveKey`, `ReplayResult`, `WaitExpires`, `CompleteKey` and
`ReleaseKey`; a call that dies inside leaves the key reserved for ever, as the
code does.  A put of a refund the call read earlier is a plain write of the
status; only `_resolve_refund_uncertainty` uses a compare-and-swap.  The order is
paid and in a permitted state, so only the amount and the limit decide
(`AboveLimit` is what the policy says above it).  History: `submitted` (refunds and the
keys they were executed with) and `paidFor` (for which refund the provider made the one
of a key).

### Procurement

One purchase order.  `supplier` counts the orders that exist there.

| Actions | Code |
|---|---|
| `CreatePurchaseOrder`, `ValidatePurchaseOrder` | `create_purchase_order`, `validate_purchase_order` with the policy's authority |
| `ReadForApproval`, `ApprovePurchaseOrder`, `ResolveApproval` | the two ways an approval reaches the row |
| `SubmitPurchaseOrder` to `SupplierRejects`, `FindPurchaseOrder` | `submit_purchase_order` under `run_once`, with the read-back after a timeout |
| `RecoveryPass`, `ReadForRecovery`, `ReadSupplier`, `Resubmit`, `SettleExceptions` | the worker's pass over uncertain submissions |
| `DeliverAck` to `ConfirmOrder` | `record_supplier_acknowledgement`, per line `atomic_apply_acknowledgement` |
| `DeliverShipment` to `ShipLine` | `record_inbound_shipment` |
| `DeliverReceipt` to `AdvanceStatus` | `record_goods_receipt`: the line, the stock, the status |
| `ReconcilePurchaseOrder` | closing |

`EventsCountOnce` compares quantities with the number of units (`Units`) that the
recorded events have for a line; the units of an event are its line items times their
quantities.

### OwnerDecisions, OwnerConversation

`OwnerDecisions` has the approvals: creation of a shortage's approval, which is
sent or held back when another waits, `send_approval`, `resolve` with its check,
put, dispatch and the notification of the next, from the Command Center or for a
message.  `OwnerConversation` extends it by `handle_inbound`: the message's
idempotency record, the one `WhatsAppConversationState` row every handler reads
and puts, and what the words lead to: menu, resume, disambiguation, decision,
price edit, and the questions of product onboarding.  The ghosts `missed`,
`redecided` and `raised` name the failures the properties except.

### ChannelOps

`Plan` is what each channel does with a draft (publish, ask, hold, give up);
`Thread(c)` runs the drafts of a channel in order under `run_once`;
`Resolving(k)` is a resolution of an approval that resumes one operation;
`DeleteRows` and `PutMerchant` are the two transactions of a reset.  The store may fail
at every call: in the work of an operation (`Broken`) the handlers end it FAILED
(`Raise`), anywhere else nothing catches the exception (`StoreFails`) and the thread is
"failed" where it stood.  A thread compares the generation before it writes (`CheckGeneration`, `Recheck`), not in
the write.

### EmailIngress

Threads of the subscriber (`ThreadStep`) take notifications, hold the lock
around the checkpoint, list the history, reserve and fetch each mail, post it and
wait; requests of the server (`RequestStep`) route and ingest under a second
key, and an ingestion may raise before its effect or after it and release its key
(`IngestFails`), or fail to complete it (`CompletionFails`); `RenewWatch`, `SaveRenewal`, `HistoryExpires`, `SubscriberDies`,
`ServerDies`, `ConnectionBreaks` are what happens beside them.

### Catalogue, Publication

`Catalogue`: files of several suppliers become drafts (`DraftsOf`), are matched
by identity (`Identities`, `Matches`), merged fact by fact (`MergedFact`) and
variant by variant (`Reconciled`), validated (`Validate`), completed by AI or
asked about one at a time; answers, resolutions and approvals put their rows
back whole.

| Actions | Code |
|---|---|
| `BeginIngest`, `Merge`, `Create` | `ingest_file`: the drafts are listed once, each draft of the file is merged with the oldest that matches or is new |
| `PutRecommended`, `PutValidated` | the two passes over the drafts of the file, which `ingest_package` makes before it handles any |
| `HandleDraft`, `FillByAi`, `CheckQueue`, `SendQuestion` | `_handle_validated_draft`, `_has_outstanding_missing_field_notification`, `_auto_notify_missing_fields` |
| `BeginAnswer` to `PutAnswered`, `NotifyNext` | `_try_resolve_missing_fields` with `provide_missing_fact` per field, and `notify_next_missing_field_draft` |
| `BeginApproval`, `ReadForApproval`, `PutFactsApproved` | `approve_product_facts` |
| `BeginResolution`, `PutResolved`, `PutResolvedAgain` | `resolve_conflict` |
| `RecordDecision`, `RequireMore`, `Crash` | an operator's decision about identities, a change of `product_rules.required`, a death |

`Reconciled` states what a revision makes of each variant: it is stale when no row of
the revision matches it (`Matching`), and otherwise active with the last value given
for each field (`Latest`); rows that match nothing are new variants in their order
(`Added`).  The code computes it row by row, and matches against the variants as they
were before the first.  History: `heard` (what a draft's sources say), `current` (what its last
revision names), `overwritten`, `crossed`, `diverted` (the exceptions of the
properties).

`Publication`: one draft through policy and approval to the
storefront, where the product is looked for by its SKU and then set, then shown,
each attempt with keys of its own.

### Finance

Observation of payments, ingestion of batches entry by entry, reconciliation
per entry, per refund and cumulative per order, beside the execution of a refund
that writes the same rows (`refundRow`); every insert-if-absent and every read is a
step.  A sum of money is a number of units, those credited (`Credits`) less those
taken back (`Debits`).

## 3. What the runs check

Every run ends without an error.  Each property has a mutant of a definition of
the model (`PROJECT.json`, "mutants") that the run detects.

| Run | Question | Properties | States |
|---|---|---|---|
| `MCInventoryLedger` | Do the aggregate, the rows and the cache agree, is nothing oversold or lost, under every order of store calls? | `ReservedIsOutstanding`, `NeverOversold`, `AvailableIsAts`, `StockConserved` | 71,646 |
| `MCAllocation` | Is an order never split or partly allocated, is a "reserved" marker true, does the ledger implement `StockPool` under competing and dying calls? | `NeverSplit`, `ReservedMarkerIsTrue`, `ImplementsStockPool` | 222,283 |
| `MCOrderIngress` | Is no answered update lost but to one that is or reads later, and does a paid order get its units or its shortage asked? | `NoUpdateIsLost`, `PaidIsReserved` | 7,222,604 |
| `MCOrderLifecycle` | Is a cancellation executed once and never moved back, is stock released only by a completed one, does a restock marker imply the restock, does an exchange that ends hold nothing? | `ExecutedByOne`, `ReleasedOnlyWhenCancelled`, `MarkedWasRestocked`, `NeverRegresses`, `EndsHoldingNothing` | 828,829 |
| `MCRefunds` | Are returns within the total, is nothing confirmed without a payment of its key or executed without authority, does every call end? | `ReturnsWithinTotal`, `ConfirmedWasPaid`, `DirectRefundsAreAuthorized`, `CallsEnd` | 678,189 |
| `MCProcurement` | Is there one order at the supplier, authorized, and does every event count once? | `OneExternalOrder`, `SubmittedWasAuthorized`, `EventsCountOnce` | 1,590,000 |
| `MCOwnerConversation` | Does the conversation always wait about something, does a message decide once, is no shortage stranded, is what is called approved dispatched once? | `ContextHasObject`, `OneDecisionPerMessage`, `NeverStranded`, `ApprovedWasDispatched` | 1,041,295 |
| `MCEmailIngress` | Is an attachment ingested once but for ingestions that failed after their effect, does the checkpoint skip nothing, is no mail lost, does every delivery end? | `IngestedOnce`, `CheckpointCovers`, `NoMailLost`, `DeliveriesEnd` | 461,514 |
| `MCChannelOps` | Is a request carried out once, a held one only when granted, is nothing reopened, does every thread end, and what does it leave? | `PublishedOnce`, `HeldForOwner`, `NeverReopened`, `RunsEnd` | 125,775 |
| `MCFinance` | Is money that comes twice seen, does every entry get a verdict? | `OverSettlementIsSeen`, `EveryEntryIsJudged` | 2,040,000 |
| `MCCatalogue` | Do facts and variants follow the evidence, does nobody wait unasked? | `FactsReflectEvidence`, `ActiveIsTheRevision`, `NobodyWaitsUnasked` | 469,632 |
| `MCPublication` | Is what the owner is told true, is a draft listed once? | `AnswerIsTrue`, `ListedOnce` | 3,720,000 |

`CHECK_DEADLOCK FALSE` is set everywhere because the system may really stop: no
request has to arrive, and the bounded number of requests runs out.

### Bounds

* Ledger: two SKUs at one location, three lines of two orders that compete for
  one SKU, quantities up to 2 of 2 units, one unit of inflow per slot.  Slots do
  not interact, so one location shows what two would; partial reservations,
  partial settlements and every floor occur.  The proofs lift these bounds.
* Allocation: two SKUs, two locations, one unit each; one order of three lines, two of
  them of one SKU, that is allocated (it does reserve a unit twice) and one line that is
  reserved at a fixed location and competes for it; two symmetric calls; a unit that
  arrives at one slot, so that a read can be too pessimistic as well as too optimistic.
  Proved without bounds.
* Order ingress: three updates, the first two of one second; three zones, two units
  ahead of UTC, two behind, and one whose clocks go back before the last update; one
  unit of stock (the lines of two updates ask for more), a loop and an
  operator, four calls, one failure.  Proved without bounds.
* Order lifecycle: two lines of a unit each, two symmetric calls, four requests,
  two cancellations, two returns, exchanges of one line: enough for a
  cancellation to be requested, approved, fail and be recovered, or to be decided,
  executed and overtaken by a fulfilment.
* Refunds: one reason, so that two refunds of one amount share their key; total 2, amounts 1 and 2, limit 1: below and above the limit, and
  direct refunds that exhaust or exceed the total; two returns, two calls, three
  rows, four requests; two attempts of the worker.  Two reasons take longer than a run
  may; the theorems are for every set of them.
* Procurement: two lines of one SKU (so that a SKU is ambiguous), two
  acknowledgements, one shipment, two receipts, the second of which names the SKU;
  two calls, seven requests and deliveries, two attempts.
* Owner: two shortages and a requested approval, two messages of nine texts, two
  calls, one draft with two questions, three resolutions.
* Email: two mails, the second of which names two tenants; two threads, two
  requests, four deliveries, two deaths, exceptions, lost answers or expiries.
* Channel operations: one channel with two drafts, two resolutions, two faults
  (store errors, a restart), a reset at any time.  The other channels run the same
  code with another plan.
* Finance: one payment, one refund, a collection on delivery and a fee in two
  batches that share an entry; two calls, five requests.
* Catalogue: four groups of files (one product from four sources, products with
  gaps, barcodes, revisions of a style, one without SKUs), two calls, three requests,
  one decision about identities, one loss.  Proved without bounds.  Publication: one price, three policies, three
  requests, one fault.

Bounds stop requests from beginning and never a call that runs, except for
`MaxInflow` and the row bounds, which are chosen not to bind there.

### Fairness

Weak fairness of the steps of calls that run, and nothing else: `Refunds` (`Step`
of each call), `EmailIngress` (`ThreadStep`, `RequestStep`) and `ChannelOps`
(`Thread`, `Resolving`).  A thread of the pool that is runnable is scheduled, and
every wait in the code has a deadline.  No request, approval, mail or webhook has
to come, and deaths, errors and lost answers are never fair.

## 4. What is proved

Every component's specification has theorems, and every safety property of the runs
is one of them, for every value of the constants under the ASSUMEs of the modules.
Every proof has the same shape: an inductive invariant that says of each call what it
has read and may still rely on, a frame lemma for the calls that do not move, one lemma
per action, and temporal theorems that combine them.  TLC checked each of these
invariants on the runs' instances before it was proved.

**`LedgerProofs`** has the ledger and the two specifications that extend it, first
the ledger (`Invariant`, `TypeCorrect`, `SettledOnce`, `AggregateIsOwned`,
`NoOversale`, `CacheIsAts`, `UnitsConserved`) and the allocation
(`AllocationInvariant`, `OrdersAreNeverSplit`, `MarkersAreTrue`,
`LedgerImplementsPool`, `AllocationRunsTheLedger`, `AllocationImplementsPool`).

None of the ledger's properties is inductive alone: that `reserved` never goes below
what is owned needs that no reservation is settled twice; that the floors never bite
needs both; that `available` follows the formula needs that the slot is not oversold,
and so does conservation, since a shipment floors the quantity at zero.  `IInv` is
their conjunction slot by slot.  A sum over reservations is the cardinality of a set
of units (`Units`), so no recursion is needed: an operation moves an interval of units
of one line and leaves the other slots alone.  Two conditions are part of the
properties and not assumptions, because the code does not guarantee them:
`OneLinePerSku` (an order with two lines of one SKU checks each line by itself and
can reserve more than there is) and `Unquarantined` (after the first quarantine
`sellable` is a number that shipments and receipts do not maintain).

Of the allocation, `LinesGood` says that an order's reservations are together at one
location when it is allocated automatically; `ThreadGood` what a call may conclude from
its last read, given that only calls of its own order insert reservations;
`MarkerGood` follows.  The refinement maps every step of the ledger without a
quarantine to a step of `StockPool`: a reservation to `Grant`, a release to `Return`,
a consumption to `Ship`, an adjustment to `Receive`.  It does not rest on `OneLinePerSku`: every line, alone or
with others of its order, is measured against what its slot has free, which is what
`Grant` asks.  The allocation's behaviours never quarantine, so they implement the pool
as well.

Then the lifecycle of an order (`LifecycleInvariant`, `CancellationsRunOnce`,
`ReleasesAreFinal`, `RestocksWereMade`, `CancellationsNeverRegress`,
`EndedExchangesHoldNothing`).  `LInv` does not rest on the ledger's sums: `RowGood`,
what one reservation may still lose and that nothing is left of it once something was
consumed, and `CallGood`, what each call has read and settles, are enough.
`OneExecutor` says that the cancellation of an executing call is "completed" and that
the call is alone with it, `ReleaseIsFinal` that behind a release nobody is left who
could turn the cancellation uncertain.  `StockAdded` counts, for each line, the flows
with a restock marker and the calls that have added the stock and not yet put theirs:
without the second the put of a marker has nothing to rest on.  `Sequenced` and
`Returning` keep a new row from falling on an old one, and `EndingGood` says that a
call that ends an exchange has settled its unit first.  The last two theorems are
action properties.

**`OrderIngressProofs`** (`IngressInvariant`, `IngressTypes`, `UpdatesSurvive`,
`PaidOrdersAreServed`).  `RowsTrue` and `TextsTrue` say that the texts of rows and calls
are one of the two texts of the updates they show, UTC only where a resync put it; an
update that is dropped is then older than one that was put, or reads earlier than it.
Nothing is assumed of the zone.  `PInv` says that what a marker or a call claims
of a reservation is true of the order, that the call whose row it is answers for a
paid order only when it is settled, and that without failures a paid order at
"received" has a call that still owes its step.

**`MoneyProofs`**.  Refunds first (`RefundsInvariant`, `RefundsTypes`,
`ConfirmedRefundsWerePaid`, `DirectRefundsNeedAuthority`, `ReturnRefundsWithinTotal`).
`CallGood` and `RowGood` follow a refund through the calls that hold it, `KeysPaid` says
that a completed key was paid, for one of the refunds that were submitted with it; what a
call confirms its refund with is the key it submitted it with.  The sum of the returns' refunds is again the cardinality
of a set of units.  `ReturnRefundsWithinTotal` assumes that the policy above the limit is
not DENY, and has to (section 5).

Then Finance (`FinanceInvariant`, `OverSettlement`, `EveryEntry`).  No step takes back a
batch, an entry or a verdict (`BooksGrow`).  `WholeIsPresent` says that of a batch that
was ingested to the end each entry is stored, or another batch's and called a duplicate.
`Accounted` says of a reconciliation in flight that each entry it has left behind has a
verdict, or belongs to an order it will still judge; hence `ClosedIsJudged`, from which
`EveryEntry` follows.  For `OverSettlement` the entries that count as passed for an order
are those of closed batches and those that a pass has left behind after it judged the
order (`PassedFor`): their units fit the total and the tolerance, or an OVER_SETTLED
verdict exists (`Fits`, `OverSeen`).  A pass judges an order by everything that is
stored for it, of whatever batch (`Contributing`), so when what has passed with its
step would not fit, its verdict is OVER_SETTLED.  Assumed are that entries are finitely
many (the rows of files) and that `None` is none of the values.

**`ProcurementProofs`** (`ProcurementInvariant`, `OneOrderAtTheSupplier`,
`OrdersWereAuthorized`, `EventsAreCounted`, `EventsAreCountedOnce`).  Every row a call
holds is one the order had (`Genuine`), so a stale put cannot invent an authority or
lose the external reference; `ScanTrue` and `NothingElse` say what the read-back of the
supplier may conclude.  `CInv` counts: what was confirmed, or came into the stock, of a
line is at most the units of the recorded events less those that calls have still to go
through (`Confirmed`, `Stocked`, `LineCounted`); the confirmed count of a line that a call
read and will put is bounded the same way (`CallCounted`), and each event has at most one
call that goes through it (`OneEach`), since only the call that inserted its row does.
The contents of an event are assumed to be finite.

**`ChannelOpsProofs`** (`ChannelOpsInvariant`, `RequestsPublishedOnce`,
`HeldWaitsForOwner`, `SettledNeverReopened`).  `CountGood` counts what was executed
and the workers about to execute against the key's record, the failures and the
resets, wherever the store refuses; `OrderGood` says that a row whose draft is still ahead of the thread is
unanswered.  `SettledNeverReopened` is an action property.

**`EmailIngressProofs`** (`EmailIngressInvariant`, `AttachmentsIngestedOnce`,
`CheckpointNeverSkips`, `MailsArrive`).  Only the thread under the lock moves the
checkpoint (`CursorGood`, `CallGood`); what is below it is completed, noted as a
named failure, or had expired; `OneIngests` and `IngestKeysGood` tie an ingestion to
the one request that holds its key, or to a failure that gave the key back after the
effect (`failedLate`).

**`OwnerConversationProofs`** (`OwnerInvariant`, `RepliesHaveAnObject`,
`MessagesDecideOnce`, `ShortagesAreReleased`, `DecisionsAreCarriedOutOnce`).  The
oldest pending approval and the next step of a message are CHOOSEs over an order, so
`SortedExists` and `SmallestExists` first show, by ranks that are cardinalities, that
what they choose exists.  `HasObject` says that the conversation row has the object it
waits about, of every row a call holds as well, because every put is of a whole row;
`NobodyForgotten` that while nothing was missed a shortage that was held back has a
pending approval ahead of it that was sent, or a call that still owes the step that
releases it; `DispatchOnce` counts the dispatches of an approval against its row and
the calls that are about to dispatch it; `MessagesGood` that the message of a call
that has not decided has no decision yet.

**`ProductProofs`**.  The publication first (`PublicationInvariant`, `AnswersAreTrue`,
`DraftsAreListedOnce`).  `Placed` says what a call holds at each place it can be at,
`Right` what a call that is about to answer may say: a completed key of a publication
means that its product was set, and unless the merchant deleted something while the
call ran it is still there.  `Undisturbed`, what holds as long as no two publications
overlapped, says what the only one that runs knows of the storefront (`Alone`); it
lists the draft again only when it looked for the SKU and found nothing.  `Tallied`
bounds the attempts by the calls that began and the products by the attempts, which
is what gives each attempt a key nobody used.  It needs `MaxBegun` positive (ingestion
is the first call) and `None` outside the rows.

Then the drafts (`CatalogueInvariant`, `FactsReflectEvidenceAlways`,
`ActiveIsTheRevisionAlways`, `NobodyWaitsUnaskedAlways`).  Calls change copies of rows, so
the invariant is about the rows that calls hold as well as those of the store.  It has
four parts.
* `Shape`: rows and calls have their form; a call holds what it read (its `mine` is its
  `base` but for a resolution on its way), and the drafts an ingestion has validated have a
  fact that is missing for each field they lack (`Checked`).
* `Evidence`: a fact of a row that nobody overwrote is missing exactly when nothing was
  heard about it, has a value that was heard, and is in dispute exactly when two values were
  (`Backed`).  A put either finds the row that the call read, of which this is known, or
  the row counts as overwritten.  That two values were heard (`Various`) is turned into
  the property's cardinality at the end.
* `Lineups`: the active variants and the last revision name each other (`Revised`).  The
  lemmas about `Reconciled` need that what `InOrder` and `Last1` choose exists, which is
  shown from the ranks of the members of a finite set of numbers.
* `Queue`: while nothing was overwritten, no draft that a call holds has facts its row
  does not have (`Grown`), and while nothing was diverted each incomplete draft can be asked
  about and is seen to (`Attended`): by the call that will still validate it or ask about
  it, by an answer under way, or by a question that is out.  A draft is left to the
  question that is out when its own call looked and found it (`CheckQueue`); that
  question ends with an answer, whose call passes the turn on.

What is assumed about the constants is the form of the files: rows that are records of
the known columns, prices that are cells or words, no file without a row, an answer for
each field, and `None` none of the values.

Out of the prover's reach and only model-checked: `CallsEnd`, `DeliveriesEnd` and
`RunsEnd` (liveness under fairness).

### What the proofs changed

Some properties that held on the runs' instances were not true, and the attempt to prove
them showed it.  A marker of `OrderIngress` that says "nothing" may be overwritten
(section 5).  Of the catalogue all three properties had to be corrected to what the code
does:
* an answer to a question does not end a dispute (`provide_missing_fact` keeps
  `has_conflict`), so only a resolution sets `heard` back, and the answer joins what was
  heard;
* after a revision an active variant need not be *equal* to a row of it: a row without a
  SKU or without an option keeps what the variant had.  Each row fits an active variant and each
  active variant fits a row (`Fits`); and two rows that match one variant except a draft
  until its next revision, not for ever;
* a draft that is CONFLICTED can hold the queue as one that is INCOMPLETE does, with a
  question that is out, or without one when it is first in the queue and lacks no field.
  `NobodyWaitsUnasked` no longer excepts every state with a CONFLICTED draft; only that
  one step of `NotifyNext` counts as a diversion.

## 5. What the models show about the code

Properties hold with the exceptions they name.  These are the behaviours behind
the exceptions, and others met while modelling; each is a behaviour of the model,
traced to the lines.

Stock and orders
* A reservation of a slot that was quarantined may take more than is available:
  `sellable` is a number from then on, and shipments and receipts leave it alone.
* Two concurrent calls for one order do not always converge: the loser of the
  conflict may report a shortfall for an order the other has fully reserved.
* The rows that synchronisations put (`sync_catalog_and_inventory`,
  `observe_inventory`'s process cache) carry a `reserved` of zero or of an earlier
  read and overwrite the ledger's.
* A cancellation may release units that a fulfilment put in between has shipped;
  two inspections of one return may both find no marker and restock twice.
* `resume_inventory_shortage` counts `quantity_reserved`, which a release never
  reduces, ignores the order's status (its docstring, `operations.py:549-552`,
  says otherwise), puts an order it read earlier, and never consumes what it
  fulfils.
* Exchanges of an order share one reservation: cancelling one releases another's
  unit; a completion that races a cancellation ends "completed" with nothing
  shipped; a death after the reservation leaves a unit held behind an earlier row.
* Two lines of one SKU in an order (`operations.py:195-198` allows them, and a repeated
  update makes them) are checked each by itself by `reserve_order_lines_atomic`, which
  may then promise more than there is; the shipment of the last one finds an empty shelf.
* Order ingress: `updated_at` is compared as text.  A resync stores UTC, webhooks carry
  the shop's zone: in a shop behind UTC a webhook within the offset after a resync, and
  anywhere one within the hour after the clocks go back, reads earlier than what is
  stored, is dropped, and its key is completed, although the comment at
  `connector.py:298-300` says that only a strictly older one ever is.  Updates of one second may
  regress; every update that is not stale appends its lines again
  (`connector.py:342-349`); a resync between a row and its lines marks the order
  reserved with nothing for ever; a marker "nothing" may be overwritten by a
  "shortfall" whose call dies before it asks, which leaves a paid order neither
  reserved nor asked about (the proof of `PaidOrdersAreServed` found this: an
  earlier form of `PaidIsReserved` trusted the marker); a death between the order
  and its mapping leaves an orphan and makes a second order; overlapping calls
  overwrite each other's row and reset its workflow; a crash leaves the webhook's
  key reserved.  In the WooCommerce and BigCommerce connectors updates of one
  second are ignored, and an exception between row and lines is never repaired.

Money
* Refunds of one amount and reason of an order share a business key of the provider:
  the second is answered with the first and is called confirmed, although nothing was
  paid for it.  `ConfirmedWasPaid` says so (`SharesKey`).
* A return's refund is visible as permitted before its policy decision is put, so
  another thread may execute it above the limit.
* With a policy that says DENY above the limit (`_refund_decision`,
  `operations.py:1594-1607`, accepts it), a claim that is corrected to "denied" while
  another call executes it frees capacity that is being spent: the returns exceed
  the total, which the docstring at `operations.py:1380-1385` excludes.
* An uncertain refund whose retry returns at once is neither settled nor counted
  and stays uncertain.
* Finance: a stale put of a Refund may overwrite its status; a crash in
  mid-ingest returns half a batch when it is delivered again; an unresolved
  reference is never resolved later; `reconcile_payment` books a mismatch at every
  delivery; a completed refund is reported missing when its entry came in another
  batch (`operations.py:353` against its comment).

Decisions
* Two resolutions that both read an approval pending put one over the other and
  dispatch twice, in spite of `resolve`'s docstring (`approvals/service.py:29-32`
  against lines 33, 36, 55, 61); `send_approval` may put a stale row over a
  decision.
* Channel operations: the reset may fall between the comparison of the generation
  and the write.  The comment at `channel_ops/service.py:151` says that a failing
  operation never crashes the run, but the store calls at 123, 136, 157 and 159 are
  outside the try and the audit of FAILED at 152 is inside the handler: an error there
  ends the thread, the operation stays QUEUED (or has no row) and the drafts after it
  have none (`LeftBehind`).  In the same way `resume` may raise at 566 and 567 behind an
  approved approval, which its comment at 514-519 rules out.  An approval whose audit
  fails stays stored and may be answered although its operation is FAILED.
* The approval of an operation is put before the row says APPROVAL_REQUIRED
  (`channel_ops/service.py:237`, 159): an owner who answers in between resumes a QUEUED
  row, which does nothing, and the operation then waits for ever.
* An email ingestion that raises after `ingest_file` has made drafts
  (`email_ingress/service.py:220`, then the audits and lists up to 338) releases its
  key, and a redelivery ingests the attachment again, although the comment at 182-186
  says that a replay collapses to one ingestion.
* A renewal of the Gmail watch sets the checkpoint and passes over mails.

Catalogue and publication
* A price cell with an integer counts as hundredths and the same digits in words
  as units (`provenance.py:82`).
* An ingestion puts rows it listed at its start over an owner's answer
  (`ingestion.py:130`, `169`); a conflicted draft without a missing field at the head of the queue
  blocks it: nobody is asked, and nothing starts the queue again until the next answer
  or ingestion (`workflow.py:319-333`); an owner's answer leaves a dispute about the field
  as it is; resolving a dispute about a SKU renames the draft; a SKU path that was
  decided DIFFERENT still merges (`ingestion.py:144`, against the comment in
  `identity.py:157`); two variants of a revision may match one.
* Publications of a draft that overlap list it twice (the docstring at
  `workflow.py:651-654` promises otherwise); `approve_publication` forces READY;
  `storefront_visible` is unbound when the step before it raises
  (`workflow.py:262-301`).

## 6. What is not modelled

In the modules that there are: texts of times that differ in their zone and in nothing
else (the same wall-clock second before and after the clocks go back); drafts of an
ingestion that raised half-way through `ingest_file`; failures of the store under the mail
subscriber's own records.

The API routes, authentication and audit (routing and an append-only log); parsing
of files, taxonomy, recommendations and enrichment; the AI's wording; the policy
engine (pure; its outcomes are constants); inventory synchronisation (a put that
overwrites the ledger, described above; with it the ledger's properties do not
hold, whatever else is true); the marketplaces other than Shopify and the reads of
the connectors; the supplier, payment and logistics simulators but for what their
callers meet; customer support, the outreach gate, the Tally export, the content
engine and the website; the simulation and workload scripts under `scripts/`,
which drive the program and are none of it.

## 7. Plan

Every safety property that the runs check is proved.  What is left is breadth: inventory
synchronisation, whose puts break the ledger's properties (section 5), and the
marketplaces other than Shopify.
