---------------------------- MODULE OrderIngress ----------------------------
(***************************************************************************)
(* One order on its way from the storefront to its reservation: the        *)
(* webhooks of its updates and the operator's resync                       *)
(* (connectors/shopify_live/connector.py), the workflow execution          *)
(* (workers/workflow/engine.py) and the orchestrator's step after it       *)
(* (workers/workflow/order_orchestrator.py).                               *)
(*                                                                         *)
(* A webhook may come late, again, or out of order; it carries the time of *)
(* its update in the shop's zone, while a resync gets it in UTC, and the   *)
(* two are compared as texts, so that the zone and a change of its clocks  *)
(* decide what is taken for old.  The API handles one webhook at a time,   *)
(* and operators' requests beside it.                                      *)
(*                                                                         *)
(* Left out: signatures, raw payloads, customers, audit; the search for a  *)
(* location, which is Allocation, and the policy on shortages.             *)
(***************************************************************************)
EXTENDS Integers, Sequences, FiniteSets, Functions

CONSTANTS
  Updates,       \* the order's states at the storefront, [time, financial], in order
  Zones,         \* zones a shop may have: the offset from UTC at each update
  Loops,         \* event loops of the API
  Operators,     \* threads of operators' requests
  Stock,         \* units there are; each line of an order asks for one
  MaxBegun,      \* bound: calls in a behaviour
  MaxFaults,     \* bound: exceptions and crashes
  None

\* What a reservation came to: of no lines, nothing, and that counts as reserved.
Results == {"reserved", "nothing", "shortfall"}
\* The current_step of a WorkflowExecution.
Steps == {"received", "inventory_reserved", "inventory_shortfall"}

ASSUME IngressAssumption ==
  /\ Updates \in Seq([time : Nat, financial : {"authorized", "paid", "refunded"}])
  /\ Updates # <<>>
  /\ \A i, j \in DOMAIN Updates : i < j => Updates[i].time <= Updates[j].time
  /\ Zones \subseteq [DOMAIN Updates -> Int]
  /\ Stock \in Nat /\ MaxBegun \in Nat /\ MaxFaults \in Nat
  /\ Loops \cap Operators = {}
  /\ None \notin Int \cup Loops \cup Operators \cup Results \cup Steps

VARIABLES
  current,      \* the storefront's state is Updates[current]
  zone,         \* the shop's zone
  key,          \* idempotency records of the webhooks
  mapping,      \* None or the Order the external id stands for
  order,        \* Order rows, in order of creation
  lines,        \* how many OrderLine rows each has
  execution,    \* current_step of its WorkflowExecution, or None
  reserved,     \* units its reservations hold
  marker,       \* its reserve_inventory ConnectorCommand, or None
  asked,        \* whether it has a shortage approval
  call,         \* what a call holds
  applied,      \* history: updates some call put
  resynced,     \* history: updates a resync put, with their time in UTC
  putBy,        \* history: the call that put the row and has not answered, or None
  empty,        \* history: whether a reservation of the order found no lines
  begun, faults

storefront == <<current, zone>>
allocation == <<reserved, marker, asked>>
history == <<applied, resynced, putBy, empty>>
bounds == <<begun, faults>>
vars == <<storefront, key, mapping, order, lines, execution, allocation, call, history, bounds>>

Calls == Loops \cup Operators
Versions == DOMAIN Updates
OrderIds == 1..MaxBegun

Outcomes == Results \cup {None}
Idle == [pc |-> "idle", version |-> None, text |-> None, id |-> None,
         lines |-> 0, outcome |-> None, look |-> None]

Places ==
  {"idle", "reserve_key", "wait", "read", "put_order", "put_mapping", "put_lines",
   "find_execution", "put_execution", "advance", "find_marker", "find_reserved", "reserve",
   "look_marker", "put_marker", "put_step", "ask", "complete"}

CallRows ==
  [pc : Places, version : Versions \cup {None}, text : Int \cup {None},
   id : OrderIds \cup {None}, lines : Nat, outcome : Outcomes, look : Outcomes]

TypeOK ==
  /\ current \in Versions /\ zone \in Zones
  /\ key \in [Versions -> {"free", "reserved", "completed"}]
  /\ order \in Seq([version : Versions, text : Int]) /\ Len(order) <= MaxBegun
  /\ mapping \in DOMAIN order \cup {None}
  /\ lines \in [OrderIds -> Nat] /\ reserved \in [OrderIds -> Nat]
  /\ execution \in [OrderIds -> Steps \cup {None}]
  /\ marker \in [OrderIds -> Outcomes] /\ asked \in [OrderIds -> BOOLEAN]
  /\ call \in [Calls -> CallRows]
  /\ applied \subseteq Versions /\ resynced \subseteq applied
  /\ putBy \in [OrderIds -> Calls \cup {None}]
  /\ empty \in [OrderIds -> BOOLEAN]

Init ==
  /\ current = 1 /\ zone \in Zones
  /\ key = [v \in Versions |-> "free"]
  /\ mapping = None /\ order = <<>>
  /\ lines = [i \in OrderIds |-> 0] /\ execution = [i \in OrderIds |-> None]
  /\ reserved = [i \in OrderIds |-> 0] /\ marker = [i \in OrderIds |-> None]
  /\ asked = [i \in OrderIds |-> FALSE]
  /\ call = [c \in Calls |-> Idle]
  /\ applied = {} /\ resynced = {} /\ putBy = [i \in OrderIds |-> None]
  /\ empty = [i \in OrderIds |-> FALSE]
  /\ begun = 0 /\ faults = 0

At(c, pc) == call[c].pc = pc
Goto(c, pc) == call' = [call EXCEPT ![c].pc = pc]
Return(c) == call' = [call EXCEPT ![c] = Idle]
Begin(c, v, text, pc) ==
  /\ At(c, "idle") /\ begun < MaxBegun /\ begun' = begun + 1
  /\ call' = [call EXCEPT ![c] = [Idle EXCEPT !.pc = pc, !.version = v, !.text = text]]

-----------------------------------------------------------------------------
(* The storefront.                                                         *)

Change ==
  /\ current < Len(Updates) /\ current' = current + 1
  /\ UNCHANGED <<zone, key, mapping, order, lines, execution, allocation, call, history, bounds>>

-----------------------------------------------------------------------------
(* ingest_webhook under run_once, and resync_order.                        *)

\* The times of an update as the two ways tell them, to the second; texts that
\* differ in the zone they name and in nothing else are taken for equal.
LocalText(v) == Updates[v].time + zone[v]
UtcText(v) == Updates[v].time

IngestWebhook(c) ==
  /\ \E v \in 1..current : Begin(c, v, LocalText(v), "reserve_key")
  /\ UNCHANGED <<storefront, key, mapping, order, lines, execution, allocation, history, faults>>

ReserveKey(c) ==
  /\ At(c, "reserve_key")
  /\ IF key[call[c].version] = "free"
     THEN key' = [key EXCEPT ![call[c].version] = "reserved"] /\ Goto(c, "read")
     ELSE Goto(c, "wait") /\ UNCHANGED key
  /\ UNCHANGED <<storefront, mapping, order, lines, execution, allocation, history, bounds>>

\* The stored result of an earlier delivery; without one the call fails.
WaitForResult(c) ==
  /\ At(c, "wait") /\ Return(c)
  /\ UNCHANGED <<storefront, key, mapping, order, lines, execution, allocation, history, bounds>>

ResyncOrder(c) ==
  /\ order # <<>>
  /\ Begin(c, current, UtcText(current), "read")
  /\ UNCHANGED <<storefront, key, mapping, order, lines, execution, allocation, history, faults>>

-----------------------------------------------------------------------------
(* _upsert_order.                                                          *)

\* A fault of Stale: an update of the same second is taken for an old one.
NotNewer(text, known) == text <= known

Stale(text, known) == text < known

ReadOrder(c) ==
  /\ At(c, "read")
  /\ call' = [call EXCEPT
       ![c].pc = IF mapping # None /\ Stale(call[c].text, order[mapping].text)
                 THEN "find_execution" ELSE "put_order",
       ![c].id = mapping]
  /\ UNCHANGED <<storefront, key, mapping, order, lines, execution, allocation, history, bounds>>

\* A call makes at most one row, so that the bound on calls never stops it here.
PutOrder(c) ==
  LET id == IF call[c].id = None THEN Len(order) + 1 ELSE call[c].id
      row == [version |-> call[c].version, text |-> call[c].text] IN
  /\ At(c, "put_order") /\ id <= MaxBegun
  /\ order' = IF id > Len(order) THEN Append(order, row) ELSE [order EXCEPT ![id] = row]
  /\ call' = [call EXCEPT ![c].pc = "put_mapping", ![c].id = id]
  /\ applied' = applied \cup {call[c].version}
  /\ resynced' = IF c \in Operators THEN resynced \cup {call[c].version} ELSE resynced
  /\ putBy' = [putBy EXCEPT ![id] = c]
  /\ UNCHANGED <<storefront, key, mapping, lines, execution, allocation, empty, bounds>>

PutMapping(c) ==
  /\ At(c, "put_mapping")
  /\ mapping' = call[c].id /\ Goto(c, "put_lines")
  /\ UNCHANGED <<storefront, key, order, lines, execution, allocation, history, bounds>>

\* Every update puts the lines of its payload as new rows.
PutLines(c) ==
  /\ At(c, "put_lines")
  /\ lines' = [lines EXCEPT ![call[c].id] = @ + 1] /\ Goto(c, "find_execution")
  /\ UNCHANGED <<storefront, key, mapping, order, execution, allocation, history, bounds>>

-----------------------------------------------------------------------------
(* start_or_signal_order of the engine, and _advance of the orchestrator.  *)

\* A fault of FindExecution: an order that has an execution is only signalled.
SignalOnly(c) ==
  /\ At(c, "find_execution")
  /\ Goto(c, IF execution[call[c].id] = None THEN "put_execution" ELSE "complete")
  /\ UNCHANGED <<storefront, key, mapping, order, lines, execution, allocation, history, bounds>>

FindExecution(c) ==
  /\ At(c, "find_execution")
  /\ Goto(c, IF execution[call[c].id] = None THEN "put_execution" ELSE "advance")
  /\ UNCHANGED <<storefront, key, mapping, order, lines, execution, allocation, history, bounds>>

PutExecution(c) ==
  /\ At(c, "put_execution")
  /\ execution' = [execution EXCEPT ![call[c].id] = "received"] /\ Goto(c, "advance")
  /\ UNCHANGED <<storefront, key, mapping, order, lines, allocation, history, bounds>>

\* Only a paid order is reserved.
Advance(c) ==
  /\ At(c, "advance")
  /\ Goto(c, IF Updates[order[call[c].id].version].financial = "paid"
             THEN "find_marker" ELSE "complete")
  /\ UNCHANGED <<storefront, key, mapping, order, lines, execution, allocation, history, bounds>>

FindMarker(c) ==
  LET id == call[c].id IN
  /\ At(c, "find_marker")
  /\ call' = [call EXCEPT ![c].lines = lines[id], ![c].outcome = marker[id],
       ![c].pc = IF marker[id] = None THEN "find_reserved" ELSE "put_step"]
  /\ UNCHANGED <<storefront, key, mapping, order, lines, execution, allocation, history, bounds>>

\* What an earlier call reserved is the answer.
FindReserved(c) ==
  LET found == reserved[call[c].id] > 0 IN
  /\ At(c, "find_reserved")
  /\ call' = [call EXCEPT ![c].pc = IF found THEN "look_marker" ELSE "reserve",
                          ![c].outcome = IF found THEN "reserved" ELSE None]
  /\ UNCHANGED <<storefront, key, mapping, order, lines, execution, allocation, history, bounds>>

Left == Stock - FoldFunction(+, 0, reserved)

\* All lines that were read, or none; a call that reserved meanwhile has the right
\* of way, and if it left too little this one reports a shortfall.
Reserve(c) ==
  LET id == call[c].id
      n == call[c].lines IN
  /\ At(c, "reserve")
  /\ reserved' = IF reserved[id] = 0 /\ n <= Left THEN [reserved EXCEPT ![id] = n] ELSE reserved
  /\ call' = [call EXCEPT ![c].pc = "look_marker", ![c].outcome =
       IF n = 0 THEN "nothing" ELSE IF n <= Left THEN "reserved" ELSE "shortfall"]
  /\ empty' = [empty EXCEPT ![id] = @ \/ n = 0]
  /\ UNCHANGED <<storefront, key, mapping, order, lines, execution, marker, asked,
                 applied, resynced, putBy, bounds>>

LookForMarker(c) ==
  /\ At(c, "look_marker")
  /\ call' = [call EXCEPT ![c].pc = "put_marker", ![c].look = marker[call[c].id]]
  /\ UNCHANGED <<storefront, key, mapping, order, lines, execution, allocation, history, bounds>>

PutMarker(c) ==
  /\ At(c, "put_marker")
  /\ marker' = IF call[c].look # None THEN marker
               ELSE [marker EXCEPT ![call[c].id] = call[c].outcome]
  /\ Goto(c, "put_step")
  /\ UNCHANGED <<storefront, key, mapping, order, lines, execution, reserved, asked, history, bounds>>

StepOf(outcome) ==
  IF outcome = "shortfall" THEN "inventory_shortfall" ELSE "inventory_reserved"

PutStep(c) ==
  /\ At(c, "put_step")
  /\ execution' = [execution EXCEPT ![call[c].id] = StepOf(call[c].outcome)]
  /\ Goto(c, IF call[c].outcome = "shortfall" THEN "ask" ELSE "complete")
  /\ UNCHANGED <<storefront, key, mapping, order, lines, allocation, history, bounds>>

\* The shortage is put to the owner, once for the order.
EvaluateShortage(c) ==
  /\ At(c, "ask")
  /\ asked' = [asked EXCEPT ![call[c].id] = TRUE] /\ Goto(c, "complete")
  /\ UNCHANGED <<storefront, key, mapping, order, lines, execution, reserved, marker, history, bounds>>

Complete(c) ==
  /\ At(c, "complete")
  /\ key' = IF c \in Loops THEN [key EXCEPT ![call[c].version] = "completed"] ELSE key
  /\ putBy' = [putBy EXCEPT ![call[c].id] = IF @ = c THEN None ELSE @]
  /\ Return(c)
  /\ UNCHANGED <<storefront, mapping, order, lines, execution, allocation, applied, resynced, empty, bounds>>

-----------------------------------------------------------------------------
\* The store or the storefront raises: run_once releases the key of the webhook,
\* and the storefront delivers it again.
Raise(c) ==
  /\ call[c].pc \notin {"idle", "reserve_key", "wait"}
  /\ faults < MaxFaults /\ faults' = faults + 1
  /\ key' = IF c \in Loops THEN [key EXCEPT ![call[c].version] = "free"] ELSE key
  /\ Return(c)
  /\ UNCHANGED <<storefront, mapping, order, lines, execution, allocation, history, begun>>

\* The API dies, and the keys it held stay reserved.
Crash ==
  /\ faults < MaxFaults /\ faults' = faults + 1
  /\ call' = [c \in Calls |-> Idle] /\ call' # call
  /\ UNCHANGED <<storefront, key, mapping, order, lines, execution, allocation, history, begun>>

-----------------------------------------------------------------------------
Step(c) ==
  \/ ReserveKey(c) \/ WaitForResult(c)
  \/ ReadOrder(c) \/ PutOrder(c) \/ PutMapping(c) \/ PutLines(c)
  \/ FindExecution(c) \/ PutExecution(c) \/ Advance(c)
  \/ FindMarker(c) \/ FindReserved(c) \/ Reserve(c) \/ LookForMarker(c) \/ PutMarker(c)
  \/ PutStep(c) \/ EvaluateShortage(c)
  \/ Complete(c)

Next ==
  \/ Change \/ Crash
  \/ \E c \in Loops : IngestWebhook(c)
  \/ \E c \in Operators : ResyncOrder(c)
  \/ \E c \in Calls : Step(c) \/ Raise(c)

Spec == Init /\ [][Next]_vars

-----------------------------------------------------------------------------
(* Properties.                                                             *)

Quiet == \A c \in Calls : At(c, "idle")
TheOrder == order[mapping]

\* The text w was put with reads later than v's webhook, though w is not later: the
\* shop is behind UTC and a resync put w shortly before v, or the shop's clocks went
\* back between w and v.
ReadsLater(w, v) ==
  /\ Updates[w].time <= Updates[v].time
  /\ \/ LocalText(v) < LocalText(w)
     \/ w \in resynced /\ LocalText(v) < UtcText(w)

\* An update whose webhook was answered was put, or a later one was: late, repeated
\* and reordered webhooks, those of one second, resyncs beside them, exceptions and
\* crashes lose none, except one that reads earlier than what a call had put.
NoUpdateIsLost ==
  \A v \in Versions : key[v] = "completed" =>
    \/ v \in applied
    \/ \E w \in applied : Updates[w].time > Updates[v].time \/ ReadsLater(w, v)

\* When nothing runs and the call that put the order's row has answered, a paid order
\* holds its units or its shortage was put to the owner, however webhooks and resyncs
\* overlapped or failed before, unless a reservation ran between its row and its
\* lines and found none; and without failures its workflow is past "received".
PaidIsReserved ==
  /\ TypeOK
  /\ (Quiet /\ mapping # None) =>
       (putBy[mapping] = None /\ Updates[TheOrder.version].financial = "paid" =>
          /\ reserved[mapping] > 0 \/ asked[mapping] \/ empty[mapping]
          /\ faults = 0 => execution[mapping] # "received")
=============================================================================
