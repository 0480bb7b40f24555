------------------------------- MODULE Refunds -------------------------------
(***************************************************************************)
(* Refunds of one paid order: packages/post_order/operations.py            *)
(* (evaluate_refund, evaluate_return_refund, approve_refund,               *)
(* execute_refund, recover_refund_mutation), the store's capacity claim    *)
(* and compare-and-swap, the idempotent mutation of the payment connector  *)
(* and the refund pass of workers/reconciliation_worker.py.                *)
(*                                                                         *)
(* Request threads and the worker are calls.  A call is the sequence of    *)
(* its store and connector calls, each one step; it may die between two.   *)
(* Amounts are in units of money; a business key of the provider is the    *)
(* amount and the reason (order, merchant and currency are fixed).  The    *)
(* order is paid and in a permitted state, so only the amount can make a   *)
(* direct request DENY.                                                    *)
(***************************************************************************)
EXTENDS Integers, FiniteSets, Threads

CONSTANTS
  Returns,         \* accepted returns of the order
  MaxRefunds,      \* bound: the refund rows that can be created
  Amounts,         \* amounts asked for directly, by support or the API
  TotalAmount,     \* order.total_amount
  AutomaticLimit,  \* refunds up to it need no approval
  AboveLimit,      \* the decision above it
  Reasons,         \* reasons an execute call may give
  DefaultReason,   \* "customer_refund"
  NoReason,        \* the reason part of the key of a lookup without a reason
  MaxAttempts      \* max_attempts of the worker; exceptions are counted up to it

Decisions == {"ALLOW", "REQUIRE_APPROVAL", "DENY"}

Statuses ==
  {"permitted", "approval_required", "approved", "denied", "mutation_submitted",
   "mutation_uncertain", "external_confirmed", "reconciled", "completed"}

RefundRows == [return_id : Returns \cup {None}, amount : 0..TotalAmount, status : Statuses]

ASSUME RefundAssumption ==
  /\ MaxRefunds \in Nat
  /\ Amounts \subseteq Nat
  /\ TotalAmount \in Nat /\ AutomaticLimit \in Nat /\ MaxAttempts \in Nat
  /\ MaxBegun \in Nat
  /\ AboveLimit \in Decisions
  /\ DefaultReason \in Reasons /\ NoReason \notin Reasons
  /\ None \notin Reasons \cup Returns \cup Statuses \cup RefundRows

RefundIds == 1..MaxRefunds
Keys == (0..TotalAmount) \X (Reasons \cup {NoReason})

VARIABLES
  refund,      \* the Refund rows: [return_id, amount, status], or None
  command,     \* reason of the latest create_refund command of a refund
  idempotency, \* the idempotency record of a mutation, by key
  paid,        \* refunds_by_key of the payment provider
  exceptions,  \* external_mutation_uncertain exceptions raised for a refund
  escalated,   \* refunds handed to human review by the worker
  approved,    \* history: refunds that approve_refund approved
  submitted,   \* history: refunds, with the business keys they were executed with
  paidFor      \* history: for which refund the provider made the one of a key
               \* a call is [pc, id, amount, return_id, reason, auto, verdict]

rows == <<refund, command, exceptions, escalated, approved, submitted>>
provider == <<idempotency, paid, paidFor>>
vars == <<refund, command, idempotency, paid, exceptions, escalated, approved,
          submitted, paidFor, begun, call>>

Idle == [pc |-> "idle", id |-> None, amount |-> None, return_id |-> None,
         reason |-> None, auto |-> FALSE, verdict |-> None]

RefundsTypeOK ==
  /\ refund \in [RefundIds -> RefundRows \cup {None}]
  /\ command \in [RefundIds -> Reasons \cup {None}]
  /\ idempotency \in [Keys -> {"free", "reserved", "completed"}]
  /\ paid \subseteq Keys
  /\ exceptions \in [RefundIds -> 0..MaxAttempts]
  /\ escalated \subseteq RefundIds /\ approved \subseteq RefundIds
  /\ submitted \subseteq RefundIds \X Keys /\ paidFor \subseteq submitted

Init ==
  /\ refund = [i \in RefundIds |-> None]
  /\ command = [i \in RefundIds |-> None]
  /\ idempotency = [k \in Keys |-> "free"]
  /\ paid = {}
  /\ exceptions = [i \in RefundIds |-> 0]
  /\ escalated = {} /\ approved = {} /\ submitted = {} /\ paidFor = {}
  /\ begun = 0
  /\ call = [c \in Calls |-> Idle]

Exists(i) == refund[i] # None
Status(i) == IF Exists(i) THEN refund[i].status ELSE None
Key(c) == <<refund[call[c].id].amount, call[c].reason>>

Lesser(m, n) == IF m <= n THEN m ELSE n

\* Money, unit by unit, of the refunds of a set of rows.
Money(ids) ==
  {u \in ids \X (1..TotalAmount) : Exists(u[1]) /\ u[2] <= refund[u[1]].amount}

\* A fault of Committed: a refund counts from its submission on.
CommittedOnceSubmitted ==
  {i \in RefundIds : Exists(i) /\
     Status(i) \notin {"denied", "permitted", "approval_required", "approved"}}

\* A refund reserves capacity in every status but "denied".
Committed == {i \in RefundIds : Exists(i) /\ Status(i) # "denied"}

Return(c) == call' = [call EXCEPT ![c] = Idle]

\* A put of a refund the call holds writes the whole row, but only the status
\* of a row ever changes.
PutStatus(i, status) == refund' = [refund EXCEPT ![i].status = status]

Fresh(i) == ~ Exists(i) /\ \A j \in RefundIds : j < i => Exists(j)

\* The bound MaxRefunds: a request that may create a row starts only while
\* there is room for it and for the rows of the requests that are running.
Room ==
  Cardinality({i \in RefundIds : Exists(i)})
    + Cardinality({c \in Calls : call[c].pc \in {"create", "claim"}}) < MaxRefunds

-----------------------------------------------------------------------------
(* Creating refunds.                                                       *)

\* The thresholds of the refund policy.
Threshold(amount) == IF amount <= AutomaticLimit THEN "ALLOW" ELSE AboveLimit
Decision(amount) ==
  IF amount <= 0 \/ amount > TotalAmount THEN "DENY" ELSE Threshold(amount)

StatusFor(decision) ==
  CASE decision = "DENY" -> "denied"
    [] decision = "REQUIRE_APPROVAL" -> "approval_required"
    [] decision = "ALLOW" -> "permitted"

\* evaluate_refund without a return: look for a refund of that amount, then
\* create one.  No capacity is claimed.
RequestRefund(c, amount) ==
  /\ Room
  /\ ~ \E i \in RefundIds : /\ Exists(i)
                            /\ refund[i].return_id = None
                            /\ refund[i].amount = Lesser(amount, TotalAmount)
  /\ Start(c, [Idle EXCEPT !.pc = "create", !.amount = amount])
  /\ UNCHANGED <<rows, provider>>

CreateRefund(c) ==
  /\ At(c, "create")
  /\ \E i \in RefundIds :
       /\ Fresh(i)
       /\ refund' = [refund EXCEPT ![i] =
            [return_id |-> None, amount |-> Lesser(call[c].amount, TotalAmount),
             status |-> StatusFor(Decision(call[c].amount))]]
  /\ Return(c)
  /\ UNCHANGED <<command, exceptions, escalated, approved, submitted, provider>>

\* evaluate_return_refund: a return that owns a refund resumes it when it is
\* permitted; any other return claims what is left.
ResumeReturnRefund(c, i) ==
  /\ Exists(i) /\ refund[i].return_id # None
  /\ Status(i) = "permitted"
  /\ Start(c, [Idle EXCEPT !.pc = "execute", !.id = i, !.reason = DefaultReason])
  /\ UNCHANGED <<rows, provider>>

EvaluateReturnRefund(c, r) ==
  /\ Room
  /\ ~ \E i \in RefundIds : Exists(i) /\ refund[i].return_id = r
  /\ Start(c, [Idle EXCEPT !.pc = "claim", !.return_id = r])
  /\ UNCHANGED <<rows, provider>>

Remaining == TotalAmount - Cardinality(Money(Committed))

CanClaim == Remaining > 0

\* atomic_claim_refund_capacity, under the lock of the order's row.
ClaimCapacity(c) ==
  LET r == call[c].return_id
      owned == {i \in RefundIds : Exists(i) /\ refund[i].return_id = r}
      next == [call[c] EXCEPT !.reason = DefaultReason,
                 !.pc = IF Threshold(Remaining) = "ALLOW" THEN "execute" ELSE "correct"]
  IN  /\ At(c, "claim")
      /\ CanClaim
      /\ owned = {}
      /\ \E i \in RefundIds :
           /\ Fresh(i)
           /\ refund' = [refund EXCEPT ![i] =
                [return_id |-> r, amount |-> Remaining, status |-> "permitted"]]
           /\ call' = [call EXCEPT ![c] = [next EXCEPT !.id = i]]
      /\ UNCHANGED <<command, exceptions, escalated, approved, submitted, provider>>

\* No capacity remains: the return gets no refund.
ClaimNothing(c) ==
  /\ At(c, "claim")
  /\ ~ CanClaim
  /\ Return(c)
  /\ UNCHANGED <<rows, provider>>

\* The unique index of return_id: another call claimed for this return.  Its
\* row is treated as if this call had claimed it.
ClaimConflicts(c) ==
  /\ At(c, "claim")
  /\ CanClaim
  /\ \E i \in RefundIds :
       /\ Exists(i) /\ refund[i].return_id = call[c].return_id
       /\ IF Status(i) # "permitted" THEN Return(c)
          ELSE call' = [call EXCEPT ![c].id = i, ![c].reason = DefaultReason,
                 ![c].pc = IF Threshold(refund[i].amount) = "ALLOW"
                           THEN "execute" ELSE "correct"]
  /\ UNCHANGED <<rows, provider>>

\* The status of the claimed row is corrected to the decision of the policy.
CorrectClaim(c) ==
  /\ At(c, "correct")
  /\ PutStatus(call[c].id, StatusFor(AboveLimit))
  /\ Return(c)
  /\ UNCHANGED <<command, exceptions, escalated, approved, submitted, provider>>

-----------------------------------------------------------------------------
(* Approving.                                                              *)

ReadForApproval(c, i) ==
  /\ Status(i) = "approval_required"
  /\ Start(c, [Idle EXCEPT !.pc = "approve", !.id = i])
  /\ UNCHANGED <<rows, provider>>

ApproveRefund(c) ==
  /\ At(c, "approve")
  /\ PutStatus(call[c].id, "approved")
  /\ approved' = approved \cup {call[c].id}
  /\ Return(c)
  /\ UNCHANGED <<command, exceptions, escalated, submitted, provider>>

-----------------------------------------------------------------------------
(* Executing.                                                              *)

CallExecute(c, i, reason) ==
  /\ Exists(i)
  /\ Start(c, [Idle EXCEPT !.pc = "execute", !.id = i, !.reason = reason])
  /\ UNCHANGED <<rows, provider>>

\* A fault of ReadForExecution: a refund that waits for approval passes.
ReadAnyForExecution(c) ==
  /\ At(c, "execute")
  /\ IF Status(call[c].id) \in {"permitted", "approved", "approval_required"}
     THEN Goto(c, "submit") ELSE Return(c)
  /\ UNCHANGED <<rows, provider>>

ReadForExecution(c) ==
  /\ At(c, "execute")
  /\ IF Status(call[c].id) \in {"permitted", "approved"}
     THEN Goto(c, "submit") ELSE Return(c)
  /\ UNCHANGED <<rows, provider>>

\* The command and the status are put one after the other; only recovery, which
\* looks at the status first, reads the command.
Submit(c) ==
  /\ At(c, "submit")
  /\ PutStatus(call[c].id, "mutation_submitted")
  /\ command' = [command EXCEPT ![call[c].id] = call[c].reason]
  /\ submitted' = submitted \cup {<<call[c].id, Key(c)>>}
  /\ Goto(c, "reserve")
  /\ UNCHANGED <<exceptions, escalated, approved, provider>>

\* IdempotencyService.run_once: the first call runs the operation, a later one
\* waits for its result; a wait that expires returns None, which fails the call.
ReserveKey(c) ==
  /\ At(c, "reserve")
  /\ idempotency[Key(c)] = "free"
  /\ idempotency' = [idempotency EXCEPT ![Key(c)] = "reserved"]
  /\ Goto(c, "mutate")
  /\ UNCHANGED <<rows, paid, paidFor>>

\* A fault of ReplayResult: a key in use is taken for a result.
ReplayReservation(c) ==
  /\ At(c, "reserve")
  /\ idempotency[Key(c)] # "free"
  /\ Goto(c, "confirm")
  /\ UNCHANGED <<rows, provider>>

ReplayResult(c) ==
  /\ At(c, "reserve")
  /\ idempotency[Key(c)] = "completed"
  /\ Goto(c, "confirm")
  /\ UNCHANGED <<rows, provider>>

WaitExpires(c) ==
  /\ At(c, "reserve")
  /\ idempotency[Key(c)] = "reserved"
  /\ Return(c)
  /\ UNCHANGED <<rows, provider>>

\* The provider: a known business key is answered from refunds_by_key; the
\* answer to a refund that was made may be lost; a refund may be rejected.
MakeRefund(c) ==
  /\ paid' = paid \cup {Key(c)}
  /\ paidFor' = IF Key(c) \in paid THEN paidFor ELSE paidFor \cup {<<call[c].id, Key(c)>>}

ProviderAccepts(c) ==
  /\ At(c, "mutate")
  /\ MakeRefund(c)
  /\ Goto(c, "complete")
  /\ UNCHANGED <<rows, idempotency>>

ProviderTimesOut(c) ==
  /\ At(c, "mutate")
  /\ MakeRefund(c) \/ UNCHANGED <<paid, paidFor>>
  /\ Goto(c, "timeout")
  /\ UNCHANGED <<rows, idempotency>>

ProviderRejects(c) ==
  /\ At(c, "mutate")
  /\ Goto(c, "rejected")
  /\ UNCHANGED <<rows, provider>>

CompleteKey(c) ==
  /\ At(c, "complete")
  /\ idempotency' = [idempotency EXCEPT ![Key(c)] = "completed"]
  /\ Goto(c, "confirm")
  /\ UNCHANGED <<rows, paid, paidFor>>

\* The operation raised: run_once releases the key, execute_refund records the
\* exception and turns to the provider for the truth.
CountException(i) ==
  exceptions' = [exceptions EXCEPT ![i] = Lesser(@ + 1, MaxAttempts)]

ReleaseKey(c) ==
  /\ call[c].pc \in {"timeout", "rejected"}
  /\ idempotency' = [idempotency EXCEPT ![Key(c)] = "free"]
  /\ IF At(c, "timeout") THEN CountException(call[c].id) ELSE UNCHANGED exceptions
  /\ Goto(c, "readback")
  /\ UNCHANGED <<refund, command, escalated, approved, submitted, paid, paidFor>>

\* _refund_read_back: the lookup answers, or fails.
ReadBack(c) ==
  /\ At(c, "readback")
  /\ \E verdict \in {IF Key(c) \in paid THEN "succeeded" ELSE "not_applied", "unknown"} :
       call' = [call EXCEPT ![c].pc = "resolve", ![c].verdict = verdict]
  /\ UNCHANGED <<rows, provider>>

\* _resolve_refund_uncertainty: every transition is a compare-and-swap.
Unresolved(i) == Status(i) \in {"mutation_submitted", "mutation_uncertain"}

ResolveSucceeded(c) ==
  LET i == call[c].id IN
  /\ At(c, "resolve") /\ call[c].verdict = "succeeded"
  /\ IF Unresolved(i)
     THEN PutStatus(i, "external_confirmed") /\ Goto(c, "reconcile")
     ELSE Return(c) /\ UNCHANGED refund
  /\ UNCHANGED <<command, exceptions, escalated, approved, submitted, provider>>

\* A fault of ResolveNotApplied: the repeated execution repeats itself again.
ResolveByRetrying(c) ==
  LET i == call[c].id IN
  /\ At(c, "resolve") /\ call[c].verdict = "not_applied"
  /\ IF Unresolved(i) THEN PutStatus(i, "permitted") ELSE UNCHANGED refund
  /\ IF Unresolved(i) /\ call[c].auto THEN Goto(c, "execute") ELSE Return(c)
  /\ UNCHANGED <<command, exceptions, escalated, approved, submitted, provider>>

ResolveNotApplied(c) ==
  LET i == call[c].id IN
  /\ At(c, "resolve") /\ call[c].verdict = "not_applied"
  /\ IF Unresolved(i) THEN PutStatus(i, "permitted") ELSE UNCHANGED refund
  /\ IF Unresolved(i) /\ call[c].auto
     THEN call' = [call EXCEPT ![c].pc = "execute", ![c].auto = FALSE]
     ELSE Return(c)
  /\ UNCHANGED <<command, exceptions, escalated, approved, submitted, provider>>

ResolveUnknown(c) ==
  LET i == call[c].id IN
  /\ At(c, "resolve") /\ call[c].verdict = "unknown"
  /\ IF Unresolved(i) THEN PutStatus(i, "mutation_uncertain") ELSE UNCHANGED refund
  /\ CountException(i)
  /\ Return(c)
  /\ UNCHANGED <<command, escalated, approved, submitted, provider>>

Confirm(c) ==
  /\ At(c, "confirm")
  /\ PutStatus(call[c].id, "external_confirmed")
  /\ Goto(c, "reconcile")
  /\ UNCHANGED <<command, exceptions, escalated, approved, submitted, provider>>

\* reconcile_refund fetches the refund by its reference; amount and currency
\* are part of the business key and cannot differ.
Reconcile(c) ==
  /\ At(c, "reconcile")
  /\ PutStatus(call[c].id, "reconciled")
  /\ Goto(c, "settle")
  /\ UNCHANGED <<command, exceptions, escalated, approved, submitted, provider>>

Settle(c) ==
  /\ At(c, "settle")
  /\ PutStatus(call[c].id, "completed")
  /\ Return(c)
  /\ UNCHANGED <<command, exceptions, escalated, approved, submitted, provider>>

-----------------------------------------------------------------------------
(* Recovering.                                                             *)

\* recover_refund_mutation, called by an operator.
RecoverRefund(c, i) ==
  /\ Unresolved(i) /\ command[i] # None
  /\ Start(c, [Idle EXCEPT !.pc = "readback", !.id = i, !.reason = command[i],
                           !.auto = TRUE])
  /\ UNCHANGED <<rows, provider>>

\* One refund of _recover_uncertain_refund_executions.  The lookup gives no
\* reason; a refund that is not found is executed again.
Escalate(c, i) ==
  /\ Status(i) = "mutation_uncertain"
  /\ exceptions[i] >= MaxAttempts
  /\ At(c, "idle")
  /\ escalated' = escalated \cup {i}
  /\ UNCHANGED <<refund, command, exceptions, approved, submitted, provider, call>>

RecoveryPass(c, i) ==
  /\ Status(i) = "mutation_uncertain"
  /\ exceptions[i] < MaxAttempts
  /\ Start(c, [Idle EXCEPT !.id = i, !.reason = DefaultReason,
       !.pc = IF <<refund[i].amount, NoReason>> \in paid
              THEN "reconcile" ELSE "execute"])
  /\ UNCHANGED <<rows, provider>>

Worker(c) == \E i \in RefundIds : Escalate(c, i) \/ RecoveryPass(c, i)

-----------------------------------------------------------------------------
Step(c) ==
  \/ CreateRefund(c)
  \/ ClaimCapacity(c) \/ ClaimNothing(c) \/ ClaimConflicts(c) \/ CorrectClaim(c)
  \/ ApproveRefund(c)
  \/ ReadForExecution(c) \/ Submit(c)
  \/ ReserveKey(c) \/ ReplayResult(c) \/ WaitExpires(c)
  \/ ProviderAccepts(c) \/ ProviderTimesOut(c) \/ ProviderRejects(c)
  \/ CompleteKey(c) \/ ReleaseKey(c)
  \/ ReadBack(c)
  \/ ResolveSucceeded(c) \/ ResolveNotApplied(c) \/ ResolveUnknown(c)
  \/ Confirm(c) \/ Reconcile(c) \/ Settle(c)

Begin(c) ==
  \/ \E amount \in Amounts : RequestRefund(c, amount)
  \/ \E r \in Returns : EvaluateReturnRefund(c, r)
  \/ \E i \in RefundIds :
       \/ ResumeReturnRefund(c, i)
       \/ ReadForApproval(c, i)
       \/ RecoverRefund(c, i)
       \/ \E reason \in Reasons : CallExecute(c, i, reason)

\* The process dies between two steps of a call.
Die(c) ==
  /\ ~ At(c, "idle")
  /\ Return(c)
  /\ UNCHANGED <<rows, provider>>

Request(c) ==
  /\ MaxBegun = 0 \/ begun < MaxBegun
  /\ Begin(c)
  /\ begun' = IF MaxBegun = 0 THEN 0 ELSE begun + 1

Next ==
  \E c \in Calls :
    \/ Request(c)
    \/ (Step(c) \/ Worker(c) \/ Die(c)) /\ UNCHANGED begun

\* A running call is scheduled; no call has to be made.
Spec == Init /\ [][Next]_vars /\ \A c \in Calls : WF_vars(Step(c) /\ UNCHANGED begun)

-----------------------------------------------------------------------------
(* Properties.                                                             *)

OfReturn(i) == Exists(i) /\ refund[i].return_id # None
Executed(i) ==
  Status(i) \in {"mutation_submitted", "mutation_uncertain", "external_confirmed",
                 "reconciled", "completed"}

\* However many returns of the order are evaluated at once, the refunds they
\* created never exceed the order's amount (atomic_claim_refund_capacity).
ReturnsWithinTotal ==
  /\ RefundsTypeOK
  /\ Cardinality(Money({i \in RefundIds : OfReturn(i) /\ Status(i) # "denied"}))
       <= TotalAmount

\* A refund is reported confirmed only when the provider has made a refund under a
\* business key that this one was executed with: no timeout, rejection, replay or
\* recovery ever counts as success by itself.  It was made for this very refund,
\* unless another of the order was executed with the same amount and reason: the
\* key tells the two apart nowhere, so that one payment answers for both.
Confirmed(i) == Status(i) \in {"external_confirmed", "reconciled", "completed"}
SharesKey(i, k) == \E j \in RefundIds \ {i} : <<j, k>> \in submitted
ConfirmedWasPaid ==
  \A i \in RefundIds : Confirmed(i) =>
    \E k \in paid : /\ <<i, k>> \in submitted /\ k[1] = refund[i].amount
                    /\ <<i, k>> \in paidFor \/ SharesKey(i, k)

\* A refund asked for directly is executed only within the automatic limit, where
\* there is one, or after it was approved, also when an execution is resolved and
\* repeated.
DirectRefundsAreAuthorized ==
  \A i \in RefundIds : Exists(i) /\ ~ OfReturn(i) /\ Executed(i) =>
    refund[i].amount <= AutomaticLimit \/ AboveLimit = "ALLOW" \/ i \in approved

\* Every call ends: no wait for another call's result and no recovery that
\* executes again goes on for ever.
CallsEnd == \A c \in Calls : []<>At(c, "idle")
=============================================================================
