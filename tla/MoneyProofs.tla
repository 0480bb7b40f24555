----------------------------- MODULE MoneyProofs -----------------------------
(***************************************************************************)
(* For every set of returns, threads and reasons, every amount, limit and  *)
(* bound: a refund is reported confirmed when the provider made one under  *)
(* the business key of it, a refund that was asked for directly is         *)
(* executed only with authority, and refunds of returns stay within what   *)
(* was paid.                                                               *)
(*                                                                         *)
(* A row changes only in its status, so what a call knows of its refund    *)
(* stays true while other calls step (RowsKept).  The inductive invariant  *)
(* says of every call what it may rely on at its place (CallGood) and of   *)
(* every row what its status stands for (RowGood).                         *)
(*                                                                         *)
(* And for every set of orders, payments and settlement entries, every     *)
(* payload and tolerance: when batches were ingested to the end and then   *)
(* reconciled, each of their entries has its verdict, and an order they    *)
(* settle more than once is said to be over-settled.                       *)
(*                                                                         *)
(* The books only grow and a batch that is whole gets no entry any more    *)
(* (BooksGrow), so what a reconciliation has left behind stays accounted   *)
(* for (Accounted).  The inductive invariant (FInv) counts as passed the   *)
(* payments of closed batches and those that a pass over a whole batch     *)
(* has gone beyond (PassedFor): they fit the order's total, or a verdict   *)
(* says that they do not.  Money is compared as sets of units, one pair    *)
(* of an entry and a number for each unit of its amount.                   *)
(***************************************************************************)
EXTENDS Refunds, Finance, FiniteSetTheorems, WellFoundedInduction, TLAPS

Running == {"submit", "reserve", "mutate", "complete", "timeout", "rejected", "readback",
            "resolve", "confirm", "reconcile", "settle"}
Places == {"idle", "create", "claim", "correct", "approve", "execute"} \cup Running
Verdicts == {"succeeded", "not_applied", "unknown"}

CallRows ==
  [pc : Places, id : RefundIds \cup {None}, amount : Amounts \cup {None},
   return_id : Returns \cup {None}, reason : Reasons \cup {None}, auto : BOOLEAN,
   verdict : Verdicts \cup {None}]

TypeInv ==
  /\ RefundsTypeOK
  /\ paid \subseteq (0..TotalAmount) \X Reasons
  /\ call \in [Calls -> CallRows]

\* A refund of a return, or one that the policy or an owner lets pass.
Authorized(i) ==
  \/ refund[i].return_id # None
  \/ refund[i].amount <= AutomaticLimit
  \/ AboveLimit = "ALLOW"
  \/ i \in approved

\* The provider made a refund under a key that this one was executed with.
Paid(i) ==
  \E reason \in Reasons : /\ <<refund[i].amount, reason>> \in paid
                          /\ <<i, <<refund[i].amount, reason>>>> \in submitted

\* Where a call has submitted its refund, under the key it works with.
Sent == {"reserve", "mutate", "complete", "timeout", "rejected", "readback", "resolve", "confirm"}

CallGood(c) ==
  LET i == call[c].id IN
  /\ call[c].pc = "create" => call[c].amount \in Amounts
  /\ call[c].pc = "claim" => call[c].return_id \in Returns
  /\ call[c].pc \notin {"idle", "create", "claim"} => i \in RefundIds /\ Exists(i)
  /\ call[c].pc \in Running \cup {"execute"} => call[c].reason \in Reasons
  /\ call[c].pc = "correct" => refund[i].return_id # None
  /\ call[c].pc \in Running => Authorized(i)
  /\ call[c].pc \in Sent => <<i, Key(c)>> \in submitted
  /\ call[c].pc \in {"complete", "confirm"} => Key(c) \in paid
  /\ call[c].pc = "resolve" /\ call[c].verdict = "succeeded" => Key(c) \in paid
  /\ call[c].pc \in {"reconcile", "settle"} => Paid(i)

RowGood(i) ==
  Exists(i) =>
    /\ refund[i].status \notin {"approval_required", "denied"} => Authorized(i)
    /\ refund[i].status \in {"external_confirmed", "reconciled", "completed"} => Paid(i)

\* A payment was made for a refund, and a command names what its refund was executed with.
KeysPaid ==
  /\ \A k \in Keys : idempotency[k] = "completed" => k \in paid
  /\ \A k \in paid : \E i \in RefundIds : <<i, k>> \in paidFor

CommandGood(i) ==
  command[i] # None => Exists(i) /\ <<i, <<refund[i].amount, command[i]>>>> \in submitted

IInv ==
  /\ TypeInv
  /\ \A c \in Calls : CallGood(c)
  /\ \A i \in RefundIds : RowGood(i)
  /\ KeysPaid
  /\ \A i \in RefundIds : CommandGood(i)

\* What no step takes back.
RowsKept ==
  /\ \A i \in RefundIds : Exists(i) =>
       /\ Exists(i)'
       /\ refund'[i].amount = refund[i].amount /\ refund'[i].return_id = refund[i].return_id
  /\ paid \subseteq paid' /\ approved \subseteq approved' /\ submitted \subseteq submitted'

-----------------------------------------------------------------------------
(* Rows.                                                                   *)

LEMMA ConstantsTyped ==
  /\ MaxRefunds \in Nat /\ TotalAmount \in Nat /\ AutomaticLimit \in Nat /\ MaxAttempts \in Nat
  /\ Amounts \subseteq Nat /\ AboveLimit \in Decisions
  /\ DefaultReason \in Reasons /\ NoReason \notin Reasons
  /\ None \notin Reasons /\ None \notin Returns /\ None \notin Statuses /\ None \notin RefundRows
BY RefundAssumption DEF RefundAssumption

LEMMA RowTyped ==
  ASSUME RefundsTypeOK, NEW i \in RefundIds, Exists(i)
  PROVE  /\ refund[i] \in RefundRows /\ refund[i].amount \in 0..TotalAmount
         /\ refund[i].status \in Statuses /\ refund[i].return_id \in Returns \cup {None}
         /\ Status(i) = refund[i].status
BY DEF RefundsTypeOK, Exists, RefundRows, Status

LEMMA NoStatus ==
  ASSUME RefundsTypeOK, NEW i \in RefundIds, Status(i) \in Statuses
  PROVE  Exists(i)
BY ConstantsTyped DEF Status, Exists

\* A put of a status changes that, and nothing else of any row.
LEMMA PutKept ==
  ASSUME RefundsTypeOK, NEW i \in RefundIds, Exists(i), NEW s \in Statuses, PutStatus(i, s)
  PROVE  /\ refund' \in [RefundIds -> RefundRows \cup {None}]
         /\ refund'[i].status = s
         /\ \A j \in RefundIds : j # i => refund'[j] = refund[j]
         /\ \A j \in RefundIds : Exists(j)' <=> Exists(j)
         /\ \A j \in RefundIds : Exists(j) =>
              refund'[j].amount = refund[j].amount /\ refund'[j].return_id = refund[j].return_id
<1>1. refund[i] \in RefundRows /\ refund \in [RefundIds -> RefundRows \cup {None}]
  BY RowTyped DEF RefundsTypeOK
<1>2. /\ refund'[i] = [refund[i] EXCEPT !.status = s]
      /\ \A j \in RefundIds : j # i => refund'[j] = refund[j]
      /\ refund' = [j \in RefundIds |-> IF j = i THEN refund'[i] ELSE refund[j]]
  BY <1>1 DEF PutStatus
<1>3. /\ refund'[i] \in RefundRows /\ refund'[i].status = s
      /\ refund'[i].amount = refund[i].amount /\ refund'[i].return_id = refund[i].return_id
  BY <1>1, <1>2 DEF RefundRows
<1>4. refund'[i] # None
  BY <1>3, ConstantsTyped
<1>5. refund' \in [RefundIds -> RefundRows \cup {None}]
  BY <1>1, <1>2, <1>3
<1>6. QED
  BY <1>2, <1>3, <1>4, <1>5 DEF Exists

\* A new row changes no other.
LEMMA NewKept ==
  ASSUME RefundsTypeOK, NEW i \in RefundIds, Fresh(i), NEW r \in RefundRows,
         refund' = [refund EXCEPT ![i] = r]
  PROVE  /\ refund' \in [RefundIds -> RefundRows \cup {None}]
         /\ refund'[i] = r /\ Exists(i)' /\ ~ Exists(i)
         /\ \A j \in RefundIds : j # i => refund'[j] = refund[j]
BY ConstantsTyped DEF RefundsTypeOK, Exists, Fresh

-----------------------------------------------------------------------------
(* What a step of call c has to show, and what follows for the others.     *)

OthersKept(c) == \A d \in Calls \ {c} : call'[d] = call[d]

Sound(c) ==
  /\ TypeInv' /\ RowsKept /\ OthersKept(c)
  /\ CallGood(c)'
  /\ \A i \in RefundIds : RowGood(i)'
  /\ KeysPaid'
  /\ \A i \in RefundIds : CommandGood(i)'

LEMMA CommandsStay ==
  ASSUME IInv, RowsKept, command' = command
  PROVE  \A i \in RefundIds : CommandGood(i)'
BY DEF IInv, CommandGood, RowsKept

LEMMA CallStaysGood ==
  ASSUME IInv, RowsKept, NEW d \in Calls, call'[d] = call[d]
  PROVE  CallGood(d)'
<1> DEFINE i == call[d].id
<1>1. CallGood(d) /\ TypeInv
  BY DEF IInv
<1>2. CASE call[d].pc \in {"idle", "create", "claim"}
  BY <1>1, <1>2 DEF CallGood, Running, Sent
<1>3. CASE call[d].pc \notin {"idle", "create", "claim"}
  <2>1. i \in RefundIds /\ Exists(i) /\ Exists(i)' /\ call'[d].id = i
        /\ refund'[i].amount = refund[i].amount /\ refund'[i].return_id = refund[i].return_id
    BY <1>1, <1>3 DEF CallGood, RowsKept
  <2>2. Authorized(i) => Authorized(i)'
    BY <2>1 DEF Authorized, RowsKept
  <2>3. Paid(i) => Paid(i)'
    BY <2>1 DEF Paid, RowsKept
  <2>4. /\ Key(d)' = Key(d) /\ (Key(d) \in paid => Key(d)' \in paid')
        /\ <<i, Key(d)>> \in submitted => (<<i, Key(d)>> \in submitted)'
    BY <2>1 DEF Key, RowsKept
  <2>5. QED
    BY <1>1, <1>3, <2>1, <2>2, <2>3, <2>4 DEF CallGood
<1>4. QED
  BY <1>2, <1>3

LEMMA SoundSuffices ==
  ASSUME IInv, NEW c \in Calls, Sound(c)
  PROVE  IInv'
<1>1. \A d \in Calls \ {c} : CallGood(d)'
  BY CallStaysGood DEF Sound, OthersKept
<1>2. QED
  BY <1>1 DEF Sound, IInv

LEMMA RowStaysGood ==
  ASSUME NEW i \in RefundIds, RowsKept, RowGood(i), refund'[i] = refund[i]
  PROVE  RowGood(i)'
<1>1. Exists(i)' => Exists(i)
  BY DEF Exists
<1>2. Authorized(i) => Authorized(i)'
  BY DEF Authorized, RowsKept
<1>3. Paid(i) => Paid(i)'
  BY DEF Paid, RowsKept
<1>4. QED
  BY <1>1, <1>2, <1>3 DEF RowGood

\* A step that only its own call notices.
LEMMA QuietSound ==
  ASSUME IInv, NEW c \in Calls, UNCHANGED <<rows, provider>>,
         call' \in [Calls -> CallRows], OthersKept(c), CallGood(c)'
  PROVE  Sound(c)
<1>1. refund' = refund /\ command' = command /\ exceptions' = exceptions
      /\ escalated' = escalated /\ approved' = approved /\ idempotency' = idempotency
      /\ paid' = paid /\ submitted' = submitted /\ paidFor' = paidFor
  BY DEF rows, provider
<1>2. RowsKept
  BY <1>1 DEF RowsKept, Exists
<1>3. TypeInv' /\ KeysPaid'
  BY <1>1 DEF IInv, TypeInv, RefundsTypeOK, KeysPaid
<1>4. \A i \in RefundIds : RowGood(i)'
  BY <1>1, <1>2, RowStaysGood DEF IInv
<1>5. QED
  BY <1>1, <1>2, <1>3, <1>4, CommandsStay DEF Sound

\* A step that puts a status which the row's authority and payment allow.
Allowed(i, s) ==
  /\ s \notin {"approval_required", "denied"} => Authorized(i)
  /\ s \in {"external_confirmed", "reconciled", "completed"} => Paid(i)

\* The commands are as they were, or one more refund is executed with a reason.
CommandsMove ==
  \/ command' = command /\ submitted' = submitted
  \/ \E i \in RefundIds, reason \in Reasons :
       /\ Exists(i) /\ refund[i].amount \in 0..TotalAmount
       /\ command' = [command EXCEPT ![i] = reason]
       /\ submitted' = submitted \cup {<<i, <<refund[i].amount, reason>>>>}

LEMMA MovedTyped ==
  ASSUME RefundsTypeOK, CommandsMove
  PROVE  /\ command' \in [RefundIds -> Reasons \cup {None}]
         /\ submitted \subseteq submitted' /\ submitted' \subseteq RefundIds \X Keys
BY DEF RefundsTypeOK, CommandsMove, Keys

LEMMA MovedGood ==
  ASSUME IInv, RowsKept, CommandsMove
  PROVE  \A i \in RefundIds : CommandGood(i)'
<1>1. command \in [RefundIds -> Reasons \cup {None}]
  BY DEF IInv, TypeInv, RefundsTypeOK
<1>2. CASE command' = command
  BY <1>2, CommandsStay
<1>3. CASE \E i \in RefundIds, reason \in Reasons :
             /\ Exists(i)
             /\ command' = [command EXCEPT ![i] = reason]
             /\ submitted' = submitted \cup {<<i, <<refund[i].amount, reason>>>>}
  <2>1. PICK i \in RefundIds, reason \in Reasons :
          /\ Exists(i)
          /\ command' = [command EXCEPT ![i] = reason]
          /\ submitted' = submitted \cup {<<i, <<refund[i].amount, reason>>>>}
    BY <1>3
  <2>2. CommandGood(i)'
    BY <1>1, <2>1 DEF CommandGood, RowsKept
  <2>3. ASSUME NEW j \in RefundIds, j # i
        PROVE  CommandGood(j)'
    <3>1. CommandGood(j) /\ command'[j] = command[j]
      BY <1>1, <2>1, <2>3 DEF IInv
    <3>2. QED
      BY <3>1 DEF CommandGood, RowsKept
  <2>4. QED
    BY <2>2, <2>3
<1>4. QED
  BY <1>2, <1>3 DEF CommandsMove

LEMMA PutSound ==
  ASSUME IInv, NEW c \in Calls, NEW i \in RefundIds, Exists(i), NEW s \in Statuses,
         PutStatus(i, s), Allowed(i, s) \/ Allowed(i, s)',
         approved \subseteq approved', approved' \subseteq RefundIds,
         CommandsMove,
         exceptions' \in [RefundIds -> 0..MaxAttempts], escalated' = escalated,
         UNCHANGED provider, call' \in [Calls -> CallRows], OthersKept(c), CallGood(c)'
  PROVE  Sound(c)
<1>1. TypeInv /\ RefundsTypeOK
  BY DEF IInv, TypeInv
<1>2. /\ refund' \in [RefundIds -> RefundRows \cup {None}]
      /\ refund'[i].status = s
      /\ \A j \in RefundIds : j # i => refund'[j] = refund[j]
      /\ \A j \in RefundIds : Exists(j)' <=> Exists(j)
      /\ \A j \in RefundIds : Exists(j) =>
           refund'[j].amount = refund[j].amount /\ refund'[j].return_id = refund[j].return_id
  BY <1>1, PutKept
<1>3. /\ idempotency' = idempotency /\ paid' = paid /\ paidFor' = paidFor
      /\ command' \in [RefundIds -> Reasons \cup {None}]
      /\ submitted \subseteq submitted' /\ submitted' \subseteq RefundIds \X Keys
  BY <1>1, MovedTyped DEF provider
<1>4. RowsKept
  BY <1>2, <1>3 DEF RowsKept
<1>5. TypeInv' /\ KeysPaid'
  BY <1>1, <1>2, <1>3 DEF IInv, TypeInv, RefundsTypeOK, KeysPaid
<1>6. Allowed(i, s)'
  <2>1. (Authorized(i) => Authorized(i)') /\ (Paid(i) => Paid(i)')
    BY <1>2, <1>3 DEF Authorized, Paid
  <2>2. QED
    BY <2>1 DEF Allowed
<1>7. RowGood(i)'
  BY <1>2, <1>6 DEF RowGood, Allowed
<1>8. \A j \in RefundIds : RowGood(j)'
  BY <1>2, <1>4, <1>7, RowStaysGood DEF IInv
<1>9. QED
  BY <1>4, <1>5, <1>8, MovedGood DEF Sound

-----------------------------------------------------------------------------
(* The steps.                                                              *)

LEMMA PcTyped ==
  ASSUME TypeInv, NEW c \in Calls, NEW p \in Places, Goto(c, p)
  PROVE  /\ call' \in [Calls -> CallRows] /\ OthersKept(c) /\ call'[c].pc = p
         /\ call'[c].id = call[c].id /\ call'[c].amount = call[c].amount
         /\ call'[c].return_id = call[c].return_id /\ call'[c].reason = call[c].reason
         /\ call'[c].verdict = call[c].verdict
BY DEF TypeInv, CallRows, Goto, OthersKept

LEMMA VerdictTyped ==
  ASSUME TypeInv, NEW c \in Calls, NEW v \in Verdicts,
         call' = [call EXCEPT ![c].pc = "resolve", ![c].verdict = v]
  PROVE  /\ call' \in [Calls -> CallRows] /\ OthersKept(c) /\ call'[c].pc = "resolve"
         /\ call'[c].id = call[c].id /\ call'[c].reason = call[c].reason
         /\ call'[c].verdict = v
<1>1. "resolve" \in Places
  BY DEF Places, Running
<1>2. QED
  BY <1>1, ZenonT(40) DEF TypeInv, CallRows, OthersKept

LEMMA CallTyped ==
  ASSUME TypeInv, NEW c \in Calls, NEW r \in CallRows, call' = [call EXCEPT ![c] = r]
  PROVE  /\ call' \in [Calls -> CallRows] /\ OthersKept(c) /\ call'[c] = r
BY DEF TypeInv, OthersKept

LEMMA ReturnTyped ==
  ASSUME TypeInv, NEW c \in Calls, Return(c)
  PROVE  call' \in [Calls -> CallRows] /\ OthersKept(c) /\ CallGood(c)' /\ call'[c].pc = "idle"
<1>1. Idle \in CallRows /\ Idle.pc = "idle"
  BY DEF Idle, CallRows, Places
<1>2. call' \in [Calls -> CallRows] /\ OthersKept(c) /\ call'[c] = Idle
  BY <1>1, CallTyped DEF Return
<1>3. QED
  BY <1>1, <1>2 DEF CallGood, Running, Sent

\* The call's own fields, while its row is as it was.
LEMMA GoodHere ==
  ASSUME IInv, NEW c \in Calls, call[c].pc \in Running \cup {"correct", "approve", "execute"}
  PROVE  /\ call[c].id \in RefundIds /\ Exists(call[c].id) /\ TypeInv
         /\ call[c].pc \in Running \cup {"execute"} => call[c].reason \in Reasons
         /\ call[c].pc \in Running => Authorized(call[c].id)
         /\ refund[call[c].id].amount \in 0..TotalAmount
<1>1. CallGood(c) /\ TypeInv /\ RefundsTypeOK
  BY DEF IInv, TypeInv
<1>2. QED
  BY <1>1, RowTyped DEF CallGood, Running, Sent

LEMMA ReturnSound ==
  ASSUME IInv, NEW c \in Calls, Return(c), UNCHANGED <<rows, provider>>
  PROVE  Sound(c)
BY ReturnTyped, QuietSound DEF IInv

LEMMA StartsSound ==
  ASSUME IInv, NEW c \in Calls,
         \/ \E amount \in Amounts : RequestRefund(c, amount)
         \/ \E r \in Returns : EvaluateReturnRefund(c, r)
         \/ \E i \in RefundIds : ReadForApproval(c, i)
  PROVE  Sound(c)
<1>1. TypeInv /\ RefundsTypeOK /\ UNCHANGED <<rows, provider>>
  BY DEF IInv, TypeInv, RequestRefund, EvaluateReturnRefund, ReadForApproval
<1>2. ASSUME NEW amount \in Amounts, RequestRefund(c, amount)
      PROVE  Sound(c)
  <2>1. [Idle EXCEPT !.pc = "create", !.amount = amount] \in CallRows
    BY DEF Idle, CallRows, Places
  <2>2. /\ call' \in [Calls -> CallRows] /\ OthersKept(c)
        /\ call'[c] = [Idle EXCEPT !.pc = "create", !.amount = amount]
    BY <1>1, <1>2, <2>1, CallTyped DEF RequestRefund, Start
  <2>3. CallGood(c)'
    BY <2>2 DEF CallGood, Idle, Running, Sent
  <2>4. QED
    BY <1>1, <2>2, <2>3, QuietSound
<1>3. ASSUME NEW r \in Returns, EvaluateReturnRefund(c, r)
      PROVE  Sound(c)
  <2>1. [Idle EXCEPT !.pc = "claim", !.return_id = r] \in CallRows
    BY DEF Idle, CallRows, Places
  <2>2. /\ call' \in [Calls -> CallRows] /\ OthersKept(c)
        /\ call'[c] = [Idle EXCEPT !.pc = "claim", !.return_id = r]
    BY <1>1, <1>3, <2>1, CallTyped DEF EvaluateReturnRefund, Start
  <2>3. CallGood(c)'
    BY <2>2 DEF CallGood, Idle, Running, Sent
  <2>4. QED
    BY <1>1, <2>2, <2>3, QuietSound
<1>4. ASSUME NEW i \in RefundIds, ReadForApproval(c, i)
      PROVE  Sound(c)
  <2>1. [Idle EXCEPT !.pc = "approve", !.id = i] \in CallRows
    BY DEF Idle, CallRows, Places
  <2>2. /\ call' \in [Calls -> CallRows] /\ OthersKept(c)
        /\ call'[c] = [Idle EXCEPT !.pc = "approve", !.id = i]
    BY <1>1, <1>4, <2>1, CallTyped DEF ReadForApproval, Start
  <2>3. Exists(i) /\ Exists(i)'
    BY <1>1, <1>4, NoStatus DEF ReadForApproval, rows, Exists, Statuses
  <2>4. CallGood(c)'
    BY <2>2, <2>3 DEF CallGood, Idle, Running, Sent
  <2>5. QED
    BY <1>1, <2>2, <2>4, QuietSound
<1>5. QED
  BY <1>2, <1>3, <1>4

\* A call that goes on to execute or to read back a refund of which it has a reason.
LEMMA ExecuteSound ==
  ASSUME IInv, NEW c \in Calls, NEW i \in RefundIds, Exists(i), UNCHANGED <<rows, provider>>,
         call' \in [Calls -> CallRows], OthersKept(c),
         call'[c].id = i, call'[c].reason \in Reasons,
         call'[c].pc \in {"execute", "readback"},
         call'[c].pc = "readback" =>
           Authorized(i) /\ <<i, <<refund[i].amount, call'[c].reason>>>> \in submitted
  PROVE  Sound(c)
<1>1. /\ Exists(i)' /\ refund' = refund /\ submitted' = submitted
      /\ Authorized(i) => Authorized(i)'
  BY DEF rows, Exists, Authorized
<1>2. Key(c)' = <<refund[i].amount, call'[c].reason>>
  BY <1>1 DEF Key
<1>3. CallGood(c)'
  BY <1>1, <1>2 DEF CallGood, Running, Sent
<1>4. QED
  BY <1>3, QuietSound

LEMMA UnresolvedAuthorized ==
  ASSUME IInv, NEW i \in RefundIds, Unresolved(i)
  PROVE  Exists(i) /\ Authorized(i)
<1>1. RefundsTypeOK /\ RowGood(i)
  BY DEF IInv, TypeInv
<1>2. Exists(i) /\ Status(i) = refund[i].status
  BY <1>1, NoStatus, RowTyped DEF Unresolved, Statuses
<1>3. QED
  BY <1>1, <1>2 DEF RowGood, Unresolved

LEMMA BeginsSound ==
  ASSUME IInv, NEW c \in Calls, Begin(c)
  PROVE  Sound(c)
<1>1. TypeInv /\ RefundsTypeOK
  BY DEF IInv, TypeInv
<1>2. ASSUME NEW i \in RefundIds, ResumeReturnRefund(c, i)
      PROVE  Sound(c)
  <2> DEFINE r == [Idle EXCEPT !.pc = "execute", !.id = i, !.reason = DefaultReason]
  <2>1. r \in CallRows /\ r.id = i /\ r.reason = DefaultReason /\ r.pc = "execute"
    BY ConstantsTyped DEF Idle, CallRows, Places
  <2>2. Exists(i) /\ UNCHANGED <<rows, provider>> /\ call' = [call EXCEPT ![c] = r]
    BY <1>2 DEF ResumeReturnRefund, Start
  <2> HIDE DEF r
  <2>3. call' \in [Calls -> CallRows] /\ OthersKept(c) /\ call'[c] = r
    BY <1>1, <2>1, <2>2, CallTyped
  <2>4. QED
    BY <2>1, <2>2, <2>3, ExecuteSound, ConstantsTyped
<1>3. ASSUME NEW i \in RefundIds, NEW reason \in Reasons, CallExecute(c, i, reason)
      PROVE  Sound(c)
  <2> DEFINE r == [Idle EXCEPT !.pc = "execute", !.id = i, !.reason = reason]
  <2>1. r \in CallRows /\ r.id = i /\ r.reason = reason /\ r.pc = "execute"
    BY DEF Idle, CallRows, Places
  <2>2. Exists(i) /\ UNCHANGED <<rows, provider>> /\ call' = [call EXCEPT ![c] = r]
    BY <1>3 DEF CallExecute, Start
  <2> HIDE DEF r
  <2>3. call' \in [Calls -> CallRows] /\ OthersKept(c) /\ call'[c] = r
    BY <1>1, <2>1, <2>2, CallTyped
  <2>4. QED
    BY <2>1, <2>2, <2>3, ExecuteSound
<1>4. ASSUME NEW i \in RefundIds, RecoverRefund(c, i)
      PROVE  Sound(c)
  <2> DEFINE r == [Idle EXCEPT !.pc = "readback", !.id = i, !.reason = command[i], !.auto = TRUE]
  <2>1. command[i] \in Reasons
    BY <1>1, <1>4 DEF RecoverRefund, RefundsTypeOK
  <2>2. r \in CallRows /\ r.id = i /\ r.reason = command[i] /\ r.pc = "readback"
    BY <2>1 DEF Idle, CallRows, Places, Running
  <2>3. Exists(i) /\ Authorized(i) /\ <<i, <<refund[i].amount, command[i]>>>> \in submitted
    BY <1>4, UnresolvedAuthorized DEF RecoverRefund, IInv, CommandGood
  <2>4. UNCHANGED <<rows, provider>> /\ call' = [call EXCEPT ![c] = r]
    BY <1>4 DEF RecoverRefund, Start
  <2> HIDE DEF r
  <2>5. call' \in [Calls -> CallRows] /\ OthersKept(c) /\ call'[c] = r
    BY <1>1, <2>2, <2>4, CallTyped
  <2>6. QED
    BY <2>1, <2>2, <2>3, <2>4, <2>5, ExecuteSound
<1>5. QED
  BY <1>2, <1>3, <1>4, StartsSound DEF Begin

\* The reason of a lookup without one is the reason of no refund.
LEMMA WorkerSound ==
  ASSUME IInv, NEW c \in Calls, Worker(c)
  PROVE  Sound(c)
<1>1. TypeInv /\ RefundsTypeOK
  BY DEF IInv, TypeInv
<1>2. ASSUME NEW i \in RefundIds, Escalate(c, i)
      PROVE  Sound(c)
  <2>1. refund' = refund /\ command' = command /\ exceptions' = exceptions /\ approved' = approved
        /\ idempotency' = idempotency /\ paid' = paid /\ call' = call
        /\ submitted' = submitted /\ paidFor' = paidFor
        /\ escalated' = escalated \cup {i}
    BY <1>2 DEF Escalate, provider
  <2>2. RowsKept
    BY <2>1 DEF RowsKept, Exists
  <2>3. TypeInv' /\ KeysPaid'
    BY <1>1, <2>1 DEF IInv, TypeInv, RefundsTypeOK, KeysPaid
  <2>4. \A j \in RefundIds : RowGood(j)'
    BY <2>1, <2>2, RowStaysGood DEF IInv
  <2>5. CallGood(c)' /\ OthersKept(c)
    BY <2>1, <2>2, CallStaysGood DEF OthersKept
  <2>6. QED
    BY <2>1, <2>2, <2>3, <2>4, <2>5, CommandsStay DEF Sound
<1>3. ASSUME NEW i \in RefundIds, RecoveryPass(c, i)
      PROVE  Sound(c)
  <2> DEFINE r == [Idle EXCEPT !.id = i, !.reason = DefaultReason, !.pc = "execute"]
  <2>1. <<refund[i].amount, NoReason>> \notin paid
    BY <1>1, ConstantsTyped DEF TypeInv
  <2>2. call' = [call EXCEPT ![c] = r] /\ UNCHANGED <<rows, provider>>
    BY <1>3, <2>1 DEF RecoveryPass, Start
  <2>3. r \in CallRows /\ r.id = i /\ r.reason = DefaultReason /\ r.pc = "execute"
    BY ConstantsTyped DEF Idle, CallRows, Places
  <2>4. Exists(i)
    BY <1>1, <1>3, NoStatus DEF RecoveryPass, Statuses
  <2> HIDE DEF r
  <2>5. call' \in [Calls -> CallRows] /\ OthersKept(c) /\ call'[c] = r
    BY <1>1, <2>2, <2>3, CallTyped
  <2>6. QED
    BY <2>2, <2>3, <2>4, <2>5, ConstantsTyped, ExecuteSound
<1>4. QED
  BY <1>2, <1>3 DEF Worker

LEMMA ClaimConflictsSound ==
  ASSUME IInv, NEW c \in Calls, ClaimConflicts(c)
  PROVE  Sound(c)
<1>1. TypeInv /\ RefundsTypeOK /\ CallGood(c) /\ call[c].pc = "claim"
  BY DEF IInv, TypeInv, ClaimConflicts, At
<1>2. PICK i \in RefundIds :
        /\ Exists(i) /\ refund[i].return_id = call[c].return_id
        /\ IF Status(i) # "permitted" THEN Return(c)
           ELSE call' = [call EXCEPT ![c].id = i, ![c].reason = DefaultReason,
                  ![c].pc = IF Threshold(refund[i].amount) = "ALLOW"
                            THEN "execute" ELSE "correct"]
  BY DEF ClaimConflicts
<1>3. UNCHANGED <<rows, provider>>
  BY DEF ClaimConflicts
<1>4. CASE Status(i) # "permitted"
  BY <1>2, <1>3, <1>4, ReturnSound
<1>5. CASE Status(i) = "permitted"
  <2>1. refund[i].return_id # None
    BY <1>1, <1>2, ConstantsTyped DEF CallGood
  <2>2. PICK p \in {"execute", "correct"} :
          call' = [call EXCEPT ![c].id = i, ![c].reason = DefaultReason, ![c].pc = p]
    BY <1>2, <1>5
  <2>3. /\ call' \in [Calls -> CallRows] /\ OthersKept(c)
        /\ call'[c].pc = p /\ call'[c].id = i /\ call'[c].reason = DefaultReason
    BY <1>1, <2>2, ConstantsTyped DEF TypeInv, CallRows, Places, OthersKept
  <2>4. Exists(i)' /\ refund'[i].return_id # None
    BY <1>2, <1>3, <2>1 DEF rows, Exists
  <2>5. CallGood(c)'
    BY <2>3, <2>4, ConstantsTyped DEF CallGood, Running, Sent
  <2>6. QED
    BY <1>3, <2>3, <2>5, QuietSound
<1>6. QED
  BY <1>4, <1>5

LEMMA ReadForExecutionSound ==
  ASSUME IInv, NEW c \in Calls, ReadForExecution(c)
  PROVE  Sound(c)
<1> DEFINE i == call[c].id
<1>1. TypeInv /\ RefundsTypeOK /\ call[c].pc = "execute" /\ UNCHANGED <<rows, provider>>
  BY DEF IInv, TypeInv, ReadForExecution, At
<1>2. i \in RefundIds /\ Exists(i) /\ call[c].reason \in Reasons /\ RowGood(i)
  BY <1>1, GoodHere DEF IInv
<1>3. CASE Status(i) \in {"permitted", "approved"}
  <2>1. Authorized(i)
    BY <1>1, <1>2, <1>3, RowTyped DEF RowGood
  <2>2. Goto(c, "submit") /\ "submit" \in Places
    BY <1>3 DEF ReadForExecution, Places, Running
  <2>3. /\ call' \in [Calls -> CallRows] /\ OthersKept(c) /\ call'[c].pc = "submit"
        /\ call'[c].id = i /\ call'[c].reason = call[c].reason
    BY <1>1, <2>2, PcTyped
  <2>4. Exists(i)' /\ Authorized(i)'
    BY <1>1, <1>2, <2>1, <2>3 DEF rows, Exists, Authorized
  <2>5. CallGood(c)'
    BY <1>2, <2>3, <2>4 DEF CallGood, Running, Sent
  <2>6. QED
    BY <1>1, <2>3, <2>5, QuietSound
<1>4. CASE Status(i) \notin {"permitted", "approved"}
  BY <1>1, <1>4, ReturnSound DEF ReadForExecution
<1>5. QED
  BY <1>3, <1>4

LEMMA KeyTyped ==
  ASSUME IInv, NEW c \in Calls, call[c].pc \in Running
  PROVE  Key(c) \in (0..TotalAmount) \X Reasons /\ Key(c) \in Keys
BY GoodHere DEF Key, Keys

\* Steps that leave the refund as it is and go from one place of an execution to another.
LEMMA GoesOnSound ==
  ASSUME IInv, NEW c \in Calls, NEW p \in {"mutate", "confirm", "rejected"}, call[c].pc \in Running,
         Goto(c, p), UNCHANGED <<rows, provider>>, p = "confirm" => Key(c) \in paid,
         <<call[c].id, Key(c)>> \in submitted
  PROVE  Sound(c)
<1> DEFINE i == call[c].id
<1>1. /\ i \in RefundIds /\ Exists(i) /\ TypeInv /\ call[c].reason \in Reasons /\ Authorized(i)
  BY GoodHere
<1>2. /\ call' \in [Calls -> CallRows] /\ OthersKept(c) /\ call'[c].pc = p
      /\ call'[c].id = i /\ call'[c].reason = call[c].reason
  BY <1>1, PcTyped DEF Places, Running
<1>3. /\ Exists(i)' /\ Authorized(i)' /\ paid' = paid /\ submitted' = submitted
      /\ Key(c)' = Key(c)
  BY <1>1, <1>2 DEF rows, provider, Exists, Authorized, Key
<1>4. CallGood(c)'
  BY <1>1, <1>2, <1>3 DEF CallGood, Running, Sent
<1>5. QED
  BY <1>2, <1>4, QuietSound

LEMMA SentKey ==
  ASSUME IInv, NEW c \in Calls, call[c].pc \in Sent
  PROVE  call[c].pc \in Running /\ <<call[c].id, Key(c)>> \in submitted
BY DEF IInv, CallGood, Sent, Running

LEMMA ReplaySound ==
  ASSUME IInv, NEW c \in Calls,
         ReplayResult(c) \/ WaitExpires(c) \/ ProviderRejects(c) \/ ClaimNothing(c)
  PROVE  Sound(c)
<1>1. CASE ReplayResult(c)
  <2>1. Key(c) \in paid
    BY <1>1, KeyTyped DEF ReplayResult, At, Running, IInv, KeysPaid
  <2>2. QED
    BY <1>1, <2>1, SentKey, GoesOnSound DEF ReplayResult, At, Sent
<1>2. CASE ProviderRejects(c)
  BY <1>2, SentKey, GoesOnSound DEF ProviderRejects, At, Sent
<1>3. CASE WaitExpires(c) \/ ClaimNothing(c)
  BY <1>3, ReturnSound DEF WaitExpires, ClaimNothing
<1>4. QED
  BY <1>1, <1>2, <1>3

LEMMA ReadBackSound ==
  ASSUME IInv, NEW c \in Calls, ReadBack(c)
  PROVE  Sound(c)
<1> DEFINE i == call[c].id
<1>1. call[c].pc = "readback" /\ UNCHANGED <<rows, provider>>
  BY DEF ReadBack, At
<1>2. /\ i \in RefundIds /\ Exists(i) /\ TypeInv /\ call[c].reason \in Reasons /\ Authorized(i)
      /\ <<i, Key(c)>> \in submitted
  BY <1>1, GoodHere, SentKey DEF Running, Sent
<1>3. PICK verdict \in {IF Key(c) \in paid THEN "succeeded" ELSE "not_applied", "unknown"} :
        call' = [call EXCEPT ![c].pc = "resolve", ![c].verdict = verdict]
  BY DEF ReadBack
<1>4. verdict \in Verdicts /\ (verdict = "succeeded" => Key(c) \in paid)
  BY DEF Verdicts
<1>5. /\ call' \in [Calls -> CallRows] /\ OthersKept(c) /\ call'[c].pc = "resolve"
      /\ call'[c].id = i /\ call'[c].reason = call[c].reason /\ call'[c].verdict = verdict
  BY <1>2, <1>3, <1>4, VerdictTyped
<1>6. /\ Exists(i)' /\ Authorized(i)' /\ paid' = paid /\ submitted' = submitted
      /\ Key(c)' = Key(c)
  BY <1>1, <1>2, <1>5 DEF rows, provider, Exists, Authorized, Key
<1>7. CallGood(c)'
  BY <1>2, <1>4, <1>5, <1>6 DEF CallGood, Running, Sent
<1>8. QED
  BY <1>1, <1>5, <1>7, QuietSound

LEMMA CreateRefundSound ==
  ASSUME IInv, NEW c \in Calls, CreateRefund(c)
  PROVE  Sound(c)
<1> DEFINE n == call[c].amount
           r == [return_id |-> None, amount |-> Lesser(n, TotalAmount),
                 status |-> StatusFor(Decision(n))]
<1>1. TypeInv /\ RefundsTypeOK /\ n \in Nat
  BY ConstantsTyped DEF IInv, TypeInv, CallGood, CreateRefund, At
<1>2. PICK i \in RefundIds : Fresh(i) /\ refund' = [refund EXCEPT ![i] = r]
  BY DEF CreateRefund
<1>3. /\ r \in RefundRows
      /\ r.status \notin {"approval_required", "denied"} =>
           r.amount <= AutomaticLimit \/ AboveLimit = "ALLOW"
      /\ r.status \notin {"external_confirmed", "reconciled", "completed"}
  <2>1. Lesser(n, TotalAmount) \in 0..TotalAmount /\ (n <= TotalAmount => Lesser(n, TotalAmount) = n)
    BY <1>1, ConstantsTyped DEF Lesser
  <2>2. CASE n <= 0 \/ n > TotalAmount
    BY <2>1, <2>2 DEF Decision, StatusFor, RefundRows, Statuses
  <2>3. CASE ~ (n <= 0 \/ n > TotalAmount) /\ n <= AutomaticLimit
    BY <1>1, <2>1, <2>3, ConstantsTyped DEF Decision, Threshold, StatusFor, RefundRows, Statuses
  <2>4. CASE ~ (n <= 0 \/ n > TotalAmount) /\ ~ n <= AutomaticLimit
    BY <1>1, <2>1, <2>4, ConstantsTyped DEF Decision, Threshold, StatusFor, RefundRows, Statuses, Decisions
  <2>5. QED
    BY <2>2, <2>3, <2>4
<1> HIDE DEF r
<1>4. /\ refund' \in [RefundIds -> RefundRows \cup {None}]
      /\ refund'[i] = r /\ ~ Exists(i)
      /\ \A j \in RefundIds : j # i => refund'[j] = refund[j]
  BY <1>1, <1>2, <1>3, NewKept
<1>5. UNCHANGED <<command, exceptions, escalated, approved, submitted, idempotency, paid, paidFor>> /\ Return(c)
  BY DEF CreateRefund, provider
<1>6. call' \in [Calls -> CallRows] /\ OthersKept(c) /\ CallGood(c)'
  BY <1>1, <1>5, ReturnTyped
<1>7. RowsKept
  BY <1>4, <1>5 DEF RowsKept, Exists
<1>8. TypeInv' /\ KeysPaid'
  BY <1>1, <1>4, <1>5, <1>6 DEF IInv, TypeInv, RefundsTypeOK, KeysPaid
<1>9. RowGood(i)'
  BY <1>3, <1>4 DEF RowGood, Authorized
<1>10. \A j \in RefundIds : RowGood(j)'
  BY <1>4, <1>7, <1>9, RowStaysGood DEF IInv
<1>11. QED
  BY <1>5, <1>6, <1>7, <1>8, <1>10, CommandsStay DEF Sound

LEMMA RemainingTyped ==
  ASSUME IInv
  PROVE  Remaining \in Int /\ Remaining <= TotalAmount
<1>1. Money(Committed) \subseteq RefundIds \X (1..TotalAmount)
  BY DEF Money, Committed
<1>2. IsFiniteSet(RefundIds) /\ IsFiniteSet(1..TotalAmount)
  BY ConstantsTyped, FS_Interval DEF RefundIds
<1>3. IsFiniteSet(Money(Committed))
  BY <1>1, <1>2, FS_Product, FS_Subset
<1>4. Cardinality(Money(Committed)) \in Nat
  BY <1>3, FS_CardinalityType
<1>5. QED
  BY <1>4, ConstantsTyped DEF Remaining

LEMMA ClaimCapacitySound ==
  ASSUME IInv, NEW c \in Calls, ClaimCapacity(c)
  PROVE  Sound(c)
<1> DEFINE r == [return_id |-> call[c].return_id, amount |-> Remaining, status |-> "permitted"]
<1>1. TypeInv /\ RefundsTypeOK /\ call[c].return_id \in Returns
  BY DEF IInv, TypeInv, CallGood, ClaimCapacity, At
<1>2. PICK i \in RefundIds, p \in {"execute", "correct"} :
        /\ Fresh(i) /\ refund' = [refund EXCEPT ![i] = r]
        /\ call' = [call EXCEPT ![c] = [[call[c] EXCEPT !.reason = DefaultReason, !.pc = p] EXCEPT !.id = i]]
  <2>1. PICK i \in RefundIds :
          /\ Fresh(i) /\ refund' = [refund EXCEPT ![i] = r]
          /\ call' = [call EXCEPT ![c] = [[call[c] EXCEPT !.reason = DefaultReason,
               !.pc = IF Threshold(Remaining) = "ALLOW" THEN "execute" ELSE "correct"]
                 EXCEPT !.id = i]]
    BY DEF ClaimCapacity
  <2>2. QED
    BY <2>1
<1>3. r \in RefundRows /\ r.status = "permitted" /\ r.return_id # None
  BY <1>1, RemainingTyped, ConstantsTyped DEF ClaimCapacity, CanClaim, RefundRows, Statuses
<1> HIDE DEF r
<1>4. /\ refund' \in [RefundIds -> RefundRows \cup {None}]
      /\ refund'[i] = r /\ ~ Exists(i) /\ Exists(i)'
      /\ \A j \in RefundIds : j # i => refund'[j] = refund[j]
  BY <1>1, <1>2, <1>3, NewKept
<1>5. UNCHANGED <<command, exceptions, escalated, approved, submitted, idempotency, paid, paidFor>>
  BY DEF ClaimCapacity, provider
<1>6. /\ call' \in [Calls -> CallRows] /\ OthersKept(c)
      /\ call'[c].pc = p /\ call'[c].id = i /\ call'[c].reason = DefaultReason
  <2> DEFINE q == [[call[c] EXCEPT !.reason = DefaultReason, !.pc = p] EXCEPT !.id = i]
  <2>1. call[c] \in CallRows /\ p \in Places
    BY <1>1 DEF TypeInv, Places
  <2>2. q \in CallRows /\ q.pc = p /\ q.id = i /\ q.reason = DefaultReason
    BY <2>1, ConstantsTyped DEF CallRows
  <2>3. call' = [call EXCEPT ![c] = q]
    BY <1>2
  <2> HIDE DEF q
  <2>4. QED
    BY <1>1, <2>2, <2>3, CallTyped
<1>7. RowsKept
  BY <1>4, <1>5 DEF RowsKept, Exists
<1>8. TypeInv' /\ KeysPaid'
  BY <1>1, <1>4, <1>5, <1>6 DEF IInv, TypeInv, RefundsTypeOK, KeysPaid
<1>9. RowGood(i)' /\ CallGood(c)'
  BY <1>3, <1>4, <1>6, ConstantsTyped DEF RowGood, Authorized, CallGood, Running, Sent
<1>10. \A j \in RefundIds : RowGood(j)'
  BY <1>4, <1>7, <1>9, RowStaysGood DEF IInv
<1>11. QED
  BY <1>5, <1>6, <1>7, <1>8, <1>9, <1>10, CommandsStay DEF Sound

\* A put of a status by the call that works on the refund.
LEMMA WorksSound ==
  ASSUME IInv, NEW c \in Calls, call[c].pc \in Running, NEW s \in Statuses,
         NEW p \in {"idle", "execute", "reconcile", "settle", "reserve"},
         PutStatus(call[c].id, s), UNCHANGED provider,
         s \in {"external_confirmed", "reconciled", "completed"} => Paid(call[c].id),
         p \in {"reconcile", "settle"} => Paid(call[c].id),
         approved' = approved, escalated' = escalated, CommandsMove,
         exceptions' \in [RefundIds -> 0..MaxAttempts],
         call' \in [Calls -> CallRows], OthersKept(c), call'[c].pc = p,
         p # "idle" => call'[c].id = call[c].id /\ call'[c].reason = call[c].reason,
         p = "reserve" => <<call[c].id, Key(c)>> \in submitted'
  PROVE  Sound(c)
<1>1. PICK i \in RefundIds :
        /\ i = call[c].id /\ Exists(i) /\ TypeInv /\ RefundsTypeOK
        /\ call[c].reason \in Reasons /\ Authorized(i)
  BY GoodHere DEF TypeInv
<1>2. /\ Exists(i)'
      /\ refund'[i].amount = refund[i].amount /\ refund'[i].return_id = refund[i].return_id
  BY <1>1, PutKept
<1>3. /\ paid' = paid /\ (Paid(i) => Paid(i)') /\ Authorized(i)'
      /\ p # "idle" => Key(c)' = Key(c)
  BY <1>1, <1>2, MovedTyped DEF provider, Paid, Authorized, Key
<1>4. CallGood(c)'
  <2>1. CASE p = "idle"
    BY <2>1 DEF CallGood, Running, Sent
  <2>2. CASE p # "idle"
    BY <1>1, <1>2, <1>3, <2>2 DEF CallGood, Running, Sent
  <2>3. QED
    BY <2>1, <2>2
<1>5. Allowed(i, s)
  BY <1>1 DEF Allowed
<1>6. approved \subseteq approved' /\ approved' \subseteq RefundIds
  BY <1>1 DEF RefundsTypeOK
<1>7. QED
  BY <1>1, <1>4, <1>5, <1>6, PutSound

LEMMA SubmitSound ==
  ASSUME IInv, NEW c \in Calls, Submit(c)
  PROVE  Sound(c)
<1>1. call[c].pc = "submit" /\ call[c].pc \in Running /\ "reserve" \in Places
  BY DEF Submit, At, Running, Places
<1>2. TypeInv /\ RefundsTypeOK /\ call[c].id \in RefundIds /\ call[c].reason \in Reasons
  BY <1>1, GoodHere DEF TypeInv
<1>3. /\ CommandsMove /\ exceptions' \in [RefundIds -> 0..MaxAttempts]
      /\ <<call[c].id, Key(c)>> \in submitted'
  BY <1>1, <1>2, GoodHere DEF Submit, RefundsTypeOK, CommandsMove, Key
<1>4. /\ call' \in [Calls -> CallRows] /\ OthersKept(c) /\ call'[c].pc = "reserve"
      /\ call'[c].id = call[c].id /\ call'[c].reason = call[c].reason
  BY <1>1, <1>2, PcTyped DEF Submit
<1>5. /\ PutStatus(call[c].id, "mutation_submitted") /\ "mutation_submitted" \in Statuses
      /\ UNCHANGED provider /\ approved' = approved /\ escalated' = escalated
  BY DEF Submit, Statuses
<1>6. QED
  BY <1>1, <1>3, <1>4, <1>5, WorksSound

LEMMA ConfirmSound ==
  ASSUME IInv, NEW c \in Calls, Confirm(c) \/ Reconcile(c) \/ Settle(c)
  PROVE  Sound(c)
<1>1. call[c].pc \in {"confirm", "reconcile", "settle"}
      /\ UNCHANGED <<command, exceptions, escalated, approved, submitted, provider>>
  BY DEF Confirm, Reconcile, Settle, At
<1>2. /\ TypeInv /\ RefundsTypeOK /\ call[c].id \in RefundIds /\ call[c].reason \in Reasons
      /\ call[c].pc \in Running
  BY <1>1, GoodHere DEF TypeInv, Running
<1>3. Paid(call[c].id)
  <2>1. CallGood(c)
    BY DEF IInv
  <2>2. QED
    BY <1>1, <1>2, <2>1 DEF CallGood, Key, Paid, Sent
<1>4. CommandsMove /\ exceptions' \in [RefundIds -> 0..MaxAttempts]
  BY <1>1, <1>2 DEF RefundsTypeOK, CommandsMove
<1>5. {"reconcile", "settle"} \subseteq Places /\ {"external_confirmed", "reconciled", "completed"} \subseteq Statuses
  BY DEF Places, Running, Statuses
<1>6. CASE Confirm(c)
  <2>1. PutStatus(call[c].id, "external_confirmed") /\ Goto(c, "reconcile")
    BY <1>6 DEF Confirm
  <2>2. /\ call' \in [Calls -> CallRows] /\ OthersKept(c) /\ call'[c].pc = "reconcile"
        /\ call'[c].id = call[c].id /\ call'[c].reason = call[c].reason
    BY <1>2, <1>5, <2>1, PcTyped
  <2>3. QED
    BY <1>1, <1>2, <1>3, <1>4, <1>5, <2>1, <2>2, WorksSound
<1>7. CASE Reconcile(c)
  <2>1. PutStatus(call[c].id, "reconciled") /\ Goto(c, "settle")
    BY <1>7 DEF Reconcile
  <2>2. /\ call' \in [Calls -> CallRows] /\ OthersKept(c) /\ call'[c].pc = "settle"
        /\ call'[c].id = call[c].id /\ call'[c].reason = call[c].reason
    BY <1>2, <1>5, <2>1, PcTyped
  <2>3. QED
    BY <1>1, <1>2, <1>3, <1>4, <1>5, <2>1, <2>2, WorksSound
<1>8. CASE Settle(c)
  <2>1. PutStatus(call[c].id, "completed") /\ Return(c)
    BY <1>8 DEF Settle
  <2>2. call' \in [Calls -> CallRows] /\ OthersKept(c) /\ call'[c].pc = "idle"
    BY <1>2, <2>1, ReturnTyped DEF Return, Idle, TypeInv
  <2>3. QED
    BY <1>1, <1>2, <1>3, <1>4, <1>5, <2>1, <2>2, WorksSound
<1>9. QED
  BY <1>6, <1>7, <1>8

LEMMA ResolveSound ==
  ASSUME IInv, NEW c \in Calls, ResolveSucceeded(c) \/ ResolveNotApplied(c) \/ ResolveUnknown(c)
  PROVE  Sound(c)
<1>1. /\ call[c].pc = "resolve" /\ call[c].pc \in Running
      /\ UNCHANGED <<command, escalated, approved, submitted, provider>>
  BY DEF ResolveSucceeded, ResolveNotApplied, ResolveUnknown, At, Running
<1>2. /\ TypeInv /\ RefundsTypeOK /\ call[c].id \in RefundIds /\ call[c].reason \in Reasons
      /\ CommandsMove
  BY <1>1, GoodHere DEF TypeInv, CommandsMove
<1>3. {"reconcile", "execute"} \subseteq Places
      /\ {"external_confirmed", "permitted", "mutation_uncertain"} \subseteq Statuses
  BY DEF Places, Running, Statuses
<1>4. exceptions' \in [RefundIds -> 0..MaxAttempts]
  BY <1>2, ConstantsTyped
     DEF ResolveSucceeded, ResolveNotApplied, ResolveUnknown, CountException, Lesser, RefundsTypeOK
<1>5. Return(c) => call' \in [Calls -> CallRows] /\ OthersKept(c) /\ CallGood(c)' /\ call'[c].pc = "idle"
  BY <1>2, ReturnTyped
<1>6. CASE refund' = refund /\ Return(c)
  <2>1. RowsKept /\ TypeInv' /\ KeysPaid'
    BY <1>1, <1>2, <1>4, <1>5, <1>6
       DEF provider, RowsKept, Exists, IInv, TypeInv, RefundsTypeOK, KeysPaid
  <2>2. \A i \in RefundIds : RowGood(i)'
    BY <1>6, <2>1, RowStaysGood DEF IInv
  <2>3. QED
    BY <1>1, <1>5, <1>6, <2>1, <2>2, CommandsStay DEF Sound
<1>7. CASE ResolveSucceeded(c) /\ Unresolved(call[c].id)
  <2>1. PutStatus(call[c].id, "external_confirmed") /\ Goto(c, "reconcile")
    BY <1>7 DEF ResolveSucceeded
  <2>2. /\ call' \in [Calls -> CallRows] /\ OthersKept(c) /\ call'[c].pc = "reconcile"
        /\ call'[c].id = call[c].id /\ call'[c].reason = call[c].reason
    BY <1>2, <1>3, <2>1, PcTyped
  <2>3. Paid(call[c].id)
    BY <1>1, <1>2, <1>7 DEF IInv, CallGood, ResolveSucceeded, Key, Paid, Sent
  <2>4. QED
    BY <1>1, <1>2, <1>3, <1>4, <2>1, <2>2, <2>3, WorksSound
<1>8. CASE ResolveUnknown(c) /\ Unresolved(call[c].id)
  <2>1. PutStatus(call[c].id, "mutation_uncertain") /\ Return(c)
    BY <1>8 DEF ResolveUnknown
  <2>2. QED
    BY <1>1, <1>2, <1>3, <1>4, <1>5, <2>1, WorksSound
<1>9. CASE ResolveNotApplied(c) /\ Unresolved(call[c].id)
  <2>1. PutStatus(call[c].id, "permitted")
    BY <1>9 DEF ResolveNotApplied
  <2>2. CASE Return(c)
    BY <1>1, <1>2, <1>3, <1>4, <1>5, <2>1, <2>2, WorksSound
  <2>3. CASE call' = [call EXCEPT ![c].pc = "execute", ![c].auto = FALSE]
    <3>1. /\ call' \in [Calls -> CallRows] /\ OthersKept(c) /\ call'[c].pc = "execute"
          /\ call'[c].id = call[c].id /\ call'[c].reason = call[c].reason
      BY <1>2, <1>3, <2>3, ZenonT(40) DEF TypeInv, CallRows, OthersKept
    <3>2. QED
      BY <1>1, <1>2, <1>3, <1>4, <2>1, <3>1, WorksSound
  <2>4. QED
    BY <1>9, <2>2, <2>3 DEF ResolveNotApplied
<1>10. QED
  BY <1>6, <1>7, <1>8, <1>9 DEF ResolveSucceeded, ResolveNotApplied, ResolveUnknown

LEMMA ApproveSound ==
  ASSUME IInv, NEW c \in Calls, ApproveRefund(c) \/ CorrectClaim(c)
  PROVE  Sound(c)
<1>1. /\ call[c].pc \in {"approve", "correct"} /\ Return(c)
      /\ UNCHANGED <<command, exceptions, escalated, submitted, provider>>
  BY DEF ApproveRefund, CorrectClaim, At
<1>2. PICK i \in RefundIds : i = call[c].id /\ Exists(i) /\ TypeInv /\ RefundsTypeOK
  BY <1>1, GoodHere DEF TypeInv
<1>3. CommandsMove /\ exceptions' \in [RefundIds -> 0..MaxAttempts] /\ escalated' = escalated
  BY <1>1, <1>2 DEF RefundsTypeOK, CommandsMove
<1>4. call' \in [Calls -> CallRows] /\ OthersKept(c) /\ CallGood(c)'
  BY <1>1, <1>2, ReturnTyped
<1>5. CASE ApproveRefund(c)
  <2>1. PutStatus(i, "approved") /\ approved' = approved \cup {i} /\ "approved" \in Statuses
    BY <1>2, <1>5 DEF ApproveRefund, Statuses
  <2>2. Allowed(i, "approved")'
    BY <2>1 DEF Allowed, Authorized
  <2>3. approved \subseteq approved' /\ approved' \subseteq RefundIds
    BY <1>2, <2>1 DEF RefundsTypeOK
  <2>4. QED
    BY <1>1, <1>2, <1>3, <1>4, <2>1, <2>2, <2>3, PutSound
<1>6. CASE CorrectClaim(c)
  <2>1. PutStatus(i, StatusFor(AboveLimit)) /\ approved' = approved
    BY <1>2, <1>6 DEF CorrectClaim
  <2>2. StatusFor(AboveLimit) \in {"denied", "approval_required", "permitted"}
    BY ConstantsTyped DEF StatusFor, Decisions
  <2>3. Authorized(i)
    BY <1>2, <1>6 DEF IInv, CallGood, CorrectClaim, At, Authorized
  <2>4. Allowed(i, StatusFor(AboveLimit)) /\ StatusFor(AboveLimit) \in Statuses
    BY <2>2, <2>3 DEF Allowed, Statuses
  <2>5. approved \subseteq approved' /\ approved' \subseteq RefundIds
    BY <1>2, <2>1 DEF RefundsTypeOK
  <2>6. QED
    BY <1>1, <1>2, <1>3, <1>4, <2>1, <2>4, <2>5, PutSound
<1>7. QED
  BY <1>5, <1>6

\* The provider's and the idempotency record's side of an execution.
LEMMA MutatesSound ==
  ASSUME IInv, NEW c \in Calls, call[c].pc \in Running,
         NEW p \in {"mutate", "complete", "timeout", "confirm", "readback"}, Goto(c, p),
         refund' = refund, command' = command, escalated' = escalated, approved' = approved,
         submitted' = submitted, <<call[c].id, Key(c)>> \in submitted,
         exceptions' \in [RefundIds -> 0..MaxAttempts],
         UNCHANGED <<paid, paidFor>> \/ MakeRefund(c),
         NEW s \in {"free", "reserved", "completed"},
         idempotency' \in {idempotency, [idempotency EXCEPT ![Key(c)] = s]},
         s = "completed" => Key(c) \in paid,
         p \in {"complete", "confirm"} => Key(c) \in paid'
  PROVE  Sound(c)
<1>1. PICK i \in RefundIds :
        /\ i = call[c].id /\ Exists(i) /\ TypeInv /\ RefundsTypeOK
        /\ call[c].reason \in Reasons /\ Authorized(i)
  BY GoodHere DEF TypeInv
<1>2. Key(c) \in (0..TotalAmount) \X Reasons /\ Key(c) \in Keys
  BY KeyTyped
<1>3. /\ call' \in [Calls -> CallRows] /\ OthersKept(c) /\ call'[c].pc = p
      /\ call'[c].id = i /\ call'[c].reason = call[c].reason
  BY <1>1, PcTyped DEF Places, Running
<1>4. RowsKept /\ paid' \subseteq (0..TotalAmount) \X Reasons
  BY <1>1, <1>2 DEF RowsKept, Exists, TypeInv, MakeRefund
<1>5. idempotency' \in [Keys -> {"free", "reserved", "completed"}] /\ KeysPaid'
  <2>1. \A k \in Keys : idempotency'[k] = "completed" => k \in paid'
    BY <1>1, <1>2, <1>4 DEF RefundsTypeOK, IInv, KeysPaid, RowsKept
  <2>2. \A k \in paid' : \E j \in RefundIds : <<j, k>> \in paidFor'
    BY <1>1 DEF IInv, KeysPaid, MakeRefund
  <2>3. QED
    BY <1>1, <1>2, <2>1, <2>2 DEF RefundsTypeOK, KeysPaid
<1>6. TypeInv'
  BY <1>1, <1>2, <1>3, <1>4, <1>5 DEF TypeInv, RefundsTypeOK, Keys, MakeRefund
<1>7. \A j \in RefundIds : RowGood(j)'
  BY <1>4, RowStaysGood DEF IInv
<1>8. Exists(i)' /\ Authorized(i)' /\ Key(c)' = Key(c)
  BY <1>1, <1>3 DEF Exists, Authorized, Key
<1>9. CallGood(c)'
  BY <1>1, <1>3, <1>8 DEF CallGood, Running, Sent
<1>10. QED
  BY <1>3, <1>4, <1>5, <1>6, <1>7, <1>9, CommandsStay DEF Sound

LEMMA ProviderSound ==
  ASSUME IInv, NEW c \in Calls,
         \/ ReserveKey(c) \/ ProviderAccepts(c) \/ ProviderTimesOut(c)
         \/ CompleteKey(c) \/ ReleaseKey(c)
  PROVE  Sound(c)
<1>1. /\ call[c].pc \in {"reserve", "mutate", "complete", "timeout", "rejected"}
      /\ call[c].pc \in Running /\ <<call[c].id, Key(c)>> \in submitted
  BY SentKey DEF ReserveKey, ProviderAccepts, ProviderTimesOut, CompleteKey, ReleaseKey, At, Sent
<1>2. RefundsTypeOK /\ exceptions \in [RefundIds -> 0..MaxAttempts] /\ call[c].id \in RefundIds
  BY <1>1, GoodHere DEF TypeInv, RefundsTypeOK
<1>3. CASE ReserveKey(c)
  BY <1>1, <1>2, <1>3, MutatesSound DEF ReserveKey, rows
<1>4. CASE ProviderAccepts(c)
  BY <1>1, <1>2, <1>4, MutatesSound DEF ProviderAccepts, MakeRefund, rows
<1>5. CASE ProviderTimesOut(c)
  BY <1>1, <1>2, <1>5, MutatesSound DEF ProviderTimesOut, rows
<1>6. CASE CompleteKey(c)
  <2>1. Key(c) \in paid
    BY <1>6 DEF CompleteKey, At, IInv, CallGood
  <2>2. QED
    BY <1>1, <1>2, <1>6, <2>1, MutatesSound DEF CompleteKey, rows
<1>7. CASE ReleaseKey(c)
  <2>1. exceptions' \in [RefundIds -> 0..MaxAttempts]
    BY <1>2, <1>7, ConstantsTyped DEF ReleaseKey, CountException, Lesser
  <2>2. QED
    BY <1>1, <1>7, <2>1, MutatesSound DEF ReleaseKey
<1>8. QED
  BY <1>3, <1>4, <1>5, <1>6, <1>7

-----------------------------------------------------------------------------
(* The invariant and what it gives.                                        *)

LEMMA InitSound == Init => IInv
<1> SUFFICES ASSUME Init PROVE IInv
  OBVIOUS
<1>1. Idle \in CallRows /\ Idle.pc = "idle"
  BY DEF Idle, CallRows, Places
<1>2. TypeInv
  BY <1>1, ConstantsTyped DEF Init, TypeInv, RefundsTypeOK
<1>3. \A c \in Calls : CallGood(c)
  BY <1>1 DEF Init, CallGood, Running, Sent
<1>4. (\A i \in RefundIds : RowGood(i) /\ CommandGood(i)) /\ KeysPaid
  BY DEF Init, RowGood, Exists, KeysPaid, CommandGood
<1>5. QED
  BY <1>2, <1>3, <1>4 DEF IInv

LEMMA StepSound ==
  ASSUME IInv, NEW c \in Calls, Step(c)
  PROVE  Sound(c)
BY CreateRefundSound, ClaimCapacitySound, ReplaySound, ClaimConflictsSound, ApproveSound,
   ReadForExecutionSound, SubmitSound, ProviderSound, ReadBackSound, ResolveSound, ConfirmSound
   DEF Step

LEMMA NextSound == IInv /\ [Next]_vars => IInv'
<1> SUFFICES ASSUME IInv, [Next]_vars PROVE IInv'
  OBVIOUS
<1>1. CASE UNCHANGED vars
  BY <1>1 DEF vars, IInv, TypeInv, RefundsTypeOK, CallGood, RowGood, KeysPaid, Exists, Authorized,
              Paid, Key, CommandGood
<1>2. ASSUME NEW c \in Calls, Request(c)
      PROVE  IInv'
  BY <1>2, BeginsSound, SoundSuffices DEF Request
<1>3. ASSUME NEW c \in Calls, Step(c)
      PROVE  IInv'
  BY <1>3, StepSound, SoundSuffices
<1>4. ASSUME NEW c \in Calls, Worker(c)
      PROVE  IInv'
  BY <1>4, WorkerSound, SoundSuffices
<1>5. ASSUME NEW c \in Calls, Die(c)
      PROVE  IInv'
  BY <1>5, ReturnSound, SoundSuffices DEF Die
<1>6. QED
  BY <1>1, <1>2, <1>3, <1>4, <1>5 DEF Next

\* The inductive invariant.
THEOREM RefundsInvariant == Spec => []IInv
BY InitSound, NextSound, PTL DEF Spec

\* The types of the rows, the records and the provider.
THEOREM RefundsTypes == Spec => []RefundsTypeOK
<1>1. IInv => RefundsTypeOK
  BY DEF IInv, TypeInv
<1>2. QED
  BY <1>1, RefundsInvariant, PTL

\* No timeout, rejection, replay or recovery ever counts as a refund by itself
\* (execute_refund, _resolve_refund_uncertainty and the worker's pass): the provider
\* made one under a key this refund was executed with, and made it for this refund
\* where no other was executed with that key.
THEOREM ConfirmedRefundsWerePaid == Spec => []ConfirmedWasPaid
<1>1. ASSUME IInv PROVE ConfirmedWasPaid
  <2> SUFFICES ASSUME NEW i \in RefundIds, Confirmed(i)
               PROVE  \E k \in paid : /\ <<i, k>> \in submitted /\ k[1] = refund[i].amount
                                      /\ <<i, k>> \in paidFor \/ SharesKey(i, k)
    BY DEF ConfirmedWasPaid
  <2>1. RefundsTypeOK /\ RowGood(i)
    BY <1>1 DEF IInv, TypeInv
  <2>2. Exists(i) /\ Status(i) = refund[i].status
    BY <2>1, NoStatus, RowTyped DEF Confirmed, Statuses
  <2>3. PICK k \in paid : <<i, k>> \in submitted /\ k[1] = refund[i].amount
    BY <2>1, <2>2 DEF Confirmed, RowGood, Paid
  <2>4. PICK j \in RefundIds : <<j, k>> \in paidFor /\ <<j, k>> \in submitted
    BY <1>1, <2>1 DEF IInv, KeysPaid, RefundsTypeOK
  <2>5. <<i, k>> \in paidFor \/ SharesKey(i, k)
    BY <2>4 DEF SharesKey
  <2>6. QED
    BY <2>3, <2>5
<1>2. QED
  BY <1>1, RefundsInvariant, PTL

\* A refund above the limit waits for its owner, however its execution is repeated.
THEOREM DirectRefundsNeedAuthority == Spec => []DirectRefundsAreAuthorized
<1>1. ASSUME IInv PROVE DirectRefundsAreAuthorized
  <2> SUFFICES ASSUME NEW i \in RefundIds, Exists(i), ~ OfReturn(i), Executed(i)
               PROVE  refund[i].amount <= AutomaticLimit \/ AboveLimit = "ALLOW" \/ i \in approved
    BY DEF DirectRefundsAreAuthorized
  <2>1. RefundsTypeOK /\ RowGood(i)
    BY <1>1 DEF IInv, TypeInv
  <2>2. refund[i].status \notin {"approval_required", "denied"}
    BY <2>1, RowTyped DEF Executed
  <2>3. QED
    BY <2>1, <2>2 DEF RowGood, Authorized, OfReturn
<1>2. QED
  BY <1>1, RefundsInvariant, PTL

-----------------------------------------------------------------------------
(* Refunds of returns stay within what was paid.                           *)

OfReturns == {i \in RefundIds : OfReturn(i)}

\* No refund of a return is ever denied, so all of them count in every claim.
WithinTotal ==
  /\ \A i \in RefundIds : OfReturn(i) => refund[i].status # "denied"
  /\ Cardinality(Money(OfReturns)) <= TotalAmount

\* The four things a step does to rows.
LEMMA RowChanges ==
  ASSUME IInv, AboveLimit # "DENY", [Next]_vars
  PROVE  \/ refund' = refund
         \/ \E i \in RefundIds, s \in Statuses \ {"denied"} : Exists(i) /\ PutStatus(i, s)
         \/ \E c \in Calls : CreateRefund(c)
         \/ \E c \in Calls : ClaimCapacity(c)
<1>1. CASE UNCHANGED vars
  BY <1>1 DEF vars
<1>2. ASSUME NEW c \in Calls, Request(c) \/ Worker(c) \/ Die(c)
      PROVE  refund' = refund
  BY <1>2 DEF Request, Begin, RequestRefund, EvaluateReturnRefund, ResumeReturnRefund,
              ReadForApproval, RecoverRefund, CallExecute, Worker, Escalate, RecoveryPass, Die, rows
<1>3. ASSUME NEW c \in Calls,
             \/ ClaimNothing(c) \/ ClaimConflicts(c) \/ ReadForExecution(c)
             \/ ReserveKey(c) \/ ReplayResult(c) \/ WaitExpires(c)
             \/ ProviderAccepts(c) \/ ProviderTimesOut(c) \/ ProviderRejects(c)
             \/ CompleteKey(c) \/ ReleaseKey(c) \/ ReadBack(c)
      PROVE  refund' = refund
  BY <1>3 DEF ClaimNothing, ClaimConflicts, ReadForExecution, ReserveKey, ReplayResult, WaitExpires,
              ProviderAccepts, ProviderTimesOut, ProviderRejects, CompleteKey, ReleaseKey, ReadBack, rows
<1>4. ASSUME NEW c \in Calls,
             \/ CorrectClaim(c) \/ ApproveRefund(c) \/ Submit(c)
             \/ ResolveSucceeded(c) \/ ResolveNotApplied(c) \/ ResolveUnknown(c)
             \/ Confirm(c) \/ Reconcile(c) \/ Settle(c)
      PROVE  \/ refund' = refund
             \/ \E i \in RefundIds, s \in Statuses \ {"denied"} : Exists(i) /\ PutStatus(i, s)
  <2>1. call[c].pc \in Running \cup {"correct", "approve"}
    BY <1>4 DEF CorrectClaim, ApproveRefund, Submit, ResolveSucceeded, ResolveNotApplied,
                ResolveUnknown, Confirm, Reconcile, Settle, At, Running
  <2>2. call[c].id \in RefundIds /\ Exists(call[c].id)
    BY <2>1, GoodHere
  <2>3. StatusFor(AboveLimit) \in Statuses \ {"denied"}
    BY ConstantsTyped DEF StatusFor, Decisions, Statuses
  <2>4. {"approved", "mutation_submitted", "external_confirmed", "permitted", "mutation_uncertain",
         "reconciled", "completed"} \subseteq Statuses \ {"denied"}
    BY DEF Statuses
  <2>5. refund' = refund \/ \E s \in Statuses \ {"denied"} : PutStatus(call[c].id, s)
    BY <1>4, <2>3, <2>4 DEF CorrectClaim, ApproveRefund, Submit, ResolveSucceeded, ResolveNotApplied,
                            ResolveUnknown, Confirm, Reconcile, Settle
  <2>6. QED
    BY <2>2, <2>5
<1>5. QED
  BY <1>1, <1>2, <1>3, <1>4 DEF Next, Step

LEMMA MoneyFinite ==
  ASSUME IInv, NEW S \in SUBSET RefundIds
  PROVE  IsFiniteSet(Money(S)) /\ Cardinality(Money(S)) \in Nat
<1>1. Money(S) \subseteq RefundIds \X (1..TotalAmount)
  BY DEF Money
<1>2. IsFiniteSet(RefundIds) /\ IsFiniteSet(1..TotalAmount)
  BY ConstantsTyped, FS_Interval DEF RefundIds
<1>3. QED
  BY <1>1, <1>2, FS_Product, FS_Subset, FS_CardinalityType

\* Where no refund of a return appears, their money is as it was.
LEMMA MoneyKept ==
  ASSUME RowsKept,
         \A i \in RefundIds : Exists(i)' /\ refund'[i].return_id # None => Exists(i)
  PROVE  Money(OfReturns)' = Money(OfReturns)
<1>1. \A i \in RefundIds : OfReturn(i)' <=> OfReturn(i)
  BY DEF OfReturn, RowsKept
<1>2. OfReturns' = OfReturns
  BY <1>1 DEF OfReturns
<1>3. \A i \in OfReturns : Exists(i) /\ Exists(i)' /\ refund'[i].amount = refund[i].amount
  BY DEF OfReturns, OfReturn, RowsKept
<1>4. QED
  BY <1>2, <1>3 DEF Money

LEMMA StepKeepsRows ==
  ASSUME IInv, [Next]_vars
  PROVE  RowsKept
<1>1. CASE UNCHANGED vars
  BY <1>1 DEF vars, RowsKept, Exists
<1>2. ASSUME NEW c \in Calls, Request(c) \/ Step(c) \/ Worker(c) \/ Die(c)
      PROVE  Sound(c)
  BY <1>2, BeginsSound, StepSound, WorkerSound, ReturnSound DEF Request, Die
<1>3. QED
  BY <1>1, <1>2 DEF Next, Sound

\* The claim takes what no refund holds: with it the refunds hold the order's amount.
LEMMA ClaimWithinTotal ==
  ASSUME IInv, IInv', WithinTotal, NEW c \in Calls, ClaimCapacity(c), RowsKept
  PROVE  WithinTotal'
<1> DEFINE r == [return_id |-> call[c].return_id, amount |-> Remaining, status |-> "permitted"]
<1>1. RefundsTypeOK /\ Remaining \in Nat /\ Remaining <= TotalAmount
  BY RemainingTyped DEF IInv, TypeInv, ClaimCapacity, CanClaim
<1>2. call[c].return_id \in Returns
  BY DEF IInv, CallGood, ClaimCapacity, At
<1>3. PICK i \in RefundIds : Fresh(i) /\ refund' = [refund EXCEPT ![i] = r]
  BY DEF ClaimCapacity
<1>4. r \in RefundRows
  BY <1>1, <1>2 DEF RefundRows, Statuses
<1>5. /\ refund'[i] = r /\ ~ Exists(i)
      /\ \A j \in RefundIds : j # i => refund'[j] = refund[j]
  BY <1>1, <1>3, <1>4, NewKept
<1>6. \A j \in RefundIds : OfReturn(j)' => refund'[j].status # "denied"
  BY <1>5 DEF WithinTotal, OfReturn, Exists
<1> DEFINE New == {u \in {i} \X (1..TotalAmount) : u[2] <= Remaining}
<1>7. Money(OfReturns)' \subseteq Money(Committed) \cup New
  <2> SUFFICES ASSUME NEW u \in Money(OfReturns)' PROVE u \in Money(Committed) \cup New
    OBVIOUS
  <2>1. /\ u[1] \in RefundIds /\ u[2] \in 1..TotalAmount /\ u = <<u[1], u[2]>>
        /\ OfReturn(u[1])' /\ u[2] <= refund'[u[1]].amount
    BY DEF Money, OfReturns
  <2>2. CASE u[1] = i
    BY <1>5, <2>1, <2>2
  <2>3. CASE u[1] # i
    <3>1. refund'[u[1]] = refund[u[1]] /\ OfReturn(u[1])
      BY <1>5, <2>1, <2>3 DEF OfReturn, Exists
    <3>2. u[1] \in Committed
      BY <1>1, <2>1, <3>1, RowTyped DEF Committed, WithinTotal, OfReturn
    <3>3. QED
      BY <2>1, <3>1, <3>2 DEF Money, OfReturn
  <2>4. QED
    BY <2>2, <2>3
<1>8. IsFiniteSet(Money(Committed)) /\ Cardinality(Money(Committed)) = TotalAmount - Remaining
  <2>1. IsFiniteSet(Money(Committed)) /\ Cardinality(Money(Committed)) \in Nat
    BY MoneyFinite DEF Committed
  <2>2. QED
    BY <2>1, ConstantsTyped DEF Remaining
<1>9. IsFiniteSet(New) /\ Cardinality(New) = Remaining
  <2>1. IsFiniteSet({i}) /\ Cardinality({i}) = 1
    BY FS_Singleton
  <2>2. IsFiniteSet(1..Remaining) /\ Cardinality(1..Remaining) = Remaining
    BY <1>1, FS_Interval
  <2>3. New = {i} \X (1..Remaining)
    BY <1>1, ConstantsTyped
  <2>4. /\ IsFiniteSet({i} \X (1..Remaining))
        /\ Cardinality({i} \X (1..Remaining)) = Cardinality({i}) * Cardinality(1..Remaining)
    BY <2>1, <2>2, FS_Product
  <2> HIDE DEF New
  <2>5. QED
    BY <1>1, <2>1, <2>2, <2>3, <2>4
<1>10. /\ IsFiniteSet(Money(Committed) \cup New)
       /\ Cardinality(Money(Committed) \cup New) <= TotalAmount
  <2> HIDE DEF New
  <2>1. Money(Committed) \cap New = {}
    BY <1>5 DEF Money, Committed, New
  <2>2. IsFiniteSet(Money(Committed) \cup New)
        /\ Cardinality(Money(Committed) \cup New) = TotalAmount - Remaining + Remaining - Cardinality({})
    BY <1>8, <1>9, <2>1, FS_Union
  <2>3. QED
    BY <1>1, <2>2, FS_EmptySet, ConstantsTyped
<1>11. Cardinality(Money(OfReturns)') <= TotalAmount
  <2>1. /\ IsFiniteSet(Money(OfReturns)')
        /\ Cardinality(Money(OfReturns)') <= Cardinality(Money(Committed) \cup New)
    BY <1>7, <1>10, FS_Subset
  <2>2. Cardinality(Money(OfReturns)') \in Nat /\ Cardinality(Money(Committed) \cup New) \in Nat
    BY <1>10, <2>1, FS_CardinalityType
  <2>3. QED
    BY <1>10, <2>1, <2>2, ConstantsTyped
<1>12. QED
  BY <1>6, <1>11 DEF WithinTotal

LEMMA NextWithinTotal ==
  ASSUME IInv, IInv', WithinTotal, AboveLimit # "DENY", [Next]_vars
  PROVE  WithinTotal'
<1>1. RowsKept /\ RefundsTypeOK
  BY StepKeepsRows DEF IInv, TypeInv
<1>2. SUFFICES ASSUME ~ \E c \in Calls : ClaimCapacity(c)
               PROVE  WithinTotal'
  BY <1>1, ClaimWithinTotal
<1>3. /\ \A i \in RefundIds : Exists(i)' /\ refund'[i].return_id # None =>
           Exists(i) /\ (refund'[i].status = "denied" => refund[i].status = "denied")
  <2>1. CASE refund' = refund
    BY <2>1 DEF Exists
  <2>2. CASE \E i \in RefundIds, s \in Statuses \ {"denied"} : Exists(i) /\ PutStatus(i, s)
    <3>1. PICK i \in RefundIds, s \in Statuses \ {"denied"} : Exists(i) /\ PutStatus(i, s)
      BY <2>2
    <3>2. /\ refund'[i].status = s
          /\ \A j \in RefundIds : j # i => refund'[j] = refund[j]
          /\ \A j \in RefundIds : Exists(j)' <=> Exists(j)
      BY <1>1, <3>1, PutKept
    <3>3. QED
      BY <3>2
  <2>3. CASE \E c \in Calls : CreateRefund(c)
    <3>1. PICK c \in Calls : CreateRefund(c)
      BY <2>3
    <3>2. PICK i \in RefundIds :
            refund' = [refund EXCEPT ![i] =
              [return_id |-> None, amount |-> Lesser(call[c].amount, TotalAmount),
               status |-> StatusFor(Decision(call[c].amount))]]
      BY <3>1 DEF CreateRefund
    <3>3. refund'[i].return_id = None /\ \A j \in RefundIds : j # i => refund'[j] = refund[j]
      BY <1>1, <3>2 DEF RefundsTypeOK
    <3>4. QED
      BY <3>3 DEF Exists
  <2>4. QED
    BY <1>2, <2>1, <2>2, <2>3, RowChanges
<1>4. Money(OfReturns)' = Money(OfReturns)
  BY <1>1, <1>3, MoneyKept
<1>5. \A i \in RefundIds : OfReturn(i)' => refund'[i].status # "denied"
  BY <1>1, <1>3 DEF WithinTotal, OfReturn, RowsKept
<1>6. QED
  BY <1>4, <1>5 DEF WithinTotal

\* atomic_claim_refund_capacity keeps the refunds of returns within the order's
\* amount, where the policy never denies what it does not allow: a denial releases
\* a claim that an execution may have read as permitted.
THEOREM ReturnRefundsWithinTotal ==
  ASSUME AboveLimit # "DENY" PROVE Spec => []ReturnsWithinTotal
<1>1. Init => WithinTotal
  <2> SUFFICES ASSUME Init PROVE WithinTotal
    OBVIOUS
  <2>1. \A i \in RefundIds : ~ Exists(i)
    BY DEF Init, Exists
  <2>2. OfReturns = {} /\ Money(OfReturns) = {}
    BY <2>1 DEF OfReturns, OfReturn, Money
  <2>3. QED
    BY <2>1, <2>2, FS_EmptySet, ConstantsTyped DEF WithinTotal, OfReturn
<1>2. IInv /\ IInv' /\ WithinTotal /\ [Next]_vars => WithinTotal'
  BY NextWithinTotal
<1>3. ASSUME IInv, WithinTotal PROVE ReturnsWithinTotal
  <2>1. RefundsTypeOK
    BY <1>3 DEF IInv, TypeInv
  <2>2. {i \in RefundIds : OfReturn(i) /\ Status(i) # "denied"} = OfReturns
    BY <1>3, <2>1, RowTyped DEF OfReturns, OfReturn, WithinTotal
  <2>3. QED
    BY <1>3, <2>1, <2>2 DEF ReturnsWithinTotal, WithinTotal
<1>4. QED
  BY <1>1, <1>2, <1>3, RefundsInvariant, PTL DEF Spec

-----------------------------------------------------------------------------
(* Finance: the inductive invariant.                                       *)

Settling == {"list_refunds", "judge", "read_refund", "put_refund"}
FinancePlaces ==
  {"idle", "map", "find_record", "book", "put_batch", "entry", "put_entry", "list_entries",
   "register", "read_for_completion", "complete"} \cup Settling

Jobs ==
  [pc : FinancePlaces, id : Payments \cup Batches \cup Refunds \cup {None}, at : Nat,
   resolved : BOOLEAN, complete : BOOLEAN, listed : SUBSET Entries, todo : SUBSET Entries,
   refunds : SUBSET Refunds, touched : SUBSET Orders,
   row : Refunds \cup (Refunds \X RefundStates) \cup RefundStates \cup {None},
   verdict : Results \cup {None}, next : {"idle", "judge"}]

\* What a call holds belongs to the place it is at.
JobPlaced(r) ==
  /\ r \in Jobs
  /\ r.pc \in {"map", "find_record", "book"} => r.id \in Payments
  /\ r.pc = "put_batch" => r.id \in Batches /\ r.at = 1
  /\ r.pc \in {"entry", "put_entry", "list_entries"} \cup Settling => r.id \in batch
  /\ r.pc \in {"entry", "put_entry"} => r.at \in 1..Len(Payload[r.id]) + 1
  /\ r.pc = "put_entry" =>
       /\ r.at <= Len(Payload[r.id])
       /\ r.resolved => Resolves(Payload[r.id][r.at])
  /\ r.pc \in {"register", "read_for_completion", "complete"} => r.id \in Refunds
  /\ r.pc = "read_refund" => r.row \in Refunds
  /\ r.pc = "put_refund" => r.row \in Refunds \X RefundStates
  /\ r.pc \in {"read_refund", "put_refund"} => r.next = "judge"
  /\ r.pc = "complete" => r.row \in RefundStates
  /\ r.pc \in Settling /\ r.complete => r.id \in whole
  /\ r.pc \in Settling => \A e \in r.todo : entry[e] # None /\ entry[e].batch = r.id

\* An entry of a batch is stored, or another batch's and called a duplicate.
Present(b, i) ==
  LET e == Payload[b][i] IN
  /\ entry[e] # None
  /\ entry[e].batch # b => [about |-> b, result |-> "DUPLICATE"] \in records

Ingested(r) ==
  r.pc \in {"entry", "put_entry"} => \A i \in 1..r.at - 1 : Present(r.id, i)
WholeIsPresent == \A b \in whole : \A i \in DOMAIN Payload[b] : Present(b, i)

ForOrder(e) == Entry[e].type \in OrderTypes /\ entry[e].resolved
HasVerdict(e) ==
  \/ Judged(e)
  \/ ForOrder(e) /\ Judged(Pays[Entry[e].ref].order)
  \/ Entry[e].type = "refund" /\ entry[e].resolved /\ Judged(Entry[e].ref)

\* The pass over a whole batch that r is in.
Passes(r, e) ==
  /\ r.pc \in Settling /\ r.complete
  /\ entry[e] # None /\ entry[e].batch = r.id /\ e \notin r.todo
Accounted(r) ==
  \A e \in Entries : Passes(r, e) =>
    \/ HasVerdict(e)
    \/ ForOrder(e) /\ Pays[Entry[e].ref].order \in r.touched
ClosedIsJudged == \A e \in Entries : entry[e] # None /\ entry[e].batch \in closed => HasVerdict(e)

ReferencesKnown ==
  \A e \in Entries : entry[e] # None /\ entry[e].resolved =>
    Entry[e].ref \in IF Entry[e].type \in OrderTypes THEN Payments ELSE Refunds

\* Entries of an order whose batches were closed, or that a pass has left behind.
PassedFor(o) ==
  {e \in PaidBy(Entries, o) :
     /\ Currency[entry[e].batch] = Local
     /\ \/ entry[e].batch \in closed
        \/ \E c \in Calls : Passes(call[c], e) /\ o \notin call[c].touched}
Fits(o) ==
  Cardinality(Credits(PassedFor(o))) - Cardinality(Debits(PaidBy(Entries, o)))
    <= Total[o] + Tolerance
OverSeen(o) == [about |-> o, result |-> "OVER_SETTLED"] \in records

JobsGood ==
  /\ DOMAIN call = Calls /\ call = [c \in Calls |-> call[c]]
  /\ \A c \in Calls : JobPlaced(call[c]) /\ Ingested(call[c]) /\ Accounted(call[c])

FInv ==
  /\ FinanceTypeOK /\ JobsGood /\ ReferencesKnown /\ WholeIsPresent /\ ClosedIsJudged
  /\ \A o \in Orders : Fits(o) \/ OverSeen(o)

-----------------------------------------------------------------------------
(* Finance: money.                                                         *)

LEMMA FinanceTyped ==
  /\ Entries \subseteq Nat /\ IsFiniteSet(Entries)
  /\ \A o \in Orders : Total[o] \in Nat
  /\ \A p \in Payments : Pays[p].order \in Orders
  /\ \A e \in Entries :
       /\ Entry[e].type \in OrderTypes \cup ChargeTypes \cup {"refund", "adjustment"}
       /\ Entry[e].amount \in Int
  /\ \A b \in Batches : Payload[b] \in Seq(Entries)
  /\ Tolerance \in Nat /\ MaxBegun \in Nat
BY FinanceAssumption DEF FinanceAssumption

LEMMA NoneIsNoRow ==
  None \notin EntryRows /\ None \notin Results
BY FinanceAssumption DEF FinanceAssumption

LEMMA UnitsFinite ==
  ASSUME NEW es \in SUBSET Entries, NEW units, DOMAIN units = es,
         units = [e \in es |-> units[e]],
         \A e \in es : IsFiniteSet(units[e])
  PROVE  IsFiniteSet(UNION {units[e] : e \in es})
<1>1. IsFiniteSet(es)
  BY FinanceTyped, FS_Subset
<1>2. units \in Surjection(es, {units[e] : e \in es})
  BY DEF Surjection
<1>3. IsFiniteSet({units[e] : e \in es})
  BY <1>1, <1>2, FS_Surjection
<1>4. \A T \in {units[e] : e \in es} : IsFiniteSet(T)
  OBVIOUS
<1> QED BY <1>3, <1>4, FS_UNION

LEMMA CreditsFinite ==
  ASSUME NEW es \in SUBSET Entries
  PROVE  /\ IsFiniteSet(Credits(es)) /\ Cardinality(Credits(es)) \in Nat
         /\ IsFiniteSet(Debits(es)) /\ Cardinality(Debits(es)) \in Nat
<1>1. \A e \in es : IsFiniteSet({e} \X (1..Entry[e].amount)) /\ IsFiniteSet({e} \X (1..-Entry[e].amount))
  <2> TAKE e \in es
  <2>1. IsFiniteSet({e})
    BY FS_Singleton
  <2>2. Entry[e].amount \in Int /\ -Entry[e].amount \in Int
    BY FinanceTyped
  <2>3. IsFiniteSet(1..Entry[e].amount)
    BY <2>2, FS_Interval
  <2>4. IsFiniteSet(1..-Entry[e].amount)
    BY <2>2, FS_Interval
  <2> QED BY <2>1, <2>3, <2>4, FS_Product
<1>2. IsFiniteSet(Credits(es))
  <2> DEFINE units == [e \in es |-> {e} \X (1..Entry[e].amount)]
  <2>1. DOMAIN units = es /\ units = [e \in es |-> units[e]] /\ \A e \in es : IsFiniteSet(units[e])
    BY <1>1
  <2>2. Credits(es) = UNION {units[e] : e \in es}
    BY DEF Credits
  <2> HIDE DEF units
  <2> QED BY <2>1, <2>2, UnitsFinite
<1>3. IsFiniteSet(Debits(es))
  <2> DEFINE units == [e \in es |-> {e} \X (1..-Entry[e].amount)]
  <2>1. DOMAIN units = es /\ units = [e \in es |-> units[e]] /\ \A e \in es : IsFiniteSet(units[e])
    BY <1>1
  <2>2. Debits(es) = UNION {units[e] : e \in es}
    BY DEF Debits
  <2> HIDE DEF units
  <2> QED BY <2>1, <2>2, UnitsFinite
<1> QED BY <1>2, <1>3, FS_CardinalityType

\* More entries, more money.
LEMMA MoneyGrows ==
  ASSUME NEW es \in SUBSET Entries, NEW fs \in SUBSET es
  PROVE  /\ Cardinality(Credits(fs)) <= Cardinality(Credits(es))
         /\ Cardinality(Debits(fs)) <= Cardinality(Debits(es))
<1>1. Credits(fs) \subseteq Credits(es) /\ Debits(fs) \subseteq Debits(es)
  BY DEF Credits, Debits
<1> QED BY <1>1, CreditsFinite, FS_Subset

-----------------------------------------------------------------------------
(* Finance: one call moves.                                                *)

LEMMA JobMoved ==
  ASSUME JobsGood, NEW c \in Calls, NEW r, call' = [call EXCEPT ![c] = r]
  PROVE  /\ call'[c] = r /\ \A d \in Calls \ {c} : call'[d] = call[d]
         /\ DOMAIN call' = Calls /\ call' = [d \in Calls |-> call'[d]]
BY DEF JobsGood

\* What no step takes back; a batch that is whole gets no entry any more.
BooksGrow ==
  /\ batch \subseteq batch' /\ whole \subseteq whole' /\ closed \subseteq closed'
  /\ records \subseteq records' /\ mapped \subseteq mapped'
  /\ \A e \in Entries : entry[e] # None => entry'[e] = entry[e]
  /\ \A e \in Entries : entry[e] = None /\ entry'[e] # None => entry'[e].batch \notin whole'

LEMMA PresentKept ==
  ASSUME BooksGrow, NEW b \in Batches, NEW i \in DOMAIN Payload[b], Present(b, i)
  PROVE  Present(b, i)'
<1>1. Payload[b][i] \in Entries
  BY FinanceTyped
<1> QED BY <1>1 DEF Present, BooksGrow

LEMMA VerdictKept ==
  ASSUME BooksGrow, NEW e \in Entries, entry[e] # None, HasVerdict(e)
  PROVE  HasVerdict(e)'
BY DEF BooksGrow, HasVerdict, Judged, ForOrder

LEMMA JobKept ==
  ASSUME FinanceTypeOK, BooksGrow, WholeIsPresent, NEW r, JobPlaced(r), Ingested(r), Accounted(r)
  PROVE  JobPlaced(r)' /\ Ingested(r)' /\ Accounted(r)'
<1>1. JobPlaced(r)'
  <2>1. r.pc \in Settling => \A e \in r.todo : entry'[e] # None /\ entry'[e].batch = r.id
    BY DEF JobPlaced, BooksGrow, Jobs
  <2> QED BY <2>1 DEF JobPlaced, BooksGrow, Resolves
<1>2. Ingested(r)'
  <2>1. SUFFICES ASSUME r.pc \in {"entry", "put_entry"}, NEW i \in 1..r.at - 1
                 PROVE  Present(r.id, i)'
    BY DEF Ingested
  <2>2. r.id \in batch /\ r.at \in 1..Len(Payload[r.id]) + 1
    BY <2>1 DEF JobPlaced
  <2>3. r.id \in Batches /\ Payload[r.id] \in Seq(Entries)
    BY <2>2, FinanceTyped DEF FinanceTypeOK
  <2>4. i \in DOMAIN Payload[r.id]
    BY <2>2, <2>3
  <2>5. Present(r.id, i)
    BY <2>1 DEF Ingested
  <2> QED BY <2>3, <2>4, <2>5, PresentKept
<1>3. Accounted(r)'
  <2>1. SUFFICES ASSUME NEW e \in Entries, Passes(r, e)'
                 PROVE  \/ HasVerdict(e)'
                        \/ ForOrder(e)' /\ Pays[Entry[e].ref].order \in r.touched
    BY DEF Accounted
  <2>2. r.id \in whole'
    BY <2>1 DEF Passes, JobPlaced, BooksGrow
  <2>3. entry[e] # None /\ entry'[e] = entry[e]
    BY <2>1, <2>2 DEF Passes, BooksGrow
  <2>4. Passes(r, e)
    BY <2>1, <2>3 DEF Passes
  <2> QED BY <2>3, <2>4, VerdictKept DEF Accounted, ForOrder
<1> QED BY <1>1, <1>2, <1>3

LEMMA PaidByGrows ==
  ASSUME BooksGrow, NEW o
  PROVE  /\ PaidBy(Entries, o) \subseteq PaidBy(Entries, o)'
         /\ PaidBy(Entries, o) \subseteq Entries /\ PaidBy(Entries, o)' \subseteq Entries
BY DEF PaidBy, BooksGrow

\* No more has passed, and no less was taken back.
LEMMA FitsKept ==
  ASSUME BooksGrow, NEW o \in Orders, PassedFor(o)' \subseteq PassedFor(o),
         Fits(o) \/ OverSeen(o)
  PROVE  Fits(o)' \/ OverSeen(o)'
<1>1. OverSeen(o) => OverSeen(o)'
  BY DEF OverSeen, BooksGrow
<1>2. CASE Fits(o)
  <2> DEFINE P == PassedFor(o)  Q == PassedFor(o)'  A == PaidBy(Entries, o)  B == PaidBy(Entries, o)'
  <2>1. P \in SUBSET Entries /\ Q \in SUBSET P /\ B \in SUBSET Entries /\ A \in SUBSET B
    BY PaidByGrows DEF PassedFor
  <2>2. Fits(o)' <=> Cardinality(Credits(Q)) - Cardinality(Debits(B)) <= Total[o] + Tolerance
    BY DEF Fits, Credits, Debits
  <2>3. Cardinality(Credits(P)) - Cardinality(Debits(A)) <= Total[o] + Tolerance
    BY <1>2 DEF Fits
  <2> HIDE DEF P, Q, A, B
  <2>4. Cardinality(Credits(Q)) <= Cardinality(Credits(P)) /\ Cardinality(Debits(A)) <= Cardinality(Debits(B))
    BY <2>1, MoneyGrows
  <2>5. /\ Cardinality(Credits(Q)) \in Nat /\ Cardinality(Credits(P)) \in Nat
        /\ Cardinality(Debits(A)) \in Nat /\ Cardinality(Debits(B)) \in Nat
    BY <2>1, CreditsFinite
  <2>6. Total[o] + Tolerance \in Nat
    BY FinanceTyped
  <2> QED BY <2>2, <2>3, <2>4, <2>5, <2>6
<1> QED BY <1>1, <1>2

\* What has passed after a step had passed before, when the step closes no batch and
\* its call is not done with more.
LEMMA PassedKept ==
  ASSUME FInv, BooksGrow, closed' = closed,
         NEW c \in Calls, NEW r, call' = [call EXCEPT ![c] = r], JobPlaced(r)',
         NEW o \in Orders,
         \A e \in PaidBy(Entries, o) :
           /\ Currency[entry[e].batch] = Local
           /\ Passes(r, e) /\ o \notin r.touched
           => Passes(call[c], e) /\ o \notin call[c].touched
  PROVE  PassedFor(o)' \subseteq PassedFor(o)
<1>1. SUFFICES ASSUME NEW e \in PassedFor(o)' PROVE e \in PassedFor(o)
  OBVIOUS
<1>2. /\ e \in Entries /\ e \in PaidBy(Entries, o)' /\ Currency[entry'[e].batch] = Local
      /\ entry'[e] # None
      /\ \/ entry'[e].batch \in closed
         \/ \E d \in Calls : Passes(call[d], e)' /\ o \notin call'[d].touched
  BY <1>1 DEF PassedFor, PaidBy
<1>3. closed \subseteq whole /\ whole \subseteq whole'
  BY DEF FInv, FinanceTypeOK, BooksGrow
<1>4. CASE entry'[e].batch \in closed
  <2>1. entry[e] # None /\ entry'[e] = entry[e]
    BY <1>2, <1>3, <1>4 DEF BooksGrow
  <2>2. e \in PaidBy(Entries, o)
    BY <1>2, <2>1 DEF PaidBy
  <2> QED BY <1>2, <1>4, <2>1, <2>2 DEF PassedFor
<1>5. CASE \E d \in Calls : Passes(call[d], e)' /\ o \notin call'[d].touched
  <2>1. PICK d \in Calls : Passes(call[d], e)' /\ o \notin call'[d].touched
    BY <1>5
  <2>2. JobsGood
    BY DEF FInv
  <2>3. call'[d].id \in whole'
    <3>1. CASE d = c
      <4>1. call'[c] = r
        BY <2>2, JobMoved
      <4> QED BY <2>1, <3>1, <4>1 DEF Passes, JobPlaced
    <3>2. CASE d # c
      <4>1. call'[d] = call[d] /\ JobPlaced(call[d])
        BY <2>2, <3>2, JobMoved DEF JobsGood
      <4> QED BY <1>3, <2>1, <4>1 DEF Passes, JobPlaced
    <3> QED BY <3>1, <3>2
  <2>4. entry[e] # None /\ entry'[e] = entry[e]
    BY <1>2, <2>1, <2>3 DEF Passes, BooksGrow
  <2>5. e \in PaidBy(Entries, o)
    BY <1>2, <2>4 DEF PaidBy
  <2>6. Passes(call'[d], e)
    BY <2>1, <2>4 DEF Passes
  <2>7. Passes(call[d], e) /\ o \notin call[d].touched
    <3>1. CASE d = c
      BY <1>2, <2>1, <2>2, <2>4, <2>5, <2>6, <3>1, JobMoved
    <3>2. CASE d # c
      BY <2>1, <2>2, <2>6, <3>2, JobMoved
    <3> QED BY <3>1, <3>2
  <2> QED BY <1>2, <2>4, <2>5, <2>7 DEF PassedFor
<1> QED BY <1>2, <1>4, <1>5

LEMMA BooksKeep ==
  ASSUME FInv, NEW c \in Calls, NEW r, call' = [call EXCEPT ![c] = r],
         BooksGrow, FinanceTypeOK', ReferencesKnown', WholeIsPresent', ClosedIsJudged',
         JobPlaced(r)', Ingested(r)', Accounted(r)',
         \A o \in Orders : Fits(o)' \/ OverSeen(o)'
  PROVE  FInv'
<1>1. JobsGood /\ FinanceTypeOK /\ WholeIsPresent
  BY DEF FInv
<1>2. ASSUME NEW d \in Calls
      PROVE  JobPlaced(call[d])' /\ Ingested(call[d])' /\ Accounted(call[d])'
  <2>1. CASE d = c
    BY <1>1, <2>1, JobMoved
  <2>2. CASE d # c
    <3>1. call'[d] = call[d]
      BY <1>1, <2>2, JobMoved
    <3>2. JobPlaced(call[d]) /\ Ingested(call[d]) /\ Accounted(call[d])
      BY <1>1 DEF JobsGood
    <3>3. \A s : JobPlaced(s) /\ Ingested(s) /\ Accounted(s) =>
                   JobPlaced(s)' /\ Ingested(s)' /\ Accounted(s)'
      BY <1>1, JobKept
    <3> QED BY <3>1, <3>2, <3>3
  <2> QED BY <2>1, <2>2
<1>3. JobsGood'
  BY <1>1, <1>2, JobMoved DEF JobsGood
<1> QED BY <1>3 DEF FInv

\* A call is done with no payment of a local batch that it was not done with before,
\* except those whose order it will judge.
DoneWithNoMore(c, r) ==
  \A e \in Entries :
    /\ entry[e] # None /\ ForOrder(e) /\ Entry[e].currency = Local
    /\ Currency[entry[e].batch] = Local
    /\ Passes(r, e) /\ Pays[Entry[e].ref].order \notin r.touched
    => Passes(call[c], e) /\ Pays[Entry[e].ref].order \notin call[c].touched

LEMMA SumsKept ==
  ASSUME FInv, BooksGrow, closed' = closed, NEW c \in Calls, NEW r,
         call' = [call EXCEPT ![c] = r], JobPlaced(r)', DoneWithNoMore(c, r)
  PROVE  \A o \in Orders : Fits(o)' \/ OverSeen(o)'
<1> SUFFICES ASSUME NEW o \in Orders PROVE Fits(o)' \/ OverSeen(o)'
  OBVIOUS
<1>1. ASSUME NEW e \in PaidBy(Entries, o), Currency[entry[e].batch] = Local,
             Passes(r, e), o \notin r.touched
      PROVE  Passes(call[c], e) /\ o \notin call[c].touched
  <2>1. /\ e \in Entries /\ entry[e] # None /\ ForOrder(e) /\ Entry[e].currency = Local
        /\ Pays[Entry[e].ref].order = o
    BY DEF PaidBy, ForOrder
  <2> QED BY <1>1, <2>1 DEF DoneWithNoMore
<1>2. PassedFor(o)' \subseteq PassedFor(o)
  BY <1>1, PassedKept
<1> QED BY <1>2, FitsKept DEF FInv

\* A step that touches no entry, ends no ingestion and closes no batch.
LEMMA BooksQuiet ==
  ASSUME FInv, NEW c \in Calls, NEW r, call' = [call EXCEPT ![c] = r],
         UNCHANGED <<entry, whole, closed>>, batch \subseteq batch', records \subseteq records',
         mapped \subseteq mapped', FinanceTypeOK',
         JobPlaced(r)', Ingested(r)', Accounted(r)', DoneWithNoMore(c, r)
  PROVE  FInv'
<1>1. BooksGrow
  BY DEF BooksGrow
<1>2. ReferencesKnown'
  BY DEF FInv, ReferencesKnown
<1>3. WholeIsPresent'
  BY DEF FInv, WholeIsPresent, Present
<1>4. ClosedIsJudged'
  BY DEF FInv, ClosedIsJudged, HasVerdict, ForOrder, Judged
<1>5. \A o \in Orders : Fits(o)' \/ OverSeen(o)'
  BY <1>1, SumsKept
<1> QED BY <1>1, <1>2, <1>3, <1>4, <1>5, BooksKeep

\* The same, of a call that neither ingests nor reconciles.
LEMMA AsideKeeps ==
  ASSUME FInv, NEW c \in Calls, NEW r, call' = [call EXCEPT ![c] = r],
         UNCHANGED <<entry, whole, closed>>, batch \subseteq batch', records \subseteq records',
         mapped \subseteq mapped', FinanceTypeOK', JobPlaced(r)',
         r.pc \notin {"entry", "put_entry"} \cup Settling
  PROVE  FInv'
BY BooksQuiet DEF Ingested, Accounted, DoneWithNoMore, Passes

LEMMA FreePlaced ==
  /\ Free \in Jobs /\ Free.pc = "idle" /\ JobPlaced(Free) /\ JobPlaced(Free)'
<1>1. Free \in Jobs /\ Free.pc = "idle"
  BY DEF Free, Jobs, FinancePlaces
<1> QED BY <1>1 DEF JobPlaced, Settling

LEMMA JobAt ==
  ASSUME FInv, NEW c \in Calls
  PROVE  JobPlaced(call[c]) /\ call[c] \in Jobs /\ Ingested(call[c]) /\ Accounted(call[c])
BY DEF FInv, JobsGood, JobPlaced

LEMMA LeaveKeeps ==
  ASSUME FInv, NEW c \in Calls, Leave(c), UNCHANGED <<entry, whole, closed>>,
         batch \subseteq batch', records \subseteq records', mapped \subseteq mapped', FinanceTypeOK'
  PROVE  FInv'
BY FreePlaced, AsideKeeps DEF Leave, Settling

-----------------------------------------------------------------------------
(* Finance: payments and refunds.                                          *)

LEMMA ObservePaymentKeeps ==
  ASSUME FInv, NEW c \in Calls, ObservePayment(c), begun' \in 0..MaxBegun
  PROVE  FInv'
<1>1. PICK p \in Payments :
        observed' = observed \cup {p} /\ call' = [call EXCEPT ![c] = [Free EXCEPT !.pc = "map", !.id = p]]
  BY DEF ObservePayment, Start
<1>0. PICK r : r = [Free EXCEPT !.pc = "map", !.id = p]
  OBVIOUS
<1>2. r \in Jobs /\ r.pc = "map" /\ r.id = p
  BY <1>0 DEF Free, Jobs, FinancePlaces
<1>3. JobPlaced(r)'
  BY <1>2 DEF JobPlaced, Settling
<1>4. FinanceTypeOK'
  BY <1>1 DEF FInv, FinanceTypeOK, ObservePayment, settled
<1> QED BY <1>0, <1>1, <1>2, <1>3, <1>4, AsideKeeps DEF ObservePayment, settled, Settling

LEMMA MapPaymentKeeps ==
  ASSUME FInv, NEW c \in Calls, MapPayment(c), UNCHANGED begun
  PROVE  FInv'
<1>0. PICK r : r = [call[c] EXCEPT !.pc = "find_record"]
  OBVIOUS
<1>1. JobPlaced(call[c]) /\ call[c] \in Jobs /\ call[c].id \in Payments
  BY JobAt DEF MapPayment, At, JobPlaced
<1>2. call' = [call EXCEPT ![c] = r]
  BY <1>0 DEF MapPayment, Goto
<1>3. r \in Jobs /\ r.pc = "find_record" /\ r.id = call[c].id
  BY <1>0, <1>1 DEF Jobs, FinancePlaces
<1>4. JobPlaced(r)'
  BY <1>1, <1>3 DEF JobPlaced, Settling
<1>5. FinanceTypeOK'
  BY <1>1 DEF FInv, FinanceTypeOK, MapPayment, settled, payments
<1> QED BY <1>2, <1>3, <1>4, <1>5, AsideKeeps DEF MapPayment, settled, Settling

LEMMA FindRecordKeeps ==
  ASSUME FInv, NEW c \in Calls, FindRecord(c), UNCHANGED begun
  PROVE  FInv'
<1>0. PICK r : r = [call[c] EXCEPT !.pc = "book"]
  OBVIOUS
<1>1. JobPlaced(call[c]) /\ call[c] \in Jobs /\ call[c].id \in Payments
  BY JobAt DEF FindRecord, At, JobPlaced
<1>2. FinanceTypeOK'
  BY DEF FInv, FinanceTypeOK, FindRecord, settled, payments
<1>3. CASE Leave(c)
  BY <1>2, <1>3, LeaveKeeps DEF FindRecord, settled
<1>4. CASE Goto(c, "book")
  <2>1. call' = [call EXCEPT ![c] = r]
    BY <1>0, <1>4 DEF Goto
  <2>2. r \in Jobs /\ r.pc = "book" /\ r.id = call[c].id
    BY <1>0, <1>1 DEF Jobs, FinancePlaces
  <2>3. JobPlaced(r)'
    BY <1>1, <2>2 DEF JobPlaced, Settling
  <2> QED BY <1>2, <2>1, <2>2, <2>3, AsideKeeps DEF FindRecord, settled, Settling
<1> QED BY <1>3, <1>4 DEF FindRecord

LEMMA ReconcilePaymentKeeps ==
  ASSUME FInv, NEW c \in Calls, ReconcilePayment(c), UNCHANGED begun
  PROVE  FInv'
<1>1. FinanceTypeOK'
  <2>1. booked' \in [Payments -> Nat]
    <3>1. booked \in [Payments -> Nat]
      BY DEF FInv, FinanceTypeOK
    <3>2. \A p \in Payments : booked[p] + 1 \in Nat
      BY <3>1
    <3> QED BY <3>1, <3>2 DEF ReconcilePayment
  <2> QED BY <2>1 DEF FInv, FinanceTypeOK, ReconcilePayment, settled
<1> QED BY <1>1, LeaveKeeps DEF ReconcilePayment, settled

LEMMA ConfirmRefundKeeps ==
  ASSUME FInv, NEW c \in Calls, ConfirmRefund(c), begun' \in 0..MaxBegun
  PROVE  FInv'
<1>1. PICK x \in Refunds :
        /\ refundRow' = [refundRow EXCEPT ![x].status = "external_confirmed"]
        /\ call' = [call EXCEPT ![c] = [Free EXCEPT !.pc = "register", !.id = x]]
  BY DEF ConfirmRefund, Start
<1>0. PICK r : r = [Free EXCEPT !.pc = "register", !.id = x]
  OBVIOUS
<1>2. r \in Jobs /\ r.pc = "register" /\ r.id = x
  BY <1>0 DEF Free, Jobs, FinancePlaces
<1>3. JobPlaced(r)'
  BY <1>2 DEF JobPlaced, Settling
<1>4. refundRow' \in [Refunds -> RefundStates]
  BY <1>1 DEF FInv, FinanceTypeOK, RefundStates, RefundStatuses
<1>5. FinanceTypeOK'
  BY <1>4 DEF FInv, FinanceTypeOK, ConfirmRefund, settled, payments
<1> QED BY <1>0, <1>1, <1>2, <1>3, <1>5, AsideKeeps DEF ConfirmRefund, settled, Settling

LEMMA RegisterKeeps ==
  ASSUME FInv, NEW c \in Calls, RegisterRefundReference(c), UNCHANGED begun
  PROVE  FInv'
<1>0. PICK r : r = [call[c] EXCEPT !.pc = "read_for_completion"]
  OBVIOUS
<1>1. JobPlaced(call[c]) /\ call[c] \in Jobs /\ call[c].id \in Refunds
  BY JobAt DEF RegisterRefundReference, At, JobPlaced
<1>2. call' = [call EXCEPT ![c] = r]
  BY <1>0 DEF RegisterRefundReference, Goto
<1>3. r \in Jobs /\ r.pc = "read_for_completion" /\ r.id = call[c].id
  BY <1>0, <1>1 DEF Jobs, FinancePlaces
<1>4. JobPlaced(r)'
  BY <1>1, <1>3 DEF JobPlaced, Settling
<1>5. FinanceTypeOK'
  BY <1>1 DEF FInv, FinanceTypeOK, RegisterRefundReference, settled, payments
<1> QED BY <1>2, <1>3, <1>4, <1>5, AsideKeeps DEF RegisterRefundReference, settled, Settling

LEMMA ReadForCompletionKeeps ==
  ASSUME FInv, NEW c \in Calls, ReadForCompletion(c), UNCHANGED begun
  PROVE  FInv'
<1>0. PICK r : r = [call[c] EXCEPT !.pc = "complete", !.row = refundRow[call[c].id]]
  OBVIOUS
<1>1. JobPlaced(call[c]) /\ call[c] \in Jobs /\ call[c].id \in Refunds
  BY JobAt DEF ReadForCompletion, At, JobPlaced
<1>2. call' = [call EXCEPT ![c] = r]
  BY <1>0 DEF ReadForCompletion
<1>3. refundRow[call[c].id] \in RefundStates
  BY <1>1 DEF FInv, FinanceTypeOK
<1>4. r \in Jobs /\ r.pc = "complete" /\ r.id = call[c].id /\ r.row \in RefundStates
  BY <1>0, <1>1, <1>3 DEF Jobs, FinancePlaces
<1>5. JobPlaced(r)'
  BY <1>1, <1>4 DEF JobPlaced, Settling
<1>6. FinanceTypeOK'
  BY DEF FInv, FinanceTypeOK, ReadForCompletion, settled, payments
<1> QED BY <1>2, <1>4, <1>5, <1>6, AsideKeeps DEF ReadForCompletion, settled, Settling

LEMMA CompleteRefundKeeps ==
  ASSUME FInv, NEW c \in Calls, CompleteRefund(c), UNCHANGED begun
  PROVE  FInv'
<1>1. call[c].id \in Refunds /\ call[c].row \in RefundStates
  BY JobAt DEF CompleteRefund, At, JobPlaced
<1>2. [call[c].row EXCEPT !.status = "completed"] \in RefundStates
  BY <1>1 DEF RefundStates, RefundStatuses
<1>3. refundRow' \in [Refunds -> RefundStates]
  BY <1>1, <1>2 DEF FInv, FinanceTypeOK, CompleteRefund
<1>4. FinanceTypeOK'
  BY <1>3 DEF FInv, FinanceTypeOK, CompleteRefund, settled, payments
<1> QED BY <1>4, LeaveKeeps DEF CompleteRefund, settled

LEMMA CrashKeeps ==
  ASSUME FInv, NEW c \in Calls, Crash(c), UNCHANGED begun
  PROVE  FInv'
<1>1. FinanceTypeOK'
  BY DEF FInv, FinanceTypeOK, Crash, settled, payments
<1> QED BY <1>1, LeaveKeeps DEF Crash, settled

-----------------------------------------------------------------------------
(* Finance: the ingestion of a batch.                                      *)

LEMMA IngestBatchKeeps ==
  ASSUME FInv, NEW c \in Calls, IngestBatch(c), begun' \in 0..MaxBegun
  PROVE  FInv'
<1>1. PICK b \in Batches \ batch : call' = [call EXCEPT ![c] = [Free EXCEPT !.pc = "put_batch", !.id = b]]
  BY DEF IngestBatch, Start
<1>2. PICK r : r = [Free EXCEPT !.pc = "put_batch", !.id = b]
  OBVIOUS
<1>3. r \in Jobs /\ r.pc = "put_batch" /\ r.id = b /\ r.at = 1
  BY <1>2 DEF Free, Jobs, FinancePlaces
<1>4. JobPlaced(r)'
  BY <1>3 DEF JobPlaced, Settling
<1>5. FinanceTypeOK'
  BY DEF FInv, FinanceTypeOK, IngestBatch, settled, payments
<1> QED BY <1>1, <1>2, <1>3, <1>4, <1>5, AsideKeeps DEF IngestBatch, settled, Settling

LEMMA PutBatchKeeps ==
  ASSUME FInv, NEW c \in Calls, PutBatch(c), UNCHANGED begun
  PROVE  FInv'
<1>1. PICK r : r = [call[c] EXCEPT !.pc = "entry"]
  OBVIOUS
<1>2. call[c] \in Jobs /\ call[c].id \in Batches /\ call[c].at = 1
  BY JobAt DEF PutBatch, At, JobPlaced
<1>3. call' = [call EXCEPT ![c] = r]
  BY <1>1 DEF PutBatch, Goto
<1>4. r \in Jobs /\ r.pc = "entry" /\ r.id = call[c].id /\ r.at = call[c].at
  BY <1>1, <1>2 DEF Jobs, FinancePlaces
<1>5. Payload[r.id] \in Seq(Entries)
  BY <1>2, <1>4, FinanceTyped
<1>6. JobPlaced(r)'
  BY <1>2, <1>4, <1>5 DEF JobPlaced, Settling, PutBatch
<1>7. FinanceTypeOK'
  BY <1>2 DEF FInv, FinanceTypeOK, PutBatch, payments
<1>8. Ingested(r)' /\ Accounted(r)' /\ DoneWithNoMore(c, r)
  BY <1>2, <1>4 DEF Ingested, Accounted, DoneWithNoMore, Passes, Settling
<1> QED BY <1>3, <1>6, <1>7, <1>8, BooksQuiet DEF PutBatch

\* The place in the payload that a call which ingests is at.
LEMMA AtPayload ==
  ASSUME FInv, NEW c \in Calls, call[c].pc \in {"entry", "put_entry"}
  PROVE  /\ call[c].id \in batch /\ call[c].id \in Batches /\ Payload[call[c].id] \in Seq(Entries)
         /\ call[c].at \in Nat \ {0} /\ call[c].at <= Len(Payload[call[c].id]) + 1
         /\ call[c].at <= Len(Payload[call[c].id]) =>
              call[c].at \in DOMAIN Payload[call[c].id] /\ Incoming(c) \in Entries
         /\ \A i \in 1..call[c].at - 1 : Present(call[c].id, i)
<1>1. JobPlaced(call[c]) /\ Ingested(call[c])
  BY JobAt
<1>2. call[c].id \in batch /\ call[c].id \in Batches /\ Payload[call[c].id] \in Seq(Entries)
  BY <1>1, FinanceTyped DEF JobPlaced, FInv, FinanceTypeOK
<1>3. call[c].at \in 1..Len(Payload[call[c].id]) + 1
  BY <1>1 DEF JobPlaced
<1> QED BY <1>1, <1>2, <1>3 DEF Ingested, Incoming

\* The call moves on: the entry it was at is present now.
LEMMA AdvancePlaced ==
  ASSUME FInv, BooksGrow, NEW c \in Calls, call[c].pc \in {"entry", "put_entry"},
         NEW b, b = call[c].id, NEW n, n = call[c].at, n <= Len(Payload[b]), Present(b, n)',
         NEW r, r = [call[c] EXCEPT !.pc = "entry", !.at = @ + 1]
  PROVE  JobPlaced(r)' /\ Ingested(r)' /\ Accounted(r)' /\ DoneWithNoMore(c, r)
<1>1. /\ call[c] \in Jobs /\ b \in batch /\ b \in Batches /\ Payload[b] \in Seq(Entries)
      /\ n \in Nat \ {0} /\ \A i \in 1..n - 1 : Present(b, i)
  BY AtPayload, JobAt
<1>2. r \in Jobs /\ r.pc = "entry" /\ r.id = b /\ r.at = n + 1
  <2>1. call[c] \in Jobs /\ n + 1 \in Nat
    BY <1>1
  <2> QED BY <2>1 DEF Jobs, FinancePlaces
<1>3. JobPlaced(r)'
  BY <1>1, <1>2 DEF JobPlaced, Settling, BooksGrow
<1>4. Ingested(r)'
  <2>1. SUFFICES ASSUME NEW i \in 1..n PROVE Present(r.id, i)'
    BY <1>1, <1>2 DEF Ingested
  <2>2. CASE i = n
    BY <1>2, <2>2
  <2>3. CASE i # n
    <3>1. i \in 1..n - 1 /\ i \in DOMAIN Payload[b]
      BY <1>1, <2>3
    <3>2. Present(b, i)
      BY <1>1, <3>1
    <3> QED BY <1>1, <1>2, <3>1, <3>2, PresentKept
  <2> QED BY <2>2, <2>3
<1>5. Accounted(r)' /\ DoneWithNoMore(c, r)
  BY <1>2 DEF Accounted, DoneWithNoMore, Passes, Settling
<1> QED BY <1>3, <1>4, <1>5

LEMMA RecordTyped ==
  ASSUME FInv, NEW about \in Entries \cup Orders \cup Refunds \cup Batches, NEW result \in Results,
         Record(about, result), UNCHANGED <<payments, mapped, batch, entry, whole, closed, begun>>,
         refundRow' \in [Refunds -> RefundStates]
  PROVE  FinanceTypeOK' /\ records \subseteq records' /\ [about |-> about, result |-> result] \in records'
<1>1. records' \subseteq [about : Entries \cup Orders \cup Refunds \cup Batches, result : Results]
  BY DEF FInv, FinanceTypeOK, Record
<1>2. records \subseteq records' /\ [about |-> about, result |-> result] \in records'
  BY DEF Record
<1> QED BY <1>1, <1>2 DEF FInv, FinanceTypeOK, payments

LEMMA ReadEntryKeeps ==
  ASSUME FInv, NEW c \in Calls, ReadEntry(c), UNCHANGED begun
  PROVE  FInv'
<1>0. PICK b, n, x : b = call[c].id /\ n = call[c].at /\ x = Incoming(c)
  OBVIOUS
<1>1. /\ call[c].pc = "entry" /\ n <= Len(Payload[b])
  BY <1>0 DEF ReadEntry, At
<1>2. /\ call[c] \in Jobs /\ b \in batch /\ b \in Batches /\ Payload[b] \in Seq(Entries)
      /\ n \in Nat \ {0} /\ n \in DOMAIN Payload[b]
      /\ x \in Entries /\ x = Payload[b][n]
      /\ \A i \in 1..n - 1 : Present(b, i)
  BY <1>1, <1>0, AtPayload, JobAt DEF Incoming
<1>3. UNCHANGED <<entry, whole, closed, batch, mapped, refundRow, payments>>
  BY DEF ReadEntry, settled
<1>4. CASE Seen(c) \/ entry[x] # None
  <2>1. Record(b, "DUPLICATE") /\ Advance(c)
    BY <1>0, <1>4 DEF ReadEntry
  <2>2. FinanceTypeOK' /\ records \subseteq records' /\ [about |-> b, result |-> "DUPLICATE"] \in records'
    <3>1. "DUPLICATE" \in Results /\ refundRow' \in [Refunds -> RefundStates]
      BY <1>3 DEF Results, FInv, FinanceTypeOK
    <3> QED BY <1>2, <1>3, <2>1, <3>1, RecordTyped
  <2>3. BooksGrow
    BY <1>3, <2>2 DEF BooksGrow
  <2>4. entry[x] # None
    BY <1>0, <1>2, <1>4 DEF Seen, Present
  <2>5. Present(b, n)'
    BY <1>2, <1>3, <2>2, <2>4 DEF Present
  <2>6. PICK r : r = [call[c] EXCEPT !.pc = "entry", !.at = @ + 1]
    OBVIOUS
  <2>7. JobPlaced(r)' /\ Ingested(r)' /\ Accounted(r)' /\ DoneWithNoMore(c, r)
    BY <1>1, <1>2, <1>0, <2>3, <2>5, <2>6, AdvancePlaced
  <2>8. call' = [call EXCEPT ![c] = r]
    BY <2>1, <2>6 DEF Advance
  <2> QED BY <1>3, <2>2, <2>7, <2>8, BooksQuiet
<1>5. CASE ~ (Seen(c) \/ entry[x] # None)
  <2>1. PICK r : r = [call[c] EXCEPT !.pc = "put_entry", !.resolved = Resolves(x)]
    OBVIOUS
  <2>2. call' = [call EXCEPT ![c] = r] /\ records' = records
    BY <1>0, <1>5, <2>1 DEF ReadEntry
  <2>3. Resolves(x) \in BOOLEAN
    BY DEF Resolves
  <2>4. /\ r \in Jobs /\ r.pc = "put_entry" /\ r.id = b /\ r.at = n
        /\ r.resolved = Resolves(x)
    BY <1>0, <1>2, <2>1, <2>3 DEF Jobs, FinancePlaces
  <2>5. JobPlaced(r)'
    <3>1. r.resolved => Resolves(x)'
      BY <1>3, <2>4 DEF Resolves
    <3> QED BY <1>1, <1>2, <1>3, <2>4, <3>1 DEF JobPlaced, Settling
  <2>6. Ingested(r)' /\ Accounted(r)' /\ DoneWithNoMore(c, r)
    BY <1>2, <1>3, <2>2, <2>4 DEF Ingested, Present, Accounted, DoneWithNoMore, Passes, Settling
  <2>7. FinanceTypeOK'
    BY <1>3, <2>2 DEF FInv, FinanceTypeOK, payments
  <2> QED BY <1>3, <2>2, <2>5, <2>6, <2>7, BooksQuiet
<1> QED BY <1>4, <1>5

LEMMA PutEntryKeeps ==
  ASSUME FInv, NEW c \in Calls, PutEntry(c), UNCHANGED begun
  PROVE  FInv'
<1>0. PICK b, n, x : b = call[c].id /\ n = call[c].at /\ x = Incoming(c)
  OBVIOUS
<1>1. call[c].pc = "put_entry" /\ n <= Len(Payload[b])
  BY <1>0, JobAt DEF PutEntry, At, JobPlaced
<1>2. /\ call[c] \in Jobs /\ b \in batch /\ b \in Batches /\ Payload[b] \in Seq(Entries)
      /\ n \in Nat \ {0} /\ n \in DOMAIN Payload[b]
      /\ x \in Entries /\ x = Payload[b][n]
      /\ \A i \in 1..n - 1 : Present(b, i)
  BY <1>1, <1>0, AtPayload, JobAt DEF Incoming
<1>3. UNCHANGED <<whole, closed, batch, mapped, refundRow, payments>> /\ Advance(c)
  BY DEF PutEntry
<1>4. PICK r : r = [call[c] EXCEPT !.pc = "entry", !.at = @ + 1]
  OBVIOUS
<1>5. call' = [call EXCEPT ![c] = r]
  BY <1>3, <1>4 DEF Advance
<1>6. CASE entry[x] # None
  <2>1. Record(b, "DUPLICATE") /\ entry' = entry
    BY <1>0, <1>6 DEF PutEntry
  <2>2. FinanceTypeOK' /\ records \subseteq records' /\ [about |-> b, result |-> "DUPLICATE"] \in records'
    <3>1. "DUPLICATE" \in Results /\ refundRow' \in [Refunds -> RefundStates]
      BY <1>3 DEF Results, FInv, FinanceTypeOK
    <3> QED BY <1>2, <1>3, <2>1, <3>1, RecordTyped
  <2>3. BooksGrow
    BY <1>3, <2>1, <2>2 DEF BooksGrow
  <2>4. Present(b, n)'
    BY <1>2, <1>6, <2>1, <2>2 DEF Present
  <2>5. JobPlaced(r)' /\ Ingested(r)' /\ Accounted(r)' /\ DoneWithNoMore(c, r)
    BY <1>1, <1>2, <1>4, <1>0, <2>3, <2>4, AdvancePlaced
  <2> QED BY <1>3, <1>5, <2>1, <2>2, <2>5, BooksQuiet
<1>7. CASE entry[x] = None
  <2>0. PICK row : row = [batch |-> b, resolved |-> call[c].resolved]
    OBVIOUS
  <2>1. entry' = [entry EXCEPT ![x] = row] /\ records' = records
    BY <2>0, <1>0, <1>7 DEF PutEntry
  <2>2. row \in EntryRows
    BY <1>2, <2>0 DEF Jobs, EntryRows
  <2>3. entry \in [Entries -> EntryRows \cup {None}]
    BY DEF FInv, FinanceTypeOK
  <2>4. /\ entry'[x] = row /\ row.batch = b /\ row.resolved = call[c].resolved
        /\ \A e \in Entries \ {x} : entry'[e] = entry[e]
        /\ entry' \in [Entries -> EntryRows \cup {None}]
    BY <1>2, <2>0, <2>1, <2>2, <2>3
  <2>5. FinanceTypeOK'
    BY <1>3, <2>1, <2>4 DEF FInv, FinanceTypeOK, payments
  <2>6. b \notin whole
    BY <1>2, <1>7 DEF FInv, WholeIsPresent, Present
  <2>7. BooksGrow
    BY <1>3, <1>7, <2>1, <2>4, <2>6 DEF BooksGrow
  <2>8. Present(b, n)'
    <3>1. entry'[x] # None
      BY <2>2, <2>4, NoneIsNoRow
    <3> QED BY <1>2, <2>4, <3>1 DEF Present
  <2>9. JobPlaced(r)' /\ Ingested(r)' /\ Accounted(r)' /\ DoneWithNoMore(c, r)
    BY <1>1, <1>2, <1>4, <1>0, <2>7, <2>8, AdvancePlaced
  <2>10. ReferencesKnown'
    <3>1. call[c].resolved => Resolves(x)
      BY <1>0, <1>1, JobAt DEF JobPlaced, Incoming
    <3>2. ASSUME NEW e \in Entries, entry'[e] # None, entry'[e].resolved
          PROVE  Entry[e].ref \in IF Entry[e].type \in OrderTypes THEN Payments ELSE Refunds
      <4>1. CASE e = x
        BY <2>4, <3>1, <3>2, <4>1 DEF Resolves
      <4>2. CASE e # x
        BY <2>4, <3>2, <4>2 DEF FInv, ReferencesKnown
      <4> QED BY <4>1, <4>2
    <3> QED BY <3>2 DEF ReferencesKnown
  <2>11. WholeIsPresent'
    <3> SUFFICES ASSUME NEW w \in whole, NEW i \in DOMAIN Payload[w] PROVE Present(w, i)'
      BY <1>3 DEF WholeIsPresent
    <3>1. w \in Batches /\ Present(w, i)
      BY DEF FInv, FinanceTypeOK, WholeIsPresent
    <3> QED BY <2>7, <3>1, PresentKept
  <2>12. ClosedIsJudged'
    <3> SUFFICES ASSUME NEW e \in Entries, entry'[e] # None, entry'[e].batch \in closed
                 PROVE  HasVerdict(e)'
      BY <1>3 DEF ClosedIsJudged
    <3>1. entry[e] # None /\ entry'[e] = entry[e]
      BY <1>3, <2>7 DEF BooksGrow, FInv, FinanceTypeOK
    <3> QED BY <2>7, <3>1, VerdictKept DEF FInv, ClosedIsJudged
  <2>13. \A o \in Orders : Fits(o)' \/ OverSeen(o)'
    BY <1>3, <1>5, <2>7, <2>9, SumsKept
  <2> QED BY <1>5, <2>5, <2>7, <2>9, <2>10, <2>11, <2>12, <2>13, BooksKeep
<1> QED BY <1>6, <1>7

LEMMA EndOfBatchKeeps ==
  ASSUME FInv, NEW c \in Calls, EndOfBatch(c), UNCHANGED begun
  PROVE  FInv'
<1> DEFINE b == call[c].id
<1>1. call[c].pc = "entry" /\ call[c].at > Len(Payload[b])
  BY DEF EndOfBatch, At
<1>2. /\ call[c] \in Jobs /\ b \in batch /\ b \in Batches /\ Payload[b] \in Seq(Entries)
      /\ call[c].at \in Nat \ {0} /\ call[c].at <= Len(Payload[b]) + 1
      /\ \A i \in 1..call[c].at - 1 : Present(b, i)
  BY <1>1, AtPayload, JobAt
<1>3. /\ UNCHANGED <<payments, mapped, refundRow, batch, entry, records, closed>>
      /\ whole' = whole \cup {b} /\ call' = [call EXCEPT ![c] = Free]
  BY DEF EndOfBatch, Leave
<1>4. \A i \in DOMAIN Payload[b] : Present(b, i)
  BY <1>1, <1>2
<1>5. BooksGrow
  BY <1>3 DEF BooksGrow
<1>6. FinanceTypeOK'
  BY <1>2, <1>3 DEF FInv, FinanceTypeOK, payments
<1>7. WholeIsPresent'
  BY <1>3, <1>4 DEF FInv, WholeIsPresent, Present
<1>8. ReferencesKnown' /\ ClosedIsJudged'
  BY <1>3 DEF FInv, ReferencesKnown, ClosedIsJudged, HasVerdict, ForOrder, Judged
<1>9. JobPlaced(Free)' /\ Ingested(Free)' /\ Accounted(Free)' /\ DoneWithNoMore(c, Free)
  BY FreePlaced DEF Ingested, Accounted, DoneWithNoMore, Passes, Settling
<1>10. \A o \in Orders : Fits(o)' \/ OverSeen(o)'
  BY <1>3, <1>5, <1>9, SumsKept
<1> QED BY <1>3, <1>5, <1>6, <1>7, <1>8, <1>9, <1>10, BooksKeep

-----------------------------------------------------------------------------
(* Finance: the reconciliation of a batch.                                 *)

LEMMA ReconcileBatchKeeps ==
  ASSUME FInv, NEW c \in Calls, ReconcileBatch(c), begun' \in 0..MaxBegun
  PROVE  FInv'
<1>1. PICK b \in batch : call' = [call EXCEPT ![c] = [Free EXCEPT !.pc = "list_entries", !.id = b]]
  BY DEF ReconcileBatch, Start
<1>2. PICK r : r = [Free EXCEPT !.pc = "list_entries", !.id = b]
  OBVIOUS
<1>3. b \in Batches
  BY DEF FInv, FinanceTypeOK
<1>4. r \in Jobs /\ r.pc = "list_entries" /\ r.id = b
  BY <1>2, <1>3 DEF Free, Jobs, FinancePlaces
<1>5. JobPlaced(r)'
  BY <1>4 DEF JobPlaced, Settling, ReconcileBatch, settled
<1>6. FinanceTypeOK'
  BY DEF FInv, FinanceTypeOK, ReconcileBatch, settled, payments
<1> QED BY <1>1, <1>2, <1>4, <1>5, <1>6, AsideKeeps DEF ReconcileBatch, settled, Settling

\* Where a pass starts, everything that is stored is still to be judged.
LEMMA ListEntriesKeeps ==
  ASSUME FInv, NEW c \in Calls, ListEntries(c), UNCHANGED begun
  PROVE  FInv'
<1>1. PICK b : b = call[c].id
  OBVIOUS
<1>2. PICK r : r = [call[c] EXCEPT !.pc = "list_refunds", !.listed = EntriesOf(b), !.todo = EntriesOf(b),
                                   !.complete = b \in whole]
  OBVIOUS
<1>3. call[c] \in Jobs /\ b \in batch
  BY <1>1, JobAt DEF ListEntries, At, JobPlaced
<1>4. call' = [call EXCEPT ![c] = r]
  BY <1>1, <1>2 DEF ListEntries
<1>5. EntriesOf(b) \in SUBSET Entries /\ (b \in whole) \in BOOLEAN
  BY DEF EntriesOf
<1>6. /\ r \in Jobs /\ r.pc = "list_refunds" /\ r.id = b /\ r.todo = EntriesOf(b)
      /\ r.complete <=> b \in whole
  BY <1>1, <1>2, <1>3, <1>5, ZenonT(40) DEF Jobs, FinancePlaces, Settling
<1>7. UNCHANGED <<payments, mapped, refundRow, batch, entry, whole, records, closed>>
  BY DEF ListEntries, settled
<1>8. JobPlaced(r)'
  BY <1>3, <1>6, <1>7 DEF JobPlaced, Settling, EntriesOf
<1>9. FinanceTypeOK'
  BY <1>7 DEF FInv, FinanceTypeOK, payments
<1>10. \A e \in Entries : ~ Passes(r, e) /\ ~ Passes(r, e)'
  BY <1>6, <1>7 DEF Passes, EntriesOf
<1>11. Ingested(r)' /\ Accounted(r)' /\ DoneWithNoMore(c, r)
  BY <1>6, <1>10 DEF Ingested, Accounted, DoneWithNoMore
<1> QED BY <1>4, <1>7, <1>8, <1>9, <1>11, BooksQuiet

\* A step of a pass that leaves what it has still to do and what it will judge.
LEMMA SamePass ==
  ASSUME FInv, NEW c \in Calls, call[c].pc \in Settling,
         NEW r \in Jobs, call' = [call EXCEPT ![c] = r], r.pc \in Settling,
         r.id = call[c].id, r.complete = call[c].complete,
         r.todo = call[c].todo, r.touched = call[c].touched,
         r.pc = "read_refund" => r.row \in Refunds /\ r.next = "judge",
         r.pc = "put_refund" => r.row \in Refunds \X RefundStates /\ r.next = "judge",
         UNCHANGED <<batch, entry, whole, closed, mapped>>, records \subseteq records', FinanceTypeOK'
  PROVE  FInv'
<1>1. JobPlaced(call[c]) /\ Accounted(call[c])
  BY JobAt
<1>2. JobPlaced(r)' /\ Ingested(r)'
  BY <1>1 DEF JobPlaced, Settling, Ingested
<1>3. \A e \in Entries : (Passes(r, e) <=> Passes(call[c], e)) /\ (Passes(r, e)' <=> Passes(r, e))
  BY DEF Passes
<1>4. Accounted(r)'
  BY <1>1, <1>3 DEF Accounted, HasVerdict, Judged, ForOrder
<1>5. DoneWithNoMore(c, r)
  BY <1>3 DEF DoneWithNoMore
<1> QED BY <1>2, <1>4, <1>5, BooksQuiet

LEMMA ListRefundsKeeps ==
  ASSUME FInv, NEW c \in Calls, ListRefunds(c), UNCHANGED begun
  PROVE  FInv'
<1>1. PICK completed : completed = {r \in Refunds : refundRow[r].status = "completed"}
  OBVIOUS
<1>2. PICK r : r = [call[c] EXCEPT !.pc = "judge", !.refunds = completed]
  OBVIOUS
<1>3. call[c] \in Jobs /\ call[c].pc \in Settling
  BY JobAt DEF ListRefunds, At, Settling
<1>4. call' = [call EXCEPT ![c] = r]
  BY <1>1, <1>2 DEF ListRefunds
<1>5. /\ r \in Jobs /\ r.pc = "judge" /\ r.id = call[c].id /\ r.complete = call[c].complete
      /\ r.todo = call[c].todo /\ r.touched = call[c].touched
  BY <1>1, <1>2, <1>3, ZenonT(40) DEF Jobs, FinancePlaces, Settling
<1>6. UNCHANGED <<payments, mapped, refundRow, batch, entry, whole, records, closed>>
  BY DEF ListRefunds, settled
<1>7. FinanceTypeOK'
  BY <1>6 DEF FInv, FinanceTypeOK, payments
<1> QED BY <1>3, <1>4, <1>5, <1>6, <1>7, SamePass DEF Settling

LEMMA ReadRefundKeeps ==
  ASSUME FInv, NEW c \in Calls, ReadRefund(c), UNCHANGED begun
  PROVE  FInv'
<1>1. PICK x : x = call[c].row
  OBVIOUS
<1>2. PICK row : row = refundRow[x]
  OBVIOUS
<1>3. PICK r : r = [call[c] EXCEPT !.pc = "put_refund", !.row = <<x, row>>]
  OBVIOUS
<1>4. call[c] \in Jobs /\ call[c].pc = "read_refund" /\ x \in Refunds /\ call[c].next = "judge"
  BY <1>1, JobAt DEF ReadRefund, At, JobPlaced
<1>5. row \in RefundStates
  BY <1>2, <1>4 DEF FInv, FinanceTypeOK
<1>6. call' = [call EXCEPT ![c] = r]
  BY <1>1, <1>2, <1>3 DEF ReadRefund
<1>7. /\ r \in Jobs /\ r.pc = "put_refund" /\ r.id = call[c].id /\ r.complete = call[c].complete
      /\ r.todo = call[c].todo /\ r.touched = call[c].touched
      /\ r.row = <<x, row>> /\ r.next = call[c].next
  BY <1>3, <1>4, <1>5 DEF Jobs, FinancePlaces, Settling
<1>8. UNCHANGED <<payments, mapped, refundRow, batch, entry, whole, records, closed>>
  BY DEF ReadRefund, settled
<1>9. FinanceTypeOK'
  BY <1>8 DEF FInv, FinanceTypeOK, payments
<1>10. r.row \in Refunds \X RefundStates
  BY <1>4, <1>5, <1>7
<1> QED BY <1>4, <1>6, <1>7, <1>8, <1>9, <1>10, SamePass DEF Settling

LEMMA PutRefundKeeps ==
  ASSUME FInv, NEW c \in Calls, PutRefund(c), UNCHANGED begun
  PROVE  FInv'
<1>1. /\ call[c] \in Jobs /\ call[c].pc = "put_refund" /\ call[c].next = "judge"
      /\ call[c].row \in Refunds \X RefundStates
  BY JobAt DEF PutRefund, At, JobPlaced
<1>2. PICK r : r = [call[c] EXCEPT !.pc = call[c].next, !.row = None, !.verdict = None]
  OBVIOUS
<1>3. call' = [call EXCEPT ![c] = r]
  BY <1>2 DEF PutRefund
<1>4. /\ r \in Jobs /\ r.pc = "judge" /\ r.id = call[c].id /\ r.complete = call[c].complete
      /\ r.todo = call[c].todo /\ r.touched = call[c].touched
  BY <1>1, <1>2 DEF Jobs, FinancePlaces, Settling
<1>5. UNCHANGED <<payments, mapped, batch, entry, whole, records, closed>>
  BY DEF PutRefund, settled
<1>6. refundRow' \in [Refunds -> RefundStates]
  <2>1. PICK row : row = [call[c].row[2] EXCEPT !.financial =
                            IF call[c].verdict = "MATCH" THEN "matched" ELSE "discrepancy"]
    OBVIOUS
  <2>2. call[c].row[1] \in Refunds /\ call[c].row[2] \in RefundStates
    BY <1>1
  <2>3. row \in RefundStates
    BY <2>1, <2>2 DEF RefundStates
  <2>4. refundRow' = [refundRow EXCEPT ![call[c].row[1]] = row]
    BY <2>1 DEF PutRefund
  <2> QED BY <2>2, <2>3, <2>4 DEF FInv, FinanceTypeOK
<1>7. FinanceTypeOK'
  BY <1>5, <1>6 DEF FInv, FinanceTypeOK, payments
<1> QED BY <1>1, <1>3, <1>4, <1>5, <1>7, SamePass DEF Settling

\* The entry at hand is one of those to do.
LEMMA TheEntryExists ==
  ASSUME FInv, NEW c \in Calls, call[c].todo # {}
  PROVE  TheEntry(c) \in call[c].todo /\ TheEntry(c) \in Entries
<1>1. call[c].todo \subseteq Nat /\ call[c].todo \subseteq Entries
  BY JobAt, FinanceTyped DEF Jobs
<1>2. PICK x \in call[c].todo : \A y \in call[c].todo : <<y, x>> \notin OpToRel(<, Nat)
  BY <1>1, NatLessThanWellFounded, WFMin
<1>3. \A y \in call[c].todo : x <= y
  <2>1. \A m, n \in Nat : m < n => <<m, n>> \in OpToRel(<, Nat)
    BY DEF OpToRel
  <2> TAKE y \in call[c].todo
  <2>2. y \in Nat /\ x \in Nat /\ <<y, x>> \notin OpToRel(<, Nat)
    BY <1>1, <1>2
  <2>3. ~ (y < x)
    BY <2>1, <2>2
  <2>4. y \in Nat /\ x \in Nat
    BY <2>2
  <2> QED BY <2>3, <2>4, SMT
<1> QED BY <1>1, <1>3 DEF TheEntry

\* What is stored of a whole batch that is being reconciled, beside the entry at hand.
LEMMA JudgingAt ==
  ASSUME FInv, NEW c \in Calls, call[c].pc = "judge"
  PROVE  /\ call[c] \in Jobs /\ call[c].id \in batch /\ call[c].id \in Batches
         /\ call[c].pc \in Settling
         /\ call[c].complete => call[c].id \in whole
         /\ Accounted(call[c])
<1>1. JobPlaced(call[c]) /\ call[c] \in Jobs /\ Accounted(call[c])
  BY JobAt
<1> QED BY <1>1 DEF JobPlaced, Settling, FInv, FinanceTypeOK

\* What an entry leaves behind a pass, in one step to a call's row r.
Settles(r, e) ==
  /\ HasVerdict(e)' \/ (ForOrder(e) /\ Pays[Entry[e].ref].order \in r.touched)
  /\ (/\ ForOrder(e) /\ Entry[e].currency = Local
      /\ entry[e].batch = r.id /\ Currency[r.id] = Local)
       => Pays[Entry[e].ref].order \in r.touched

\* The step that turns call c into row r ends what it has to do with entry e alone.
TurnsFrom(c, e, r) ==
  /\ call' = [call EXCEPT ![c] = r] /\ r \in Jobs /\ r.pc \in {"judge", "read_refund"}
  /\ r.id = call[c].id /\ r.complete = call[c].complete
  /\ r.todo = call[c].todo \ {e} /\ call[c].touched \subseteq r.touched
  /\ r.pc = "read_refund" => r.row \in Refunds /\ r.next = "judge"

\* A call is done with the entry at hand, which has its verdict or is left to the
\* verdict of its order.
LEMMA EntryDone ==
  ASSUME FInv, NEW c \in Calls, call[c].pc = "judge", call[c].todo # {},
         NEW e, e = TheEntry(c), NEW r, TurnsFrom(c, e, r),
         UNCHANGED <<batch, entry, whole, closed, mapped>>, records \subseteq records', FinanceTypeOK',
         Settles(r, e)
  PROVE  FInv'
<1>0. /\ call' = [call EXCEPT ![c] = r] /\ r \in Jobs /\ r.pc \in {"judge", "read_refund"}
      /\ r.id = call[c].id /\ r.complete = call[c].complete
      /\ r.todo = call[c].todo \ {e} /\ call[c].touched \subseteq r.touched
      /\ r.pc = "read_refund" => r.row \in Refunds /\ r.next = "judge"
  BY DEF TurnsFrom
<1>1. JobPlaced(call[c]) /\ Accounted(call[c]) /\ call[c].pc \in Settling /\ e \in Entries
  BY JobAt, TheEntryExists DEF Settling
<1>2. JobPlaced(r)' /\ Ingested(r)'
  BY <1>0, <1>1 DEF JobPlaced, Settling, Ingested
<1>3. \A f \in Entries : Passes(r, f) => (Passes(call[c], f) \/ f = e)
                                         /\ entry[f] # None /\ entry[f].batch = call[c].id
  BY <1>0, <1>1 DEF Passes
<1>4. \A f \in Entries : HasVerdict(f) => HasVerdict(f)'
  BY DEF HasVerdict, Judged, ForOrder
<1>5. Accounted(r)'
  <2> SUFFICES ASSUME NEW f \in Entries, Passes(r, f)'
               PROVE  HasVerdict(f)' \/ (ForOrder(f)' /\ Pays[Entry[f].ref].order \in r.touched)
    BY DEF Accounted
  <2>1. Passes(r, f)
    BY DEF Passes
  <2>2. ForOrder(f)' <=> ForOrder(f)
    BY DEF ForOrder
  <2>3. CASE Passes(call[c], f)
    BY <1>0, <1>1, <1>4, <2>2, <2>3 DEF Accounted
  <2>4. CASE f = e
    BY <1>3, <2>1, <2>2, <2>4 DEF Settles
  <2> QED BY <1>3, <2>1, <2>3, <2>4
<1>6. DoneWithNoMore(c, r)
  BY <1>0, <1>3 DEF DoneWithNoMore, Settles
<1> QED BY <1>0, <1>2, <1>5, <1>6, BooksQuiet

LEMMA JudgeEntryKeeps ==
  ASSUME FInv, NEW c \in Calls, JudgeEntry(c), UNCHANGED begun
  PROVE  FInv'
<1>1. PICK e, v : e = TheEntry(c) /\ v = Verdict(c, e)
  OBVIOUS
<1>2. /\ call[c].pc = "judge" /\ call[c].todo # {} /\ v # None /\ Record(e, v)
      /\ call' = [call EXCEPT ![c].todo = call[c].todo \ {e}]
      /\ UNCHANGED <<payments, mapped, refundRow, batch, entry, whole, closed>>
  BY <1>1 DEF JudgeEntry, At, Later, settled
<1>3. call[c] \in Jobs /\ e \in call[c].todo /\ e \in Entries
  BY <1>1, <1>2, JudgingAt, TheEntryExists
<1>4. v \in Results
  BY <1>1, <1>2 DEF Verdict, ChargeVerdict, WithoutReference, Results
<1>5. /\ FinanceTypeOK' /\ records \subseteq records' /\ [about |-> e, result |-> v] \in records'
  <2>1. refundRow' \in [Refunds -> RefundStates]
    BY <1>2 DEF FInv, FinanceTypeOK
  <2> QED BY <1>2, <1>3, <1>4, <2>1, RecordTyped
<1>6. HasVerdict(e)'
  BY <1>5 DEF HasVerdict, Judged
<1>7. PICK r : r = [call[c] EXCEPT !.todo = call[c].todo \ {e}]
  OBVIOUS
<1>8. call' = [call EXCEPT ![c] = r]
  BY <1>2, <1>7
<1>9. /\ r \in Jobs /\ r.pc = "judge" /\ r.id = call[c].id /\ r.complete = call[c].complete
      /\ r.todo = call[c].todo \ {e} /\ r.touched = call[c].touched
  BY <1>2, <1>3, <1>7 DEF Jobs
<1>10. ~ (entry[e].batch = call[c].id /\ ForOrder(e) /\ Entry[e].currency = Local
            /\ Currency[entry[e].batch] = Local)
  BY <1>1, <1>2 DEF Verdict, ForOrder, OrderTypes, ChargeTypes
<1>11. UNCHANGED <<batch, entry, whole, closed, mapped>>
  BY <1>2
<1>12. Settles(r, e)
  BY <1>6, <1>9, <1>10 DEF Settles
<1>13. TurnsFrom(c, e, r)
  BY <1>8, <1>9 DEF TurnsFrom
<1> QED BY <1>1, <1>2, <1>5, <1>11, <1>12, <1>13, EntryDone

LEMMA TouchOrderKeeps ==
  ASSUME FInv, NEW c \in Calls, TouchOrder(c), UNCHANGED begun
  PROVE  FInv'
<1>1. PICK e, o : e = TheEntry(c) /\ o = Pays[Entry[e].ref].order
  OBVIOUS
<1>2. /\ call[c].pc = "judge" /\ call[c].todo # {} /\ Verdict(c, e) = None
      /\ Entry[e].type \in OrderTypes
      /\ call' = [call EXCEPT ![c].todo = call[c].todo \ {e}, ![c].touched = @ \cup {o}]
      /\ UNCHANGED <<payments, mapped, refundRow, batch, entry, whole, records, closed>>
  BY <1>1 DEF TouchOrder, At, Later, settled
<1>3. call[c] \in Jobs /\ e \in call[c].todo /\ e \in Entries
  BY <1>1, <1>2, JudgingAt, TheEntryExists
<1>4. PICK r : r = [call[c] EXCEPT !.todo = call[c].todo \ {e}, !.touched = call[c].touched \cup {o}]
  OBVIOUS
<1>5. call' = [call EXCEPT ![c] = r]
  BY <1>2, <1>4
<1>6. entry[e] # None /\ entry[e].batch = call[c].id
  BY <1>2, <1>3, JobAt DEF JobPlaced, Settling
<1>7. ForOrder(e)
  <2>1. entry[e].resolved
    <3>1. CASE ~ entry[e].resolved
      <4>1. Verdict(c, e) \in Results
        BY <3>1 DEF Verdict, ChargeVerdict, WithoutReference, Results
      <4> QED BY <1>2, <4>1, NoneIsNoRow
    <3> QED BY <3>1
  <2> QED BY <1>2, <2>1 DEF ForOrder
<1>8. o \in Orders
  <2>1. Entry[e].ref \in Payments
    BY <1>2, <1>3, <1>6, <1>7 DEF ForOrder, FInv, ReferencesKnown
  <2> QED BY <1>1, <2>1, FinanceTyped
<1>9. /\ r \in Jobs /\ r.pc = "judge" /\ r.id = call[c].id /\ r.complete = call[c].complete
      /\ r.todo = call[c].todo \ {e} /\ r.touched = call[c].touched \cup {o}
  BY <1>2, <1>3, <1>4, <1>8 DEF Jobs
<1>10. FinanceTypeOK'
  BY <1>2 DEF FInv, FinanceTypeOK, payments
<1>11. ForOrder(e) /\ Pays[Entry[e].ref].order \in r.touched
  BY <1>1, <1>7, <1>9
<1>12. Settles(r, e)
  BY <1>11 DEF Settles
<1>13. TurnsFrom(c, e, r)
  BY <1>5, <1>9 DEF TurnsFrom
<1>14. UNCHANGED <<batch, entry, whole, closed, mapped>> /\ records \subseteq records'
  BY <1>2
<1> QED BY <1>1, <1>2, <1>10, <1>12, <1>13, <1>14, EntryDone

LEMMA JudgeRefundKeeps ==
  ASSUME FInv, NEW c \in Calls, JudgeRefund(c), UNCHANGED begun
  PROVE  FInv'
<1>1. PICK e, x, v : /\ e = TheEntry(c) /\ x = Entry[e].ref
                     /\ v = IF Within(-Refunded[x], Entry[e].amount) THEN "MATCH" ELSE "DIVERGENCE"
  OBVIOUS
<1>2. /\ call[c].pc = "judge" /\ call[c].todo # {} /\ Verdict(c, e) = None
      /\ Entry[e].type = "refund" /\ Record(x, v)
      /\ call' = [call EXCEPT ![c].todo = call[c].todo \ {e}, ![c].pc = "read_refund",
                              ![c].row = x, ![c].verdict = v, ![c].next = "judge"]
      /\ UNCHANGED <<payments, mapped, refundRow, batch, entry, whole, closed>>
  BY <1>1 DEF JudgeRefund, At, Later, settled
<1>3. call[c] \in Jobs /\ e \in call[c].todo /\ e \in Entries
  BY <1>1, <1>2, JudgingAt, TheEntryExists
<1>4. PICK r : r = [call[c] EXCEPT !.todo = call[c].todo \ {e}, !.pc = "read_refund",
                                   !.row = x, !.verdict = v, !.next = "judge"]
  OBVIOUS
<1>5. call' = [call EXCEPT ![c] = r]
  BY <1>2, <1>4
<1>6. entry[e] # None /\ entry[e].batch = call[c].id
  BY <1>2, <1>3, JobAt DEF JobPlaced, Settling
<1>7. entry[e].resolved
  <2>1. CASE ~ entry[e].resolved
    <3>1. Verdict(c, e) \in Results
      BY <2>1 DEF Verdict, ChargeVerdict, WithoutReference, Results
    <3> QED BY <1>2, <3>1, NoneIsNoRow
  <2> QED BY <2>1
<1>8. x \in Refunds
  BY <1>1, <1>2, <1>3, <1>6, <1>7 DEF FInv, ReferencesKnown, OrderTypes
<1>9. v \in Results
  BY <1>1 DEF Results
<1>10. FinanceTypeOK' /\ records \subseteq records' /\ [about |-> x, result |-> v] \in records'
  <2>1. refundRow' \in [Refunds -> RefundStates]
    BY <1>2 DEF FInv, FinanceTypeOK
  <2> QED BY <1>2, <1>8, <1>9, <2>1, RecordTyped
<1>11. HasVerdict(e)'
  <2>1. Judged(x)'
    BY <1>10 DEF Judged
  <2> QED BY <1>1, <1>2, <1>7, <2>1 DEF HasVerdict
<1>12. /\ r \in Jobs /\ r.pc = "read_refund" /\ r.id = call[c].id
       /\ r.complete = call[c].complete /\ r.row = x /\ r.next = "judge"
       /\ r.todo = call[c].todo \ {e} /\ r.touched = call[c].touched
  BY <1>2, <1>3, <1>4, <1>8, <1>9, ZenonT(40) DEF Jobs, FinancePlaces, Settling
<1>13. ~ ForOrder(e)
  BY <1>2 DEF ForOrder, OrderTypes
<1>14. Settles(r, e)
  BY <1>11, <1>13 DEF Settles
<1>15. TurnsFrom(c, e, r)
  BY <1>5, <1>8, <1>12 DEF TurnsFrom
<1>16. UNCHANGED <<batch, entry, whole, closed, mapped>>
  BY <1>2
<1> QED BY <1>1, <1>2, <1>10, <1>14, <1>15, <1>16, EntryDone

LEMMA ObservedBounded ==
  ASSUME NEW c, NEW o \in Orders, NEW final, CumulativeVerdict(c, o, final) # "OVER_SETTLED"
  PROVE  Observed(c, o) <= Total[o] + Tolerance
<1>1. Contributing(c, o) \in SUBSET Entries
  BY DEF Contributing
<1>2. Observed(c, o) \in Int
  BY <1>1, CreditsFinite DEF Observed
<1>3. Total[o] \in Nat /\ Tolerance \in Nat
  BY FinanceTyped
<1>4. PICK n : n = Observed(c, o)
  OBVIOUS
<1>5. CASE Within(Total[o], Observed(c, o))
  <2>1. Total[o] - n \in -Tolerance..Tolerance
    BY <1>4, <1>5 DEF Within
  <2> QED BY <1>2, <1>3, <1>4, <2>1
<1>6. CASE ~ Within(Total[o], Observed(c, o))
  <2>1. ~ (n > Total[o])
    BY <1>4, <1>6 DEF CumulativeVerdict
  <2> QED BY <1>2, <1>3, <1>4, <2>1
<1> QED BY <1>5, <1>6

\* The verdict on an order fits what its batches brought, or says they brought too much.
LEMMA JudgeOrderKeeps ==
  ASSUME FInv, NEW c \in Calls, JudgeOrder(c), UNCHANGED begun
  PROVE  FInv'
<1>1. PICK o \in call[c].touched, final \in BOOLEAN :
        /\ Record(o, CumulativeVerdict(c, o, final))
        /\ call' = [call EXCEPT ![c].touched = @ \ {o}]
  BY DEF JudgeOrder
<1>2. PICK v, r : v = CumulativeVerdict(c, o, final)
                  /\ r = [call[c] EXCEPT !.touched = call[c].touched \ {o}]
  OBVIOUS
<1>3. /\ call[c].pc = "judge" /\ call[c].todo = {}
      /\ UNCHANGED <<payments, mapped, refundRow, batch, entry, whole, closed>>
  BY DEF JudgeOrder, At, settled
<1>4. /\ call[c] \in Jobs /\ call[c].pc \in Settling /\ Accounted(call[c]) /\ JobPlaced(call[c])
      /\ o \in Orders
  BY <1>3, JobAt, JudgingAt DEF Jobs
<1>5. call' = [call EXCEPT ![c] = r]
  BY <1>1, <1>2
<1>6. /\ r \in Jobs /\ r.pc = "judge" /\ r.id = call[c].id /\ r.complete = call[c].complete
      /\ r.todo = call[c].todo /\ r.touched = call[c].touched \ {o}
  BY <1>2, <1>3, <1>4 DEF Jobs
<1>7. v \in Results
  BY <1>2 DEF CumulativeVerdict, Results
<1>8. FinanceTypeOK' /\ records \subseteq records' /\ [about |-> o, result |-> v] \in records'
  <2>1. refundRow' \in [Refunds -> RefundStates]
    BY <1>3 DEF FInv, FinanceTypeOK
  <2> QED BY <1>1, <1>2, <1>3, <1>4, <1>7, <2>1, RecordTyped
<1>9. Judged(o)'
  BY <1>8 DEF Judged
<1>10. JobPlaced(r)' /\ Ingested(r)'
  BY <1>3, <1>4, <1>6 DEF JobPlaced, Settling, Ingested
<1>11. \A e \in Entries : (Passes(r, e) <=> Passes(call[c], e)) /\ (Passes(r, e)' <=> Passes(r, e))
  BY <1>3, <1>4, <1>6 DEF Passes, Settling
<1>12. Accounted(r)'
  <2> SUFFICES ASSUME NEW e \in Entries, Passes(r, e)'
               PROVE  HasVerdict(e)' \/ (ForOrder(e)' /\ Pays[Entry[e].ref].order \in r.touched)
    BY DEF Accounted
  <2>1. HasVerdict(e) \/ (ForOrder(e) /\ Pays[Entry[e].ref].order \in call[c].touched)
    BY <1>4, <1>11 DEF Accounted
  <2>2. ForOrder(e)' <=> ForOrder(e)
    BY <1>3 DEF ForOrder
  <2>3. HasVerdict(e) => HasVerdict(e)'
    BY <1>3, <1>8 DEF HasVerdict, Judged, ForOrder
  <2>4. ForOrder(e) /\ Pays[Entry[e].ref].order = o => HasVerdict(e)'
    BY <1>9, <2>2 DEF HasVerdict
  <2> QED BY <1>6, <2>1, <2>2, <2>3, <2>4
<1>13. BooksGrow
  BY <1>3, <1>8 DEF BooksGrow
<1>14. ReferencesKnown' /\ WholeIsPresent'
  BY <1>3, <1>8 DEF FInv, ReferencesKnown, WholeIsPresent, Present
<1>15. ClosedIsJudged'
  BY <1>3, <1>8 DEF FInv, ClosedIsJudged, HasVerdict, ForOrder, Judged
<1>16. ASSUME NEW x \in Orders PROVE Fits(x)' \/ OverSeen(x)'
  <2>1. CASE x # o
    <3>1. ASSUME NEW e \in PaidBy(Entries, x), Currency[entry[e].batch] = Local,
                 Passes(r, e), x \notin r.touched
          PROVE  Passes(call[c], e) /\ x \notin call[c].touched
      <4>1. e \in Entries
        BY DEF PaidBy
      <4> QED BY <1>6, <1>11, <2>1, <3>1, <4>1
    <3>2. closed' = closed
      BY <1>3
    <3>3. PassedFor(x)' \subseteq PassedFor(x)
      BY <1>5, <1>10, <1>13, <3>1, <3>2, PassedKept
    <3> QED BY <1>13, <3>3, FitsKept DEF FInv
  <2>2. CASE x = o /\ v = "OVER_SETTLED"
    BY <1>8, <2>2 DEF OverSeen
  <2>3. CASE x = o /\ v # "OVER_SETTLED"
    <3>1. PICK A, P : A = PaidBy(Entries, o) /\ P = PassedFor(o)'
      OBVIOUS
    <3>2. PaidBy(Entries, o)' = A /\ Contributing(c, o) = A
      BY <1>3, <3>1 DEF PaidBy, Contributing
    <3>3. A \in SUBSET Entries /\ P \in SUBSET A
      BY <3>1, <3>2 DEF PaidBy, PassedFor
    <3>4. Cardinality(Credits(A)) - Cardinality(Debits(A)) <= Total[o] + Tolerance
      BY <1>2, <1>4, <2>3, <3>2, ObservedBounded DEF Observed
    <3>5. Fits(o)' <=> Cardinality(Credits(P)) - Cardinality(Debits(A)) <= Total[o] + Tolerance
      BY <3>1, <3>2 DEF Fits, Credits, Debits
    <3>6. Cardinality(Credits(P)) <= Cardinality(Credits(A))
      BY <3>3, MoneyGrows
    <3>7. /\ Cardinality(Credits(P)) \in Nat /\ Cardinality(Credits(A)) \in Nat
          /\ Cardinality(Debits(A)) \in Nat /\ Total[o] + Tolerance \in Nat
      <4>1. P \in SUBSET Entries /\ Total[o] \in Nat /\ Tolerance \in Nat
        BY <1>4, <3>3, FinanceTyped
      <4> QED BY <3>3, <4>1, CreditsFinite
    <3>8. Cardinality(Credits(P)) - Cardinality(Debits(A)) <= Total[o] + Tolerance
      BY <3>4, <3>6, <3>7
    <3>9. Fits(o)'
      BY <3>5, <3>8
    <3> QED BY <2>3, <3>9 DEF Fits
  <2> QED BY <2>1, <2>2, <2>3
<1> QED BY <1>5, <1>8, <1>10, <1>12, <1>13, <1>14, <1>15, <1>16, BooksKeep

LEMMA JudgeMissingKeeps ==
  ASSUME FInv, NEW c \in Calls, JudgeMissing(c), UNCHANGED begun
  PROVE  FInv'
<1>1. PICK x \in call[c].refunds :
        IF IsMissing(c, x)
        THEN /\ Record(x, "CANONICAL_ONLY")
             /\ call' = [call EXCEPT ![c].refunds = @ \ {x}, ![c].pc = "read_refund",
                           ![c].row = x, ![c].verdict = "CANONICAL_ONLY", ![c].next = "judge"]
        ELSE /\ call' = [call EXCEPT ![c].refunds = @ \ {x}]
             /\ UNCHANGED records
  BY DEF JudgeMissing
<1>2. /\ call[c].pc = "judge"
      /\ UNCHANGED <<payments, mapped, refundRow, batch, entry, whole, closed>>
  BY DEF JudgeMissing, At, settled
<1>3. call[c] \in Jobs /\ call[c].pc \in Settling /\ x \in Refunds
  BY <1>2, JudgingAt DEF Jobs
<1>4. UNCHANGED <<batch, entry, whole, closed, mapped>>
  BY <1>2
<1>5. refundRow' \in [Refunds -> RefundStates]
  BY <1>2 DEF FInv, FinanceTypeOK
<1>6. CASE IsMissing(c, x)
  <2>1. PICK r : r = [call[c] EXCEPT !.refunds = call[c].refunds \ {x}, !.pc = "read_refund",
                                     !.row = x, !.verdict = "CANONICAL_ONLY", !.next = "judge"]
    OBVIOUS
  <2>2. call' = [call EXCEPT ![c] = r]
    BY <1>1, <1>6, <2>1
  <2>3. /\ r \in Jobs /\ r.pc = "read_refund" /\ r.id = call[c].id
        /\ r.complete = call[c].complete /\ r.todo = call[c].todo
        /\ r.touched = call[c].touched /\ r.row = x /\ r.next = "judge"
    BY <1>3, <2>1 DEF Jobs, FinancePlaces, Settling, Results
  <2>4. FinanceTypeOK' /\ records \subseteq records'
    <3>1. "CANONICAL_ONLY" \in Results
      BY DEF Results
    <3> QED BY <1>1, <1>2, <1>3, <1>5, <1>6, <3>1, RecordTyped
  <2> QED BY <1>3, <1>4, <2>2, <2>3, <2>4, SamePass DEF Settling
<1>7. CASE ~ IsMissing(c, x)
  <2>1. PICK r : r = [call[c] EXCEPT !.refunds = call[c].refunds \ {x}]
    OBVIOUS
  <2>2. call' = [call EXCEPT ![c] = r] /\ records' = records
    BY <1>1, <1>7, <2>1
  <2>3. /\ r \in Jobs /\ r.pc = "judge" /\ r.id = call[c].id
        /\ r.complete = call[c].complete /\ r.todo = call[c].todo /\ r.touched = call[c].touched
    BY <1>2, <1>3, <2>1 DEF Jobs
  <2>4. FinanceTypeOK'
    BY <1>2, <2>2 DEF FInv, FinanceTypeOK, payments
  <2> QED BY <1>3, <1>4, <2>2, <2>3, <2>4, SamePass DEF Settling
<1> QED BY <1>6, <1>7

\* A pass that ends has left nothing of a whole batch behind without a verdict.
LEMMA EndOfReconciliationKeeps ==
  ASSUME FInv, NEW c \in Calls, EndOfReconciliation(c), UNCHANGED begun
  PROVE  FInv'
<1>1. PICK b, K : b = call[c].id /\ K = IF call[c].complete THEN closed \cup {b} ELSE closed
  OBVIOUS
<1>2. /\ call[c].pc = "judge" /\ call[c].todo = {} /\ call[c].touched = {}
      /\ closed' = K /\ Leave(c)
      /\ UNCHANGED <<payments, mapped, refundRow, batch, entry, whole, records>>
  BY <1>1 DEF EndOfReconciliation, At, settled
<1>3. /\ call[c] \in Jobs /\ b \in batch /\ b \in Batches /\ call[c].pc \in Settling
      /\ call[c].complete => b \in whole
      /\ Accounted(call[c])
  BY <1>1, <1>2, JudgingAt
<1>4. call' = [call EXCEPT ![c] = Free]
  BY <1>2 DEF Leave
<1>5. FinanceTypeOK'
  <2>1. closed' \subseteq whole'
    BY <1>1, <1>2, <1>3 DEF FInv, FinanceTypeOK
  <2> QED BY <1>2, <2>1 DEF FInv, FinanceTypeOK, payments
<1>6. BooksGrow
  BY <1>1, <1>2 DEF BooksGrow
<1>7. \A e \in Entries :
        entry[e] # None /\ entry[e].batch \in K =>
          entry[e].batch \in closed \/ Passes(call[c], e)
  BY <1>1, <1>2, <1>3 DEF Passes
<1>8. ClosedIsJudged'
  <2> SUFFICES ASSUME NEW e \in Entries, entry[e] # None, entry[e].batch \in K
               PROVE  HasVerdict(e)'
    BY <1>2 DEF ClosedIsJudged
  <2>1. HasVerdict(e)
    BY <1>2, <1>3, <1>7 DEF FInv, ClosedIsJudged, Accounted
  <2> QED BY <1>6, <2>1, VerdictKept
<1>9. ReferencesKnown' /\ WholeIsPresent'
  BY <1>2 DEF FInv, ReferencesKnown, WholeIsPresent, Present
<1>10. JobPlaced(Free)' /\ Ingested(Free)' /\ Accounted(Free)' /\ ~ \E e : Passes(Free, e)'
  BY FreePlaced DEF Ingested, Accounted, Passes, Settling
<1>11. ASSUME NEW o \in Orders PROVE Fits(o)' \/ OverSeen(o)'
  <2>1. ASSUME NEW e \in PassedFor(o)' PROVE e \in PassedFor(o)
    <3>1. /\ e \in PaidBy(Entries, o) /\ Currency[entry[e].batch] = Local
          /\ e \in Entries /\ entry[e] # None
      BY <1>2, <2>1 DEF PassedFor, PaidBy
    <3>2. CASE entry[e].batch \in K
      BY <1>2, <1>7, <3>1, <3>2 DEF PassedFor
    <3>3. CASE \E d \in Calls : Passes(call[d], e)' /\ o \notin call'[d].touched
      <4>1. PICK d \in Calls : Passes(call[d], e)' /\ o \notin call'[d].touched
        BY <3>3
      <4>2. d # c
        BY <1>4, <1>10, <4>1, JobMoved DEF FInv
      <4>3. call'[d] = call[d]
        BY <1>4, <4>2, JobMoved DEF FInv
      <4>4. Passes(call[d], e) /\ o \notin call[d].touched
        BY <1>2, <4>1, <4>3 DEF Passes
      <4> QED BY <3>1, <4>4 DEF PassedFor
    <3> QED BY <1>2, <2>1, <3>2, <3>3 DEF PassedFor
  <2> QED BY <1>6, <2>1, FitsKept DEF FInv
<1> QED BY <1>4, <1>5, <1>6, <1>8, <1>9, <1>10, <1>11, BooksKeep

-----------------------------------------------------------------------------
(* Finance: the theorems.                                                  *)

LEMMA FinanceNextKeeps ==
  ASSUME FInv, FinanceNext
  PROVE  FInv'
<1>1. CASE \E c \in Calls :
             begun < MaxBegun /\ begun' = begun + 1 /\ Taken(c) /\ FinanceBegin(c)
  <2>1. PICK c \in Calls : begun < MaxBegun /\ begun' = begun + 1 /\ FinanceBegin(c)
    BY <1>1
  <2>2. begun' \in 0..MaxBegun
    <3>1. begun \in 0..MaxBegun /\ MaxBegun \in Nat
      BY FinanceTyped DEF FInv, FinanceTypeOK
    <3> QED BY <2>1, <3>1
  <2> QED BY <2>1, <2>2, ObservePaymentKeeps, IngestBatchKeeps, ReconcileBatchKeeps,
             ConfirmRefundKeeps DEF FinanceBegin
<1>2. CASE \E c \in Calls : (FinanceStep(c) \/ Crash(c)) /\ UNCHANGED begun
  <2>1. PICK c \in Calls : (FinanceStep(c) \/ Crash(c)) /\ UNCHANGED begun
    BY <1>2
  <2>2. CASE MapPayment(c) \/ FindRecord(c) \/ ReconcilePayment(c)
    BY <2>1, <2>2, MapPaymentKeeps, FindRecordKeeps, ReconcilePaymentKeeps
  <2>3. CASE PutBatch(c) \/ ReadEntry(c) \/ PutEntry(c) \/ EndOfBatch(c)
    BY <2>1, <2>3, PutBatchKeeps, ReadEntryKeeps, PutEntryKeeps, EndOfBatchKeeps
  <2>4. CASE ListEntries(c) \/ ListRefunds(c) \/ EndOfReconciliation(c)
    BY <2>1, <2>4, ListEntriesKeeps, ListRefundsKeeps, EndOfReconciliationKeeps
  <2>5. CASE JudgeEntry(c) \/ TouchOrder(c) \/ JudgeRefund(c)
    BY <2>1, <2>5, JudgeEntryKeeps, TouchOrderKeeps, JudgeRefundKeeps
  <2>6. CASE ReadRefund(c) \/ PutRefund(c) \/ JudgeOrder(c) \/ JudgeMissing(c)
    BY <2>1, <2>6, ReadRefundKeeps, PutRefundKeeps, JudgeOrderKeeps, JudgeMissingKeeps
  <2>7. CASE RegisterRefundReference(c) \/ ReadForCompletion(c) \/ CompleteRefund(c) \/ Crash(c)
    BY <2>1, <2>7, RegisterKeeps, ReadForCompletionKeeps, CompleteRefundKeeps, CrashKeeps
  <2> QED BY <2>1, <2>2, <2>3, <2>4, <2>5, <2>6, <2>7 DEF FinanceStep
<1> QED BY <1>1, <1>2 DEF FinanceNext

LEMMA FinanceStutterKeeps ==
  ASSUME FInv, UNCHANGED financeVars
  PROVE  FInv'
<1>1. UNCHANGED <<observed, booked, mapped, refundRow, batch, entry, records, whole, closed,
                  begun, call>>
  BY DEF financeVars
<1>2. FinanceTypeOK'
  BY <1>1 DEF FInv, FinanceTypeOK
<1>3. \A r : JobPlaced(r) /\ Ingested(r) /\ Accounted(r) =>
              JobPlaced(r)' /\ Ingested(r)' /\ Accounted(r)'
  <2>1. BooksGrow
    BY <1>1 DEF BooksGrow
  <2> QED BY <2>1, JobKept DEF FInv
<1>4. JobsGood'
  BY <1>1, <1>3 DEF FInv, JobsGood
<1>5. ReferencesKnown' /\ WholeIsPresent' /\ ClosedIsJudged'
  BY <1>1 DEF FInv, ReferencesKnown, WholeIsPresent, Present, ClosedIsJudged, HasVerdict,
              ForOrder, Judged
<1>6. \A o \in Orders : (Fits(o)' <=> Fits(o)) /\ (OverSeen(o)' <=> OverSeen(o))
  BY <1>1 DEF Fits, OverSeen, PassedFor, PaidBy, Passes, Credits, Debits
<1> QED BY <1>2, <1>4, <1>5, <1>6 DEF FInv

LEMMA FinanceInitHolds ==
  ASSUME FinanceInit
  PROVE  FInv
<1>1. FinanceTypeOK
  <2>1. refundRow \in [Refunds -> RefundStates]
    BY DEF FinanceInit, RefundStates, RefundStatuses
  <2>2. booked \in [Payments -> Nat] /\ entry \in [Entries -> EntryRows \cup {None}]
    BY DEF FinanceInit
  <2> QED BY <2>1, <2>2, FinanceTyped DEF FinanceInit, FinanceTypeOK
<1>2. JobsGood
  BY FreePlaced DEF FinanceInit, JobsGood, Ingested, Accounted, Passes, Settling
<1>3. ReferencesKnown /\ WholeIsPresent /\ ClosedIsJudged
  BY DEF FinanceInit, ReferencesKnown, WholeIsPresent, ClosedIsJudged
<1>4. ASSUME NEW o \in Orders PROVE Fits(o)
  <2>1. PaidBy(Entries, o) = {} /\ PassedFor(o) = {}
    BY DEF FinanceInit, PaidBy, PassedFor
  <2>2. Credits({}) = {} /\ Debits({}) = {}
    BY DEF Credits, Debits
  <2>3. Cardinality({}) = 0 /\ Total[o] \in Nat /\ Tolerance \in Nat
    BY FS_EmptySet, FinanceTyped
  <2>4. 0 - 0 <= Total[o] + Tolerance
    BY <2>3
  <2> QED BY <2>1, <2>2, <2>3, <2>4, Zenon DEF Fits
<1> QED BY <1>1, <1>2, <1>3, <1>4 DEF FInv

\* The books of finance, in every state and for every payload, price and thread: each
\* reconciliation in flight accounts for what it has left behind, and money that has
\* passed fits its order or was said not to.
THEOREM FinanceInvariant == FinanceSpec => []FInv
BY FinanceInitHolds, FinanceNextKeeps, FinanceStutterKeeps, PTL DEF FinanceSpec

\* reconcile_settlement_batch and reconcile_cumulative_settlement: money that comes
\* twice, through batches that were ingested to the end and then reconciled, is seen.
THEOREM OverSettlement == FinanceSpec => []OverSettlementIsSeen
<1>1. FInv => OverSettlementIsSeen
  <2> SUFFICES ASSUME FInv, NEW o \in Orders,
                      Cardinality(Credits(ClosedFor(o))) - Cardinality(Debits(PaidBy(Entries, o)))
                        > Total[o] + Tolerance
               PROVE  OverSeen(o)
    BY DEF OverSettlementIsSeen, OverSeen
  <2>1. PICK A, P, Q : A = PaidBy(Entries, o) /\ P = PassedFor(o) /\ Q = ClosedFor(o)
    OBVIOUS
  <2>2. A \in SUBSET Entries /\ P \in SUBSET Entries /\ Q \in SUBSET P
    BY <2>1 DEF PaidBy, PassedFor, ClosedFor
  <2>3. Cardinality(Credits(Q)) <= Cardinality(Credits(P))
    BY <2>2, MoneyGrows
  <2>4. /\ Cardinality(Credits(Q)) \in Nat /\ Cardinality(Credits(P)) \in Nat
        /\ Cardinality(Debits(A)) \in Nat /\ Total[o] + Tolerance \in Nat
    <3>1. Q \in SUBSET Entries /\ Total[o] \in Nat /\ Tolerance \in Nat
      BY <2>2, FinanceTyped
    <3> QED BY <2>2, <3>1, CreditsFinite
  <2>5. Cardinality(Credits(Q)) - Cardinality(Debits(A)) > Total[o] + Tolerance
    BY <2>1
  <2>6. ~ (Cardinality(Credits(P)) - Cardinality(Debits(A)) <= Total[o] + Tolerance)
    BY <2>3, <2>4, <2>5
  <2>7. ~ Fits(o)
    BY <2>1, <2>6 DEF Fits
  <2> QED BY <2>7 DEF FInv
<1> QED BY <1>1, FinanceInvariant, PTL

\* ingest_settlement_batch and reconcile_settlement_batch: no entry of a batch that went
\* through both to the end is without a verdict or a duplicate.
THEOREM EveryEntry == FinanceSpec => []EveryEntryIsJudged
<1>1. FInv => EveryEntryIsJudged
  <2> SUFFICES ASSUME FInv, NEW b \in closed, NEW i \in DOMAIN Payload[b],
                      NEW e, e = Payload[b][i]
               PROVE  IF entry[e].batch # b
                      THEN [about |-> b, result |-> "DUPLICATE"] \in records
                      ELSE HasVerdict(e)
    BY DEF EveryEntryIsJudged, FInv, HasVerdict, ForOrder
  <2>1. b \in whole /\ b \in Batches
    BY DEF FInv, FinanceTypeOK
  <2>2. Present(b, i)
    BY <2>1 DEF FInv, WholeIsPresent
  <2>3. e \in Entries
    BY <2>1, FinanceTyped
  <2>4. entry[e] # None /\ (entry[e].batch # b => [about |-> b, result |-> "DUPLICATE"] \in records)
    BY <2>2 DEF Present
  <2> QED BY <2>3, <2>4 DEF FInv, ClosedIsJudged
<1> QED BY <1>1, FinanceInvariant, PTL
==============================================================================
