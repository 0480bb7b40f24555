---------------------------- MODULE OwnerDecisions ----------------------------
(***************************************************************************)
(* The approvals that wait for the merchant's owner and the one path that  *)
(* resolves them: ApprovalService.resolve (packages/approvals/service.py), *)
(* the shortage approvals of PostOrderOperationsService that send          *)
(* themselves to the owner's WhatsApp or hold themselves back              *)
(* (evaluate_inventory_shortage, _auto_notify_whatsapp_if_no_queue,        *)
(* notify_next_pending_approval), and the sending of one approval          *)
(* (DemoApprovalNotificationService.send_approval).                        *)
(*                                                                         *)
(* A call is its store calls, each one step; a put writes the whole row    *)
(* the call read.  A call that resolves for a WhatsApp reply goes on at    *)
(* `then`, or at `otherwise` when resolve raises (OwnerConversation).      *)
(*                                                                         *)
(* Left out: what a dispatch does (Refunds, OrderLifecycle, ChannelOps),   *)
(* the wording, who decided, audit.                                        *)
(***************************************************************************)
EXTENDS Integers, FiniteSets

CONSTANTS
  Approvals,    \* Approval ids
  Shortages,    \* those of action resolve_inventory_shortage
  OrderFlow,    \* those of _ORDER_FLOW_APPROVAL_ACTIONS, Shortages included
  Order,        \* [Shortages -> orders], object_id
  Sendable,     \* those an operator may send by hand
  Requested,    \* what was requested before: one approval at most
  Calls,        \* request threads
  MaxBegun,     \* bound: calls in a behaviour
  None

Statuses == {"pending", "approved", "denied", "expired"}
Rows == [status : Statuses, notified : BOOLEAN, at : Nat]

ASSUME DecisionsAssumption ==
  /\ Shortages \subseteq OrderFlow /\ OrderFlow \subseteq Approvals
  /\ Sendable \subseteq OrderFlow
  /\ Requested \subseteq Approvals \ Shortages
  /\ \A a, b \in Requested : a = b
  /\ None \notin Approvals \cup Rows
  /\ MaxBegun \in Nat

VARIABLES
  approval,    \* Approval rows: None or [status, notified, at]
  clock,       \* sync.observed_at of the next row
  expired,     \* approvals whose expires_at has passed
  contact,     \* there is an active DemoSessionContact
  dispatched,  \* how often the operation of an approval was dispatched
  redecided,   \* history: approvals whose decision was put over a decision
  missed,      \* history: what the holding back does not survive happened
  begun,
  call         \* [Calls -> [pc, id, held, decision, then, otherwise]]

world == <<clock, expired, contact>>
vars == <<approval, clock, expired, contact, dispatched, redecided, missed, begun, call>>

Pcs == {"idle", "put_shortage", "list_outstanding", "find_contact", "send", "notified",
        "read", "put_expired", "decide", "dispatch", "list_pending"}

TypeOK ==
  /\ approval \in [Approvals -> Rows \cup {None}]
  /\ clock \in Nat
  /\ expired \subseteq Approvals
  /\ contact \in BOOLEAN /\ redecided \subseteq Approvals /\ missed \in BOOLEAN
  /\ dispatched \in [Approvals -> Nat]
  /\ begun \in 0..MaxBegun
  /\ \A c \in Calls :
       /\ call[c].id \in Approvals \cup {None}
       /\ call[c].held \in Rows \cup {None}
       /\ call[c].pc \in {"notified", "put_expired", "decide"} => call[c].held \in Rows
       /\ call[c].pc \in Pcs \ {"idle", "dispatch", "list_pending"} =>
            call[c].id \in Approvals

Idle == [pc |-> "idle", id |-> None, held |-> None, decision |-> None,
         then |-> "idle", otherwise |-> "idle"]

Row(at) == [status |-> "pending", notified |-> FALSE, at |-> at]

Init ==
  /\ approval = [a \in Approvals |-> IF a \in Requested THEN Row(0) ELSE None]
  /\ clock = 1
  /\ expired = {}
  /\ contact \in BOOLEAN
  /\ dispatched = [a \in Approvals |-> 0]
  /\ redecided = {} /\ missed = FALSE
  /\ begun = 0
  /\ call = [c \in Calls |-> Idle]

At(c, pc) == call[c].pc = pc
Goto(c, pc) == call' = [call EXCEPT ![c].pc = pc]
Start(c, fields) == At(c, "idle") /\ call' = [call EXCEPT ![c] = fields]

\* Where the call goes on: the end of a request clears what it held.
Continue(c, pc) ==
  call' = [call EXCEPT ![c] = IF pc = "idle" THEN Idle ELSE [@ EXCEPT !.pc = pc]]

Pending(a) == approval[a] # None /\ approval[a].status = "pending"
Notified(a) == approval[a] # None /\ approval[a].notified

-----------------------------------------------------------------------------
(* Creation.                                                               *)

Create(a) ==
  /\ approval' = [approval EXCEPT ![a] = Row(clock)]
  /\ clock' = clock + 1
  /\ UNCHANGED <<expired, contact>>

\* A cancellation, return or refund that needs approval, a channel correction, a
\* proposed action: one put, and nobody is notified.
RequestApproval(c) ==
  /\ At(c, "idle")
  /\ \E a \in Approvals \ Shortages : approval[a] = None /\ Create(a)
  /\ UNCHANGED <<dispatched, redecided, missed, call>>

\* evaluate_inventory_shortage: an order that has an approval keeps it; the new
\* row gets an id of its own, whoever else creates one for the order.
EvaluateShortage(c) ==
  /\ \E a \in Shortages :
       /\ \A b \in Shortages : Order[b] = Order[a] => approval[b] = None
       /\ \A d \in Calls : call[d].id # a
       /\ Start(c, [Idle EXCEPT !.pc = "put_shortage", !.id = a])
  /\ UNCHANGED <<approval, world, dispatched, redecided, missed>>

PutShortage(c) ==
  /\ At(c, "put_shortage")
  /\ Create(call[c].id)
  /\ Goto(c, "list_outstanding")
  /\ UNCHANGED <<dispatched, redecided, missed>>

\* _auto_notify_whatsapp_if_no_queue: held back while another one that was
\* notified is still pending.
Outstanding(a) == {b \in OrderFlow \ {a} : Pending(b) /\ Notified(b)}
ListOutstanding(c) ==
  /\ At(c, "list_outstanding")
  /\ Continue(c, IF Outstanding(call[c].id) # {} THEN "idle" ELSE "find_contact")
  /\ UNCHANGED <<approval, world, dispatched, redecided, missed>>

-----------------------------------------------------------------------------
(* One message to the owner.                                               *)

\* _auto_notify_whatsapp does nothing when no contact is active.
FindContact(c) ==
  /\ At(c, "find_contact")
  /\ missed' = (missed \/ ~ contact)
  /\ Continue(c, IF contact THEN "send" ELSE call[c].then)
  /\ UNCHANGED <<approval, world, dispatched, redecided>>

\* send_approval reads the row and waits for the transport.
SendApproval(c) ==
  /\ At(c, "send")
  /\ call' = [call EXCEPT ![c].pc = "notified", ![c].held = approval[call[c].id]]
  /\ UNCHANGED <<approval, world, dispatched, redecided, missed>>

\* notifications_sent is written whether the message was delivered or not.
PutNotified(c) ==
  /\ At(c, "notified")
  /\ approval' = [approval EXCEPT ![call[c].id] =
                    [call[c].held EXCEPT !.notified = TRUE]]
  /\ missed' = (missed \/ approval[call[c].id].status # call[c].held.status)
  /\ Continue(c, call[c].then)
  /\ UNCHANGED <<world, dispatched, redecided>>

\* The Command Center's "send to WhatsApp", of any order-flow approval.
OperatorSend(c) ==
  /\ \E a \in Sendable :
       approval[a] # None /\ Start(c, [Idle EXCEPT !.pc = "send", !.id = a])
  /\ UNCHANGED <<approval, world, dispatched, redecided, missed>>

-----------------------------------------------------------------------------
(* ApprovalService.resolve.                                                *)

ResolveInCommandCenter(c) ==
  /\ \E a \in Approvals, d \in {"approved", "denied"} :
       /\ approval[a] # None
       /\ Start(c, [Idle EXCEPT !.pc = "read", !.id = a, !.decision = d])
  /\ UNCHANGED <<approval, world, dispatched, redecided, missed>>

\* Already resolved is an answer, not an error.
ReadForResolve(c) ==
  /\ At(c, "read")
  /\ LET a == call[c].id IN
     IF Pending(a)
     THEN call' = [call EXCEPT ![c].held = approval[a],
                     ![c].pc = IF a \in expired THEN "put_expired" ELSE "decide"]
     ELSE Continue(c, call[c].then)
  /\ UNCHANGED <<approval, world, dispatched, redecided, missed>>

\* The expired row is put, then resolve raises: nothing is sent next.
PutExpired(c) ==
  /\ At(c, "put_expired")
  /\ approval' = [approval EXCEPT ![call[c].id] =
                    [call[c].held EXCEPT !.status = "expired"]]
  /\ missed' = TRUE
  /\ Continue(c, call[c].otherwise)
  /\ UNCHANGED <<world, dispatched, redecided>>

\* A fault of PutDecision: the operation is not dispatched.
PutDecisionOnly(c) ==
  /\ At(c, "decide")
  /\ approval' = [approval EXCEPT ![call[c].id] =
                    [call[c].held EXCEPT !.status = call[c].decision]]
  /\ Goto(c, "list_pending")
  /\ redecided' = IF Pending(call[c].id) THEN redecided ELSE redecided \cup {call[c].id}
  /\ UNCHANGED <<world, dispatched, missed>>

PutDecision(c) ==
  /\ At(c, "decide")
  /\ approval' = [approval EXCEPT ![call[c].id] =
                    [call[c].held EXCEPT !.status = call[c].decision]]
  /\ Goto(c, IF call[c].decision = "approved" THEN "dispatch" ELSE "list_pending")
  /\ redecided' = IF Pending(call[c].id) THEN redecided ELSE redecided \cup {call[c].id}
  /\ UNCHANGED <<world, dispatched, missed>>

Dispatch(c) ==
  /\ At(c, "dispatch")
  /\ dispatched' = [dispatched EXCEPT ![call[c].id] = @ + 1]
  /\ Goto(c, "list_pending")
  /\ UNCHANGED <<approval, world, redecided, missed>>

DispatchRaises(c) ==
  /\ At(c, "dispatch")
  /\ missed' = TRUE
  /\ Continue(c, call[c].otherwise)
  /\ UNCHANGED <<approval, world, dispatched, redecided>>

HeldBack == {a \in OrderFlow : Pending(a) /\ ~ Notified(a)}
Oldest(a, S) == \A b \in S : approval[a].at <= approval[b].at

\* A fault of ListPending: only an approval releases the next one.
ListPendingIfApproved(c) ==
  /\ At(c, "list_pending")
  /\ IF HeldBack = {} \/ call[c].decision = "denied"
     THEN Continue(c, call[c].then)
     ELSE \E a \in HeldBack : Oldest(a, HeldBack)
            /\ call' = [call EXCEPT ![c].pc = "find_contact", ![c].id = a]
  /\ UNCHANGED <<approval, world, dispatched, redecided, missed>>

\* notify_next_pending_approval, whichever approval was resolved.
ListPending(c) ==
  /\ At(c, "list_pending")
  /\ IF HeldBack = {} THEN Continue(c, call[c].then)
     ELSE \E a \in HeldBack : Oldest(a, HeldBack)
            /\ call' = [call EXCEPT ![c].pc = "find_contact", ![c].id = a]
  /\ UNCHANGED <<approval, world, dispatched, redecided, missed>>

-----------------------------------------------------------------------------
Step(c) ==
  \/ PutShortage(c) \/ ListOutstanding(c)
  \/ FindContact(c) \/ SendApproval(c) \/ PutNotified(c)
  \/ ReadForResolve(c) \/ PutExpired(c) \/ PutDecision(c)
  \/ Dispatch(c) \/ DispatchRaises(c) \/ ListPending(c)

Begin(c) ==
  \/ RequestApproval(c) \/ EvaluateShortage(c)
  \/ OperatorSend(c) \/ ResolveInCommandCenter(c)

\* The contact is set, cleared or runs out; an approval's time runs out.
ChangeContact ==
  /\ contact' = ~ contact
  /\ UNCHANGED <<approval, clock, expired, dispatched, redecided, missed, call>>
Expire(a) ==
  /\ approval[a] # None /\ a \notin expired
  /\ expired' = expired \cup {a}
  /\ UNCHANGED <<approval, clock, contact, dispatched, redecided, missed, call>>

\* The process dies between two steps of a call.
Die(c) ==
  /\ ~ At(c, "idle")
  /\ missed' = TRUE
  /\ call' = [call EXCEPT ![c] = Idle]
  /\ UNCHANGED <<approval, world, dispatched, redecided>>

\* Idle threads are interchangeable: what begins takes one of them.
Taken(c) == At(c, "idle") /\ c = CHOOSE d \in Calls : At(d, "idle")

Next ==
  \/ begun < MaxBegun /\ begun' = begun + 1
       /\ \/ \E c \in Calls : Taken(c) /\ Begin(c)
          \/ ChangeContact
          \/ \E a \in Approvals : Expire(a)
  \/ \E c \in Calls : (Step(c) \/ Die(c)) /\ UNCHANGED begun

Spec == Init /\ [][Next]_vars

-----------------------------------------------------------------------------
(* Properties.                                                             *)

Quiet == \A c \in Calls : At(c, "idle")

\* No shortage approval is held back with nobody to release it: as long as no
\* call died, no approval was found expired, no dispatch raised, the owner could
\* be reached and no decision was overwritten by a row read before it, a pending
\* one that was not sent waits for a pending one that was.
NeverStranded ==
  (Quiet /\ ~ missed) =>
    \A s \in Shortages : Pending(s) /\ ~ Notified(s) =>
      \E a \in OrderFlow : Pending(a) /\ Notified(a)

\* Nothing is carried out twice, and nothing that was refused: the operation of an
\* approval is dispatched once if the row says approved and never otherwise, unless a
\* dispatch raised, a call died in between, or two resolutions that both read it
\* pending were put one over the other.
ApprovedWasDispatched ==
  (Quiet /\ ~ missed) =>
    \A a \in Approvals \ redecided :
      approval[a] # None => dispatched[a] = (IF approval[a].status = "approved" THEN 1 ELSE 0)
=============================================================================
