------------------------------ MODULE ChannelOps ------------------------------
(***************************************************************************)
(* Channel operations (packages/channel_ops/service.py): what happens to   *)
(* every ready draft of one ingestion on every sales channel.              *)
(* run_for_email_ingestion starts a thread per channel, which takes the    *)
(* drafts in order; an operation that needs the owner waits at             *)
(* APPROVAL_REQUIRED until ApprovalService.resolve resumes it; and an      *)
(* operator may reset the tenant (prospect_demo/reset.py) at any time.     *)
(*                                                                         *)
(* The operation is a Python object: its statuses are written to its row   *)
(* only by the put before the work and the put after it.  The reset is two *)
(* transactions, the DELETE of every row and the put of a fresh Merchant,  *)
(* whose sync.updated_at is the generation the threads compare.            *)
(*                                                                         *)
(* Left out: what a listing says, evidence, history, audit, the expiry of  *)
(* an approval and the notification of the next (OwnerDecisions).          *)
(***************************************************************************)
EXTENDS Integers, Sequences, FiniteSets

CONSTANTS
  Channels,           \* the tenant's known channels, of CanonicalChannels
  NDrafts,            \* the ready drafts are 1..NDrafts, in order of SKU
  Calls,              \* calls of ApprovalService.resolve
  OriginKnown,        \* the tenant has a GSTIN or trades in INR
  CorrectionAllowed,  \* policy: a price is corrected without the owner
  DefaultPack,        \* a default case-pack quantity is configured
  MaxFaults,          \* bound: store errors, and a restart of the process
  None

CanonicalChannels == {"own_website", "amazon_in", "flipkart", "jiomart", "blinkit"}

TerminalStates == {"VERIFIED", "RESOLVED", "APPROVAL_REQUIRED", "FAILED",
                   "AWAITING_CHANNEL_RESPONSE"}
Statuses == TerminalStates \cup {"QUEUED"}

ASSUME ChannelOpsAssumption ==
  /\ Channels \subseteq CanonicalChannels
  /\ NDrafts \in Nat \ {0}
  /\ Calls \cap CanonicalChannels = {}
  /\ {OriginKnown, CorrectionAllowed, DefaultPack} \subseteq BOOLEAN
  /\ MaxFaults \in Nat
  /\ None \notin (Channels \X (1..NDrafts)) \cup Statuses

Drafts == 1..NDrafts
Ops == Channels \X Drafts
Workers == Channels \cup Calls     \* a channel names its thread
Requests == {"submit", "resubmit", "resume-submit"}

VARIABLES
  row,        \* [Ops -> status of the stored operation, or None]
  approval,   \* [Ops -> status of its Approval, or None]
  key,        \* idempotency records connector-mutation:<op>:<request>
  executed,   \* how often the channel carried the request out
  tenant,     \* the reset: "seeded", "cleared" or "reset"
  worker,     \* [Workers -> [pc, op, todo, status]]
  granted,    \* history: operations an owner's approval was given for
  faults

vars == <<row, approval, key, executed, tenant, worker, granted, faults>>
rows == <<row, approval>>
provider == <<key, executed>>

ThreadPcs == {"check", "queue", "work", "execute", "complete", "wait", "recheck",
              "save", "ended", "failed", "dead"}
CallPcs == {"idle", "decide", "resume", "load", "work", "execute", "complete", "wait",
            "save", "ended", "dead"}

TypeOK ==
  /\ row \in [Ops -> Statuses \cup {None}]
  /\ approval \in [Ops -> {"pending", "approved", "denied", None}]
  /\ key \in [Ops \X Requests -> {"free", "reserved", "completed"}]
  /\ executed \in [Ops \X Requests -> Nat]
  /\ tenant \in {"seeded", "cleared", "reset"}
  /\ \A w \in Workers :
       /\ worker[w].pc \in IF w \in Channels THEN ThreadPcs ELSE CallPcs
       /\ worker[w].op \in Ops \cup {None}
       /\ worker[w].status \in Statuses \cup {None}
       /\ worker[w].pc \in {"queue", "work", "execute", "complete", "wait", "save"}
            => worker[w].op # None
  /\ granted \subseteq Ops
  /\ faults \in 0..MaxFaults

-----------------------------------------------------------------------------
(* Which draft carries which scenario, and what each channel does with it. *)

\* Flipkart is deliberately clean: it has no anchor.
AnchorOf(c) ==
  LET rotation == [own_website |-> 0, amazon_in |-> 0, jiomart |-> 1, blinkit |-> 2]
  IN IF c \in DOMAIN rotation THEN (rotation[c] % NDrafts) + 1 ELSE 0

\* Amazon's last draft that is not its anchor stays unanswered.
StallOf(c) ==
  IF c # "amazon_in" \/ NDrafts < 2 THEN 0
  ELSE CHOOSE d \in Drafts \ {AnchorOf(c)} : \A e \in Drafts \ {AnchorOf(c)} : e <= d

\* Flipkart's first draft that is no channel's anchor is left alone on purpose.
NoActionOf(c) ==
  LET unused == Drafts \ {AnchorOf(x) : x \in CanonicalChannels}
  IN IF c # "flipkart" \/ NDrafts < 4 \/ unused = {} THEN 0
     ELSE CHOOSE d \in unused : \A e \in unused : d <= e

(* The requests an operation sends, then "ask" or the status it ends with. *)
RunOwnWebsite(d) ==
  IF d = AnchorOf("own_website") THEN <<"ask">> ELSE <<"submit", "VERIFIED">>

RunAmazon(d) ==
  CASE d = StallOf("amazon_in") -> <<"submit", "AWAITING_CHANNEL_RESPONSE">>
    [] d # AnchorOf("amazon_in") -> <<"submit", "VERIFIED">>
    [] OriginKnown -> <<"submit", "resubmit", "RESOLVED">>
    [] OTHER -> <<"submit", "ask">>

\* The difference of the draft that is left alone is 10 %, inside the band of promotions.
RunFlipkart(d) == <<"submit", "VERIFIED">>

RunJiomart(d) ==
  CASE d # AnchorOf("jiomart") -> <<"VERIFIED">>
    [] CorrectionAllowed -> <<"RESOLVED">>
    [] OTHER -> <<"ask">>

RunBlinkit(d) ==
  CASE d # AnchorOf("blinkit") -> <<"VERIFIED">>
    [] DefaultPack -> <<"RESOLVED">>
    [] OTHER -> <<"ask">>

Plan(op) ==
  CASE op[1] = "own_website" -> RunOwnWebsite(op[2])
    [] op[1] = "amazon_in" -> RunAmazon(op[2])
    [] op[1] = "flipkart" -> RunFlipkart(op[2])
    [] op[1] = "jiomart" -> RunJiomart(op[2])
    [] OTHER -> RunBlinkit(op[2])

\* What resume does once the owner has approved; Amazon's is not automated.
ResumePlan(op) ==
  CASE op[1] = "own_website" -> <<"resume-submit", "RESOLVED">>
    [] op[1] = "amazon_in" -> <<"FAILED">>
    [] OTHER -> <<"RESOLVED">>

-----------------------------------------------------------------------------
Init ==
  /\ row = [op \in Ops |-> None] /\ approval = [op \in Ops |-> None]
  /\ key = [k \in Ops \X Requests |-> "free"]
  /\ executed = [k \in Ops \X Requests |-> 0]
  /\ tenant = "seeded"
  /\ worker = [w \in Workers |->
       IF w \in Channels THEN [pc |-> "check", op |-> <<w, 1>>, todo |-> <<>>, status |-> None]
       ELSE [pc |-> "idle", op |-> None, todo |-> <<>>, status |-> None]]
  /\ granted = {} /\ faults = 0

At(w, pc) == worker[w].pc = pc
Goto(w, pc) == worker' = [worker EXCEPT ![w].pc = pc]
Return(w) == worker' = [worker EXCEPT ![w].pc = "ended", ![w].op = None,
                                      ![w].todo = <<>>, ![w].status = None]
Saving(w) == IF w \in Channels THEN "recheck" ELSE "save"
Ends(w, status) ==
  worker' = [worker EXCEPT ![w].pc = Saving(w), ![w].status = status, ![w].todo = <<>>]
Current == tenant # "reset"       \* sync.updated_at is still the run's generation
PutRow(op, status) == row' = [row EXCEPT ![op] = status]

-----------------------------------------------------------------------------
(* run_for_email_ingestion: the thread of channel c.                       *)

CheckGeneration(c) ==
  /\ At(c, "check")
  /\ IF Current THEN Goto(c, "queue") ELSE Return(c)
  /\ UNCHANGED <<rows, provider, tenant, granted, faults>>

PutQueued(c) ==
  /\ At(c, "queue")
  /\ PutRow(worker[c].op, "QUEUED")
  /\ worker' = [worker EXCEPT ![c].pc = "work", ![c].todo = Plan(worker[c].op)]
  /\ UNCHANGED <<approval, provider, tenant, granted, faults>>

Recheck(c) ==
  /\ At(c, "recheck")
  /\ IF Current THEN Goto(c, "save") ELSE Return(c)
  /\ UNCHANGED <<rows, provider, tenant, granted, faults>>

NextDraft(c) ==
  LET d == worker[c].op[2]
  IN IF d < NDrafts
     THEN worker' = [worker EXCEPT ![c].pc = "check", ![c].op = <<c, d + 1>>, ![c].status = None]
     ELSE Return(c)

SaveOperation(c) ==
  /\ At(c, "save")
  /\ PutRow(worker[c].op, worker[c].status)
  /\ NextDraft(c)
  /\ UNCHANGED <<approval, provider, tenant, granted, faults>>

-----------------------------------------------------------------------------
(* What a thread and a resumed operation have in common.                   *)

Todo(w) == Head(worker[w].todo)
KeyOf(w) == <<worker[w].op, Todo(w)>>
Working(w) == At(w, "work")

\* _create_approval puts the approval; the operation that waits for it is put later.
Ask(w) ==
  /\ Working(w) /\ Todo(w) = "ask"
  /\ approval' = [approval EXCEPT ![worker[w].op] = "pending"]
  /\ Ends(w, "APPROVAL_REQUIRED")
  /\ UNCHANGED <<row, provider, tenant, granted, faults>>

\* The read-back echoes what was submitted, so it never differs.
Finish(w) ==
  /\ Working(w) /\ Todo(w) \in Statuses
  /\ Ends(w, Todo(w))
  /\ UNCHANGED <<rows, provider, tenant, granted, faults>>

\* A fault of Reserve: the key is not looked up.
ReserveAgain(w) ==
  /\ Working(w) /\ Todo(w) \in Requests
  /\ key' = [key EXCEPT ![KeyOf(w)] = "reserved"] /\ Goto(w, "execute")
  /\ UNCHANGED <<rows, executed, tenant, granted, faults>>

\* execute_mutation: the operation runs under the idempotency key of its request.
Reserve(w) ==
  /\ Working(w) /\ Todo(w) \in Requests
  /\ IF key[KeyOf(w)] = "free"
     THEN key' = [key EXCEPT ![KeyOf(w)] = "reserved"] /\ Goto(w, "execute")
     ELSE Goto(w, "wait") /\ UNCHANGED key
  /\ UNCHANGED <<rows, executed, tenant, granted, faults>>

Execute(w) ==
  /\ At(w, "execute")
  /\ executed' = [executed EXCEPT ![KeyOf(w)] = @ + 1]
  /\ Goto(w, "complete")
  /\ UNCHANGED <<rows, key, tenant, granted, faults>>

Proceed(w) == worker' = [worker EXCEPT ![w].pc = "work", ![w].todo = Tail(@)]

\* An UPDATE: it finds no record if the reset has deleted it.
Complete(w) ==
  /\ At(w, "complete")
  /\ key' = [key EXCEPT ![KeyOf(w)] = IF @ = "free" THEN "free" ELSE "completed"]
  /\ Proceed(w)
  /\ UNCHANGED <<rows, executed, tenant, granted, faults>>

\* A fault of WaitForResult: the poll has no end.
WaitForever(w) ==
  /\ At(w, "wait") /\ key[KeyOf(w)] = "completed" /\ Proceed(w)
  /\ UNCHANGED <<rows, provider, tenant, granted, faults>>

\* run_once polls for the other's result, and returns None when its time is over;
\* the caller then fails on the missing result, and the operation with it.
WaitForResult(w) ==
  /\ At(w, "wait")
  /\ \/ key[KeyOf(w)] = "completed" /\ Proceed(w)
     \/ key[KeyOf(w)] # "completed" /\ Ends(w, "FAILED")
  /\ UNCHANGED <<rows, provider, tenant, granted, faults>>

\* How the work of an operation raises: under run_once the key of its request is
\* released, and the audit after a put may raise with the approval stored.
Broken(w) ==
  /\ worker[w].pc \in {"load", "work", "execute", "complete"}
  /\ faults < MaxFaults /\ faults' = faults + 1
  /\ key' = IF worker[w].pc \in {"execute", "complete"}
            THEN [key EXCEPT ![KeyOf(w)] = "free"] ELSE key
  /\ \/ UNCHANGED approval
     \/ Working(w) /\ Todo(w) = "ask"
        /\ approval' = [approval EXCEPT ![worker[w].op] = "pending"]

\* An exception that nothing catches ends a thread where it stands, and a call.
Uncaught(w) == IF w \in Channels THEN Goto(w, "failed") ELSE Return(w)

\* A fault of Raise: the work has no try around it.
RaiseUncaught(w) ==
  /\ Broken(w) /\ Uncaught(w)
  /\ UNCHANGED <<row, executed, tenant, granted>>

\* An exception of the work ends the operation FAILED, in a thread and in resume.
Raise(w) ==
  /\ Broken(w) /\ Ends(w, "FAILED")
  /\ UNCHANGED <<row, executed, tenant, granted>>

\* The store fails where nothing catches it: at the thread's own reads and puts, in
\* the audit of FAILED inside the handler, in resolve, and at the last put of resume.
StoreFails(w) ==
  /\ worker[w].pc \in {"check", "queue", "recheck", "save", "decide", "resume"}
  /\ faults < MaxFaults /\ faults' = faults + 1
  /\ Uncaught(w)
  /\ UNCHANGED <<rows, provider, tenant, granted>>

Work(w) == Ask(w) \/ Finish(w) \/ Reserve(w) \/ Execute(w) \/ Complete(w) \/ WaitForResult(w)

-----------------------------------------------------------------------------
(* ApprovalService.resolve and ChannelOperationService.resume.             *)

ReadApproval(k) ==
  /\ At(k, "idle")
  /\ \E op \in Ops : approval[op] = "pending"
                     /\ worker' = [worker EXCEPT ![k].pc = "decide", ![k].op = op]
  /\ UNCHANGED <<rows, provider, tenant, granted, faults>>

PutApproval(op, decision) == approval' = [approval EXCEPT ![op] = decision]

\* A fault of Decide: a denial resumes, too.
DecideAndResume(k) ==
  /\ At(k, "decide") /\ Goto(k, "resume")
  /\ \/ PutApproval(worker[k].op, "approved") /\ granted' = granted \cup {worker[k].op}
     \/ PutApproval(worker[k].op, "denied") /\ UNCHANGED granted
  /\ UNCHANGED <<row, provider, tenant, faults>>

Decide(k) ==
  /\ At(k, "decide")
  /\ \/ PutApproval(worker[k].op, "approved") /\ Goto(k, "resume")
        /\ granted' = granted \cup {worker[k].op}
     \/ PutApproval(worker[k].op, "denied") /\ Return(k) /\ UNCHANGED granted
  /\ UNCHANGED <<row, provider, tenant, faults>>

\* A fault of ResumesAt: the status is not looked at.
ResumesAlways(op) == row[op] # None

\* An operation that is gone raises; one that does not wait is returned as it is.
ResumesAt(op) == row[op] = "APPROVAL_REQUIRED"

Resume(k) ==
  /\ At(k, "resume")
  /\ IF ResumesAt(worker[k].op) THEN Goto(k, "load") ELSE Return(k)
  /\ UNCHANGED <<rows, provider, tenant, granted, faults>>

\* A reset may have deleted the draft meanwhile.
LoadDraft(k) ==
  /\ At(k, "load")
  /\ IF tenant = "seeded"
     THEN worker' = [worker EXCEPT ![k].pc = "work", ![k].todo = ResumePlan(worker[k].op)]
     ELSE Ends(k, "FAILED")
  /\ UNCHANGED <<rows, provider, tenant, granted, faults>>

SaveResumed(k) ==
  /\ At(k, "save")
  /\ PutRow(worker[k].op, worker[k].status)
  /\ Return(k)
  /\ UNCHANGED <<approval, provider, tenant, granted, faults>>

-----------------------------------------------------------------------------
(* reset_prospect_tenant, and the death of the API process.                *)

DeleteRows ==
  /\ tenant = "seeded" /\ tenant' = "cleared"
  /\ row' = [op \in Ops |-> None] /\ approval' = [op \in Ops |-> None]
  /\ key' = [k \in Ops \X Requests |-> "free"]
  /\ UNCHANGED <<executed, worker, granted, faults>>

PutMerchant ==
  /\ tenant = "cleared" /\ tenant' = "reset"
  /\ UNCHANGED <<rows, provider, worker, granted, faults>>

Restart ==
  /\ faults < MaxFaults /\ faults' = faults + 1
  /\ worker' = [w \in Workers |->
       IF worker[w].pc \in {"idle", "ended", "failed"} THEN worker[w]
       ELSE [pc |-> "dead", op |-> None, todo |-> <<>>, status |-> None]]
  /\ UNCHANGED <<rows, provider, tenant, granted>>

-----------------------------------------------------------------------------
Thread(c) == CheckGeneration(c) \/ PutQueued(c) \/ Recheck(c) \/ SaveOperation(c) \/ Work(c)
Resolving(k) == Decide(k) \/ Resume(k) \/ LoadDraft(k) \/ SaveResumed(k) \/ Work(k)

Next ==
  \/ \E c \in Channels : Thread(c)
  \/ \E k \in Calls : ReadApproval(k) \/ Resolving(k)
  \/ \E w \in Workers : Raise(w) \/ StoreFails(w)
  \/ DeleteRows \/ PutMerchant \/ Restart

Spec ==
  /\ Init /\ [][Next]_vars
  /\ \A c \in Channels : WF_vars(Thread(c))
  /\ \A k \in Calls : WF_vars(Resolving(k))

-----------------------------------------------------------------------------
(* Safety.                                                                 *)

\* A listing request is carried out once, however the owner's answers, the threads
\* and the retries of run_once meet: a second time only after the store failed
\* between the request and its record, or after a reset deleted the record.
PublishedOnce ==
  \A k \in Ops \X Requests :
    executed[k] <= 1 + faults + (IF tenant = "seeded" THEN 0 ELSE 1)

\* What is held for the owner is carried out only if an answer has granted it,
\* also when two answers of one approval race.  No row holds anything but a status.
Held(op) == Plan(op)[Len(Plan(op))] = "ask"
HeldForOwner ==
  /\ TypeOK
  /\ \A op \in Ops : Held(op) /\ op \notin granted =>
       /\ row[op] \notin {"VERIFIED", "RESOLVED"}
       /\ executed[<<op, "resume-submit">>] = 0

\* A settled operation never waits again: resume and the thread that asked write
\* the same row, and the thread's put of APPROVAL_REQUIRED is never the last one
\* of an operation that was resumed.
NeverReopened ==
  [][\A op \in Ops : row[op] \in {"VERIFIED", "RESOLVED", "FAILED"}
       => row'[op] \notin {"QUEUED", "APPROVAL_REQUIRED"}]_row

-----------------------------------------------------------------------------
(* Liveness.                                                               *)

\* Every thread ends, and every answer is carried to its end: nobody waits for a
\* record whose owner has failed or died.  Unless the tenant was reset, a thread that
\* came to its end leaves each operation of its channel in a terminal state, those
\* that failed at work among them.  One that a store failure ended outside the work
\* leaves the operations before it terminal, those after it without a row, and the
\* one it was at without a row or, when its work was over, at QUEUED.
LeftBehind(c, d) ==
  LET at == worker[c].op[2]
  IN CASE d < at -> row[<<c, d>>] \in TerminalStates
       [] d > at -> row[<<c, d>>] = None
       [] OTHER -> row[<<c, d>>] = IF worker[c].status = None THEN None ELSE "QUEUED"

RunsEnd ==
  <>[](/\ \A c \in Channels :
            /\ worker[c].pc \in {"ended", "failed", "dead"}
            /\ tenant = "seeded" => \A d \in Drafts :
                 /\ At(c, "ended") => row[<<c, d>>] \in TerminalStates
                 /\ At(c, "failed") => LeftBehind(c, d)
       /\ \A k \in Calls : worker[k].pc \in {"idle", "ended", "dead"})
=============================================================================
