--------------------------- MODULE ChannelOpsProofs ---------------------------
(***************************************************************************)
(* For every set of channels, every number of drafts and of answers, and   *)
(* any number of failures: a request is carried out once per failure or    *)
(* reset more, what is held for the owner waits for an answer, and what is *)
(* settled is never reopened.                                              *)
(*                                                                         *)
(* The invariant counts a request with the workers that are about to carry *)
(* it out (CountGood): a record that is not free accounts for one of them, *)
(* and each failure or the reset for one more.  A thread that has an       *)
(* operation before it finds its row unanswered, because a call resumes    *)
(* only what the thread itself has put (OrderGood).                        *)
(***************************************************************************)
EXTENDS ChannelOps, FiniteSetTheorems, SequenceTheorems, TLAPS

Words == Requests \cup Statuses \cup {"ask"}
WorkerRows ==
  [pc : ThreadPcs \cup CallPcs, op : Ops \cup {None}, todo : Seq(Words),
   status : Statuses \cup {None}]

\* Requests, and at the end a status or the question to the owner.
Planned(todo) ==
  /\ todo \in Seq(Words) /\ todo # <<>>
  /\ \A i \in 1..Len(todo) : todo[i] \in Requests <=> i < Len(todo)
  /\ \A i \in 1..Len(todo) : todo[i] # "QUEUED"

Answering(todo) == \A i \in 1..Len(todo) : todo[i] \notin {"ask", "APPROVAL_REQUIRED"}
Withheld(todo) == \A i \in 1..Len(todo) : todo[i] \notin {"VERIFIED", "RESOLVED", "resume-submit"}

Under == {"work", "execute", "complete", "wait"}
Gone == {"ended", "failed", "dead"}
Early == {"idle", "decide", "resume"} \cup Gone

WorkerGood(w) ==
  /\ worker[w].pc \in (IF w \in Channels THEN ThreadPcs ELSE CallPcs)
  /\ w \in Channels /\ worker[w].pc \notin Gone => \E d \in Drafts : worker[w].op = <<w, d>>
  /\ w \in Calls /\ worker[w].pc \notin Gone \cup {"idle"} => worker[w].op \in Ops
  /\ w \in Calls /\ worker[w].pc \notin Gone \cup {"idle", "decide"} => worker[w].op \in granted
  /\ worker[w].pc \in Under =>
       /\ Planned(worker[w].todo)
       /\ w \in Calls => Answering(worker[w].todo)
       /\ Held(worker[w].op) /\ worker[w].op \notin granted => Withheld(worker[w].todo)
  /\ worker[w].pc \in {"execute", "complete", "wait"} => Head(worker[w].todo) \in Requests
  /\ worker[w].pc \in {"recheck", "save"} =>
       /\ worker[w].status \in TerminalStates
       /\ w \in Calls => worker[w].status # "APPROVAL_REQUIRED"
       /\ Held(worker[w].op) /\ worker[w].op \notin granted =>
            worker[w].status \notin {"VERIFIED", "RESOLVED"}

RowsTyped ==
  /\ row \in [Ops -> Statuses \cup {None}]
  /\ approval \in [Ops -> {"pending", "approved", "denied", None}]
  /\ key \in [Ops \X Requests -> {"free", "reserved", "completed"}]
  /\ executed \in [Ops \X Requests -> Nat]
  /\ tenant \in {"seeded", "cleared", "reset"}
  /\ granted \subseteq Ops
  /\ faults \in 0..MaxFaults

HeldGood ==
  \A op \in Ops : Held(op) /\ op \notin granted =>
    /\ row[op] \notin {"VERIFIED", "RESOLVED"}
    /\ executed[<<op, "resume-submit">>] = 0

\* The thread of channel c still has draft d before it.
Ahead(c, d) == worker[c].pc \notin Gone /\ worker[c].op[2] <= d

OrderGood ==
  \A c \in Channels, d \in Drafts : Ahead(c, d) =>
    /\ row[<<c, d>>] \in {None, "QUEUED"}
    /\ \A k \in Calls : worker[k].op = <<c, d>> => worker[k].pc \in Early

Executing(k) == {w \in Workers : worker[w].pc = "execute" /\ KeyOf(w) = k}
CountGood(k) ==
  /\ IsFiniteSet(Executing(k))
  /\ Cardinality(Executing(k)) + executed[k]
       <= (IF key[k] = "free" THEN 0 ELSE 1) + faults + (IF tenant = "seeded" THEN 0 ELSE 1)

IInv ==
  /\ worker \in [Workers -> WorkerRows]
  /\ RowsTyped /\ HeldGood /\ OrderGood
  /\ \A w \in Workers : WorkerGood(w)
  /\ \A k \in Ops \X Requests : CountGood(k)

-----------------------------------------------------------------------------
(* Plans.                                                                  *)

LEMMA ConstantsTyped ==
  /\ Channels \subseteq CanonicalChannels /\ NDrafts \in Nat \ {0}
  /\ Channels \cap Calls = {} /\ None \notin Ops /\ MaxFaults \in Nat
BY ChannelOpsAssumption DEF ChannelOpsAssumption, Ops, Drafts

LEMMA NoStatus ==
  None \notin Statuses
BY ChannelOpsAssumption DEF ChannelOpsAssumption

LEMMA WordsTyped ==
  /\ TerminalStates \subseteq Words /\ Requests \cap (Statuses \cup {"ask"}) = {}
  /\ "QUEUED" \notin TerminalStates /\ Statuses = TerminalStates \cup {"QUEUED"}
BY DEF Words, Statuses, TerminalStates, Requests

\* What a thread may have to do with a draft.
ThreadPlans ==
  {<<"ask">>, <<"VERIFIED">>, <<"RESOLVED">>, <<"submit", "ask">>, <<"submit", "VERIFIED">>,
   <<"submit", "AWAITING_CHANNEL_RESPONSE">>, <<"submit", "resubmit", "RESOLVED">>}

LEMMA PlanIsThreadPlan ==
  ASSUME NEW op
  PROVE  Plan(op) \in ThreadPlans
<1>1. RunOwnWebsite(op[2]) \in ThreadPlans
  BY DEF RunOwnWebsite, ThreadPlans
<1>2. RunAmazon(op[2]) \in ThreadPlans
  BY DEF RunAmazon, ThreadPlans
<1>3. RunFlipkart(op[2]) \in ThreadPlans
  BY DEF RunFlipkart, ThreadPlans
<1>4. RunJiomart(op[2]) \in ThreadPlans
  BY DEF RunJiomart, ThreadPlans
<1>5. RunBlinkit(op[2]) \in ThreadPlans
  BY DEF RunBlinkit, ThreadPlans
<1>6. QED
  BY <1>1, <1>2, <1>3, <1>4, <1>5 DEF Plan

LEMMA ShortPlans ==
  ASSUME NEW r \in Requests, NEW x \in TerminalStates \cup {"ask"}
  PROVE  Planned(<<x>>) /\ Planned(<<r, x>>)
<1>1. /\ x \in Words /\ x \notin Requests /\ x # "QUEUED"
      /\ r \in Words /\ r # "QUEUED"
  BY WordsTyped DEF Words, Requests
<1>2. <<x>> \in Seq(Words) /\ <<r, x>> \in Seq(Words)
  BY <1>1
<1>3. QED
  BY <1>1, <1>2 DEF Planned

LEMMA ThreadPlansPlanned ==
  ASSUME NEW p \in ThreadPlans
  PROVE  Planned(p)
<1>1. CASE p = <<"submit", "resubmit", "RESOLVED">>
  BY <1>1 DEF Planned, Words, Requests, Statuses, TerminalStates
<1>2. CASE p # <<"submit", "resubmit", "RESOLVED">>
  <2>1. PICK x \in TerminalStates \cup {"ask"} : p = <<x>> \/ p = <<"submit", x>>
    BY <1>2 DEF ThreadPlans, TerminalStates
  <2>2. "submit" \in Requests
    BY DEF Requests
  <2>3. QED
    BY <2>1, <2>2, ShortPlans
<1>3. QED
  BY <1>1, <1>2

LEMMA PlanGood ==
  ASSUME NEW op
  PROVE  Planned(Plan(op)) /\ (Held(op) => Withheld(Plan(op)))
<1>1. Plan(op) \in ThreadPlans
  BY PlanIsThreadPlan
<1>2. Planned(Plan(op))
  BY <1>1, ThreadPlansPlanned
<1>3. ASSUME Held(op)
      PROVE  Withheld(Plan(op))
  <2>1. Plan(op)[Len(Plan(op))] = "ask"
    BY <1>3 DEF Held
  <2>2. Plan(op) \in {<<"ask">>, <<"submit", "ask">>}
    BY <1>1, <2>1 DEF ThreadPlans
  <2>3. QED
    BY <2>2 DEF Withheld
<1>4. QED
  BY <1>2, <1>3

LEMMA ResumePlanGood ==
  ASSUME NEW op
  PROVE  Planned(ResumePlan(op)) /\ Answering(ResumePlan(op))
<1>1. ResumePlan(op) \in {<<"resume-submit", "RESOLVED">>, <<"FAILED">>, <<"RESOLVED">>}
  BY DEF ResumePlan
<1>2. Planned(ResumePlan(op))
  <2>1. PICK x \in TerminalStates \cup {"ask"} :
          ResumePlan(op) = <<x>> \/ ResumePlan(op) = <<"resume-submit", x>>
    BY <1>1 DEF TerminalStates
  <2>2. "resume-submit" \in Requests
    BY DEF Requests
  <2>3. QED
    BY <2>1, <2>2, ShortPlans
<1>3. Answering(ResumePlan(op))
  BY <1>1 DEF Answering
<1>4. QED
  BY <1>2, <1>3

\* After a request something is left to do.
LEMMA TailPlanned ==
  ASSUME NEW todo, Planned(todo), Head(todo) \in Requests
  PROVE  /\ Planned(Tail(todo))
         /\ Answering(todo) => Answering(Tail(todo))
         /\ Withheld(todo) => Withheld(Tail(todo))
<1>1. todo \in Seq(Words) /\ todo # <<>> /\ Len(todo) \in Nat /\ Len(todo) >= 1
  BY EmptySeq, LenProperties DEF Planned
<1>2. Head(todo) = todo[1]
  OBVIOUS
<1>3. 1 < Len(todo)
  BY <1>1, <1>2 DEF Planned
<1>4. /\ Tail(todo) \in Seq(Words) /\ Len(Tail(todo)) = Len(todo) - 1
      /\ \A i \in 1..Len(Tail(todo)) : Tail(todo)[i] = todo[i + 1]
  BY <1>1, HeadTailProperties
<1>5. Tail(todo) # <<>>
  BY <1>1, <1>3, <1>4
<1>6. \A i \in 1..Len(Tail(todo)) : i + 1 \in 1..Len(todo) /\ (i + 1 < Len(todo) <=> i < Len(Tail(todo)))
  BY <1>1, <1>4
<1>7. Planned(Tail(todo))
  BY <1>4, <1>5, <1>6 DEF Planned
<1>8. /\ Answering(todo) => Answering(Tail(todo))
      /\ Withheld(todo) => Withheld(Tail(todo))
  BY <1>4, <1>6 DEF Answering, Withheld
<1>9. QED
  BY <1>7, <1>8

\* The head of a plan is one of its words.
LEMMA HeadWord ==
  ASSUME NEW todo, Planned(todo)
  PROVE  /\ Head(todo) \in Words \ {"QUEUED"}
         /\ Answering(todo) => Head(todo) \notin {"ask", "APPROVAL_REQUIRED"}
         /\ Withheld(todo) => Head(todo) \notin {"VERIFIED", "RESOLVED", "resume-submit"}
<1>1. todo \in Seq(Words) /\ todo # <<>> /\ Len(todo) \in Nat /\ Len(todo) >= 1
  BY EmptySeq, LenProperties DEF Planned
<1>2. Head(todo) = todo[1] /\ 1 \in 1..Len(todo)
  BY <1>1
<1>3. QED
  BY <1>1, <1>2, ElementOfSeq DEF Planned, Answering, Withheld

-----------------------------------------------------------------------------
(* What a step has to show.                                                *)

OthersKept(w) == \A v \in Workers \ {w} : worker'[v] = worker[v]

LEMMA WorkerTyped ==
  ASSUME worker \in [Workers -> WorkerRows], NEW w \in Workers, NEW r \in WorkerRows,
         worker' = [worker EXCEPT ![w] = r]
  PROVE  worker' \in [Workers -> WorkerRows] /\ OthersKept(w) /\ worker'[w] = r
BY DEF OthersKept

LEMMA GoodStays ==
  ASSUME NEW v \in Workers, WorkerGood(v), worker'[v] = worker[v], granted \subseteq granted'
  PROVE  WorkerGood(v)'
BY DEF WorkerGood

\* What a step that moves one worker has to show.
Moved(w) ==
  /\ worker' \in [Workers -> WorkerRows] /\ OthersKept(w)
  /\ WorkerGood(w)' /\ granted \subseteq granted'

Sound(w) == Moved(w) /\ RowsTyped' /\ HeldGood' /\ OrderGood' /\ \A k \in Ops \X Requests : CountGood(k)'

LEMMA SoundSuffices ==
  ASSUME IInv, NEW w \in Workers, Sound(w)
  PROVE  IInv'
<1>1. \A v \in Workers : WorkerGood(v)'
  BY GoodStays DEF IInv, Sound, Moved, OthersKept
<1>2. QED
  BY <1>1 DEF IInv, Sound, Moved

LEMMA Here ==
  ASSUME IInv, NEW w \in Workers
  PROVE  /\ worker \in [Workers -> WorkerRows] /\ worker[w] \in WorkerRows /\ WorkerGood(w)
         /\ RowsTyped
BY DEF IInv

\* A worker is a thread or a call.
LEMMA ThreadOrCall ==
  ASSUME NEW w \in Workers
  PROVE  (w \in Channels /\ w \notin Calls) \/ (w \in Calls /\ w \notin Channels)
BY ConstantsTyped DEF Workers

\* The operation a worker is at.
LEMMA OpHere ==
  ASSUME IInv, NEW w \in Workers, worker[w].pc \notin Gone \cup {"idle"}
  PROVE  worker[w].op \in Ops
<1>1. WorkerGood(w)
  BY Here
<1>2. QED
  BY <1>1, ThreadOrCall DEF WorkerGood, Ops

LEMMA HeldStays ==
  ASSUME HeldGood, UNCHANGED <<row, executed>>, granted \subseteq granted'
  PROVE  HeldGood'
BY DEF HeldGood

\* A thread that stays at its draft, or ends.
LEMMA ThreadKeepsOrder ==
  ASSUME OrderGood, NEW w \in Channels, OthersKept(w), row' = row,
         \/ worker'[w].pc \in Gone
         \/ worker[w].pc \notin Gone /\ worker'[w].op = worker[w].op
  PROVE  OrderGood'
<1>1. \A c \in Channels, d \in Drafts : Ahead(c, d)' => Ahead(c, d)
  BY DEF Ahead, OthersKept, Workers
<1>2. \A k \in Calls : worker'[k] = worker[k]
  BY ConstantsTyped DEF OthersKept, Workers
<1>3. QED
  BY <1>1, <1>2 DEF OrderGood

\* A call that stays at its operation, or has not come to resume it.
LEMMA CallKeepsOrder ==
  ASSUME OrderGood, NEW w \in Calls, OthersKept(w), row' = row,
         \/ worker'[w].pc \in Early
         \/ worker[w].pc \notin Early /\ worker'[w].op = worker[w].op
  PROVE  OrderGood'
<1>1. \A c \in Channels : worker'[c] = worker[c]
  BY ConstantsTyped DEF OthersKept, Workers
<1>2. \A k \in Calls : worker'[k].pc \in Early
        \/ (worker[k].pc \notin Early /\ worker'[k].op = worker[k].op)
        \/ worker'[k] = worker[k]
  BY DEF OthersKept, Workers
<1>3. \A c \in Channels, d \in Drafts : Ahead(c, d)' => Ahead(c, d)
  BY <1>1 DEF Ahead
<1>4. QED
  BY <1>2, <1>3 DEF OrderGood

\* A worker that goes on with its operation.
LEMMA WorkKeepsOrder ==
  ASSUME OrderGood, NEW w \in Workers, OthersKept(w), row' = row,
         worker[w].pc \notin Early, worker'[w].op = worker[w].op
  PROVE  OrderGood'
<1>1. CASE w \in Channels
  BY <1>1, ThreadKeepsOrder DEF Early
<1>2. CASE w \in Calls
  BY <1>2, CallKeepsOrder
<1>3. QED
  BY <1>1, <1>2 DEF Workers

\* A step away from the place where requests are carried out.
LEMMA CountStays ==
  ASSUME NEW k, CountGood(k), NEW w \in Workers, OthersKept(w),
         UNCHANGED <<provider, tenant, faults>>,
         worker[w].pc # "execute", worker'[w].pc # "execute"
  PROVE  CountGood(k)'
<1>1. key' = key /\ executed' = executed /\ tenant' = tenant /\ faults' = faults
  BY DEF provider
<1>2. Executing(k)' = Executing(k)
  BY DEF Executing, OthersKept, KeyOf, Todo
<1>3. QED
  BY <1>1, <1>2 DEF CountGood

\* A quiet step: only its worker notices, and no request is carried out.
LEMMA QuietSound ==
  ASSUME IInv, NEW w \in Workers, Moved(w), OrderGood',
         UNCHANGED <<row, provider, tenant, faults>>,
         (approval \in [Ops -> {"pending", "approved", "denied", None}])', granted' \subseteq Ops,
         worker[w].pc # "execute", worker'[w].pc # "execute"
  PROVE  Sound(w)
<1>1. row' = row /\ key' = key /\ executed' = executed /\ tenant' = tenant /\ faults' = faults
  BY DEF provider
<1>2. RowsTyped'
  BY <1>1 DEF IInv, RowsTyped
<1>3. HeldGood'
  BY <1>1, HeldStays DEF IInv, Moved
<1>4. \A k \in Ops \X Requests : CountGood(k)'
  BY CountStays DEF IInv, Moved
<1>5. QED
  BY <1>2, <1>3, <1>4 DEF Sound

-----------------------------------------------------------------------------
(* How a step leaves its worker.                                           *)

LEMMA GotoTyped ==
  ASSUME worker \in [Workers -> WorkerRows], NEW w \in Workers,
         NEW pc \in ThreadPcs \cup CallPcs, Goto(w, pc)
  PROVE  /\ worker' \in [Workers -> WorkerRows] /\ OthersKept(w)
         /\ worker'[w].pc = pc /\ worker'[w].op = worker[w].op
         /\ worker'[w].todo = worker[w].todo /\ worker'[w].status = worker[w].status
<1> DEFINE r == [worker[w] EXCEPT !.pc = pc]
<1>1. worker[w] \in WorkerRows
  OBVIOUS
<1>2. /\ r \in WorkerRows /\ r.pc = pc /\ r.op = worker[w].op
      /\ r.todo = worker[w].todo /\ r.status = worker[w].status
  BY <1>1 DEF WorkerRows
<1>3. worker' = [worker EXCEPT ![w] = r]
  BY DEF Goto
<1> HIDE DEF r
<1>4. QED
  BY <1>2, <1>3, WorkerTyped

LEMMA ReturnMoved ==
  ASSUME IInv, NEW w \in Workers, Return(w), granted \subseteq granted'
  PROVE  Moved(w) /\ worker'[w].pc = "ended"
<1> DEFINE r == [worker[w] EXCEPT !.pc = "ended", !.op = None, !.todo = <<>>, !.status = None]
<1>1. worker \in [Workers -> WorkerRows] /\ worker[w] \in WorkerRows
  BY Here
<1>2. r \in WorkerRows /\ r.pc = "ended"
  <2>1. <<>> \in Seq(Words)
    BY EmptySeq
  <2>2. QED
    BY <1>1, <2>1 DEF WorkerRows, ThreadPcs
<1>3. worker' = [worker EXCEPT ![w] = r]
  BY <1>1 DEF Return
<1> HIDE DEF r
<1>4. worker' \in [Workers -> WorkerRows] /\ OthersKept(w) /\ worker'[w] = r
  BY <1>1, <1>2, <1>3, WorkerTyped
<1>5. WorkerGood(w)'
  BY <1>2, <1>4 DEF WorkerGood, ThreadPcs, CallPcs, Gone, Under
<1>6. QED
  BY <1>2, <1>4, <1>5 DEF Moved

\* A worker that has finished with its operation, with a status it may save.
LEMMA EndsMoved ==
  ASSUME IInv, NEW w \in Workers, NEW status \in TerminalStates, Ends(w, status),
         worker[w].pc \in Under \cup {"load"}, granted' = granted,
         w \in Calls => status # "APPROVAL_REQUIRED",
         Held(worker[w].op) /\ worker[w].op \notin granted => status \notin {"VERIFIED", "RESOLVED"}
  PROVE  /\ Moved(w) /\ worker'[w].pc = Saving(w) /\ worker'[w].op = worker[w].op
<1> DEFINE r == [worker[w] EXCEPT !.pc = Saving(w), !.status = status, !.todo = <<>>]
<1>1. worker \in [Workers -> WorkerRows] /\ worker[w] \in WorkerRows /\ WorkerGood(w)
  BY Here
<1>2. Saving(w) \in {"recheck", "save"} /\ (w \in Calls => Saving(w) = "save")
  BY ThreadOrCall DEF Saving
<1>3. /\ r \in WorkerRows /\ r.pc = Saving(w) /\ r.op = worker[w].op /\ r.status = status
  <2>1. <<>> \in Seq(Words) /\ status \in Statuses
    BY EmptySeq, WordsTyped
  <2>2. QED
    BY <1>1, <1>2, <2>1 DEF WorkerRows, ThreadPcs
<1>4. worker' = [worker EXCEPT ![w] = r]
  BY <1>1 DEF Ends
<1> HIDE DEF r
<1>5. worker' \in [Workers -> WorkerRows] /\ OthersKept(w) /\ worker'[w] = r
  BY <1>1, <1>3, <1>4, WorkerTyped
<1>6. WorkerGood(w)'
  BY <1>1, <1>2, <1>3, <1>5, ThreadOrCall DEF WorkerGood, ThreadPcs, CallPcs, Gone, Under
<1>7. QED
  BY <1>3, <1>5, <1>6 DEF Moved

LEMMA SavingPlace ==
  ASSUME NEW w \in Workers
  PROVE  Saving(w) \notin {"execute"} \cup Gone
BY DEF Saving, Gone

-----------------------------------------------------------------------------
(* The thread of a channel.                                                *)

LEMMA CheckGenerationSound ==
  ASSUME IInv, NEW c \in Channels, CheckGeneration(c)
  PROVE  Sound(c)
<1>1. /\ worker[c].pc = "check" /\ UNCHANGED <<row, provider, tenant, faults>>
      /\ approval' = approval /\ granted' = granted /\ row' = row
  BY DEF CheckGeneration, At, rows
<1>2. c \in Workers /\ worker \in [Workers -> WorkerRows] /\ WorkerGood(c) /\ RowsTyped /\ OrderGood
  BY Here DEF Workers, IInv
<1>3. CASE Goto(c, "queue")
  <2>1. /\ worker' \in [Workers -> WorkerRows] /\ OthersKept(c)
        /\ worker'[c].pc = "queue" /\ worker'[c].op = worker[c].op
    BY <1>2, <1>3, GotoTyped DEF ThreadPcs
  <2>2. WorkerGood(c)'
    BY <1>1, <1>2, <2>1, ThreadOrCall DEF WorkerGood, ThreadPcs, Gone, Under
  <2>3. OrderGood'
    BY <1>1, <1>2, <2>1, ThreadKeepsOrder DEF Gone
  <2>4. QED
    BY <1>1, <1>2, <2>1, <2>2, <2>3, QuietSound DEF Moved, RowsTyped
<1>4. CASE Return(c)
  <2>1. Moved(c) /\ worker'[c].pc = "ended"
    BY <1>1, <1>2, <1>4, ReturnMoved
  <2>2. OrderGood'
    BY <1>1, <1>2, <2>1, ThreadKeepsOrder DEF Moved, Gone
  <2>3. QED
    BY <1>1, <1>2, <2>1, <2>2, QuietSound DEF RowsTyped
<1>5. QED
  BY <1>3, <1>4 DEF CheckGeneration

LEMMA RecheckSound ==
  ASSUME IInv, NEW c \in Channels, Recheck(c)
  PROVE  Sound(c)
<1>1. /\ worker[c].pc = "recheck" /\ UNCHANGED <<row, provider, tenant, faults>>
      /\ approval' = approval /\ granted' = granted /\ row' = row
  BY DEF Recheck, At, rows
<1>2. c \in Workers /\ worker \in [Workers -> WorkerRows] /\ WorkerGood(c) /\ RowsTyped /\ OrderGood
  BY Here DEF Workers, IInv
<1>3. CASE Goto(c, "save")
  <2>1. /\ worker' \in [Workers -> WorkerRows] /\ OthersKept(c)
        /\ worker'[c].pc = "save" /\ worker'[c].op = worker[c].op
        /\ worker'[c].status = worker[c].status
    BY <1>2, <1>3, GotoTyped DEF ThreadPcs
  <2>2. WorkerGood(c)'
    BY <1>1, <1>2, <2>1, ThreadOrCall DEF WorkerGood, ThreadPcs, Gone, Under
  <2>3. OrderGood'
    BY <1>1, <1>2, <2>1, ThreadKeepsOrder DEF Gone
  <2>4. QED
    BY <1>1, <1>2, <2>1, <2>2, <2>3, QuietSound DEF Moved, RowsTyped
<1>4. CASE Return(c)
  <2>1. Moved(c) /\ worker'[c].pc = "ended"
    BY <1>1, <1>2, <1>4, ReturnMoved
  <2>2. OrderGood'
    BY <1>1, <1>2, <2>1, ThreadKeepsOrder DEF Moved, Gone
  <2>3. QED
    BY <1>1, <1>2, <2>1, <2>2, QuietSound DEF RowsTyped
<1>5. QED
  BY <1>3, <1>4 DEF Recheck

LEMMA PutQueuedSound ==
  ASSUME IInv, NEW c \in Channels, PutQueued(c)
  PROVE  Sound(c)
<1> DEFINE r == [worker[c] EXCEPT !.pc = "work", !.todo = Plan(worker[c].op)]
<1>1. /\ worker[c].pc = "queue" /\ row' = [row EXCEPT ![worker[c].op] = "QUEUED"]
      /\ worker' = [worker EXCEPT ![c].pc = "work", ![c].todo = Plan(worker[c].op)]
      /\ approval' = approval /\ key' = key /\ executed' = executed /\ tenant' = tenant
      /\ granted' = granted /\ faults' = faults
  BY DEF PutQueued, PutRow, At, provider
<1>2. /\ c \in Workers /\ worker \in [Workers -> WorkerRows] /\ worker[c] \in WorkerRows
      /\ WorkerGood(c) /\ RowsTyped /\ OrderGood /\ HeldGood
  BY Here DEF Workers, IInv
<1>3. Planned(Plan(worker[c].op)) /\ (Held(worker[c].op) => Withheld(Plan(worker[c].op)))
  BY PlanGood
<1>4. r \in WorkerRows /\ r.pc = "work" /\ r.op = worker[c].op /\ r.todo = Plan(worker[c].op)
  <2>1. Plan(worker[c].op) \in Seq(Words)
    BY <1>3 DEF Planned
  <2>2. QED
    BY <1>2, <2>1 DEF WorkerRows, ThreadPcs
<1>5. worker' = [worker EXCEPT ![c] = r]
  BY <1>1, <1>2
<1> HIDE DEF r
<1>6. worker' \in [Workers -> WorkerRows] /\ OthersKept(c) /\ worker'[c] = r
  BY <1>2, <1>4, <1>5, WorkerTyped
<1>7. PICK d \in Drafts : worker[c].op = <<c, d>>
  BY <1>1, <1>2 DEF WorkerGood, Gone
<1>8. WorkerGood(c)'
  BY <1>1, <1>2, <1>3, <1>4, <1>6, <1>7, ThreadOrCall DEF WorkerGood, ThreadPcs, Gone, Under
<1>9. RowsTyped'
  BY <1>1, <1>2 DEF RowsTyped, Statuses
<1>10. HeldGood'
  BY <1>1, <1>2 DEF HeldGood, RowsTyped
<1>11. OrderGood'
  <2>1. \A b \in Channels, e \in Drafts : Ahead(b, e)' => Ahead(b, e)
    BY <1>1, <1>4, <1>6 DEF Ahead, Gone, OthersKept, Workers
  <2>2. \A k \in Calls : worker'[k] = worker[k]
    BY <1>6, ConstantsTyped DEF OthersKept, Workers
  <2>3. \A b \in Channels, e \in Drafts :
          row'[<<b, e>>] = row[<<b, e>>] \/ row'[<<b, e>>] = "QUEUED"
    BY <1>1, <1>2 DEF RowsTyped, Ops
  <2>4. QED
    BY <1>2, <2>1, <2>2, <2>3 DEF OrderGood
<1>12. \A k \in Ops \X Requests : CountGood(k)'
  BY <1>1, <1>2, <1>4, <1>6, CountStays DEF IInv, provider
<1>13. QED
  BY <1>1, <1>6, <1>8, <1>9, <1>10, <1>11, <1>12 DEF Sound, Moved

\* The next draft's row is not yet put: nobody but the thread comes to it first.
LEMMA SaveOperationSound ==
  ASSUME IInv, NEW c \in Channels, SaveOperation(c)
  PROVE  Sound(c)
<1>1. /\ worker[c].pc = "save" /\ row' = [row EXCEPT ![worker[c].op] = worker[c].status]
      /\ NextDraft(c)
      /\ approval' = approval /\ key' = key /\ executed' = executed /\ tenant' = tenant
      /\ granted' = granted /\ faults' = faults
  BY DEF SaveOperation, PutRow, At, provider
<1>2. /\ c \in Workers /\ worker \in [Workers -> WorkerRows] /\ worker[c] \in WorkerRows
      /\ WorkerGood(c) /\ RowsTyped /\ OrderGood /\ HeldGood
  BY Here DEF Workers, IInv
<1>3. PICK d \in Drafts : worker[c].op = <<c, d>>
  BY <1>1, <1>2 DEF WorkerGood, Gone
<1>4. /\ worker[c].status \in TerminalStates /\ worker[c].status # "QUEUED"
      /\ Held(worker[c].op) /\ worker[c].op \notin granted =>
           worker[c].status \notin {"VERIFIED", "RESOLVED"}
  BY <1>1, <1>2, WordsTyped DEF WorkerGood
<1>5. /\ Moved(c) /\ worker'[c].pc # "execute"
      /\ worker'[c].pc \in Gone \/ (d + 1 \in Drafts /\ worker'[c].op = <<c, d + 1>>)
  <2>1. CASE d < NDrafts
    <3> DEFINE r == [worker[c] EXCEPT !.pc = "check", !.op = <<c, d + 1>>, !.status = None]
    <3>1. d + 1 \in Drafts /\ <<c, d + 1>> \in Ops
      BY <2>1, ConstantsTyped DEF Drafts, Ops
    <3>2. r \in WorkerRows /\ r.pc = "check" /\ r.op = <<c, d + 1>>
      BY <1>2, <3>1 DEF WorkerRows, ThreadPcs
    <3>3. worker' = [worker EXCEPT ![c] = r]
      <4>1. worker[c].op[2] = d
        BY <1>3
      <4>2. worker' = [worker EXCEPT ![c].pc = "check", ![c].op = <<c, d + 1>>,
                                     ![c].status = None]
        BY <1>1, <2>1, <4>1 DEF NextDraft
      <4>3. QED
        BY <1>2, <4>2
    <3> HIDE DEF r
    <3>4. worker' \in [Workers -> WorkerRows] /\ OthersKept(c) /\ worker'[c] = r
      BY <1>2, <3>2, <3>3, WorkerTyped
    <3>5. WorkerGood(c)'
      BY <1>2, <3>1, <3>2, <3>4, ThreadOrCall DEF WorkerGood, ThreadPcs, Gone, Under
    <3>6. QED
      BY <1>1, <3>1, <3>2, <3>4, <3>5 DEF Moved
  <2>2. CASE ~ (d < NDrafts)
    <3>1. Return(c)
      BY <1>1, <1>3, <2>2 DEF NextDraft
    <3>2. QED
      BY <1>1, <1>2, <3>1, ReturnMoved DEF Gone
  <2>3. QED
    BY <2>1, <2>2
<1>6. RowsTyped'
  BY <1>1, <1>2, <1>4 DEF RowsTyped, Statuses
<1>7. HeldGood'
  BY <1>1, <1>2, <1>4 DEF HeldGood, RowsTyped
<1>8. OrderGood'
  <2>1. \A b \in Channels, e \in Drafts : Ahead(b, e)' => Ahead(b, e) /\ <<b, e>> # <<c, d>>
    <3> SUFFICES ASSUME NEW b \in Channels, NEW e \in Drafts, Ahead(b, e)'
                 PROVE  Ahead(b, e) /\ <<b, e>> # <<c, d>>
      OBVIOUS
    <3>1. CASE b = c
      BY <1>1, <1>3, <1>5, <3>1 DEF Ahead, Gone, Drafts
    <3>2. CASE b # c
      BY <1>5, <3>2 DEF Ahead, Moved, OthersKept, Workers
    <3>3. QED
      BY <3>1, <3>2
  <2>2. \A k \in Calls : worker'[k] = worker[k]
    BY <1>5, ConstantsTyped DEF Moved, OthersKept, Workers
  <2>3. \A b \in Channels, e \in Drafts : <<b, e>> # <<c, d>> => row'[<<b, e>>] = row[<<b, e>>]
    BY <1>1, <1>2, <1>3 DEF RowsTyped, Ops
  <2>4. QED
    BY <1>2, <2>1, <2>2, <2>3 DEF OrderGood
<1>9. \A k \in Ops \X Requests : CountGood(k)'
  BY <1>1, <1>2, <1>5, CountStays DEF IInv, provider, Moved
<1>10. QED
  BY <1>5, <1>6, <1>7, <1>8, <1>9 DEF Sound

-----------------------------------------------------------------------------
(* The work on an operation.                                               *)

\* What a worker under an operation finds.
LEMMA UnderHere ==
  ASSUME IInv, NEW w \in Workers, worker[w].pc \in Under
  PROVE  /\ worker \in [Workers -> WorkerRows] /\ worker[w] \in WorkerRows /\ WorkerGood(w)
         /\ RowsTyped /\ OrderGood /\ HeldGood /\ worker[w].op \in Ops
         /\ Planned(worker[w].todo) /\ Todo(w) \in Words \ {"QUEUED"}
         /\ worker[w].pc \notin Early
         /\ w \in Calls => Todo(w) \notin {"ask", "APPROVAL_REQUIRED"}
         /\ Held(worker[w].op) /\ worker[w].op \notin granted =>
              Todo(w) \notin {"VERIFIED", "RESOLVED", "resume-submit"}
<1>1. /\ worker \in [Workers -> WorkerRows] /\ worker[w] \in WorkerRows /\ WorkerGood(w)
      /\ RowsTyped /\ OrderGood /\ HeldGood
  BY Here DEF IInv
<1>2. worker[w].pc \notin Early /\ worker[w].op \in Ops
  BY OpHere DEF Under, Early, Gone
<1>3. /\ Planned(worker[w].todo) /\ (w \in Calls => Answering(worker[w].todo))
      /\ Held(worker[w].op) /\ worker[w].op \notin granted => Withheld(worker[w].todo)
  BY <1>1 DEF WorkerGood
<1>4. QED
  BY <1>1, <1>2, <1>3, HeadWord DEF Todo

LEMMA AskSound ==
  ASSUME IInv, NEW w \in Workers, Ask(w)
  PROVE  Sound(w)
<1>1. /\ worker[w].pc = "work" /\ Todo(w) = "ask" /\ Ends(w, "APPROVAL_REQUIRED")
      /\ UNCHANGED <<row, provider, tenant, faults>> /\ granted' = granted /\ row' = row
      /\ approval' = [approval EXCEPT ![worker[w].op] = "pending"]
  BY DEF Ask, Working, At
<1>2. worker[w].pc \in Under
  BY <1>1 DEF Under
<1>3. RowsTyped /\ OrderGood /\ worker[w].pc \notin Early /\ w \notin Calls
  BY <1>1, <1>2, UnderHere
<1>4. Moved(w) /\ worker'[w].pc = Saving(w) /\ worker'[w].op = worker[w].op
  BY <1>1, <1>2, <1>3, EndsMoved DEF TerminalStates
<1>5. OrderGood'
  BY <1>1, <1>3, <1>4, WorkKeepsOrder DEF Moved
<1>6. (approval \in [Ops -> {"pending", "approved", "denied", None}])' /\ granted' \subseteq Ops
  BY <1>1, <1>3 DEF RowsTyped
<1>7. QED
  BY <1>1, <1>4, <1>5, <1>6, SavingPlace, QuietSound

LEMMA FinishSound ==
  ASSUME IInv, NEW w \in Workers, Finish(w)
  PROVE  Sound(w)
<1>1. /\ worker[w].pc = "work" /\ Todo(w) \in Statuses /\ Ends(w, Todo(w))
      /\ UNCHANGED <<row, provider, tenant, faults>> /\ granted' = granted /\ row' = row
      /\ approval' = approval
  BY DEF Finish, Working, At, rows
<1>2. worker[w].pc \in Under
  BY <1>1 DEF Under
<1>3. /\ RowsTyped /\ OrderGood /\ worker[w].pc \notin Early /\ Todo(w) # "QUEUED"
      /\ w \in Calls => Todo(w) # "APPROVAL_REQUIRED"
      /\ Held(worker[w].op) /\ worker[w].op \notin granted =>
              Todo(w) \notin {"VERIFIED", "RESOLVED"}
  BY <1>2, UnderHere
<1>4. Todo(w) \in TerminalStates
  BY <1>1, <1>3, WordsTyped
<1>5. PICK s \in TerminalStates : s = Todo(w)
  BY <1>4
<1>6. Ends(w, s)
  BY <1>1, <1>5
<1>7. Moved(w) /\ worker'[w].pc = Saving(w) /\ worker'[w].op = worker[w].op
  BY <1>1, <1>2, <1>3, <1>5, <1>6, EndsMoved
<1>8. OrderGood'
  BY <1>1, <1>3, <1>7, WorkKeepsOrder DEF Moved
<1>9. (approval \in [Ops -> {"pending", "approved", "denied", None}])' /\ granted' \subseteq Ops
  BY <1>1, <1>3 DEF RowsTyped
<1>10. QED
  BY <1>1, <1>7, <1>8, <1>9, SavingPlace, QuietSound

\* A worker that goes on with the request it is at.
LEMMA GoesOnMoved ==
  ASSUME IInv, NEW w \in Workers, worker[w].pc \in Under, Todo(w) \in Requests,
         NEW pc \in {"execute", "complete", "wait"}, Goto(w, pc), granted' = granted
  PROVE  /\ Moved(w) /\ worker'[w].pc = pc /\ worker'[w].op = worker[w].op
         /\ KeyOf(w)' = KeyOf(w)
<1>1. worker \in [Workers -> WorkerRows] /\ WorkerGood(w)
  BY UnderHere
<1>2. /\ worker' \in [Workers -> WorkerRows] /\ OthersKept(w)
      /\ worker'[w].pc = pc /\ worker'[w].op = worker[w].op
      /\ worker'[w].todo = worker[w].todo /\ worker'[w].status = worker[w].status
  BY <1>1, GotoTyped DEF ThreadPcs
<1>3. WorkerGood(w)'
  BY <1>1, <1>2, ThreadOrCall DEF WorkerGood, ThreadPcs, CallPcs, Gone, Under, Todo
<1>4. QED
  BY <1>2, <1>3 DEF Moved, KeyOf, Todo

\* A worker whose request is done.
LEMMA ProceedMoved ==
  ASSUME IInv, NEW w \in Workers, worker[w].pc \in {"complete", "wait"}, Proceed(w),
         granted' = granted
  PROVE  Moved(w) /\ worker'[w].pc = "work" /\ worker'[w].op = worker[w].op
<1> DEFINE r == [worker[w] EXCEPT !.pc = "work", !.todo = Tail(worker[w].todo)]
<1>1. /\ worker \in [Workers -> WorkerRows] /\ worker[w] \in WorkerRows /\ WorkerGood(w)
      /\ Planned(worker[w].todo)
  BY UnderHere DEF Under
<1>2. /\ Planned(Tail(worker[w].todo))
      /\ Answering(worker[w].todo) => Answering(Tail(worker[w].todo))
      /\ Withheld(worker[w].todo) => Withheld(Tail(worker[w].todo))
  BY <1>1, TailPlanned DEF WorkerGood
<1>3. /\ r \in WorkerRows /\ r.pc = "work" /\ r.op = worker[w].op
      /\ r.todo = Tail(worker[w].todo)
  BY <1>1, <1>2 DEF WorkerRows, ThreadPcs, Planned
<1>4. worker' = [worker EXCEPT ![w] = r]
  BY <1>1 DEF Proceed
<1> HIDE DEF r
<1>5. worker' \in [Workers -> WorkerRows] /\ OthersKept(w) /\ worker'[w] = r
  BY <1>1, <1>3, <1>4, WorkerTyped
<1>6. WorkerGood(w)'
  BY <1>1, <1>2, <1>3, <1>5, ThreadOrCall DEF WorkerGood, ThreadPcs, CallPcs, Gone, Under
<1>7. QED
  BY <1>3, <1>5, <1>6 DEF Moved

\* A worker comes to the place where its request is carried out.
LEMMA OneMore ==
  ASSUME NEW k, NEW w \in Workers, IsFiniteSet(Executing(k)), OthersKept(w),
         worker[w].pc # "execute", worker'[w].pc = "execute", KeyOf(w)' = k
  PROVE  /\ IsFiniteSet(Executing(k))'
         /\ Cardinality(Executing(k))' = Cardinality(Executing(k)) + 1
<1>1. Executing(k)' = Executing(k) \cup {w} /\ w \notin Executing(k)
  BY DEF Executing, OthersKept, KeyOf, Todo
<1>2. QED
  BY <1>1, FS_AddElement

\* A worker leaves the place where its request is carried out.
LEMMA OneLess ==
  ASSUME NEW k, NEW w \in Workers, IsFiniteSet(Executing(k)), OthersKept(w),
         worker[w].pc = "execute", worker'[w].pc # "execute", KeyOf(w) = k
  PROVE  /\ IsFiniteSet(Executing(k))'
         /\ Cardinality(Executing(k))' = Cardinality(Executing(k)) - 1
<1>1. Executing(k)' = Executing(k) \ {w} /\ w \in Executing(k)
  BY DEF Executing, OthersKept, KeyOf, Todo
<1>2. QED
  BY <1>1, FS_RemoveElement

\* What one worker does with its request leaves the other requests alone.
LEMMA OtherRequests ==
  ASSUME NEW k, NEW w \in Workers, OthersKept(w), worker[w].pc = "execute" => KeyOf(w) # k,
         worker'[w].pc = "execute" => KeyOf(w)' # k
  PROVE  Executing(k)' = Executing(k)
BY DEF Executing, OthersKept, KeyOf, Todo

LEMMA CountTyped ==
  ASSUME IInv, NEW k \in Ops \X Requests
  PROVE  /\ CountGood(k) /\ IsFiniteSet(Executing(k)) /\ Cardinality(Executing(k)) \in Nat
         /\ executed[k] \in Nat /\ faults \in Nat /\ key \in [Ops \X Requests -> {"free", "reserved", "completed"}]
<1>1. CountGood(k) /\ IsFiniteSet(Executing(k)) /\ RowsTyped
  BY DEF IInv, CountGood
<1>2. QED
  BY <1>1, FS_CardinalityType, ConstantsTyped DEF RowsTyped

LEMMA ReserveSound ==
  ASSUME IInv, NEW w \in Workers, Reserve(w)
  PROVE  Sound(w)
<1>1. /\ worker[w].pc = "work" /\ Todo(w) \in Requests /\ executed' = executed
      /\ row' = row /\ approval' = approval /\ tenant' = tenant /\ granted' = granted
      /\ faults' = faults
  BY DEF Reserve, Working, At, rows
<1>2. worker[w].pc \in Under
  BY <1>1 DEF Under
<1>3. RowsTyped /\ OrderGood /\ HeldGood /\ worker[w].pc \notin Early /\ worker[w].op \in Ops
  BY <1>2, UnderHere
<1>4. (approval \in [Ops -> {"pending", "approved", "denied", None}])' /\ granted' \subseteq Ops
  BY <1>1, <1>3 DEF RowsTyped
<1>5. CASE Goto(w, "wait") /\ key' = key
  <2>1. Moved(w) /\ worker'[w].pc = "wait" /\ worker'[w].op = worker[w].op
    BY <1>1, <1>2, <1>5, GoesOnMoved
  <2>2. OrderGood'
    BY <1>1, <1>3, <2>1, WorkKeepsOrder DEF Moved
  <2>3. QED
    BY <1>1, <1>4, <1>5, <2>1, <2>2, QuietSound DEF provider
<1>6. CASE /\ key[KeyOf(w)] = "free" /\ key' = [key EXCEPT ![KeyOf(w)] = "reserved"]
           /\ Goto(w, "execute")
  <2>1. /\ Moved(w) /\ worker'[w].pc = "execute" /\ worker'[w].op = worker[w].op
        /\ KeyOf(w)' = KeyOf(w)
    BY <1>1, <1>2, <1>6, GoesOnMoved
  <2>2. OrderGood'
    BY <1>1, <1>3, <2>1, WorkKeepsOrder DEF Moved
  <2>3. RowsTyped'
    BY <1>1, <1>3, <1>6 DEF RowsTyped
  <2>4. HeldGood'
    BY <1>1, <1>3, HeldStays
  <2>5. ASSUME NEW k \in Ops \X Requests
        PROVE  CountGood(k)'
    <3>1. /\ CountGood(k) /\ IsFiniteSet(Executing(k)) /\ Cardinality(Executing(k)) \in Nat
          /\ executed[k] \in Nat /\ faults \in Nat
          /\ key \in [Ops \X Requests -> {"free", "reserved", "completed"}]
      BY CountTyped
    <3>2. CASE k = KeyOf(w)
      <4>1. /\ IsFiniteSet(Executing(k))'
            /\ Cardinality(Executing(k))' = Cardinality(Executing(k)) + 1
        BY <1>1, <2>1, <3>1, <3>2, OneMore DEF Moved
      <4>2. key[k] = "free" /\ key'[k] = "reserved"
        BY <1>6, <3>1, <3>2
      <4>3. QED
        BY <1>1, <3>1, <4>1, <4>2 DEF CountGood
    <3>3. CASE k # KeyOf(w)
      <4>1. Executing(k)' = Executing(k)
        BY <1>1, <2>1, <3>3, OtherRequests DEF Moved
      <4>2. key'[k] = key[k]
        BY <1>6, <3>1, <3>3
      <4>3. QED
        BY <1>1, <3>1, <4>1, <4>2 DEF CountGood
    <3>4. QED
      BY <3>2, <3>3
  <2>6. QED
    BY <2>1, <2>2, <2>3, <2>4, <2>5 DEF Sound
<1>7. QED
  BY <1>5, <1>6 DEF Reserve

LEMMA ExecuteSound ==
  ASSUME IInv, NEW w \in Workers, Execute(w)
  PROVE  Sound(w)
<1>1. /\ worker[w].pc = "execute" /\ Goto(w, "complete") /\ key' = key
      /\ executed' = [executed EXCEPT ![KeyOf(w)] = @ + 1]
      /\ row' = row /\ approval' = approval /\ tenant' = tenant /\ granted' = granted
      /\ faults' = faults
  BY DEF Execute, At, rows
<1>2. worker[w].pc \in Under
  BY <1>1 DEF Under
<1>3. /\ RowsTyped /\ OrderGood /\ HeldGood /\ worker[w].pc \notin Early /\ worker[w].op \in Ops
      /\ WorkerGood(w)
      /\ Held(worker[w].op) /\ worker[w].op \notin granted => Todo(w) # "resume-submit"
  BY <1>2, UnderHere
<1>4. Todo(w) \in Requests /\ KeyOf(w) \in Ops \X Requests
  BY <1>1, <1>3 DEF WorkerGood, Todo, KeyOf
<1>5. /\ Moved(w) /\ worker'[w].pc = "complete" /\ worker'[w].op = worker[w].op
  BY <1>1, <1>2, <1>4, GoesOnMoved
<1>6. OrderGood'
  BY <1>1, <1>3, <1>5, WorkKeepsOrder DEF Moved
<1>7. RowsTyped'
  <2>1. executed[KeyOf(w)] + 1 \in Nat
    BY <1>3, <1>4 DEF RowsTyped
  <2>2. executed' \in [Ops \X Requests -> Nat]
    BY <1>1, <1>3, <2>1 DEF RowsTyped
  <2>3. QED
    BY <1>1, <1>3, <2>2 DEF RowsTyped
<1>8. HeldGood'
  <2>1. ASSUME NEW op \in Ops, Held(op), op \notin granted
        PROVE  executed'[<<op, "resume-submit">>] = 0
    <3>1. <<op, "resume-submit">> # KeyOf(w)
      BY <1>3, <2>1 DEF KeyOf
    <3>2. executed'[<<op, "resume-submit">>] = executed[<<op, "resume-submit">>]
      BY <1>1, <1>3, <3>1 DEF RowsTyped, Requests
    <3>3. QED
      BY <1>3, <2>1, <3>2 DEF HeldGood
  <2>2. QED
    BY <1>1, <1>3, <2>1 DEF HeldGood
<1>9. ASSUME NEW k \in Ops \X Requests
      PROVE  CountGood(k)'
  <2>1. /\ CountGood(k) /\ IsFiniteSet(Executing(k)) /\ Cardinality(Executing(k)) \in Nat
        /\ executed[k] \in Nat /\ faults \in Nat
    BY CountTyped
  <2>2. CASE k = KeyOf(w)
    <3>1. /\ IsFiniteSet(Executing(k))'
          /\ Cardinality(Executing(k))' = Cardinality(Executing(k)) - 1
      BY <1>1, <1>5, <2>1, <2>2, OneLess DEF Moved
    <3>2. executed'[k] = executed[k] + 1
      BY <1>1, <1>3, <2>2 DEF RowsTyped
    <3>3. QED
      BY <1>1, <2>1, <3>1, <3>2 DEF CountGood
  <2>3. CASE k # KeyOf(w)
    <3>1. Executing(k)' = Executing(k)
      BY <1>1, <1>5, <2>3, OtherRequests DEF Moved
    <3>2. executed'[k] = executed[k]
      BY <1>1, <1>3, <2>3 DEF RowsTyped
    <3>3. QED
      BY <1>1, <2>1, <3>1, <3>2 DEF CountGood
  <2>4. QED
    BY <2>2, <2>3
<1>10. QED
  BY <1>5, <1>6, <1>7, <1>8, <1>9 DEF Sound

LEMMA CompleteSound ==
  ASSUME IInv, NEW w \in Workers, Complete(w)
  PROVE  Sound(w)
<1>1. /\ worker[w].pc = "complete" /\ Proceed(w) /\ executed' = executed
      /\ key' = [key EXCEPT ![KeyOf(w)] = IF @ = "free" THEN "free" ELSE "completed"]
      /\ row' = row /\ approval' = approval /\ tenant' = tenant /\ granted' = granted
      /\ faults' = faults
  BY DEF Complete, At, rows
<1>2. worker[w].pc \in Under
  BY <1>1 DEF Under
<1>3. RowsTyped /\ OrderGood /\ HeldGood /\ worker[w].pc \notin Early
  BY <1>2, UnderHere
<1>4. Moved(w) /\ worker'[w].pc = "work" /\ worker'[w].op = worker[w].op
  BY <1>1, ProceedMoved
<1>5. OrderGood'
  BY <1>1, <1>3, <1>4, WorkKeepsOrder DEF Moved
<1>6. key' \in [Ops \X Requests -> {"free", "reserved", "completed"}]
  BY <1>1, <1>3 DEF RowsTyped
<1>7. RowsTyped' /\ HeldGood'
  BY <1>1, <1>3, <1>6, HeldStays DEF RowsTyped
<1>8. ASSUME NEW k \in Ops \X Requests
      PROVE  CountGood(k)'
  <2>1. CountGood(k) /\ key \in [Ops \X Requests -> {"free", "reserved", "completed"}]
    BY CountTyped
  <2>2. Executing(k)' = Executing(k)
    BY <1>1, <1>4, OtherRequests DEF Moved
  <2>3. key'[k] = "free" <=> key[k] = "free"
    BY <1>1, <2>1
  <2>4. QED
    BY <1>1, <2>1, <2>2, <2>3 DEF CountGood
<1>9. QED
  BY <1>4, <1>5, <1>7, <1>8 DEF Sound

LEMMA WaitForResultSound ==
  ASSUME IInv, NEW w \in Workers, WaitForResult(w)
  PROVE  Sound(w)
<1>1. /\ worker[w].pc = "wait" /\ UNCHANGED <<row, provider, tenant, faults>>
      /\ granted' = granted /\ row' = row /\ approval' = approval
      /\ Proceed(w) \/ Ends(w, "FAILED")
  BY DEF WaitForResult, At, rows
<1>2. worker[w].pc \in Under
  BY <1>1 DEF Under
<1>3. RowsTyped /\ OrderGood /\ worker[w].pc \notin Early
  BY <1>2, UnderHere
<1>4. Moved(w) /\ worker'[w].pc \in {"work", Saving(w)} /\ worker'[w].op = worker[w].op
  <2>1. CASE Proceed(w)
    BY <1>1, <2>1, ProceedMoved
  <2>2. CASE Ends(w, "FAILED")
    BY <1>1, <1>2, <2>2, EndsMoved DEF TerminalStates
  <2>3. QED
    BY <1>1, <2>1, <2>2
<1>5. OrderGood'
  BY <1>1, <1>3, <1>4, WorkKeepsOrder DEF Moved
<1>6. (approval \in [Ops -> {"pending", "approved", "denied", None}])' /\ granted' \subseteq Ops
  BY <1>1, <1>3 DEF RowsTyped
<1>7. QED
  BY <1>1, <1>4, <1>5, <1>6, SavingPlace, QuietSound

\* The failure accounts for the record that is released.
LEMMA RaiseSound ==
  ASSUME IInv, NEW w \in Workers, Raise(w)
  PROVE  Sound(w)
<1>1. /\ worker[w].pc \in {"load", "work", "execute", "complete"} /\ Ends(w, "FAILED")
      /\ faults < MaxFaults /\ faults' = faults + 1 /\ executed' = executed
      /\ row' = row /\ tenant' = tenant /\ granted' = granted
      /\ approval' = approval \/ approval' = [approval EXCEPT ![worker[w].op] = "pending"]
      /\ key' = key \/ key' = [key EXCEPT ![KeyOf(w)] = "free"]
  BY DEF Raise, Broken
<1>2. worker[w].pc \in Under \cup {"load"}
  BY <1>1 DEF Under
<1>3. RowsTyped /\ OrderGood /\ HeldGood /\ worker[w].pc \notin Early
  BY <1>2 DEF IInv, Early, Gone, Under
<1>4. Moved(w) /\ worker'[w].pc = Saving(w) /\ worker'[w].op = worker[w].op
  BY <1>1, <1>2, EndsMoved DEF TerminalStates
<1>5. OrderGood'
  BY <1>1, <1>3, <1>4, WorkKeepsOrder DEF Moved
<1>6. /\ key' \in [Ops \X Requests -> {"free", "reserved", "completed"}]
      /\ approval' \in [Ops -> {"pending", "approved", "denied", None}]
      /\ faults' \in 0..MaxFaults
  BY <1>1, <1>3, ConstantsTyped DEF RowsTyped
<1>7. RowsTyped' /\ HeldGood'
  BY <1>1, <1>3, <1>6, HeldStays DEF RowsTyped
<1>8. ASSUME NEW k \in Ops \X Requests
      PROVE  CountGood(k)'
  <2>1. /\ CountGood(k) /\ IsFiniteSet(Executing(k)) /\ Cardinality(Executing(k)) \in Nat
        /\ executed[k] \in Nat /\ faults \in Nat
        /\ key \in [Ops \X Requests -> {"free", "reserved", "completed"}]
    BY CountTyped
  <2>2. worker'[w].pc # "execute" /\ OthersKept(w)
    BY <1>4, SavingPlace DEF Moved
  <2>3. key'[k] = key[k] \/ key'[k] = "free"
    BY <1>1, <2>1
  <2>4. CASE k = KeyOf(w) /\ worker[w].pc = "execute"
    <3>1. /\ IsFiniteSet(Executing(k))'
          /\ Cardinality(Executing(k))' = Cardinality(Executing(k)) - 1
      BY <2>1, <2>2, <2>4, OneLess
    <3>2. QED
      BY <1>1, <2>1, <2>3, <3>1 DEF CountGood
  <2>5. CASE ~ (k = KeyOf(w) /\ worker[w].pc = "execute")
    <3>1. Executing(k)' = Executing(k)
      BY <2>2, <2>5, OtherRequests
    <3>2. QED
      BY <1>1, <2>1, <2>3, <3>1 DEF CountGood
  <2>6. QED
    BY <2>4, <2>5
<1>9. QED
  BY <1>4, <1>5, <1>7, <1>8 DEF Sound

\* A failure that nothing catches moves its worker to where it has nothing before it.
LEMMA StoreFailsSound ==
  ASSUME IInv, NEW w \in Workers, StoreFails(w)
  PROVE  Sound(w)
<1>1. /\ worker[w].pc \in {"check", "queue", "recheck", "save", "decide", "resume"}
      /\ faults < MaxFaults /\ faults' = faults + 1 /\ executed' = executed /\ key' = key
      /\ row' = row /\ approval' = approval /\ tenant' = tenant /\ granted' = granted
      /\ Uncaught(w)
  BY DEF StoreFails, rows, provider
<1>2. RowsTyped /\ OrderGood /\ HeldGood
  BY DEF IInv
<1>3. Moved(w) /\ worker'[w].pc \in Gone
  <2>1. CASE w \in Channels
    <3>1. Goto(w, "failed") /\ "failed" \in ThreadPcs
      BY <1>1, <2>1 DEF Uncaught, ThreadPcs
    <3>2. /\ worker' \in [Workers -> WorkerRows] /\ OthersKept(w) /\ worker'[w].pc = "failed"
      BY <3>1, Here, GotoTyped
    <3>3. WorkerGood(w)'
      BY <2>1, <3>1, <3>2, ThreadOrCall DEF WorkerGood, Gone, Under
    <3>4. QED
      BY <1>1, <3>2, <3>3 DEF Moved, Gone
  <2>2. CASE w \notin Channels
    BY <1>1, <2>2, ReturnMoved DEF Uncaught, Gone
  <2>3. QED
    BY <2>1, <2>2
<1>4. OrderGood'
  <2>1. CASE w \in Channels
    BY <1>1, <1>2, <1>3, <2>1, ThreadKeepsOrder DEF Moved
  <2>2. CASE w \in Calls
    BY <1>1, <1>2, <1>3, <2>2, CallKeepsOrder DEF Moved, Early
  <2>3. QED
    BY <2>1, <2>2 DEF Workers
<1>5. faults' \in 0..MaxFaults
  BY <1>1, <1>2, ConstantsTyped DEF RowsTyped
<1>6. RowsTyped' /\ HeldGood'
  BY <1>1, <1>2, <1>5, HeldStays DEF RowsTyped
<1>7. ASSUME NEW k \in Ops \X Requests
      PROVE  CountGood(k)'
  <2>1. /\ CountGood(k) /\ Cardinality(Executing(k)) \in Nat /\ executed[k] \in Nat
        /\ faults \in Nat
    BY CountTyped
  <2>2. Executing(k)' = Executing(k)
    BY <1>1, <1>3, OtherRequests DEF Moved, Gone
  <2>3. QED
    BY <1>1, <2>1, <2>2 DEF CountGood
<1>8. QED
  BY <1>3, <1>4, <1>6, <1>7 DEF Sound

LEMMA WorkSound ==
  ASSUME IInv, NEW w \in Workers, Work(w)
  PROVE  Sound(w)
BY AskSound, FinishSound, ReserveSound, ExecuteSound, CompleteSound, WaitForResultSound DEF Work

-----------------------------------------------------------------------------
(* The owner's answers.                                                    *)

LEMMA ReadApprovalSound ==
  ASSUME IInv, NEW k \in Calls, ReadApproval(k)
  PROVE  Sound(k)
<1>1. PICK op \in Ops : worker' = [worker EXCEPT ![k].pc = "decide", ![k].op = op]
  BY DEF ReadApproval
<1> DEFINE r == [worker[k] EXCEPT !.pc = "decide", !.op = op]
<1>2. /\ worker[k].pc = "idle" /\ UNCHANGED <<row, provider, tenant, faults>>
      /\ granted' = granted /\ row' = row /\ approval' = approval
  BY DEF ReadApproval, At, rows
<1>3. /\ k \in Workers /\ worker \in [Workers -> WorkerRows] /\ worker[k] \in WorkerRows
      /\ RowsTyped /\ OrderGood
  BY Here DEF Workers, IInv
<1>4. r \in WorkerRows /\ r.pc = "decide" /\ r.op = op
  BY <1>3 DEF WorkerRows, CallPcs
<1>5. worker' = [worker EXCEPT ![k] = r]
  BY <1>1, <1>3
<1> HIDE DEF r
<1>6. worker' \in [Workers -> WorkerRows] /\ OthersKept(k) /\ worker'[k] = r
  BY <1>3, <1>4, <1>5, WorkerTyped
<1>7. WorkerGood(k)'
  BY <1>3, <1>4, <1>6, ThreadOrCall DEF WorkerGood, CallPcs, Gone, Under
<1>8. OrderGood'
  BY <1>2, <1>3, <1>4, <1>6, CallKeepsOrder DEF Early
<1>9. QED
  BY <1>2, <1>3, <1>4, <1>6, <1>7, <1>8, QuietSound DEF Moved, RowsTyped

LEMMA DecideSound ==
  ASSUME IInv, NEW k \in Calls, Decide(k)
  PROVE  Sound(k)
<1>1. /\ worker[k].pc = "decide" /\ UNCHANGED <<row, provider, tenant, faults>> /\ row' = row
  BY DEF Decide, At
<1>2. /\ k \in Workers /\ worker \in [Workers -> WorkerRows] /\ WorkerGood(k)
      /\ RowsTyped /\ OrderGood /\ worker[k].op \in Ops
  BY <1>1, Here, OpHere DEF Workers, IInv, Gone
<1>3. CASE /\ PutApproval(worker[k].op, "approved") /\ Goto(k, "resume")
           /\ granted' = granted \cup {worker[k].op}
  <2>1. /\ worker' \in [Workers -> WorkerRows] /\ OthersKept(k)
        /\ worker'[k].pc = "resume" /\ worker'[k].op = worker[k].op
    BY <1>2, <1>3, GotoTyped DEF CallPcs
  <2>2. WorkerGood(k)'
    BY <1>1, <1>2, <1>3, <2>1, ThreadOrCall DEF WorkerGood, CallPcs, Gone, Under
  <2>3. OrderGood'
    BY <1>1, <1>2, <2>1, CallKeepsOrder DEF Early
  <2>4. (approval \in [Ops -> {"pending", "approved", "denied", None}])' /\ granted' \subseteq Ops
    BY <1>2, <1>3 DEF RowsTyped, PutApproval
  <2>5. QED
    BY <1>1, <1>2, <1>3, <2>1, <2>2, <2>3, <2>4, QuietSound DEF Moved
<1>4. CASE PutApproval(worker[k].op, "denied") /\ Return(k) /\ UNCHANGED granted
  <2>1. Moved(k) /\ worker'[k].pc = "ended"
    BY <1>2, <1>4, ReturnMoved
  <2>2. OrderGood'
    BY <1>1, <1>2, <2>1, CallKeepsOrder DEF Moved, Early, Gone
  <2>3. (approval \in [Ops -> {"pending", "approved", "denied", None}])' /\ granted' \subseteq Ops
    BY <1>2, <1>4 DEF RowsTyped, PutApproval
  <2>4. QED
    BY <1>1, <1>2, <2>1, <2>2, <2>3, QuietSound
<1>5. QED
  BY <1>3, <1>4 DEF Decide

\* Only what the thread has put may be resumed.
LEMMA ResumeSound ==
  ASSUME IInv, NEW k \in Calls, Resume(k)
  PROVE  Sound(k)
<1>1. /\ worker[k].pc = "resume" /\ UNCHANGED <<row, provider, tenant, faults>>
      /\ granted' = granted /\ row' = row /\ approval' = approval
  BY DEF Resume, At, rows
<1>2. /\ k \in Workers /\ worker \in [Workers -> WorkerRows] /\ WorkerGood(k)
      /\ RowsTyped /\ OrderGood /\ worker[k].op \in Ops
  BY <1>1, Here, OpHere DEF Workers, IInv, Gone
<1>3. CASE ResumesAt(worker[k].op) /\ Goto(k, "load")
  <2>1. /\ worker' \in [Workers -> WorkerRows] /\ OthersKept(k)
        /\ worker'[k].pc = "load" /\ worker'[k].op = worker[k].op
    BY <1>2, <1>3, GotoTyped DEF CallPcs
  <2>2. WorkerGood(k)'
    BY <1>1, <1>2, <2>1, ThreadOrCall DEF WorkerGood, CallPcs, Gone, Under
  <2>3. OrderGood'
    <3>1. row[worker[k].op] \notin {None, "QUEUED"}
      BY <1>3, NoStatus DEF ResumesAt, Statuses, TerminalStates
    <3>2. \A c \in Channels, d \in Drafts : Ahead(c, d)' => Ahead(c, d)
      BY <2>1, ConstantsTyped DEF Ahead, OthersKept, Workers
    <3>3. \A j \in Calls : worker'[j] = worker[j] \/ (j = k /\ worker'[j].op = worker[k].op)
      BY <2>1 DEF OthersKept, Workers
    <3>4. QED
      BY <1>1, <1>2, <3>1, <3>2, <3>3 DEF OrderGood
  <2>4. QED
    BY <1>1, <1>2, <2>1, <2>2, <2>3, QuietSound DEF Moved, RowsTyped
<1>4. CASE Return(k)
  <2>1. Moved(k) /\ worker'[k].pc = "ended"
    BY <1>1, <1>2, <1>4, ReturnMoved
  <2>2. OrderGood'
    BY <1>1, <1>2, <2>1, CallKeepsOrder DEF Moved, Early, Gone
  <2>3. QED
    BY <1>1, <1>2, <2>1, <2>2, QuietSound DEF RowsTyped
<1>5. QED
  BY <1>3, <1>4 DEF Resume

LEMMA LoadDraftSound ==
  ASSUME IInv, NEW k \in Calls, LoadDraft(k)
  PROVE  Sound(k)
<1>1. /\ worker[k].pc = "load" /\ UNCHANGED <<row, provider, tenant, faults>>
      /\ granted' = granted /\ row' = row /\ approval' = approval
  BY DEF LoadDraft, At, rows
<1>2. /\ k \in Workers /\ worker \in [Workers -> WorkerRows] /\ worker[k] \in WorkerRows
      /\ WorkerGood(k) /\ RowsTyped /\ OrderGood
  BY Here DEF Workers, IInv
<1>3. worker[k].pc \notin Early
  BY <1>1 DEF Early, Gone
<1>4. Moved(k) /\ worker'[k].pc # "execute" /\ worker'[k].op = worker[k].op
  <2>1. CASE worker' = [worker EXCEPT ![k].pc = "work", ![k].todo = ResumePlan(worker[k].op)]
    <3> DEFINE r == [worker[k] EXCEPT !.pc = "work", !.todo = ResumePlan(worker[k].op)]
    <3>1. Planned(ResumePlan(worker[k].op)) /\ Answering(ResumePlan(worker[k].op))
      BY ResumePlanGood
    <3>2. /\ r \in WorkerRows /\ r.pc = "work" /\ r.op = worker[k].op
          /\ r.todo = ResumePlan(worker[k].op)
      <4>1. ResumePlan(worker[k].op) \in Seq(Words)
        BY <3>1 DEF Planned
      <4>2. QED
        BY <1>2, <4>1 DEF WorkerRows, ThreadPcs
    <3>3. worker' = [worker EXCEPT ![k] = r]
      BY <1>2, <2>1
    <3> HIDE DEF r
    <3>4. worker' \in [Workers -> WorkerRows] /\ OthersKept(k) /\ worker'[k] = r
      BY <1>2, <3>2, <3>3, WorkerTyped
    <3>5. WorkerGood(k)'
      BY <1>1, <1>2, <3>1, <3>2, <3>4, ThreadOrCall DEF WorkerGood, CallPcs, Gone, Under
    <3>6. QED
      BY <1>1, <3>2, <3>4, <3>5 DEF Moved
  <2>2. CASE Ends(k, "FAILED")
    BY <1>1, <1>2, <2>2, EndsMoved, SavingPlace DEF TerminalStates
  <2>3. QED
    BY <2>1, <2>2 DEF LoadDraft
<1>5. OrderGood'
  BY <1>1, <1>2, <1>3, <1>4, CallKeepsOrder DEF Moved
<1>6. QED
  BY <1>1, <1>2, <1>4, <1>5, QuietSound DEF RowsTyped

\* A call saves only what no thread has before it.
LEMMA SaveResumedSound ==
  ASSUME IInv, NEW k \in Calls, SaveResumed(k)
  PROVE  Sound(k)
<1>1. /\ worker[k].pc = "save" /\ row' = [row EXCEPT ![worker[k].op] = worker[k].status]
      /\ Return(k) /\ UNCHANGED <<provider, tenant, faults>>
      /\ approval' = approval /\ key' = key /\ executed' = executed /\ tenant' = tenant
      /\ granted' = granted /\ faults' = faults
  BY DEF SaveResumed, PutRow, At, provider
<1>2. /\ k \in Workers /\ worker \in [Workers -> WorkerRows] /\ WorkerGood(k)
      /\ RowsTyped /\ OrderGood /\ HeldGood
  BY Here DEF Workers, IInv
<1>3. /\ worker[k].status \in TerminalStates /\ worker[k].op \in Ops
      /\ worker[k].op \in granted /\ worker[k].pc \notin Early
  BY <1>1, <1>2 DEF WorkerGood, Gone, Early
<1>4. Moved(k) /\ worker'[k].pc = "ended"
  BY <1>1, <1>2, ReturnMoved
<1>5. RowsTyped'
  BY <1>1, <1>2, <1>3 DEF RowsTyped, Statuses
<1>6. HeldGood'
  BY <1>1, <1>2, <1>3 DEF HeldGood, RowsTyped
<1>7. OrderGood'
  <2>1. \A c \in Channels, d \in Drafts : Ahead(c, d)' => Ahead(c, d)
    BY <1>4, ConstantsTyped DEF Ahead, Moved, OthersKept, Workers
  <2>2. \A c \in Channels, d \in Drafts : Ahead(c, d) => worker[k].op # <<c, d>>
    BY <1>2, <1>3 DEF OrderGood
  <2>3. \A c \in Channels, d \in Drafts :
          worker[k].op # <<c, d>> => row'[<<c, d>>] = row[<<c, d>>]
    BY <1>1, <1>2 DEF RowsTyped, Ops
  <2>4. \A j \in Calls : worker'[j] = worker[j] \/ worker'[j].pc \in Early
    BY <1>4 DEF Moved, OthersKept, Workers, Early, Gone
  <2>5. QED
    BY <1>2, <2>1, <2>2, <2>3, <2>4 DEF OrderGood
<1>8. \A j \in Ops \X Requests : CountGood(j)'
  BY <1>1, <1>2, <1>4, CountStays DEF IInv, Moved
<1>9. QED
  BY <1>4, <1>5, <1>6, <1>7, <1>8 DEF Sound

-----------------------------------------------------------------------------
(* The reset and the restart.                                              *)

\* The reset accounts for every record it deletes.
LEMMA DeleteRowsKeeps ==
  ASSUME IInv, DeleteRows
  PROVE  IInv'
<1>1. /\ tenant = "seeded" /\ tenant' = "cleared"
      /\ row' = [op \in Ops |-> None] /\ approval' = [op \in Ops |-> None]
      /\ key' = [k \in Ops \X Requests |-> "free"]
      /\ executed' = executed /\ worker' = worker /\ granted' = granted /\ faults' = faults
  BY DEF DeleteRows
<1>2. RowsTyped'
  BY <1>1 DEF IInv, RowsTyped
<1>3. HeldGood'
  <2>1. None \notin {"VERIFIED", "RESOLVED"}
    BY NoStatus DEF Statuses, TerminalStates
  <2>2. QED
    BY <1>1, <2>1 DEF IInv, HeldGood
<1>4. OrderGood'
  <2>1. \A c \in Channels, d \in Drafts : Ahead(c, d)' => Ahead(c, d)
    BY <1>1 DEF Ahead
  <2>2. \A c \in Channels, d \in Drafts : row'[<<c, d>>] = None
    BY <1>1 DEF Ops
  <2>3. QED
    BY <1>1, <2>1, <2>2 DEF IInv, OrderGood
<1>5. \A w \in Workers : WorkerGood(w)'
  BY <1>1, GoodStays DEF IInv
<1>6. ASSUME NEW k \in Ops \X Requests
      PROVE  CountGood(k)'
  <2>1. /\ CountGood(k) /\ Cardinality(Executing(k)) \in Nat /\ executed[k] \in Nat
        /\ faults \in Nat /\ key \in [Ops \X Requests -> {"free", "reserved", "completed"}]
    BY CountTyped
  <2>2. Executing(k)' = Executing(k)
    BY <1>1 DEF Executing, KeyOf, Todo
  <2>3. key'[k] = "free"
    BY <1>1
  <2>4. QED
    BY <1>1, <2>1, <2>2, <2>3 DEF CountGood
<1>7. QED
  BY <1>1, <1>2, <1>3, <1>4, <1>5, <1>6 DEF IInv

LEMMA PutMerchantKeeps ==
  ASSUME IInv, PutMerchant
  PROVE  IInv'
<1>1. /\ tenant = "cleared" /\ tenant' = "reset" /\ row' = row /\ approval' = approval
      /\ key' = key /\ executed' = executed /\ worker' = worker /\ granted' = granted
      /\ faults' = faults
  BY DEF PutMerchant, rows, provider
<1>2. RowsTyped' /\ HeldGood'
  BY <1>1 DEF IInv, RowsTyped, HeldGood
<1>3. OrderGood'
  BY <1>1 DEF IInv, OrderGood, Ahead
<1>4. \A w \in Workers : WorkerGood(w)'
  BY <1>1, GoodStays DEF IInv
<1>5. ASSUME NEW k \in Ops \X Requests
      PROVE  CountGood(k)'
  <2>1. CountGood(k)
    BY DEF IInv
  <2>2. Executing(k)' = Executing(k)
    BY <1>1 DEF Executing, KeyOf, Todo
  <2>3. QED
    BY <1>1, <2>1, <2>2 DEF CountGood
<1>6. QED
  BY <1>1, <1>2, <1>3, <1>4, <1>5 DEF IInv

\* A worker that dies under a request has lost it: the failure accounts for it.
LEMMA RestartKeeps ==
  ASSUME IInv, Restart
  PROVE  IInv'
<1> DEFINE dead == [pc |-> "dead", op |-> None, todo |-> <<>>, status |-> None]
<1>1. /\ faults < MaxFaults /\ faults' = faults + 1 /\ row' = row /\ approval' = approval
      /\ key' = key /\ executed' = executed /\ tenant' = tenant /\ granted' = granted
      /\ worker' = [w \in Workers |-> IF worker[w].pc \in {"idle", "ended", "failed"} THEN worker[w] ELSE dead]
  BY DEF Restart, rows, provider
<1>2. dead \in WorkerRows /\ dead.pc = "dead"
  <2>1. <<>> \in Seq(Words)
    BY EmptySeq
  <2>2. QED
    BY <2>1 DEF WorkerRows, ThreadPcs
<1> HIDE DEF dead
<1>3. worker \in [Workers -> WorkerRows] /\ RowsTyped /\ HeldGood /\ OrderGood
  BY DEF IInv
<1>4. worker' \in [Workers -> WorkerRows]
  BY <1>1, <1>2, <1>3
<1>5. RowsTyped'
  <2>1. faults' \in 0..MaxFaults
    BY <1>1, <1>3, ConstantsTyped DEF RowsTyped
  <2>2. QED
    BY <1>1, <1>3, <2>1 DEF RowsTyped
<1>6. HeldGood'
  BY <1>1, <1>3 DEF HeldGood
<1>7. \A w \in Workers : worker'[w] = worker[w] \/ worker'[w].pc = "dead"
  BY <1>1, <1>2
<1>8. OrderGood'
  <2>1. \A c \in Channels, d \in Drafts : Ahead(c, d)' => Ahead(c, d)
    BY <1>7 DEF Ahead, Gone, Workers
  <2>2. \A k \in Calls : worker'[k] = worker[k] \/ worker'[k].pc \in Early
    BY <1>7 DEF Early, Gone, Workers
  <2>3. QED
    BY <1>1, <1>3, <2>1, <2>2 DEF OrderGood
<1>9. ASSUME NEW w \in Workers
      PROVE  WorkerGood(w)'
  <2>1. CASE worker'[w] = worker[w]
    BY <1>1, <2>1, GoodStays DEF IInv
  <2>2. CASE worker'[w].pc = "dead"
    BY <2>2 DEF WorkerGood, ThreadPcs, CallPcs, Gone, Under
  <2>3. QED
    BY <1>7, <2>1, <2>2
<1>10. ASSUME NEW k \in Ops \X Requests
       PROVE  CountGood(k)'
  <2>1. /\ CountGood(k) /\ Cardinality(Executing(k)) \in Nat /\ executed[k] \in Nat
        /\ faults \in Nat
    BY CountTyped
  <2>2. Executing(k)' = {}
    BY <1>1, <1>2 DEF Executing
  <2>3. IsFiniteSet({}) /\ Cardinality({}) = 0
    BY FS_EmptySet
  <2>4. QED
    BY <1>1, <2>1, <2>2, <2>3 DEF CountGood
<1>11. QED
  BY <1>4, <1>5, <1>6, <1>8, <1>9, <1>10 DEF IInv

-----------------------------------------------------------------------------
(* The theorems.                                                           *)

LEMMA InitGood ==
  Init => IInv
<1> SUFFICES ASSUME Init
             PROVE  IInv
  OBVIOUS
<1>1. /\ row = [op \in Ops |-> None] /\ approval = [op \in Ops |-> None]
      /\ key = [k \in Ops \X Requests |-> "free"] /\ executed = [k \in Ops \X Requests |-> 0]
      /\ tenant = "seeded" /\ granted = {} /\ faults = 0
  BY DEF Init
<1>2. 1 \in Drafts
  BY ConstantsTyped DEF Drafts
<1>3. ASSUME NEW w \in Workers
      PROVE  /\ worker[w] \in WorkerRows
             /\ w \in Channels => worker[w].pc = "check" /\ worker[w].op = <<w, 1>>
             /\ w \in Calls => worker[w].pc = "idle" /\ worker[w].op = None
  <2>1. <<>> \in Seq(Words)
    BY EmptySeq
  <2>2. CASE w \in Channels
    <3>1. worker[w] = [pc |-> "check", op |-> <<w, 1>>, todo |-> <<>>, status |-> None]
      BY <2>2 DEF Init
    <3>2. <<w, 1>> \in Ops
      BY <1>2, <2>2 DEF Ops
    <3>3. QED
      BY <2>1, <2>2, <3>1, <3>2, ConstantsTyped DEF WorkerRows, ThreadPcs
  <2>3. CASE w \notin Channels
    <3>1. worker[w] = [pc |-> "idle", op |-> None, todo |-> <<>>, status |-> None]
      BY <2>3 DEF Init
    <3>2. QED
      BY <2>1, <2>3, <3>1 DEF WorkerRows, CallPcs
  <2>4. QED
    BY <2>2, <2>3
<1>4. worker \in [Workers -> WorkerRows]
  <2>1. worker = [w \in Workers |-> worker[w]]
    BY DEF Init
  <2>2. QED
    BY <1>3, <2>1
<1>5. RowsTyped
  BY <1>1, ConstantsTyped DEF RowsTyped
<1>6. HeldGood
  <2>1. None \notin {"VERIFIED", "RESOLVED"}
    BY NoStatus DEF Statuses, TerminalStates
  <2>2. \A op \in Ops : <<op, "resume-submit">> \in Ops \X Requests
    BY DEF Requests
  <2>3. QED
    BY <1>1, <2>1, <2>2 DEF HeldGood
<1>7. OrderGood
  <2>1. \A c \in Channels, d \in Drafts : row[<<c, d>>] = None
    BY <1>1 DEF Ops
  <2>2. \A k \in Calls : worker[k].pc \in Early
    BY <1>3 DEF Workers, Early
  <2>3. QED
    BY <2>1, <2>2 DEF OrderGood
<1>8. ASSUME NEW w \in Workers
      PROVE  WorkerGood(w)
  BY <1>2, <1>3, ThreadOrCall DEF WorkerGood, ThreadPcs, CallPcs, Gone, Under
<1>9. ASSUME NEW k \in Ops \X Requests
      PROVE  CountGood(k)
  <2>1. Executing(k) = {}
    BY <1>3 DEF Executing, Workers
  <2>2. IsFiniteSet({}) /\ Cardinality({}) = 0
    BY FS_EmptySet
  <2>3. executed[k] = 0 /\ key[k] = "free"
    BY <1>1
  <2>4. QED
    BY <1>1, <2>1, <2>2, <2>3 DEF CountGood
<1>10. QED
  BY <1>4, <1>5, <1>6, <1>7, <1>8, <1>9 DEF IInv

LEMMA StutterKeeps ==
  ASSUME IInv, UNCHANGED vars
  PROVE  IInv'
<1>1. /\ row' = row /\ approval' = approval /\ key' = key /\ executed' = executed
      /\ tenant' = tenant /\ worker' = worker /\ granted' = granted /\ faults' = faults
  BY DEF vars
<1>2. RowsTyped' /\ HeldGood'
  BY <1>1 DEF IInv, RowsTyped, HeldGood
<1>3. OrderGood'
  BY <1>1 DEF IInv, OrderGood, Ahead
<1>4. \A w \in Workers : WorkerGood(w)'
  BY <1>1, GoodStays DEF IInv
<1>5. ASSUME NEW k \in Ops \X Requests
      PROVE  CountGood(k)'
  <2>1. CountGood(k)
    BY DEF IInv
  <2>2. Executing(k)' = Executing(k)
    BY <1>1 DEF Executing, KeyOf, Todo
  <2>3. QED
    BY <1>1, <2>1, <2>2 DEF CountGood
<1>6. QED
  BY <1>1, <1>2, <1>3, <1>4, <1>5 DEF IInv

LEMMA NextKeeps ==
  ASSUME IInv, Next
  PROVE  IInv'
<1>1. Channels \subseteq Workers /\ Calls \subseteq Workers
  BY DEF Workers
<1>2. ASSUME NEW c \in Channels, Thread(c)
      PROVE  IInv'
  BY <1>1, <1>2, CheckGenerationSound, PutQueuedSound, RecheckSound, SaveOperationSound,
     WorkSound, SoundSuffices DEF Thread
<1>3. ASSUME NEW k \in Calls, ReadApproval(k) \/ Resolving(k)
      PROVE  IInv'
  BY <1>1, <1>3, ReadApprovalSound, DecideSound, ResumeSound, LoadDraftSound,
     SaveResumedSound, WorkSound, SoundSuffices DEF Resolving
<1>4. ASSUME NEW w \in Workers, Raise(w) \/ StoreFails(w)
      PROVE  IInv'
  BY <1>4, RaiseSound, StoreFailsSound, SoundSuffices
<1>5. QED
  BY <1>2, <1>3, <1>4, DeleteRowsKeeps, PutMerchantKeeps, RestartKeeps DEF Next

\* The invariant: every request that may still be carried out is accounted for.
THEOREM ChannelOpsInvariant ==
  Spec => []IInv
<1>1. IInv /\ [Next]_vars => IInv'
  BY NextKeeps, StutterKeeps
<1>2. QED
  BY InitGood, <1>1, PTL DEF Spec

\* execute_mutation under run_once: a listing request is carried out once, and once
\* more for each failure between the request and its record, and for the reset.
THEOREM RequestsPublishedOnce ==
  Spec => []PublishedOnce
<1>1. IInv => PublishedOnce
  <2> SUFFICES ASSUME IInv, NEW k \in Ops \X Requests
               PROVE  executed[k] <= 1 + faults + (IF tenant = "seeded" THEN 0 ELSE 1)
    BY DEF PublishedOnce
  <2>1. /\ CountGood(k) /\ Cardinality(Executing(k)) \in Nat /\ executed[k] \in Nat
        /\ faults \in Nat
    BY CountTyped
  <2>2. QED
    BY <2>1 DEF CountGood
<1>2. QED
  BY <1>1, ChannelOpsInvariant, PTL

\* What is held for the owner is carried out only after an answer has granted it, and
\* the stored operations and approvals hold only statuses.
THEOREM HeldWaitsForOwner ==
  Spec => []HeldForOwner
<1>1. IInv => HeldForOwner
  <2> SUFFICES ASSUME IInv
               PROVE  HeldForOwner
    OBVIOUS
  <2>1. RowsTyped /\ HeldGood
    BY DEF IInv
  <2>2. ASSUME NEW w \in Workers
        PROVE  /\ worker[w].pc \in IF w \in Channels THEN ThreadPcs ELSE CallPcs
               /\ worker[w].op \in Ops \cup {None}
               /\ worker[w].status \in Statuses \cup {None}
               /\ worker[w].pc \in {"queue", "work", "execute", "complete", "wait", "save"}
                    => worker[w].op # None
    <3>1. worker[w] \in WorkerRows /\ WorkerGood(w)
      BY Here
    <3>2. ASSUME worker[w].pc \in {"queue", "work", "execute", "complete", "wait", "save"}
          PROVE  worker[w].op # None
      BY <3>2, OpHere, ConstantsTyped DEF Gone
    <3>3. QED
      BY <3>1, <3>2 DEF WorkerGood, WorkerRows
  <2>3. TypeOK
    BY <2>1, <2>2 DEF TypeOK, RowsTyped
  <2>4. QED
    BY <2>1, <2>3 DEF HeldForOwner, HeldGood
<1>2. QED
  BY <1>1, ChannelOpsInvariant, PTL

\* A thread puts a row only while the draft is before it, and a call saves neither
\* QUEUED nor APPROVAL_REQUIRED.
LEMMA RowsStaySettled ==
  ASSUME IInv, Next, NEW op \in Ops, row[op] \in {"VERIFIED", "RESOLVED", "FAILED"}
  PROVE  row'[op] \notin {"QUEUED", "APPROVAL_REQUIRED"}
<1>1. RowsTyped /\ OrderGood /\ None \notin Statuses
  BY NoStatus DEF IInv
<1>2. CASE row' = row
  BY <1>2
<1>3. ASSUME NEW c \in Channels, worker[c].pc \in {"queue", "save"}, NEW s,
             row' = [row EXCEPT ![worker[c].op] = s]
      PROVE  row'[op] \notin {"QUEUED", "APPROVAL_REQUIRED"}
  <2>1. WorkerGood(c)
    BY Here DEF Workers
  <2>2. PICK d \in Drafts : worker[c].op = <<c, d>>
    BY <1>3, <2>1 DEF WorkerGood, Gone
  <2>3. Ahead(c, d)
    BY <1>3, <2>2 DEF Ahead, Gone, Drafts
  <2>4. row[<<c, d>>] \in {None, "QUEUED"}
    BY <1>1, <2>3 DEF OrderGood
  <2>5. op # worker[c].op
    BY <1>1, <2>2, <2>4 DEF Statuses, TerminalStates
  <2>6. QED
    BY <1>1, <1>3, <2>5 DEF RowsTyped
<1>4. ASSUME NEW k \in Calls, SaveResumed(k)
      PROVE  row'[op] \notin {"QUEUED", "APPROVAL_REQUIRED"}
  <2>1. WorkerGood(k) /\ worker[k].pc = "save" /\ row' = [row EXCEPT ![worker[k].op] = worker[k].status]
    BY <1>4, Here DEF Workers, SaveResumed, At, PutRow
  <2>2. worker[k].status \notin {"QUEUED", "APPROVAL_REQUIRED"}
    BY <1>4, <2>1, WordsTyped DEF WorkerGood
  <2>3. QED
    BY <1>1, <2>1, <2>2 DEF RowsTyped
<1>5. CASE DeleteRows
  BY <1>1, <1>5 DEF DeleteRows, Statuses, TerminalStates
<1>6. ASSUME NEW w \in Workers, Work(w)
      PROVE  row' = row
  BY <1>6 DEF Work, Ask, Finish, Reserve, Execute, Complete, WaitForResult, rows
<1>7. ASSUME NEW c \in Channels, Thread(c)
      PROVE  row'[op] \notin {"QUEUED", "APPROVAL_REQUIRED"}
  <2>1. CASE CheckGeneration(c) \/ Recheck(c) \/ Work(c)
    BY <1>2, <1>6, <2>1 DEF CheckGeneration, Recheck, rows, Workers
  <2>2. CASE PutQueued(c) \/ SaveOperation(c)
    BY <1>3, <2>2 DEF PutQueued, SaveOperation, PutRow, At
  <2>3. QED
    BY <1>7, <2>1, <2>2 DEF Thread
<1>8. ASSUME NEW k \in Calls, ReadApproval(k) \/ Resolving(k)
      PROVE  row'[op] \notin {"QUEUED", "APPROVAL_REQUIRED"}
  <2>1. CASE ReadApproval(k) \/ Decide(k) \/ Resume(k) \/ LoadDraft(k) \/ Work(k)
    BY <1>2, <1>6, <2>1 DEF ReadApproval, Decide, Resume, LoadDraft, rows, Workers
  <2>2. QED
    BY <1>4, <1>8, <2>1 DEF Resolving
<1>9. CASE PutMerchant \/ Restart \/ \E w \in Workers : Raise(w) \/ StoreFails(w)
  BY <1>2, <1>9 DEF PutMerchant, Restart, Raise, StoreFails, rows
<1>10. QED
  BY <1>5, <1>7, <1>8, <1>9 DEF Next

\* resume and the thread that asked write the same row, and neither puts a settled
\* operation back to where the owner would be asked again.
THEOREM SettledNeverReopened ==
  Spec => NeverReopened
<1> DEFINE Settled ==
      \A op \in Ops : row[op] \in {"VERIFIED", "RESOLVED", "FAILED"}
        => row'[op] \notin {"QUEUED", "APPROVAL_REQUIRED"}
<1>1. IInv /\ [Next]_vars => [Settled]_row
  BY RowsStaySettled DEF vars
<1>2. QED
  BY <1>1, ChannelOpsInvariant, PTL DEF Spec, NeverReopened
=============================================================================
