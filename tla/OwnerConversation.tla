-------------------------- MODULE OwnerConversation --------------------------
(***************************************************************************)
(* The owner's WhatsApp conversation of packages/notifications/            *)
(* resolution.py over the approvals of OwnerDecisions: the idempotency of  *)
(* an inbound message, the one WhatsAppConversationState row, menu,        *)
(* resume, disambiguation, decision, price edit and the questions of       *)
(* product onboarding.                                                     *)
(*                                                                         *)
(* A message is one call of handle_inbound: it reads the conversation row, *)
(* puts it at once (last_interaction_at), and every later put writes the   *)
(* whole row it read.  A message may be delivered any number of times, and *)
(* two may be handled at the same time.                                    *)
(*                                                                         *)
(* Left out: the wording, briefings and answers that change no state, the  *)
(* explanations of the AI, the older free-text reply to a missing field.   *)
(* The transport reports a failed send and does not raise.                 *)
(***************************************************************************)
EXTENDS OwnerDecisions, Sequences

CONSTANTS
  Messages,      \* provider message ids
  Texts,         \* what the owner may write: [word, ref]
  Drafts,        \* ProductDraft ids, in the order of sync.observed_at
  Questions      \* onboarding steps 1..Questions, asked in this order

Words == {"menu", "resume", "approve", "reject", "later", "cancel", "other",
          "1", "2", "4", "5", "6"}
Numbers == {"1", "2", "4", "5", "6"}
Value == [n \in Numbers |-> CHOOSE i \in 1..6 : <<"1", "2", "3", "4", "5", "6">>[i] = n]

ASSUME ConversationAssumption ==
  /\ Texts \subseteq [word : Words, ref : Approvals \cup {None}]
  /\ Drafts \subseteq Nat /\ Questions \in Nat
  /\ None \notin Messages \cup Drafts

VARIABLES
  conv,       \* the WhatsAppConversationState row, or None
  key,        \* idempotency records of the messages
  text,       \* what a message says
  draft,      \* ProductDraft rows: [open, done]
  chat,       \* [Calls -> [msg, text, conv, target, row, next]], what a handler holds
  decisions,  \* history: decisions put while handling a message
  raised      \* history: messages whose handling raised after a decision

talk == <<conv, key, text, draft>>
history == <<decisions, raised>>
allVars == <<vars, talk, chat, history>>

Contexts == {"none", "main_menu", "approval_decision", "approval_disambiguation",
             "approval_edit", "stock_issue_detail", "product_onboarding"}
ConvRows ==
  [context : Contexts, approval : Approvals \cup {None}, draft : Drafts \cup {None},
   step : (1..Questions) \cup {None}, ids : Seq(Approvals),
   paused : {None, "approval_decision", "product_onboarding"}, old : BOOLEAN]

ConversationTypeOK ==
  /\ TypeOK
  /\ conv \in ConvRows \cup {None}
  /\ key \in [Messages -> {"free", "reserved", "completed"}]
  /\ text \in [Messages -> Texts \cup {None}]
  /\ draft \in [Drafts -> [open : BOOLEAN, done : SUBSET (1..Questions)]]
  /\ \A c \in Calls : chat[c].conv \in ConvRows \cup {None}

Fresh == [context |-> "none", approval |-> None, draft |-> None, step |-> None,
          ids |-> <<>>, paused |-> None, old |-> FALSE]
Silent == [msg |-> None, text |-> None, conv |-> None, target |-> None,
           row |-> None, next |-> "complete"]

\* The conversation may have begun: at the menu, or at the pending decision.
Earlier ==
  {None, [Fresh EXCEPT !.context = "main_menu"]} \cup
  [context : {"approval_decision"}, approval : Requested, draft : {None}, step : {None},
   ids : {<<>>}, paused : {None}, old : {FALSE}]

ConversationInit ==
  /\ Init
  /\ conv \in Earlier
  /\ key = [m \in Messages |-> "free"]
  /\ text = [m \in Messages |-> None]
  /\ draft = [d \in Drafts |-> [open |-> TRUE, done |-> {}]]
  /\ chat = [c \in Calls |-> Silent]
  /\ decisions = [m \in Messages |-> 0]
  /\ raised = {}

rows == <<approval, world, dispatched, redecided, missed>>
Word(c) == chat[c].text.word
Held(c) == chat[c].conv

-----------------------------------------------------------------------------
(* A message arrives.                                                      *)

\* The row as it is read: reset when its time has passed.
ReadRow ==
  IF conv = None THEN Fresh
  ELSE IF conv.old THEN [Fresh EXCEPT !.paused = conv.paused] ELSE conv

\* The key is reserved, the sender is looked up and the row is read; one without
\* an active contact is turned away.  Nothing in between can be seen elsewhere.
Take(c, m) ==
  \E t \in Texts :
    /\ text[m] \in {None, t}
    /\ text' = [text EXCEPT ![m] = t]
    /\ key' = [key EXCEPT ![m] = "reserved"]
    /\ chat' = [chat EXCEPT ![c] = [Silent EXCEPT !.msg = m, !.text = t, !.conv = ReadRow]]
    /\ Start(c, [Idle EXCEPT !.pc = IF contact THEN "touch" ELSE "release"])

\* A fault of Receive: a message that is known is handled again.
ReceiveAgain(c, m) == Take(c, m) /\ UNCHANGED <<rows, conv, draft, history>>

\* run_once: a key that is completed is answered from its record, and one that
\* is reserved is waited for and then given up.
Receive(c, m) ==
  /\ key[m] = "free"
  /\ Take(c, m)
  /\ UNCHANGED <<rows, conv, draft, history>>

\* run_once: the reservation of a handler that raised is released.
Release(c) ==
  /\ At(c, "release")
  /\ key' = [key EXCEPT ![chat[c].msg] = "free"]
  /\ chat' = [chat EXCEPT ![c] = Silent]
  /\ Continue(c, "idle")
  /\ UNCHANGED <<rows, conv, text, draft, history>>

\* The result is recorded: what the message said does not matter any more.
Completed(c) ==
  /\ key' = [key EXCEPT ![chat[c].msg] = "completed"]
  /\ text' = [text EXCEPT ![chat[c].msg] = None]
  /\ chat' = [chat EXCEPT ![c] = Silent]
  /\ Continue(c, "idle")
Complete(c) ==
  /\ At(c, "complete")
  /\ Completed(c)
  /\ UNCHANGED <<rows, conv, draft, history>>

Touch(c) ==
  /\ At(c, "touch")
  /\ conv' = Held(c)
  /\ Goto(c, "handle")
  /\ UNCHANGED <<rows, key, text, draft, chat, history>>

\* A handler's last put, after which its result is recorded, or a put before it
\* goes on.
PutConversation(c) ==
  /\ At(c, "put_conv")
  /\ conv' = Held(c)
  /\ IF chat[c].next = "complete" THEN Completed(c)
     ELSE Goto(c, chat[c].next) /\ UNCHANGED <<key, text, chat>>
  /\ UNCHANGED <<rows, draft, history>>

Leave(c, row) ==
  /\ chat' = [chat EXCEPT ![c].conv = row, ![c].next = "complete"]
  /\ Goto(c, "put_conv")
LeaveThen(c, row, next) ==
  /\ chat' = [chat EXCEPT ![c].conv = row, ![c].next = next, ![c].text.ref = None]
  /\ Goto(c, "put_conv")
Answer(c) == Goto(c, "complete") /\ UNCHANGED chat

-----------------------------------------------------------------------------
(* Menu, resume, main menu.                                                *)

Actionable == {a \in Approvals : Pending(a)}
OldestFirst(S) ==
  CHOOSE s \in [1..Cardinality(S) -> S] :
    \A i, j \in DOMAIN s : i < j => approval[s[i]].at < approval[s[j]].at
Incomplete == {d \in Drafts : draft[d].open}
FirstDraft == CHOOSE d \in Incomplete : \A e \in Incomplete : d <= e
NextStep(row) ==
  IF row.done = 1..Questions THEN None
  ELSE CHOOSE q \in (1..Questions) \ row.done : \A r \in (1..Questions) \ row.done : q <= r

Menu(row) == [row EXCEPT !.context = "main_menu"]
Decision(row, a) == [row EXCEPT !.context = "approval_decision", !.approval = a]
Onboarding(row, d) ==
  [row EXCEPT !.context = "product_onboarding", !.draft = d, !.step = NextStep(draft[d])]
Nothing(row) == [row EXCEPT !.context = "none", !.approval = None]

\* A fault of Decisions: a single one is a list, too.
DecisionsListed(row) ==
  IF Actionable = {} THEN Menu(row)
  ELSE [row EXCEPT !.context = "approval_disambiguation", !.ids = OldestFirst(Actionable)]

\* Decisions waiting for approval, one or a list.
Decisions(row) ==
  IF Actionable = {} THEN Menu(row)
  ELSE IF Cardinality(Actionable) = 1 THEN Decision(row, OldestFirst(Actionable)[1])
  ELSE [row EXCEPT !.context = "approval_disambiguation", !.ids = OldestFirst(Actionable)]

HandleMenu(c) ==
  LET h == Held(c) IN
  /\ At(c, "handle") /\ Word(c) = "menu"
  /\ Leave(c, [Menu(h) EXCEPT !.paused =
       IF h.context = "approval_decision" /\ h.approval # None /\ Pending(h.approval)
       THEN "approval_decision"
       ELSE IF h.context = "product_onboarding" /\ h.draft # None /\ draft[h.draft].open
       THEN "product_onboarding"
       ELSE @])
  /\ UNCHANGED <<rows, talk, history>>

\* The approval goes first, whichever of the two was paused.
Resumed(h) ==
  IF h.paused = "approval_decision" \/ h.approval # None
  THEN IF h.approval # None /\ Pending(h.approval) THEN Decision(h, h.approval) ELSE Menu(h)
  ELSE IF h.draft # None /\ draft[h.draft].open /\ NextStep(draft[h.draft]) # None
       THEN Onboarding(h, h.draft) ELSE Menu(h)

HandleResume(c) ==
  /\ At(c, "handle") /\ Word(c) = "resume"
  /\ Leave(c, Resumed(Held(c)))
  /\ UNCHANGED <<rows, talk, history>>

In(c, context) ==
  At(c, "handle") /\ Word(c) \notin {"menu", "resume"} /\ Held(c).context = context

\* ApprovalService.resolve on behalf of a message.
Resolve(c, a, decision, then) ==
  /\ call' = [call EXCEPT ![c] = [Idle EXCEPT !.pc = "read", !.id = a,
                !.decision = decision, !.then = then, !.otherwise = "release"]]
  /\ chat' = [chat EXCEPT ![c].target = a]

\* "Approve" alone, when exactly one decision is pending.
Shortcut(c) == Word(c) = "approve" /\ chat[c].text.ref = None

HandleMainMenu(c) ==
  LET h == Held(c) IN
  /\ In(c, "main_menu")
  /\ \/ /\ Shortcut(c) /\ Cardinality(Actionable) = 1
        /\ Resolve(c, OldestFirst(Actionable)[1], "approved", "resolved")
     \/ /\ Word(c) = "2" \/ (Shortcut(c) /\ Cardinality(Actionable) # 1)
        /\ Leave(c, Decisions(h))
     \/ Word(c) \in {"1", "5"} /\ Leave(c, Menu(h))
     \/ /\ Word(c) = "4"
        /\ \/ Leave(c, [h EXCEPT !.context = "stock_issue_detail"])
           \/ Leave(c, Menu(h))
     \/ /\ Word(c) = "6"
        /\ Leave(c, IF Incomplete # {} THEN Onboarding(h, FirstDraft) ELSE Menu(h))
     \/ Word(c) \in {"approve", "reject", "later", "cancel", "other"}
        /\ ~ Shortcut(c) /\ Answer(c)
  /\ UNCHANGED <<rows, talk, history>>

ResolvedFromMenu(c) ==
  /\ At(c, "resolved")
  /\ Leave(c, Menu(Held(c)))
  /\ UNCHANGED <<rows, talk, history>>

HandleStockIssue(c) ==
  /\ In(c, "stock_issue_detail")
  /\ IF Word(c) = "1" THEN Leave(c, Menu(Held(c))) ELSE Answer(c)
  /\ UNCHANGED <<rows, talk, history>>

HandleDisambiguation(c) ==
  LET h == Held(c)
      chosen == {i \in DOMAIN h.ids : Word(c) \in Numbers /\ Value[Word(c)] = i} IN
  /\ In(c, "approval_disambiguation")
  /\ IF chosen # {}
     THEN Leave(c, [Decision(h, h.ids[CHOOSE i \in chosen : TRUE]) EXCEPT !.ids = <<>>])
     ELSE IF Word(c) = "cancel" THEN Leave(c, [Menu(h) EXCEPT !.ids = <<>>])
     ELSE Answer(c)
  /\ UNCHANGED <<rows, talk, history>>

-----------------------------------------------------------------------------
(* The active decision.                                                    *)

Refers(c) == chat[c].text.ref \notin {None, Held(c).approval}
Verdict(word) ==
  IF word \in {"1", "approve"} THEN "approved"
  ELSE IF word \in {"2", "reject"} THEN "denied" ELSE None

\* What a reply to the decision a does.
Decide(c, a) ==
  \/ Verdict(Word(c)) # None /\ Resolve(c, a, Verdict(Word(c)), "advance")
  \/ Word(c) \in {"4", "later"} /\ Leave(c, Nothing(Held(c)))
  \/ /\ Word(c) = "5" /\ a \notin OrderFlow
     /\ Leave(c, [Held(c) EXCEPT !.context = "approval_edit"])
  \/ Word(c) = "5" /\ a \in OrderFlow /\ Answer(c)
  \/ Word(c) \in {"6", "cancel", "other"} /\ Answer(c)

HandleDecision(c) ==
  LET h == Held(c)  a == h.approval IN
  /\ In(c, "approval_decision")
  /\ IF a = None \/ ~ Pending(a) THEN Leave(c, Nothing(h))
     ELSE IF Refers(c)
     THEN IF Pending(chat[c].text.ref)
          THEN LeaveThen(c, Decision(h, chat[c].text.ref), "referred")
          ELSE Answer(c)
     ELSE Decide(c, a)
  /\ UNCHANGED <<rows, talk, history>>

\* A reply that names another pending decision made that one active first.
HandleReferred(c) ==
  /\ At(c, "referred")
  /\ Decide(c, Held(c).approval)
  /\ UNCHANGED <<rows, talk, history>>

\* After the decision: the next pending approval, if any.
Advance(c) ==
  LET remaining == Actionable \ {chat[c].target} IN
  /\ At(c, "advance")
  /\ Leave(c, IF remaining = {} THEN Nothing(Held(c))
              ELSE Decision(Held(c), OldestFirst(remaining)[1]))
  /\ UNCHANGED <<rows, talk, history>>

\* Any number is a price.
HandleEdit(c) ==
  LET h == Held(c)  a == h.approval IN
  /\ In(c, "approval_edit")
  /\ IF Word(c) = "cancel" THEN Leave(c, Decision(h, a))
     ELSE IF Word(c) \notin Numbers THEN Answer(c)
     ELSE IF ~ Pending(a) THEN Leave(c, Nothing(h))
     ELSE /\ call' = [call EXCEPT ![c].pc = "put_edit", ![c].id = a,
                                  ![c].held = approval[a]]
          /\ UNCHANGED chat
  /\ UNCHANGED <<rows, talk, history>>

PutEdit(c) ==
  /\ At(c, "put_edit")
  /\ approval' = [approval EXCEPT ![call[c].id] = call[c].held]
  /\ missed' = (missed \/ approval[call[c].id].status # call[c].held.status)
  /\ Resolve(c, call[c].id, "approved", "advance")
  /\ UNCHANGED <<world, dispatched, redecided, talk, history>>

-----------------------------------------------------------------------------
(* The questions of product onboarding.                                    *)

HandleOnboarding(c) ==
  LET h == Held(c)
      step == IF h.step # None THEN h.step ELSE NextStep(draft[h.draft]) IN
  /\ In(c, "product_onboarding")
  /\ IF h.draft = None THEN Leave(c, [h EXCEPT !.context = "none"])
     ELSE IF step = None THEN Leave(c, [h EXCEPT !.context = "none", !.draft = None])
     ELSE \/ Answer(c)
          \/ /\ chat' = [chat EXCEPT ![c].row =
                           [draft[h.draft] EXCEPT !.done = @ \cup {step}]]
             /\ Goto(c, "put_draft")
  /\ UNCHANGED <<rows, talk, history>>

\* The step's answer is put and validated; then the next question is asked.
PutDraft(c) ==
  LET h == Held(c)  row == chat[c].row IN
  /\ At(c, "put_draft")
  /\ draft' = [draft EXCEPT ![h.draft] = row]
  /\ IF NextStep(row) # None THEN Leave(c, [h EXCEPT !.step = NextStep(row)])
     ELSE Goto(c, "publish") /\ UNCHANGED chat
  /\ UNCHANGED <<rows, conv, key, text, history>>

\* auto_publish_after_resolution: published, or left open by a rule that asks
\* no question here.
Publish(c) ==
  /\ At(c, "publish")
  /\ \E open \in BOOLEAN : draft' = [draft EXCEPT ![Held(c).draft].open = open]
  /\ Goto(c, "next_draft")
  /\ UNCHANGED <<rows, conv, key, text, chat, history>>

NextDraft(c) ==
  LET h == Held(c)  others == Incomplete \ {h.draft} IN
  /\ At(c, "next_draft")
  /\ Leave(c, IF others = {}
              THEN [h EXCEPT !.context = "none", !.draft = None, !.step = None]
              ELSE Onboarding(h, CHOOSE d \in others : \A e \in others : d <= e))
  /\ UNCHANGED <<rows, talk, history>>

-----------------------------------------------------------------------------
(* Outside any context.                                                    *)

HandleCommand(c) ==
  LET h == Held(c)  ref == chat[c].text.ref IN
  /\ In(c, "none") /\ Word(c) \in {"approve", "reject", "later"}
  /\ \/ /\ ref # None /\ Pending(ref)
        /\ LeaveThen(c, Decision(h, ref), "handle")
     \/ ref # None /\ ~ Pending(ref) /\ Goto(c, "release") /\ UNCHANGED chat
     \/ /\ ref = None /\ Cardinality(Actionable) = 1
        /\ LeaveThen(c, Decisions(h), "handle")
     \/ ref = None /\ Cardinality(Actionable) > 1 /\ Leave(c, Decisions(h))
     \/ /\ ref = None /\ Actionable = {} /\ Incomplete # {}
        /\ LeaveThen(c, Onboarding(h, FirstDraft), "handle")
     \/ ref = None /\ Actionable = {} /\ Incomplete = {} /\ Answer(c)
  /\ UNCHANGED <<rows, talk, history>>

\* A number means nothing here, another text is rejected.
HandleUnscoped(c) ==
  /\ In(c, "none") /\ Word(c) \notin {"approve", "reject", "later"}
  /\ IF Word(c) \in Numbers THEN Answer(c) ELSE Goto(c, "release") /\ UNCHANGED chat
  /\ UNCHANGED <<rows, talk, history>>

-----------------------------------------------------------------------------
HandlerStep(c) ==
  \/ Release(c) \/ Complete(c) \/ Touch(c)
  \/ PutConversation(c) \/ HandleMenu(c) \/ HandleResume(c) \/ HandleMainMenu(c)
  \/ ResolvedFromMenu(c) \/ HandleStockIssue(c) \/ HandleDisambiguation(c)
  \/ HandleDecision(c) \/ HandleReferred(c) \/ Advance(c) \/ HandleEdit(c) \/ PutEdit(c)
  \/ HandleOnboarding(c) \/ PutDraft(c) \/ Publish(c) \/ NextDraft(c)
  \/ HandleCommand(c) \/ HandleUnscoped(c)

\* A step of OwnerDecisions, for a message or not.
DecisionStep(c) ==
  /\ Step(c)
  /\ decisions' = [m \in Messages |->
       decisions[m] + IF m = chat[c].msg /\ At(c, "decide") THEN 1 ELSE 0]
  /\ raised' = raised \cup
       {m \in Messages : m = chat[c].msg /\ At(c, "dispatch") /\ call'[c].pc = "release"}
  /\ UNCHANGED <<talk, chat>>

ConversationExpires ==
  /\ conv # None /\ ~ conv.old
  /\ conv' = [conv EXCEPT !.old = TRUE]
  /\ UNCHANGED <<rows, call, key, text, draft, chat, history>>

HandlerDies(c) ==
  /\ Die(c)
  /\ chat' = [chat EXCEPT ![c] = Silent]
  /\ UNCHANGED <<talk, history>>

\* Messages that never arrived are interchangeable: one of them comes next.
Unseen == {m \in Messages : text[m] = None /\ key[m] = "free"}
Arriving == {m \in Messages : m \in Unseen => m = CHOOSE u \in Unseen : TRUE}

ConversationNext ==
  \/ begun < MaxBegun /\ begun' = begun + 1
       /\ \/ \E c \in Calls : Taken(c) /\ Begin(c) /\ UNCHANGED <<talk, chat, history>>
          \/ \E c \in Calls, m \in Arriving : Taken(c) /\ Receive(c, m)
          \/ ChangeContact /\ UNCHANGED <<talk, chat, history>>
          \/ (\E a \in Approvals : Expire(a)) /\ UNCHANGED <<talk, chat, history>>
          \/ ConversationExpires
  \/ \E c \in Calls :
       (HandlerStep(c) \/ DecisionStep(c) \/ HandlerDies(c)) /\ UNCHANGED begun

ConversationSpec == ConversationInit /\ [][ConversationNext]_allVars

-----------------------------------------------------------------------------
(* Properties.                                                             *)

\* Whatever handlers overwrite each other, the row never waits for a reply about
\* nothing: a decision, an edit, a choice or a question has its object, and every
\* part of the row its type.
ContextHasObject ==
  /\ ConversationTypeOK
  /\ conv # None =>
       /\ conv.context \in {"approval_decision", "approval_edit"} => conv.approval # None
       /\ conv.context = "approval_disambiguation" => Len(conv.ids) > 1
       /\ conv.context = "product_onboarding" => conv.draft # None

\* However often a message is delivered, it decides one approval at most, unless
\* the dispatch of its decision raised and the message was released.
OneDecisionPerMessage ==
  \A m \in Messages : decisions[m] > 1 => m \in raised
=============================================================================
