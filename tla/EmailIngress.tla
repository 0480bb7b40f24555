----------------------------- MODULE EmailIngress -----------------------------
(***************************************************************************)
(* The way of a mail from the Gmail mailbox to product onboarding: Gmail's *)
(* notifications through Pub/Sub, the subscriber's threads with the        *)
(* history checkpoint they share (packages/gmail_watch), the ingest        *)
(* endpoint (apps/api/app.py email_ingest) and the idempotent ingestion    *)
(* behind it (packages/email_ingress/service.py).                          *)
(*                                                                         *)
(* Mail i has history id i; its notification carries that id.  Pub/Sub     *)
(* delivers a notification until one of its deliveries is acknowledged,    *)
(* also while another delivery is handled.  The subscriber and the server  *)
(* are two processes, and each may die and restart.                        *)
(*                                                                         *)
(* The Gmail client raises googleapiclient's HttpError (list_history says  *)
(* so), no exception of google.api_core: a failed call of Gmail, and a     *)
(* checkpoint Gmail has forgotten, end in the handler of every other       *)
(* exception, which acknowledges.                                          *)
(*                                                                         *)
(* Left out: what is ingested (ProductOnboarding), latency reports, audit, *)
(* OAuth.                                                                  *)
(***************************************************************************)
EXTENDS Integers, FiniteSets

CONSTANTS
  Mails,          \* 1..n, in the order of arrival
  Letter,         \* [Mails -> [attached, trusted, to, safe]]
  Tenants,        \* ROUTING_SLUG_TO_MERCHANT
  Threads,        \* callback threads of the subscriber
  Requests,       \* request slots of the server
  MaxDeliveries,  \* bound: deliveries of notifications
  MaxFaults,      \* bound: failures, deaths, expiries and renewals
  None

ASSUME IngressAssumption ==
  /\ IsFiniteSet(Mails) /\ Mails = 1..Cardinality(Mails)
  /\ Letter \in [Mails -> [attached : BOOLEAN, trusted : BOOLEAN,
                           to : SUBSET Tenants, safe : BOOLEAN]]
  /\ MaxDeliveries \in Nat /\ MaxFaults \in Nat
  /\ None \notin Nat \cup Threads \cup Requests

VARIABLES
  arrived,     \* the mailbox's history id
  forgotten,   \* Gmail keeps no history from here down
  message,     \* notifications: "unsent", "pending" or "settled"
  checkpoint,  \* gmail_watch_state.history_id
  renewal,     \* the history id watch() returned to the renewal, until it is saved
  lock,        \* _checkpoint_lock
  noteKey,     \* idempotency records gmail_pubsub_notification
  mailKey,     \* idempotency records gmail_message_processed
  call,        \* [Threads -> [pc, note, mail, latest, request]]
  ingestKey,   \* idempotency records of the ingestion
  ingested,    \* how often the mail's attachment was ingested
  failedLate,  \* history: how often an ingestion of the mail failed after its effect
  request,     \* [Requests -> [pc, mail]]
  passedOver,  \* history: mails that no key will let through any more, or skipped
  overlooked,  \* history: a notification was acknowledged though it was not handled
  delivered, faults

gmail == <<arrived, forgotten>>
cursor == <<checkpoint, renewal>>
ingestion == <<ingested, failedLate>>
server == <<ingestKey, ingestion, request>>
counters == <<delivered, faults>>
vars == <<arrived, forgotten, message, checkpoint, renewal, lock, noteKey, mailKey,
          call, ingestKey, ingestion, request, passedOver, overlooked,
          delivered, faults>>

Keys == {"free", "reserved", "completed"}
ThreadPcs == {"idle", "wait", "lock", "list", "mail", "fetch", "post", "answer",
              "handled", "complete", "ack"}

TypeOK ==
  /\ arrived \in Mails \cup {0} /\ forgotten \in 0..arrived
  /\ checkpoint \in 0..arrived
  /\ renewal \in (0..arrived) \cup {None}
  /\ message \in [Mails -> {"unsent", "pending", "settled"}]
  /\ lock \in Threads \cup {None}
  /\ noteKey \in [Mails -> Keys] /\ mailKey \in [Mails -> Keys]
  /\ ingestKey \in [Mails -> Keys] /\ ingested \in [Mails -> Nat]
  /\ failedLate \in [Mails -> Nat]
  /\ call \in [Threads -> [pc : ThreadPcs, note : Mails \cup {None}, mail : Nat,
                           latest : Nat, request : Requests \cup {None}]]
  /\ request \in [Requests -> [pc : {"idle", "route", "reserve", "ingest", "complete", "done"},
                               mail : Mails \cup {None}]]
  /\ passedOver \subseteq Mails /\ overlooked \in BOOLEAN
  /\ delivered \in 0..MaxDeliveries /\ faults \in 0..MaxFaults

Idle == [pc |-> "idle", note |-> None, mail |-> 0, latest |-> 0, request |-> None]
NoRequest == [pc |-> "idle", mail |-> None]

\* The bootstrap has registered the watch on the mailbox.
Init ==
  /\ arrived = 0 /\ forgotten = 0
  /\ message = [n \in Mails |-> "unsent"]
  /\ checkpoint = 0 /\ renewal = None
  /\ lock = None
  /\ noteKey = [n \in Mails |-> "free"] /\ mailKey = [m \in Mails |-> "free"]
  /\ call = [t \in Threads |-> Idle]
  /\ ingestKey = [m \in Mails |-> "free"]
  /\ ingested = [m \in Mails |-> 0] /\ failedLate = [m \in Mails |-> 0]
  /\ request = [r \in Requests |-> NoRequest]
  /\ passedOver = {} /\ overlooked = FALSE
  /\ delivered = 0 /\ faults = 0

At(t, pc) == call[t].pc = pc
Goto(t, pc) == call' = [call EXCEPT ![t].pc = pc]
Fault == faults < MaxFaults /\ faults' = faults + 1 /\ UNCHANGED delivered

-----------------------------------------------------------------------------
(* Gmail and Pub/Sub.                                                      *)

MailArrives ==
  /\ arrived + 1 \in Mails
  /\ arrived' = arrived + 1
  /\ message' = [message EXCEPT ![arrived + 1] = "pending"]
  /\ UNCHANGED <<forgotten, cursor, lock, noteKey, mailKey, call, server,
                 passedOver, overlooked, counters>>

\* History is kept for about a week; nothing older can be listed any more.
HistoryExpires ==
  /\ forgotten < arrived /\ forgotten' = arrived
  /\ Fault
  /\ UNCHANGED <<arrived, message, cursor, lock, noteKey, mailKey, call, server,
                 passedOver, overlooked>>

\* Idle threads are interchangeable: a delivery takes one of them.
Taken(t) == At(t, "idle") /\ t = CHOOSE u \in Threads : At(u, "idle")

\* run_once on the notification: a known one waits for its result.
Deliver(t, n) ==
  /\ Taken(t)
  /\ message[n] = "pending"
  /\ delivered < MaxDeliveries /\ delivered' = delivered + 1
  /\ call' = [call EXCEPT ![t] = [Idle EXCEPT !.note = n,
                !.pc = IF noteKey[n] = "free" THEN "lock" ELSE "wait"]]
  /\ noteKey' = [noteKey EXCEPT ![n] = IF @ = "free" THEN "reserved" ELSE @]
  /\ UNCHANGED <<gmail, message, cursor, lock, mailKey, server, passedOver,
                 overlooked, faults>>

\* Completed meanwhile or not after five seconds, the duplicate is acknowledged.
WaitForNotification(t) ==
  /\ At(t, "wait")
  /\ overlooked' = (overlooked \/ noteKey[call[t].note] # "completed")
  /\ Goto(t, "ack")
  /\ UNCHANGED <<gmail, message, cursor, lock, noteKey, mailKey, server,
                 passedOver, counters>>

Acknowledge(t) ==
  /\ At(t, "ack")
  /\ message' = [message EXCEPT ![call[t].note] = "settled"]
  /\ call' = [call EXCEPT ![t] = Idle]
  /\ UNCHANGED <<gmail, cursor, lock, noteKey, mailKey, server, passedOver,
                 overlooked, counters>>

-----------------------------------------------------------------------------
(* One notification (_handle_notification), under the lock.                *)

TakeLock(t) ==
  /\ At(t, "lock") /\ lock = None
  /\ lock' = t
  /\ call' = [call EXCEPT ![t].pc = "list", ![t].mail = checkpoint]
  /\ UNCHANGED <<gmail, message, cursor, noteKey, mailKey, server, passedOver,
                 overlooked, counters>>

\* The mails since the checkpoint, and the mailbox's history id.
ListHistory(t) ==
  /\ At(t, "list") /\ forgotten <= call[t].mail
  /\ call' = [call EXCEPT ![t].pc = "mail", ![t].latest = arrived, ![t].mail = @ + 1]
  /\ UNCHANGED <<gmail, message, cursor, lock, noteKey, mailKey, server, passedOver,
                 overlooked, counters>>

\* A fault of Raise: the lock is not released.
RaiseLocked(t) ==
  /\ noteKey' = [noteKey EXCEPT ![call[t].note] = "free"]
  /\ mailKey' = [m \in Mails |->
                   IF m = call[t].mail /\ call[t].pc \in {"fetch", "post", "answer"}
                   THEN "free" ELSE mailKey[m]]
  /\ UNCHANGED lock

\* A handler that raises releases the lock, the mail it holds and the notification.
Raise(t) ==
  /\ lock' = None
  /\ noteKey' = [noteKey EXCEPT ![call[t].note] = "free"]
  /\ mailKey' = [m \in Mails |->
                   IF m = call[t].mail /\ call[t].pc \in {"fetch", "post", "answer"}
                   THEN "free" ELSE mailKey[m]]

\* Every exception of Gmail's client: logged and acknowledged.
AcknowledgeFailure(t) ==
  /\ Raise(t)
  /\ overlooked' = TRUE
  /\ Goto(t, "ack")

\* _TransientGmailError: the notification will be delivered again.
Nack(t) ==
  /\ Raise(t)
  /\ call' = [call EXCEPT ![t] = Idle]
  /\ UNCHANGED overlooked

HistoryIsForgotten(t) ==
  /\ At(t, "list") /\ call[t].mail < forgotten
  /\ AcknowledgeFailure(t)
  /\ UNCHANGED <<gmail, message, cursor, server, passedOver, counters>>

GmailFails(t) ==
  /\ call[t].pc \in {"list", "fetch"}
  /\ Fault
  /\ AcknowledgeFailure(t)
  /\ UNCHANGED <<gmail, message, cursor, server, passedOver>>

\* run_once on the mail.  Only the holder of the lock reserves one: a key that is
\* reserved was left by a process that died, and its result never comes.
ReserveMail(t) ==
  LET m == call[t].mail IN
  /\ At(t, "mail") /\ m <= call[t].latest
  /\ IF mailKey[m] = "free"
     THEN mailKey' = [mailKey EXCEPT ![m] = "reserved"] /\ Goto(t, "fetch")
     ELSE call' = [call EXCEPT ![t].mail = m + 1] /\ UNCHANGED mailKey
  /\ UNCHANGED <<gmail, message, cursor, lock, noteKey, server, passedOver,
                 overlooked, counters>>

FetchMessage(t) ==
  /\ At(t, "fetch")
  /\ Goto(t, IF Letter[call[t].mail].attached THEN "post" ELSE "handled")
  /\ UNCHANGED <<gmail, message, cursor, lock, noteKey, mailKey, server, passedOver,
                 overlooked, counters>>

Post(t) ==
  /\ At(t, "post")
  /\ \E r \in Requests :
       /\ request[r].pc = "idle"
       /\ r = CHOOSE s \in Requests : request[s].pc = "idle"
       /\ request' = [request EXCEPT ![r] = [pc |-> "route", mail |-> call[t].mail]]
       /\ call' = [call EXCEPT ![t].pc = "answer", ![t].request = r]
  /\ UNCHANGED <<gmail, message, cursor, lock, noteKey, mailKey, ingestKey, ingestion,
                 passedOver, overlooked, counters>>

\* A fault of PostFails: the mail counts as handled.
PostFailsHandled(t) ==
  /\ call[t].pc \in {"post", "answer"}
  /\ Fault
  /\ call' = [call EXCEPT ![t].pc = "handled", ![t].request = None]
  /\ request' = [r \in Requests |->
                   IF r = call[t].request /\ request[r].pc = "done"
                   THEN NoRequest ELSE request[r]]
  /\ UNCHANGED <<gmail, message, cursor, lock, noteKey, mailKey, ingestKey, ingestion,
                 passedOver, overlooked>>

\* The server is not reached, or does not answer in time: it may go on.
PostFails(t) ==
  /\ call[t].pc \in {"post", "answer"}
  /\ Fault
  /\ Nack(t)
  /\ request' = [r \in Requests |->
                   IF r = call[t].request /\ request[r].pc = "done"
                   THEN NoRequest ELSE request[r]]
  /\ UNCHANGED <<gmail, message, cursor, ingestKey, ingestion, passedOver>>

\* Whatever the status code, the mail has been handled.
TakeAnswer(t) ==
  /\ At(t, "answer") /\ request[call[t].request].pc = "done"
  /\ request' = [request EXCEPT ![call[t].request] = NoRequest]
  /\ call' = [call EXCEPT ![t].pc = "handled", ![t].request = None]
  /\ UNCHANGED <<gmail, message, cursor, lock, noteKey, mailKey, ingestKey, ingestion,
                 passedOver, overlooked, counters>>

CompleteMail(t) ==
  /\ At(t, "handled")
  /\ mailKey' = [mailKey EXCEPT ![call[t].mail] = "completed"]
  /\ call' = [call EXCEPT ![t].pc = "mail", ![t].mail = @ + 1]
  /\ UNCHANGED <<gmail, message, cursor, lock, noteKey, server, passedOver,
                 overlooked, counters>>

\* A fault of SaveCheckpoint: the mailbox is asked again for its history id.
SaveLatest(t) ==
  /\ At(t, "mail") /\ call[t].mail > call[t].latest
  /\ checkpoint' = arrived
  /\ lock' = None
  /\ Goto(t, "complete")
  /\ UNCHANGED <<gmail, message, renewal, noteKey, mailKey, server, passedOver,
                 overlooked, counters>>

\* After the last mail of the batch.
SaveCheckpoint(t) ==
  /\ At(t, "mail") /\ call[t].mail > call[t].latest
  /\ checkpoint' = call[t].latest
  /\ lock' = None
  /\ Goto(t, "complete")
  /\ UNCHANGED <<gmail, message, renewal, noteKey, mailKey, server, passedOver,
                 overlooked, counters>>

CompleteNotification(t) ==
  /\ At(t, "complete")
  /\ noteKey' = [noteKey EXCEPT ![call[t].note] = "completed"]
  /\ Goto(t, "ack")
  /\ UNCHANGED <<gmail, message, cursor, lock, mailKey, server, passedOver,
                 overlooked, counters>>

-----------------------------------------------------------------------------
(* The renewal of the watch, which takes no lock.                          *)

RenewWatch ==
  /\ renewal = None
  /\ renewal' = arrived
  /\ Fault
  /\ UNCHANGED <<gmail, message, checkpoint, lock, noteKey, mailKey, call, server,
                 passedOver, overlooked>>

\* The mails between the old checkpoint and the new one will not be listed.
SaveRenewal ==
  /\ renewal # None
  /\ checkpoint' = renewal
  /\ renewal' = None
  /\ passedOver' = passedOver \cup
       {m \in Mails : m <= renewal /\ mailKey[m] # "completed"}
  /\ UNCHANGED <<gmail, message, lock, noteKey, mailKey, call, server,
                 overlooked, counters>>

-----------------------------------------------------------------------------
(* The server (email_ingest, ingest_email_attachment).                     *)

Serving(r, pc) == request[r].pc = pc
ServeNext(r, pc) == request' = [request EXCEPT ![r].pc = pc]
TheMail(r) == request[r].mail

\* Nobody waits any more for the answer of a request that timed out.
Answered(r) ==
  request' = [request EXCEPT ![r] =
    IF \E t \in Threads : call[t].request = r THEN [@ EXCEPT !.pc = "done"] ELSE NoRequest]

\* resolve_merchant_from_routing: a trusted sender and exactly one tenant.
Routed(m) == Letter[m].trusted /\ Cardinality(Letter[m].to) = 1

\* The routing and validate_attachment_safety; anything else is refused.
Route(r) ==
  /\ Serving(r, "route")
  /\ IF Routed(TheMail(r)) /\ Letter[TheMail(r)].safe
     THEN ServeNext(r, "reserve") ELSE Answered(r)
  /\ UNCHANGED <<gmail, message, cursor, lock, noteKey, mailKey, call, ingestKey, ingestion,
                 passedOver, overlooked, counters>>

\* A fault of ReserveIngestion: message and attachment are not looked up.
ReserveAgain(r) ==
  /\ Serving(r, "reserve")
  /\ ingestKey' = [ingestKey EXCEPT ![TheMail(r)] = "reserved"]
  /\ ServeNext(r, "ingest")
  /\ UNCHANGED <<gmail, message, cursor, lock, noteKey, mailKey, call, ingestion,
                 passedOver, overlooked, counters>>

\* run_once: replayed, or waited for and answered as an error.
ReserveIngestion(r) ==
  /\ Serving(r, "reserve")
  /\ IF ingestKey[TheMail(r)] = "free"
     THEN /\ ingestKey' = [ingestKey EXCEPT ![TheMail(r)] = "reserved"]
          /\ ServeNext(r, "ingest")
     ELSE Answered(r) /\ UNCHANGED ingestKey
  /\ UNCHANGED <<gmail, message, cursor, lock, noteKey, mailKey, call, ingestion,
                 passedOver, overlooked, counters>>

Ingest(r) ==
  /\ Serving(r, "ingest")
  /\ ingested' = [ingested EXCEPT ![TheMail(r)] = @ + 1]
  /\ ServeNext(r, "complete")
  /\ UNCHANGED <<gmail, message, cursor, lock, noteKey, mailKey, call, ingestKey,
                 failedLate, passedOver, overlooked, counters>>

\* An exception anywhere makes the answer an error, which nobody looks at.  One of the
\* ingestion itself releases its key, before its effect or after some or all of it.
IngestFails(r) ==
  LET m == TheMail(r) IN
  /\ request[r].pc \in {"route", "reserve", "ingest", "complete"}
  /\ Fault
  /\ ingestKey' = IF request[r].pc \in {"ingest", "complete"}
                  THEN [ingestKey EXCEPT ![m] = "free"] ELSE ingestKey
  /\ failedLate' = IF Serving(r, "complete")
                   THEN [failedLate EXCEPT ![m] = @ + 1] ELSE failedLate
  /\ passedOver' = passedOver \cup {m}
  /\ Answered(r)
  /\ UNCHANGED <<gmail, message, cursor, lock, noteKey, mailKey, call, ingested, overlooked>>

\* complete_idempotency itself raises, and the key stays reserved.
CompletionFails(r) ==
  /\ Serving(r, "complete")
  /\ Fault
  /\ Answered(r)
  /\ UNCHANGED <<gmail, message, cursor, lock, noteKey, mailKey, call, ingestKey, ingestion,
                 passedOver, overlooked>>

CompleteIngestion(r) ==
  /\ Serving(r, "complete")
  /\ ingestKey' = [ingestKey EXCEPT ![TheMail(r)] = "completed"]
  /\ Answered(r)
  /\ UNCHANGED <<gmail, message, cursor, lock, noteKey, mailKey, call, ingestion,
                 passedOver, overlooked, counters>>

-----------------------------------------------------------------------------
(* Deaths.                                                                 *)

\* The keys of the subscriber's threads stay reserved.
SubscriberDies ==
  /\ \E t \in Threads : ~ At(t, "idle")
  /\ Fault
  /\ call' = [t \in Threads |-> Idle]
  /\ lock' = None /\ renewal' = None
  /\ request' = [r \in Requests |-> IF Serving(r, "done") THEN NoRequest ELSE request[r]]
  /\ passedOver' = passedOver \cup {m \in Mails : mailKey[m] = "reserved"}
  /\ UNCHANGED <<gmail, message, checkpoint, noteKey, mailKey, ingestKey, ingestion,
                 overlooked>>

\* Its clients see the connection break.
ServerDies ==
  /\ \E r \in Requests : request[r].pc \notin {"idle", "done"}
  /\ Fault
  /\ passedOver' = passedOver \cup {m \in Mails : ingestKey[m] = "reserved"}
  /\ request' = [r \in Requests |-> IF Serving(r, "done") THEN request[r] ELSE NoRequest]
  /\ UNCHANGED <<gmail, message, cursor, lock, noteKey, mailKey, call, ingestKey, ingestion,
                 overlooked>>

ConnectionBreaks(t) ==
  /\ At(t, "answer") /\ Serving(call[t].request, "idle")
  /\ Nack(t)
  /\ UNCHANGED <<gmail, message, cursor, server, passedOver, counters>>

-----------------------------------------------------------------------------
ThreadStep(t) ==
  \/ WaitForNotification(t) \/ Acknowledge(t)
  \/ TakeLock(t) \/ ListHistory(t) \/ HistoryIsForgotten(t)
  \/ ReserveMail(t) \/ FetchMessage(t) \/ Post(t) \/ TakeAnswer(t) \/ ConnectionBreaks(t)
  \/ CompleteMail(t) \/ SaveCheckpoint(t) \/ CompleteNotification(t)

RequestStep(r) ==
  \/ Route(r) \/ ReserveIngestion(r) \/ Ingest(r) \/ CompleteIngestion(r)

Next ==
  \/ MailArrives \/ HistoryExpires
  \/ \E t \in Threads, n \in Mails : Deliver(t, n)
  \/ \E t \in Threads : ThreadStep(t) \/ GmailFails(t) \/ PostFails(t)
  \/ \E r \in Requests : RequestStep(r) \/ IngestFails(r) \/ CompletionFails(r)
  \/ RenewWatch \/ SaveRenewal
  \/ SubscriberDies \/ ServerDies

\* Running threads and requests are scheduled; no mail has to come.
Spec ==
  /\ Init /\ [][Next]_vars
  /\ \A t \in Threads : WF_vars(ThreadStep(t))
  /\ \A r \in Requests : WF_vars(RequestStep(r))

-----------------------------------------------------------------------------
(* Properties.                                                             *)

\* However often a notification is delivered, a mail is listed or a request is
\* repeated after a lost answer, whatever fails before the effect and whoever dies: an
\* attachment is ingested once, and once more only for an ingestion that raised after
\* its effect and gave its key back.
IngestedOnce == \A m \in Mails : ingested[m] <= 1 + failedLate[m]

\* The checkpoint never passes a mail that was not handled, unless a process
\* died while it handled the mail or a renewal set the checkpoint; nor does it,
\* or any other cursor, leave its range.
CheckpointCovers ==
  /\ TypeOK
  /\ \A m \in Mails : m <= checkpoint => mailKey[m] = "completed" \/ m \in passedOver

\* No mail is lost on the way.  What was handled has been ingested, or is just
\* being, when it is meant to be and the request neither failed nor died; and
\* when no notification is left, every mail has been handled, unless a notification
\* was acknowledged without being handled.
Meant(m) == Letter[m].attached /\ Routed(m) /\ Letter[m].safe
NoMailLost ==
  /\ \A m \in Mails : mailKey[m] = "completed" /\ Meant(m) =>
       ingested[m] > 0 \/ ingestKey[m] = "reserved" \/ m \in passedOver
  /\ ~ overlooked /\ (\A n \in Mails : message[n] # "pending") =>
       \A m \in Mails : m <= arrived => mailKey[m] = "completed" \/ m \in passedOver

\* Every delivery ends, also when it waits for the lock or for the server.
DeliveriesEnd == \A t \in Threads : ~ At(t, "idle") ~> At(t, "idle")
=============================================================================
