--------------------------- MODULE EmailIngressProofs ---------------------------
(***************************************************************************)
(* For every mailbox, every number of threads and requests, and any number *)
(* of redeliveries, failures and deaths: an attachment is ingested once    *)
(* more than it failed after its effect, the checkpoint passes no mail     *)
(* that was not handled, and no mail is lost.                              *)
(*                                                                         *)
(* A reserved key tells who is responsible: the thread under the lock for  *)
(* a mail (MailKeysGood), one request for an ingestion (RequestGood); what *)
(* a dead process left reserved is passed over.  A free key tells that     *)
(* every ingestion so far failed after its effect (IngestKeysGood).  The   *)
(* thread under the lock has dealt with every mail below the one it is at  *)
(* (CallGood), because it began at a checkpoint that covers all that it    *)
(* has passed.                                                             *)
(***************************************************************************)
EXTENDS EmailIngress, FiniteSetTheorems, TLAPS

CallRows ==
  [pc : ThreadPcs, note : Mails \cup {None}, mail : Nat, latest : Nat,
   request : Requests \cup {None}]
RequestRows ==
  [pc : {"idle", "route", "reserve", "ingest", "complete", "done"}, mail : Mails \cup {None}]

Holding == {"fetch", "post", "answer", "handled"}
Listed == {"mail"} \cup Holding
Locked == {"list"} \cup Listed

Covered(m) == mailKey[m] = "completed" \/ m \in passedOver
Dealt(m) == ingested[m] > 0 \/ ingestKey[m] = "reserved" \/ m \in passedOver

Typed ==
  /\ arrived \in Mails \cup {0} /\ forgotten \in 0..arrived
  /\ checkpoint \in 0..arrived /\ renewal \in (0..arrived) \cup {None}
  /\ message \in [Mails -> {"unsent", "pending", "settled"}]
  /\ lock \in Threads \cup {None}
  /\ noteKey \in [Mails -> Keys] /\ mailKey \in [Mails -> Keys]
  /\ ingestKey \in [Mails -> Keys] /\ ingested \in [Mails -> Nat]
  /\ failedLate \in [Mails -> Nat]
  /\ call \in [Threads -> CallRows] /\ request \in [Requests -> RequestRows]
  /\ passedOver \subseteq Mails /\ overlooked \in BOOLEAN
  /\ delivered \in 0..MaxDeliveries /\ faults \in 0..MaxFaults

\* The cursor of a thread under the lock, and what lies behind it.
CursorGood(c) ==
  /\ c.pc = "list" => c.mail <= arrived /\ \A m \in Mails : m <= c.mail => Covered(m)
  /\ c.pc \in Listed =>
       /\ c.note <= c.latest /\ c.latest <= arrived
       /\ 1 <= c.mail /\ c.mail <= c.latest + 1
       /\ \A m \in Mails : m < c.mail => Covered(m)

CallGood(t) ==
  /\ call[t].pc # "idle" => call[t].note \in Mails /\ call[t].note <= arrived
  /\ call[t].pc \in Locked <=> lock = t
  /\ CursorGood(call[t])
  /\ call[t].pc \in Holding =>
       call[t].mail <= call[t].latest /\ mailKey[call[t].mail] = "reserved"
  /\ call[t].pc = "answer" =>
       /\ call[t].request \in Requests
       /\ request[call[t].request].pc # "idle" => request[call[t].request].mail = call[t].mail
  /\ call[t].pc = "handled" /\ Meant(call[t].mail) => Dealt(call[t].mail)
  /\ call[t].pc = "complete" => Covered(call[t].note)
  /\ call[t].pc = "ack" => overlooked \/ Covered(call[t].note)

Ingesting(r, m) == request[r].pc \in {"ingest", "complete"} /\ request[r].mail = m

RequestGood(r) ==
  /\ request[r].pc # "idle" => request[r].mail \in Mails
  /\ request[r].pc \in {"reserve", "ingest", "complete"} => Routed(request[r].mail)
  /\ request[r].pc \in {"ingest", "complete"} => ingestKey[request[r].mail] = "reserved"
  /\ request[r].pc = "ingest" => ingested[request[r].mail] <= failedLate[request[r].mail]
  /\ request[r].pc = "complete" =>
       ingested[request[r].mail] > 0 /\ ingested[request[r].mail] <= 1 + failedLate[request[r].mail]
  /\ request[r].pc = "done" /\ Meant(request[r].mail) => Dealt(request[r].mail)

OneIngests == \A r, s \in Requests, m \in Mails : Ingesting(r, m) /\ Ingesting(s, m) => r = s

IngestKeysGood ==
  \A m \in Mails :
    /\ ingested[m] <= 1 + failedLate[m]
    /\ ingestKey[m] = "free" => ingested[m] <= failedLate[m]
    /\ ingestKey[m] = "completed" => ingested[m] > 0

MailKeysGood ==
  \A m \in Mails :
    /\ mailKey[m] = "reserved" =>
         m \in passedOver \/ \E t \in Threads : call[t].pc \in Holding /\ call[t].mail = m
    /\ mailKey[m] = "completed" /\ Meant(m) => Dealt(m)

NotesGood ==
  \A n \in Mails :
    /\ message[n] = "unsent" <=> n > arrived
    /\ message[n] = "settled" => overlooked \/ Covered(n)
    /\ noteKey[n] = "completed" => Covered(n)

IInv ==
  /\ Typed
  /\ \A m \in Mails : m <= checkpoint => Covered(m)
  /\ IngestKeysGood /\ MailKeysGood /\ NotesGood /\ OneIngests
  /\ \A t \in Threads : CallGood(t)
  /\ \A r \in Requests : RequestGood(r)

-----------------------------------------------------------------------------
(* What a step has to show.                                                *)

LEMMA MailsCounted ==
  \E n \in Nat : Mails = 1..n
<1>1. Cardinality(Mails) \in Nat /\ Mails = 1..Cardinality(Mails)
  BY IngressAssumption, FS_CardinalityType DEF IngressAssumption
<1>2. QED
  BY <1>1

LEMMA MailsTyped ==
  /\ Mails \subseteq Nat \ {0}
  /\ None \notin Nat /\ None \notin Threads /\ None \notin Requests
  /\ MaxDeliveries \in Nat /\ MaxFaults \in Nat
<1>1. Mails \subseteq Nat \ {0}
  BY MailsCounted
<1>2. QED
  BY <1>1, IngressAssumption DEF IngressAssumption

LEMMA MailsClosed ==
  ASSUME NEW a \in Mails \cup {0}, NEW i \in Nat \ {0}, i <= a
  PROVE  i \in Mails
BY MailsCounted

OthersKept(t) == \A u \in Threads \ {t} : call'[u] = call[u]

LEMMA CallTyped ==
  ASSUME call \in [Threads -> CallRows], NEW t \in Threads, NEW r \in CallRows,
         call' = [call EXCEPT ![t] = r]
  PROVE  call' \in [Threads -> CallRows] /\ OthersKept(t) /\ call'[t] = r
BY DEF OthersKept

LEMMA GotoTyped ==
  ASSUME call \in [Threads -> CallRows], NEW t \in Threads, NEW pc \in ThreadPcs, Goto(t, pc)
  PROVE  /\ call' \in [Threads -> CallRows] /\ OthersKept(t)
         /\ call'[t].pc = pc /\ call'[t].note = call[t].note /\ call'[t].mail = call[t].mail
         /\ call'[t].latest = call[t].latest /\ call'[t].request = call[t].request
<1> DEFINE r == [call[t] EXCEPT !.pc = pc]
<1>1. call[t] \in CallRows
  OBVIOUS
<1>2. /\ r \in CallRows /\ r.pc = pc /\ r.note = call[t].note /\ r.mail = call[t].mail
      /\ r.latest = call[t].latest /\ r.request = call[t].request
  BY <1>1 DEF CallRows
<1>3. call' = [call EXCEPT ![t] = r]
  BY DEF Goto
<1> HIDE DEF r
<1>4. QED
  BY <1>2, <1>3, CallTyped

LEMMA IdleTyped ==
  Idle \in CallRows /\ Idle.pc = "idle" /\ NoRequest \in RequestRows /\ NoRequest.pc = "idle"
BY DEF Idle, NoRequest, CallRows, RequestRows, ThreadPcs

\* Nothing that was covered or dealt with is undone.
Forward ==
  /\ arrived <= arrived' /\ (overlooked => overlooked')
  /\ \A m \in Mails : (Covered(m) => Covered(m)') /\ (Dealt(m) => Dealt(m)')

LEMMA CallStays ==
  ASSUME Typed, Typed', Forward, NEW u \in Threads, CallGood(u), call'[u] = call[u],
         lock = u <=> lock' = u,
         lock = u => \A m \in Mails : mailKey[m] = "reserved" => mailKey'[m] = "reserved",
         lock = u => \A r \in Requests :
           request'[r].pc # "idle" =>
             request[r].pc # "idle" /\ request'[r].mail = request[r].mail
  PROVE  CallGood(u)'
<1>1. /\ call[u] \in CallRows /\ arrived \in Nat /\ arrived' \in Nat
      /\ arrived \in Mails \cup {0} /\ Mails \subseteq Nat
  BY MailsTyped DEF Typed
<1>2. call[u].pc # "idle" => call[u].note \in Mails /\ call[u].note <= arrived'
  <2>1. call[u].pc # "idle" => call[u].note \in Mails /\ call[u].note <= arrived
    BY DEF CallGood
  <2>2. arrived <= arrived'
    BY DEF Forward
  <2>3. ASSUME call[u].pc # "idle"
        PROVE  call[u].note <= arrived'
    <3>1. call[u].note \in Nat /\ call[u].note <= arrived
      BY <1>1, <2>1, <2>3
    <3>2. QED
      BY <1>1, <2>2, <3>1
  <2>4. QED
    BY <2>1, <2>3
<1>3. CursorGood(call[u])'
  BY <1>1 DEF CallGood, CursorGood, Forward, CallRows
<1>4. call[u].pc \in Holding => call[u].mail \in Mails
  <2>1. ASSUME call[u].pc \in Holding
        PROVE  call[u].mail \in Nat \ {0} /\ call[u].mail <= arrived
    BY <1>1, <2>1 DEF CallGood, CursorGood, CallRows, Listed
  <2>2. QED
    BY <1>1, <2>1, MailsClosed
<1>5. call[u].pc \in Holding =>
        call[u].mail <= call[u].latest /\ mailKey'[call[u].mail] = "reserved"
  BY <1>4 DEF CallGood, Locked, Listed
<1>6. call[u].pc = "answer" =>
       /\ call[u].request \in Requests
       /\ request'[call[u].request].pc # "idle" => request'[call[u].request].mail = call[u].mail
  BY DEF CallGood, Locked, Listed, Holding
<1>7. call[u].pc = "handled" /\ Meant(call[u].mail) => Dealt(call[u].mail)'
  <2>1. ASSUME call[u].pc = "handled", Meant(call[u].mail)
        PROVE  Dealt(call[u].mail)'
    <3>1. PICK m \in Mails : m = call[u].mail
      BY <2>1, <1>4 DEF Holding
    <3>2. Dealt(m)'
      BY <2>1, <3>1 DEF CallGood, Forward
    <3>3. QED
      BY <3>1, <3>2 DEF Dealt
  <2>2. QED
    BY <2>1
<1>8. /\ call[u].pc = "complete" => Covered(call[u].note)'
      /\ call[u].pc = "ack" => overlooked' \/ Covered(call[u].note)'
  <2>1. ASSUME call[u].pc \in {"complete", "ack"}
        PROVE  (overlooked' /\ call[u].pc = "ack") \/ Covered(call[u].note)'
    <3>1. PICK n \in Mails : n = call[u].note
      BY <2>1 DEF CallGood
    <3>2. (overlooked' /\ call[u].pc = "ack") \/ Covered(n)'
      BY <2>1, <3>1 DEF CallGood, Forward
    <3>3. QED
      BY <3>1, <3>2 DEF Covered
  <2>2. QED
    BY <2>1
<1>9. call[u].pc \in Locked <=> lock' = u
  BY DEF CallGood
<1>10. CallGood(u)' <=>
        /\ call[u].pc # "idle" => call[u].note \in Mails /\ call[u].note <= arrived'
        /\ call[u].pc \in Locked <=> lock' = u
        /\ CursorGood(call[u])'
        /\ call[u].pc \in Holding =>
             call[u].mail <= call[u].latest /\ mailKey'[call[u].mail] = "reserved"
        /\ call[u].pc = "answer" =>
             /\ call[u].request \in Requests
             /\ request'[call[u].request].pc # "idle" => request'[call[u].request].mail = call[u].mail
        /\ call[u].pc = "handled" /\ Meant(call[u].mail) => Dealt(call[u].mail)'
        /\ call[u].pc = "complete" => Covered(call[u].note)'
        /\ call[u].pc = "ack" => overlooked' \/ Covered(call[u].note)'
  BY DEF CallGood, CursorGood, Dealt, Covered, Meant, Routed
<1>11. QED
  BY <1>2, <1>3, <1>5, <1>6, <1>7, <1>8, <1>9, <1>10

LEMMA Here ==
  ASSUME IInv, NEW t \in Threads
  PROVE  /\ Typed /\ call \in [Threads -> CallRows] /\ call[t] \in CallRows /\ CallGood(t)
         /\ arrived \in Nat /\ arrived \in Mails \cup {0} /\ checkpoint \in Nat
         /\ checkpoint <= arrived /\ Mails \subseteq Nat /\ t # None
BY MailsTyped DEF IInv, Typed

LEMMA RequestStays ==
  ASSUME Forward, NEW r \in Requests, RequestGood(r), request'[r] = request[r],
         request[r].pc \in {"ingest", "complete"} =>
           /\ ingestKey'[request[r].mail] = ingestKey[request[r].mail]
           /\ ingested'[request[r].mail] = ingested[request[r].mail]
           /\ failedLate'[request[r].mail] = failedLate[request[r].mail]
  PROVE  RequestGood(r)'
<1>1. request[r].pc = "done" /\ Meant(request[r].mail) => Dealt(request[r].mail)'
  <2>1. ASSUME request[r].pc = "done", Meant(request[r].mail)
        PROVE  Dealt(request[r].mail)'
    <3>1. PICK m \in Mails : m = request[r].mail
      BY <2>1 DEF RequestGood
    <3>2. Dealt(m)'
      BY <2>1, <3>1 DEF RequestGood, Forward
    <3>3. QED
      BY <3>1, <3>2 DEF Dealt
  <2>2. QED
    BY <2>1
<1>2. request'[r].pc = "done" /\ Meant(request'[r].mail) => Dealt(request[r].mail)'
  BY <1>1
<1>3. RequestGood(r)' <=>
        /\ request'[r].pc # "idle" => request'[r].mail \in Mails
        /\ request'[r].pc \in {"reserve", "ingest", "complete"} => Routed(request'[r].mail)
        /\ request'[r].pc \in {"ingest", "complete"} => ingestKey'[request'[r].mail] = "reserved"
        /\ request'[r].pc = "ingest" =>
             ingested'[request'[r].mail] <= failedLate'[request'[r].mail]
        /\ request'[r].pc = "complete" =>
             /\ ingested'[request'[r].mail] > 0
             /\ ingested'[request'[r].mail] <= 1 + failedLate'[request'[r].mail]
        /\ request'[r].pc = "done" /\ Meant(request'[r].mail) => Dealt(request[r].mail)'
  BY DEF RequestGood, Dealt, Meant, Routed
<1>4. QED
  BY <1>2, <1>3 DEF RequestGood

\* What a step of thread t leaves alone.
ThreadFrame(t) ==
  /\ Typed' /\ OthersKept(t)
  /\ arrived' = arrived /\ passedOver' = passedOver
  /\ ingestKey' = ingestKey /\ ingested' = ingested /\ failedLate' = failedLate
  /\ overlooked => overlooked'
  /\ \A u \in Threads \ {t} : lock = u <=> lock' = u
  /\ lock = t \/ (mailKey' = mailKey /\ request' = request)
  /\ \A m \in Mails : mailKey[m] = "completed" => mailKey'[m] = "completed"
  /\ \A r \in Requests :
       \/ request'[r] = request[r] \/ request'[r].pc = "idle"
       \/ request'[r].pc = "route" /\ request'[r].mail \in Mails

MailStep(t) ==
  \A m \in Mails :
    /\ mailKey'[m] = "reserved" =>
         \/ call'[t].pc \in Holding /\ call'[t].mail = m
         \/ mailKey[m] = "reserved" /\ ~ (call[t].pc \in Holding /\ call[t].mail = m)
    /\ mailKey'[m] = "completed" => mailKey[m] = "completed" \/ (Meant(m) => Dealt(m))

NoteStep ==
  \A n \in Mails :
    /\ \/ message'[n] = message[n]
       \/ message'[n] = "settled" /\ n <= arrived /\ (overlooked \/ Covered(n))
    /\ noteKey'[n] = "completed" => noteKey[n] = "completed" \/ Covered(n)

CheckpointStep ==
  checkpoint' = checkpoint \/ \A m \in Mails : m <= checkpoint' => Covered(m)

SoundThread(t) ==
  ThreadFrame(t) /\ CallGood(t)' /\ MailStep(t) /\ NoteStep /\ CheckpointStep

LEMMA FrameForward ==
  ASSUME IInv, NEW t \in Threads, ThreadFrame(t)
  PROVE  Forward /\ \A m \in Mails : Dealt(m)' <=> Dealt(m)
<1>1. \A m \in Mails : Dealt(m)' <=> Dealt(m)
  BY DEF ThreadFrame, Dealt
<1>2. \A m \in Mails : Covered(m) => Covered(m)'
  BY DEF ThreadFrame, Covered
<1>3. arrived <= arrived'
  BY Here DEF ThreadFrame
<1>4. QED
  BY <1>1, <1>2, <1>3 DEF Forward, ThreadFrame

LEMMA ThreadSuffices ==
  ASSUME IInv, NEW t \in Threads, SoundThread(t)
  PROVE  IInv'
<1>1. /\ ThreadFrame(t) /\ CallGood(t)' /\ MailStep(t) /\ NoteStep /\ CheckpointStep
      /\ Typed /\ Typed'
  BY Here DEF SoundThread, ThreadFrame
<1>2. Forward /\ \A m \in Mails : Dealt(m)' <=> Dealt(m)
  BY <1>1, FrameForward
<1>3. ASSUME NEW u \in Threads
      PROVE  CallGood(u)'
  <2>1. CASE u = t
    BY <1>1, <2>1
  <2>2. CASE u # t
    <3>1. call'[u] = call[u] /\ (lock = u <=> lock' = u)
      BY <1>1, <2>2 DEF ThreadFrame, OthersKept
    <3>2. lock = u => mailKey' = mailKey /\ request' = request
      BY <1>1, <2>2 DEF ThreadFrame
    <3>3. QED
      BY <1>1, <1>2, <3>1, <3>2, Here, CallStays
  <2>3. QED
    BY <2>1, <2>2
<1>4. ASSUME NEW r \in Requests
      PROVE  RequestGood(r)'
  <2>1. RequestGood(r)
    BY DEF IInv
  <2>2. CASE request'[r] = request[r]
    BY <1>1, <1>2, <2>1, <2>2, RequestStays DEF ThreadFrame
  <2>3. CASE request'[r].pc = "idle" \/ (request'[r].pc = "route" /\ request'[r].mail \in Mails)
    BY <2>3 DEF RequestGood
  <2>4. QED
    BY <1>1, <2>2, <2>3 DEF ThreadFrame
<1>5. OneIngests'
  <2>1. \A r \in Requests, m \in Mails : Ingesting(r, m)' => Ingesting(r, m)
    BY <1>1 DEF ThreadFrame, Ingesting
  <2>2. QED
    BY <2>1 DEF IInv, OneIngests
<1>6. IngestKeysGood'
  BY <1>1 DEF ThreadFrame, IInv, IngestKeysGood
<1>7. MailKeysGood'
  <2> SUFFICES ASSUME NEW m \in Mails
               PROVE  /\ mailKey'[m] = "reserved" =>
                           \/ m \in passedOver'
                           \/ \E u \in Threads : call'[u].pc \in Holding /\ call'[u].mail = m
                      /\ mailKey'[m] = "completed" /\ Meant(m) => Dealt(m)'
    BY DEF MailKeysGood, Meant, Routed
  <2>1. ASSUME mailKey'[m] = "reserved", ~ (call'[t].pc \in Holding /\ call'[t].mail = m)
        PROVE  m \in passedOver' \/ \E u \in Threads : call'[u].pc \in Holding /\ call'[u].mail = m
    <3>1. mailKey[m] = "reserved" /\ ~ (call[t].pc \in Holding /\ call[t].mail = m)
      BY <1>1, <2>1 DEF MailStep
    <3>2. m \in passedOver \/ \E u \in Threads : call[u].pc \in Holding /\ call[u].mail = m
      BY <3>1 DEF IInv, MailKeysGood
    <3>3. \A u \in Threads : u # t => call'[u] = call[u]
      BY <1>1 DEF ThreadFrame, OthersKept
    <3>4. QED
      BY <1>1, <3>1, <3>2, <3>3 DEF ThreadFrame
  <2>2. ASSUME mailKey'[m] = "completed", Meant(m)
        PROVE  Dealt(m)'
    BY <1>1, <1>2, <2>2 DEF MailStep, IInv, MailKeysGood
  <2>3. QED
    BY <2>1, <2>2
<1>8. NotesGood'
  <2> SUFFICES ASSUME NEW n \in Mails
               PROVE  /\ message'[n] = "unsent" <=> n > arrived'
                      /\ message'[n] = "settled" => overlooked' \/ Covered(n)'
                      /\ noteKey'[n] = "completed" => Covered(n)'
    BY DEF NotesGood
  <2>1. /\ message[n] = "unsent" <=> n > arrived
        /\ message[n] = "settled" => overlooked \/ Covered(n)
        /\ noteKey[n] = "completed" => Covered(n)
    BY DEF IInv, NotesGood
  <2>2. arrived' = arrived /\ (overlooked => overlooked') /\ (Covered(n) => Covered(n)')
    BY <1>1, <1>2 DEF ThreadFrame, Forward
  <2>3. n \in Nat /\ arrived \in Nat
    BY Here
  <2>4. QED
    BY <1>1, <2>1, <2>2, <2>3 DEF NoteStep
<1>9. \A m \in Mails : m <= checkpoint' => Covered(m)'
  BY <1>1, <1>2 DEF CheckpointStep, IInv, Forward
<1>10. QED
  BY <1>1, <1>3, <1>4, <1>5, <1>6, <1>7, <1>8, <1>9 DEF IInv

-----------------------------------------------------------------------------
(* The steps of a thread.                                                  *)

\* Only the thread under the lock is at a place that needs it.
LEMMA OnlyLocked ==
  ASSUME IInv, NEW t \in Threads, call[t].pc \in Locked
  PROVE  lock = t /\ \A u \in Threads \ {t} : lock # u
BY Here DEF CallGood

\* The mail a thread holds.
LEMMA HoldingHere ==
  ASSUME IInv, NEW t \in Threads, call[t].pc \in Holding
  PROVE  /\ call[t].mail \in Mails /\ mailKey[call[t].mail] = "reserved"
         /\ call[t].mail <= call[t].latest /\ lock = t
<1>1. CallGood(t) /\ call[t] \in CallRows /\ arrived \in Nat /\ arrived \in Mails \cup {0}
  BY Here
<1>2. call[t].mail \in Nat \ {0} /\ call[t].mail <= arrived
  BY <1>1 DEF CallGood, CursorGood, CallRows, Listed
<1>3. QED
  BY <1>1, <1>2, MailsClosed, OnlyLocked DEF CallGood, Locked, Listed

\* A thread at another place than the one for a mail of the list, and its cursor.
LEMMA NoCursor ==
  ASSUME NEW c, c.pc \notin Locked
  PROVE  CursorGood(c)
BY DEF CursorGood, Locked, Listed

LEMMA WaitForNotificationSound ==
  ASSUME IInv, NEW t \in Threads, WaitForNotification(t)
  PROVE  SoundThread(t)
<1>1. /\ call[t].pc = "wait" /\ Goto(t, "ack")
      /\ overlooked' = (overlooked \/ noteKey[call[t].note] # "completed")
      /\ arrived' = arrived /\ forgotten' = forgotten /\ message' = message
      /\ checkpoint' = checkpoint /\ renewal' = renewal /\ lock' = lock
      /\ noteKey' = noteKey /\ mailKey' = mailKey /\ ingestKey' = ingestKey
      /\ ingested' = ingested /\ failedLate' = failedLate /\ request' = request /\ passedOver' = passedOver
      /\ delivered' = delivered /\ faults' = faults
  BY DEF WaitForNotification, At, gmail, cursor, server, ingestion, counters
<1>2. Typed /\ call \in [Threads -> CallRows] /\ CallGood(t) /\ NotesGood
  BY Here DEF IInv
<1>3. /\ call' \in [Threads -> CallRows] /\ OthersKept(t)
      /\ call'[t].pc = "ack" /\ call'[t].note = call[t].note
  BY <1>1, <1>2, GotoTyped DEF ThreadPcs
<1>4. Typed'
  BY <1>1, <1>2, <1>3 DEF Typed
<1>5. ThreadFrame(t)
  BY <1>1, <1>3, <1>4 DEF ThreadFrame
<1>6. CallGood(t)'
  <2>1. call[t].note \in Mails /\ call[t].note <= arrived /\ lock # t
    BY <1>1, <1>2 DEF CallGood, Locked, Listed, Holding
  <2>2. overlooked' \/ Covered(call[t].note)
    BY <1>1, <1>2, <2>1 DEF NotesGood
  <2>3. QED
    BY <1>1, <1>3, <2>1, <2>2
    DEF CallGood, CursorGood, Locked, Listed, Holding, Covered
<1>7. MailStep(t) /\ NoteStep /\ CheckpointStep
  BY <1>1, <1>3 DEF MailStep, NoteStep, CheckpointStep, Holding
<1>8. QED
  BY <1>5, <1>6, <1>7 DEF SoundThread

LEMMA AcknowledgeSound ==
  ASSUME IInv, NEW t \in Threads, Acknowledge(t)
  PROVE  SoundThread(t)
<1>1. /\ call[t].pc = "ack" /\ call' = [call EXCEPT ![t] = Idle]
      /\ message' = [message EXCEPT ![call[t].note] = "settled"]
      /\ arrived' = arrived /\ forgotten' = forgotten
      /\ checkpoint' = checkpoint /\ renewal' = renewal /\ lock' = lock
      /\ noteKey' = noteKey /\ mailKey' = mailKey /\ ingestKey' = ingestKey
      /\ ingested' = ingested /\ failedLate' = failedLate /\ request' = request /\ passedOver' = passedOver
      /\ overlooked' = overlooked /\ delivered' = delivered /\ faults' = faults
  BY DEF Acknowledge, At, gmail, cursor, server, ingestion, counters
<1>2. Typed /\ call \in [Threads -> CallRows] /\ CallGood(t)
  BY Here DEF IInv
<1>3. call' \in [Threads -> CallRows] /\ OthersKept(t) /\ call'[t] = Idle
  BY <1>1, <1>2, IdleTyped, CallTyped
<1>4. Typed'
  BY <1>1, <1>2, <1>3 DEF Typed
<1>5. ThreadFrame(t)
  BY <1>1, <1>3, <1>4 DEF ThreadFrame
<1>6. lock # t
  BY <1>1, <1>2 DEF CallGood, Locked, Listed, Holding
<1>7. CallGood(t)'
  BY <1>1, <1>3, <1>6, IdleTyped DEF CallGood, CursorGood, Locked, Listed, Holding
<1>8. NoteStep
  <2>1. /\ call[t].note <= arrived
        /\ overlooked \/ Covered(call[t].note)
    BY <1>1, <1>2 DEF CallGood
  <2>2. ASSUME NEW n \in Mails
        PROVE  \/ message'[n] = message[n]
               \/ message'[n] = "settled" /\ n <= arrived /\ (overlooked \/ Covered(n))
    BY <1>1, <1>2, <2>1 DEF Typed
  <2>3. QED
    BY <1>1, <2>2 DEF NoteStep
<1>9. MailStep(t) /\ CheckpointStep
  BY <1>1, <1>3 DEF MailStep, CheckpointStep, Holding
<1>10. QED
  BY <1>5, <1>7, <1>8, <1>9 DEF SoundThread

\* The thread begins where the checkpoint is: all that it has passed is covered.
LEMMA TakeLockSound ==
  ASSUME IInv, NEW t \in Threads, TakeLock(t)
  PROVE  SoundThread(t)
<1> DEFINE c == [call[t] EXCEPT !.pc = "list", !.mail = checkpoint]
<1>1. /\ call[t].pc = "lock" /\ lock = None /\ lock' = t
      /\ call' = [call EXCEPT ![t].pc = "list", ![t].mail = checkpoint]
      /\ arrived' = arrived /\ forgotten' = forgotten /\ message' = message
      /\ checkpoint' = checkpoint /\ renewal' = renewal
      /\ noteKey' = noteKey /\ mailKey' = mailKey /\ ingestKey' = ingestKey
      /\ ingested' = ingested /\ failedLate' = failedLate /\ request' = request /\ passedOver' = passedOver
      /\ overlooked' = overlooked /\ delivered' = delivered /\ faults' = faults
  BY DEF TakeLock, At, gmail, cursor, server, ingestion, counters
<1>2. /\ Typed /\ call \in [Threads -> CallRows] /\ call[t] \in CallRows /\ CallGood(t)
      /\ checkpoint \in Nat /\ checkpoint <= arrived
  BY Here DEF IInv
<1>3. /\ c \in CallRows /\ c.pc = "list" /\ c.note = call[t].note /\ c.mail = checkpoint
  BY <1>2 DEF CallRows, ThreadPcs
<1>4. call' = [call EXCEPT ![t] = c]
  BY <1>1, <1>2
<1> HIDE DEF c
<1>5. call' \in [Threads -> CallRows] /\ OthersKept(t) /\ call'[t] = c
  BY <1>2, <1>3, <1>4, CallTyped
<1>6. Typed'
  BY <1>1, <1>2, <1>5 DEF Typed
<1>7. ThreadFrame(t)
  <2>1. \A u \in Threads \ {t} : lock = u <=> lock' = u
    BY <1>1, MailsTyped
  <2>2. QED
    BY <1>1, <1>5, <1>6, <2>1 DEF ThreadFrame
<1>8. CallGood(t)'
  <2>1. call[t].note \in Mails /\ call[t].note <= arrived
    BY <1>1, <1>2 DEF CallGood
  <2>2. \A m \in Mails : m <= checkpoint => Covered(m)
    BY DEF IInv
  <2>3. CursorGood(call[t])'
    BY <1>1, <1>2, <1>3, <1>5, <2>2 DEF CursorGood, Listed, Holding, Covered
  <2>4. QED
    BY <1>1, <1>3, <1>5, <2>1, <2>3 DEF CallGood, Locked, Listed, Holding
<1>9. MailStep(t) /\ NoteStep /\ CheckpointStep
  BY <1>1, <1>3, <1>5 DEF MailStep, NoteStep, CheckpointStep, Holding
<1>10. QED
  BY <1>7, <1>8, <1>9 DEF SoundThread

LEMMA ListHistorySound ==
  ASSUME IInv, NEW t \in Threads, ListHistory(t)
  PROVE  SoundThread(t)
<1> DEFINE c == [call[t] EXCEPT !.pc = "mail", !.latest = arrived, !.mail = call[t].mail + 1]
<1>1. /\ call[t].pc = "list"
      /\ call' = [call EXCEPT ![t].pc = "mail", ![t].latest = arrived, ![t].mail = @ + 1]
      /\ arrived' = arrived /\ forgotten' = forgotten /\ message' = message
      /\ checkpoint' = checkpoint /\ renewal' = renewal /\ lock' = lock
      /\ noteKey' = noteKey /\ mailKey' = mailKey /\ ingestKey' = ingestKey
      /\ ingested' = ingested /\ failedLate' = failedLate /\ request' = request /\ passedOver' = passedOver
      /\ overlooked' = overlooked /\ delivered' = delivered /\ faults' = faults
  BY DEF ListHistory, At, gmail, cursor, server, ingestion, counters
<1>2. /\ Typed /\ call \in [Threads -> CallRows] /\ call[t] \in CallRows /\ CallGood(t)
      /\ arrived \in Nat /\ Mails \subseteq Nat
  BY Here DEF IInv
<1>3. /\ c \in CallRows /\ c.pc = "mail" /\ c.note = call[t].note
      /\ c.mail = call[t].mail + 1 /\ c.latest = arrived
  <2>1. call[t].mail + 1 \in Nat
    BY <1>2 DEF CallRows
  <2>2. QED
    BY <1>2, <2>1 DEF CallRows, ThreadPcs
<1>4. call' = [call EXCEPT ![t] = c]
  BY <1>1, <1>2
<1> HIDE DEF c
<1>5. call' \in [Threads -> CallRows] /\ OthersKept(t) /\ call'[t] = c
  BY <1>2, <1>3, <1>4, CallTyped
<1>6. Typed'
  BY <1>1, <1>2, <1>5 DEF Typed
<1>7. ThreadFrame(t)
  BY <1>1, <1>5, <1>6 DEF ThreadFrame
<1>8. CallGood(t)'
  <2>1. /\ call[t].note \in Mails /\ call[t].note <= arrived /\ lock = t
        /\ call[t].mail \in Nat /\ call[t].mail <= arrived
        /\ \A m \in Mails : m <= call[t].mail => Covered(m)
    BY <1>1, <1>2 DEF CallGood, CursorGood, Locked, CallRows
  <2>2. \A m \in Mails : m < call[t].mail + 1 => Covered(m)
    BY <1>2, <2>1
  <2>3. CursorGood(call[t])'
    BY <1>1, <1>2, <1>3, <1>5, <2>1, <2>2 DEF CursorGood, Listed, Holding, Covered
  <2>4. QED
    BY <1>1, <1>3, <1>5, <2>1, <2>3 DEF CallGood, Locked, Listed, Holding
<1>9. MailStep(t) /\ NoteStep /\ CheckpointStep
  BY <1>1, <1>3, <1>5 DEF MailStep, NoteStep, CheckpointStep, Holding
<1>10. QED
  BY <1>7, <1>8, <1>9 DEF SoundThread

\* A handler that raises gives up the lock and the mail it holds.
LEMMA RaiseSound ==
  ASSUME IInv, NEW t \in Threads, call[t].pc \in {"list", "fetch", "post", "answer"}, Raise(t),
         UNCHANGED <<gmail, message, cursor, ingestKey, ingestion, passedOver, delivered>>,
         faults' \in 0..MaxFaults, request' \in [Requests -> RequestRows],
         \A r \in Requests : request'[r] = request[r] \/ request'[r].pc = "idle",
         \/ overlooked' = TRUE /\ Goto(t, "ack")
         \/ overlooked' = overlooked /\ call' = [call EXCEPT ![t] = Idle]
  PROVE  SoundThread(t)
<1>1. /\ arrived' = arrived /\ forgotten' = forgotten /\ message' = message
      /\ checkpoint' = checkpoint /\ renewal' = renewal /\ lock' = None
      /\ ingestKey' = ingestKey /\ ingested' = ingested /\ failedLate' = failedLate /\ passedOver' = passedOver
      /\ delivered' = delivered
      /\ noteKey' = [noteKey EXCEPT ![call[t].note] = "free"]
      /\ mailKey' = [m \in Mails |->
                       IF m = call[t].mail /\ call[t].pc \in {"fetch", "post", "answer"}
                       THEN "free" ELSE mailKey[m]]
  BY DEF Raise, gmail, cursor, ingestion
<1>2. /\ Typed /\ call \in [Threads -> CallRows] /\ CallGood(t) /\ t # None
      /\ None \notin Threads
  BY Here, MailsTyped DEF IInv
<1>3. lock = t /\ (\A u \in Threads \ {t} : lock # u) /\ call[t].note \in Mails
  BY <1>2, OnlyLocked DEF Locked, Listed, Holding, CallGood
<1>4. /\ call' \in [Threads -> CallRows] /\ OthersKept(t) /\ call'[t].pc \in {"ack", "idle"}
      /\ call'[t].pc = "ack" => overlooked' = TRUE /\ call'[t].note = call[t].note
      /\ overlooked' \in BOOLEAN /\ (overlooked => overlooked')
  <2>1. CASE overlooked' = TRUE /\ Goto(t, "ack")
    BY <1>2, <2>1, GotoTyped DEF ThreadPcs
  <2>2. CASE overlooked' = overlooked /\ call' = [call EXCEPT ![t] = Idle]
    BY <1>2, <2>2, IdleTyped, CallTyped DEF Typed
  <2>3. QED
    BY <2>1, <2>2
<1>5. noteKey' \in [Mails -> Keys] /\ mailKey' \in [Mails -> Keys]
  BY <1>1, <1>2 DEF Typed, Keys
<1>6. Typed'
  BY <1>1, <1>2, <1>4, <1>5 DEF Typed
<1>7. \A m \in Mails : mailKey[m] = "completed" => mailKey'[m] = "completed"
  <2>1. call[t].pc \in {"fetch", "post", "answer"} => mailKey[call[t].mail] = "reserved"
    BY HoldingHere DEF Holding
  <2>2. QED
    BY <1>1, <2>1
<1>8. ThreadFrame(t)
  BY <1>1, <1>2, <1>3, <1>4, <1>6, <1>7 DEF ThreadFrame
<1>9. CallGood(t)'
  BY <1>1, <1>2, <1>3, <1>4 DEF CallGood, CursorGood, Locked, Listed, Holding
<1>10. MailStep(t)
  BY <1>1, <1>2 DEF MailStep, Holding
<1>11. NoteStep /\ CheckpointStep
  BY <1>1, <1>2 DEF NoteStep, CheckpointStep, Typed
<1>12. QED
  BY <1>8, <1>9, <1>10, <1>11 DEF SoundThread

LEMMA FaultTyped ==
  ASSUME IInv, Fault
  PROVE  faults' \in 0..MaxFaults /\ delivered' = delivered
BY MailsTyped DEF Fault, IInv, Typed

LEMMA HistoryIsForgottenSound ==
  ASSUME IInv, NEW t \in Threads, HistoryIsForgotten(t)
  PROVE  SoundThread(t)
<1>1. /\ call[t].pc = "list" /\ Raise(t) /\ overlooked' = TRUE /\ Goto(t, "ack")
      /\ UNCHANGED <<gmail, message, cursor, server, passedOver, counters>>
  BY DEF HistoryIsForgotten, AcknowledgeFailure, At
<1>2. request \in [Requests -> RequestRows] /\ faults \in 0..MaxFaults
  BY DEF IInv, Typed
<1>3. QED
  BY <1>1, <1>2, RaiseSound DEF server, ingestion, counters

LEMMA GmailFailsSound ==
  ASSUME IInv, NEW t \in Threads, GmailFails(t)
  PROVE  SoundThread(t)
<1>1. /\ call[t].pc \in {"list", "fetch"} /\ Fault
      /\ Raise(t) /\ overlooked' = TRUE /\ Goto(t, "ack")
      /\ UNCHANGED <<gmail, message, cursor, server, passedOver>>
  BY DEF GmailFails, AcknowledgeFailure
<1>2. request \in [Requests -> RequestRows]
  BY DEF IInv, Typed
<1>3. QED
  BY <1>1, <1>2, FaultTyped, RaiseSound DEF server, ingestion

LEMMA PostFailsSound ==
  ASSUME IInv, NEW t \in Threads, PostFails(t)
  PROVE  SoundThread(t)
<1>1. /\ call[t].pc \in {"post", "answer"} /\ Fault
      /\ Raise(t) /\ overlooked' = overlooked /\ call' = [call EXCEPT ![t] = Idle]
      /\ UNCHANGED <<gmail, message, cursor, ingestKey, ingestion, passedOver>>
      /\ request' = [r \in Requests |-> IF r = call[t].request /\ request[r].pc = "done"
                                        THEN NoRequest ELSE request[r]]
  BY DEF PostFails, Nack
<1>2. request' \in [Requests -> RequestRows]
  BY <1>1, IdleTyped DEF IInv, Typed
<1>3. \A r \in Requests : request'[r] = request[r] \/ request'[r].pc = "idle"
  BY <1>1, IdleTyped
<1>4. QED
  BY <1>1, <1>2, <1>3, FaultTyped, RaiseSound

LEMMA ConnectionBreaksSound ==
  ASSUME IInv, NEW t \in Threads, ConnectionBreaks(t)
  PROVE  SoundThread(t)
<1>1. /\ call[t].pc = "answer" /\ Raise(t)
      /\ overlooked' = overlooked /\ call' = [call EXCEPT ![t] = Idle]
      /\ UNCHANGED <<gmail, message, cursor, server, passedOver, counters>>
  BY DEF ConnectionBreaks, Nack, At
<1>2. request \in [Requests -> RequestRows] /\ faults \in 0..MaxFaults
  BY DEF IInv, Typed
<1>3. QED
  BY <1>1, <1>2, RaiseSound DEF server, ingestion, counters

-----------------------------------------------------------------------------
(* The steps with one mail.                                                *)

\* A reserved mail that the thread does not hold was left by a dead process.
LEMMA LeftReserved ==
  ASSUME IInv, NEW t \in Threads, lock = t, call[t].pc \notin Holding,
         NEW m \in Mails, mailKey[m] = "reserved"
  PROVE  m \in passedOver
<1>1. m \in passedOver \/ \E u \in Threads : call[u].pc \in Holding /\ call[u].mail = m
  BY DEF IInv, MailKeysGood
<1>2. \A u \in Threads : call[u].pc \in Holding => lock = u
  BY HoldingHere
<1>3. QED
  BY <1>1, <1>2

LEMMA ReserveMailSound ==
  ASSUME IInv, NEW t \in Threads, ReserveMail(t)
  PROVE  SoundThread(t)
<1>1. /\ call[t].pc = "mail" /\ call[t].mail <= call[t].latest
      /\ IF mailKey[call[t].mail] = "free"
         THEN mailKey' = [mailKey EXCEPT ![call[t].mail] = "reserved"] /\ Goto(t, "fetch")
         ELSE call' = [call EXCEPT ![t].mail = call[t].mail + 1] /\ mailKey' = mailKey
      /\ arrived' = arrived /\ forgotten' = forgotten /\ message' = message
      /\ checkpoint' = checkpoint /\ renewal' = renewal /\ lock' = lock
      /\ noteKey' = noteKey /\ ingestKey' = ingestKey
      /\ ingested' = ingested /\ failedLate' = failedLate /\ request' = request /\ passedOver' = passedOver
      /\ overlooked' = overlooked /\ delivered' = delivered /\ faults' = faults
  BY DEF ReserveMail, At, gmail, cursor, server, ingestion, counters
<1>2. /\ Typed /\ call \in [Threads -> CallRows] /\ call[t] \in CallRows /\ CallGood(t)
      /\ arrived \in Nat /\ arrived \in Mails \cup {0} /\ Mails \subseteq Nat
  BY Here DEF IInv
<1>3. /\ lock = t /\ call[t].note \in Mails /\ call[t].note <= arrived
      /\ call[t].note <= call[t].latest /\ call[t].latest <= arrived
      /\ call[t].mail \in Nat \ {0} /\ call[t].latest \in Nat
      /\ \A m \in Mails : m < call[t].mail => Covered(m)
  BY <1>1, <1>2 DEF CallGood, CursorGood, Locked, Listed, CallRows
<1>4. call[t].mail \in Mails
  BY <1>1, <1>2, <1>3, MailsClosed
<1>5. CASE mailKey[call[t].mail] = "free"
  <2>1. /\ call' \in [Threads -> CallRows] /\ OthersKept(t) /\ call'[t].pc = "fetch"
        /\ call'[t].note = call[t].note /\ call'[t].mail = call[t].mail
        /\ call'[t].latest = call[t].latest
    BY <1>1, <1>2, <1>5, GotoTyped DEF ThreadPcs
  <2>2. mailKey' = [mailKey EXCEPT ![call[t].mail] = "reserved"]
    BY <1>1, <1>5
  <2>3. /\ mailKey' \in [Mails -> Keys] /\ mailKey'[call[t].mail] = "reserved"
        /\ \A m \in Mails : mailKey[m] = "completed" => mailKey'[m] = "completed"
        /\ \A m \in Mails : m # call[t].mail => mailKey'[m] = mailKey[m]
    BY <1>2, <1>4, <1>5, <2>2 DEF Typed, Keys
  <2>4. Typed'
    BY <1>1, <1>2, <2>1, <2>3 DEF Typed
  <2>5. ThreadFrame(t)
    BY <1>1, <1>3, <2>1, <2>3, <2>4 DEF ThreadFrame
  <2>6. \A m \in Mails : m < call[t].mail => Covered(m)'
    BY <1>1, <1>3, <2>3 DEF Covered
  <2>7. CursorGood(call[t])'
    BY <1>1, <1>2, <1>3, <2>1, <2>6 DEF CursorGood, Listed, Holding
  <2>8. CallGood(t)'
    BY <1>1, <1>3, <2>1, <2>3, <2>7 DEF CallGood, Locked, Listed, Holding
  <2>9. MailStep(t) /\ NoteStep /\ CheckpointStep
    BY <1>1, <1>4, <2>1, <2>3 DEF MailStep, NoteStep, CheckpointStep, Holding
  <2>10. QED
    BY <2>5, <2>8, <2>9 DEF SoundThread
<1>6. CASE mailKey[call[t].mail] # "free"
  <2> DEFINE c == [call[t] EXCEPT !.mail = call[t].mail + 1]
  <2>1. call' = [call EXCEPT ![t].mail = call[t].mail + 1] /\ mailKey' = mailKey
    BY <1>1, <1>6
  <2>2. c \in CallRows /\ c.pc = "mail" /\ c.note = call[t].note /\ c.mail = call[t].mail + 1
        /\ c.latest = call[t].latest
    <3>1. call[t].mail + 1 \in Nat
      BY <1>3
    <3>2. QED
      BY <1>1, <1>2, <3>1 DEF CallRows
  <2>3. call' = [call EXCEPT ![t] = c]
    BY <1>2, <2>1
  <2> HIDE DEF c
  <2>4. call' \in [Threads -> CallRows] /\ OthersKept(t) /\ call'[t] = c
    BY <1>2, <2>2, <2>3, CallTyped
  <2>5. Typed'
    BY <1>1, <1>2, <2>1, <2>4 DEF Typed
  <2>6. ThreadFrame(t)
    BY <1>1, <2>1, <2>4, <2>5 DEF ThreadFrame
  <2>7. Covered(call[t].mail)
    <3>1. mailKey[call[t].mail] = "reserved" => call[t].mail \in passedOver
      BY <1>1, <1>3, <1>4, LeftReserved DEF Holding
    <3>2. QED
      BY <1>2, <1>4, <1>6, <3>1 DEF Covered, Typed, Keys
  <2>8. \A m \in Mails : m < call[t].mail + 1 => Covered(m)'
    <3>1. \A m \in Mails : m < call[t].mail + 1 => m < call[t].mail \/ m = call[t].mail
      BY <1>2, <1>3
    <3>2. QED
      BY <1>1, <1>3, <2>1, <2>7, <3>1 DEF Covered
  <2>9. CursorGood(call[t])'
    BY <1>1, <1>2, <1>3, <2>2, <2>4, <2>8 DEF CursorGood, Listed, Holding
  <2>10. CallGood(t)'
    BY <1>1, <1>3, <2>2, <2>4, <2>9 DEF CallGood, Locked, Listed, Holding
  <2>11. MailStep(t) /\ NoteStep /\ CheckpointStep
    BY <1>1, <2>1, <2>2, <2>4 DEF MailStep, NoteStep, CheckpointStep, Holding
  <2>12. QED
    BY <2>6, <2>10, <2>11 DEF SoundThread
<1>7. QED
  BY <1>5, <1>6

\* A thread that goes on with the mail it holds.
LEMMA HoldsOn ==
  ASSUME IInv, NEW t \in Threads, call[t].pc \in Holding,
         UNCHANGED <<gmail, message, cursor, lock, noteKey, mailKey, ingestKey, ingestion,
                     passedOver, overlooked, counters>>,
         call' \in [Threads -> CallRows], OthersKept(t), call'[t].pc \in Holding,
         call'[t].note = call[t].note, call'[t].mail = call[t].mail,
         call'[t].latest = call[t].latest,
         request' \in [Requests -> RequestRows],
         \A r \in Requests :
           \/ request'[r] = request[r] \/ request'[r].pc = "idle"
           \/ request'[r].pc = "route" /\ request'[r].mail \in Mails,
         call'[t].pc = "answer" =>
           /\ call'[t].request \in Requests
           /\ request'[call'[t].request].mail = call[t].mail,
         call'[t].pc = "handled" /\ Meant(call[t].mail) => Dealt(call[t].mail)
  PROVE  SoundThread(t)
<1>1. /\ arrived' = arrived /\ forgotten' = forgotten /\ message' = message
      /\ checkpoint' = checkpoint /\ renewal' = renewal /\ lock' = lock
      /\ noteKey' = noteKey /\ mailKey' = mailKey /\ ingestKey' = ingestKey
      /\ ingested' = ingested /\ failedLate' = failedLate /\ passedOver' = passedOver
      /\ overlooked' = overlooked /\ delivered' = delivered /\ faults' = faults
  BY DEF gmail, cursor, counters, ingestion
<1>2. Typed /\ CallGood(t)
  BY Here DEF IInv
<1>3. Typed'
  BY <1>1, <1>2 DEF Typed
<1>4. lock = t
  BY HoldingHere
<1>5. ThreadFrame(t)
  BY <1>1, <1>3, <1>4 DEF ThreadFrame
<1>6. CallGood(t)'
  <2>1. /\ call[t].note \in Mails /\ call[t].note <= arrived
        /\ call[t].mail <= call[t].latest /\ mailKey[call[t].mail] = "reserved"
    BY <1>2 DEF CallGood, Holding
  <2>2. CursorGood(call[t])'
    BY <1>1, <1>2 DEF CallGood, CursorGood, Listed, Holding, Covered
  <2>3. call'[t].pc = "handled" /\ Meant(call[t].mail)' => Dealt(call[t].mail)'
    BY <1>1 DEF Dealt, Meant, Routed
  <2>4. QED
    BY <1>1, <1>4, <2>1, <2>2, <2>3 DEF CallGood, Locked, Listed, Holding, Meant, Routed, Dealt
<1>7. MailStep(t) /\ NoteStep /\ CheckpointStep
  BY <1>1 DEF MailStep, NoteStep, CheckpointStep
<1>8. QED
  BY <1>5, <1>6, <1>7 DEF SoundThread

LEMMA FetchMessageSound ==
  ASSUME IInv, NEW t \in Threads, FetchMessage(t)
  PROVE  SoundThread(t)
<1> DEFINE pc == IF Letter[call[t].mail].attached THEN "post" ELSE "handled"
<1>1. /\ call[t].pc = "fetch" /\ Goto(t, pc)
      /\ UNCHANGED <<gmail, message, cursor, lock, noteKey, mailKey, server, passedOver,
                     overlooked, counters>>
  BY DEF FetchMessage, At
<1>2. pc \in ThreadPcs /\ pc \in Holding /\ pc # "answer"
  BY DEF ThreadPcs, Holding
<1>3. pc = "handled" => ~ Meant(call[t].mail)
  BY DEF Meant
<1> HIDE DEF pc
<1>4. call \in [Threads -> CallRows] /\ request \in [Requests -> RequestRows]
  BY DEF IInv, Typed
<1>5. /\ call' \in [Threads -> CallRows] /\ OthersKept(t)
      /\ call'[t].pc = pc /\ call'[t].note = call[t].note /\ call'[t].mail = call[t].mail
      /\ call'[t].latest = call[t].latest
  BY <1>1, <1>2, <1>4, GotoTyped
<1>6. call[t].pc \in Holding
  BY <1>1 DEF Holding
<1>7. request' = request /\ UNCHANGED <<ingestKey, ingestion>>
  BY <1>1 DEF server, ingestion
<1>8. QED
  BY <1>1, <1>2, <1>3, <1>4, <1>5, <1>6, <1>7, HoldsOn

LEMMA PostSound ==
  ASSUME IInv, NEW t \in Threads, Post(t)
  PROVE  SoundThread(t)
<1>1. PICK r \in Requests :
        /\ request' = [request EXCEPT ![r] = [pc |-> "route", mail |-> call[t].mail]]
        /\ call' = [call EXCEPT ![t].pc = "answer", ![t].request = r]
  BY DEF Post
<1> DEFINE c == [call[t] EXCEPT !.pc = "answer", !.request = r]
<1>2. /\ call[t].pc = "post"
      /\ UNCHANGED <<gmail, message, cursor, lock, noteKey, mailKey, ingestKey, ingestion,
                     passedOver, overlooked, counters>>
  BY DEF Post, At
<1>3. /\ call \in [Threads -> CallRows] /\ call[t] \in CallRows
      /\ request \in [Requests -> RequestRows]
  BY DEF IInv, Typed
<1>4. call[t].pc \in Holding /\ call[t].mail \in Mails
  BY <1>2, HoldingHere DEF Holding
<1>5. /\ c \in CallRows /\ c.pc = "answer" /\ c.note = call[t].note /\ c.mail = call[t].mail
      /\ c.latest = call[t].latest /\ c.request = r
  BY <1>3 DEF CallRows, ThreadPcs
<1>6. call' = [call EXCEPT ![t] = c]
  BY <1>1, <1>3
<1> HIDE DEF c
<1>7. call' \in [Threads -> CallRows] /\ OthersKept(t) /\ call'[t] = c
  BY <1>3, <1>5, <1>6, CallTyped
<1>8. /\ request' \in [Requests -> RequestRows] /\ request'[r].mail = call[t].mail
      /\ \A q \in Requests : request'[q] = request[q]
           \/ (request'[q].pc = "route" /\ request'[q].mail \in Mails)
  BY <1>1, <1>3, <1>4 DEF RequestRows
<1>9. c.pc \in Holding /\ c.pc # "handled"
  BY <1>5 DEF Holding
<1>10. QED
  BY <1>2, <1>4, <1>5, <1>7, <1>8, <1>9, HoldsOn

LEMMA TakeAnswerSound ==
  ASSUME IInv, NEW t \in Threads, TakeAnswer(t)
  PROVE  SoundThread(t)
<1> DEFINE c == [call[t] EXCEPT !.pc = "handled", !.request = None]
<1>1. /\ call[t].pc = "answer" /\ request[call[t].request].pc = "done"
      /\ request' = [request EXCEPT ![call[t].request] = NoRequest]
      /\ call' = [call EXCEPT ![t].pc = "handled", ![t].request = None]
      /\ UNCHANGED <<gmail, message, cursor, lock, noteKey, mailKey, ingestKey, ingestion,
                     passedOver, overlooked, counters>>
  BY DEF TakeAnswer, At
<1>2. /\ call \in [Threads -> CallRows] /\ call[t] \in CallRows /\ CallGood(t)
      /\ request \in [Requests -> RequestRows]
  BY Here DEF IInv, Typed
<1>3. call[t].pc \in Holding
  BY <1>1 DEF Holding
<1>4. /\ c \in CallRows /\ c.pc = "handled" /\ c.note = call[t].note /\ c.mail = call[t].mail
      /\ c.latest = call[t].latest
  BY <1>2 DEF CallRows, ThreadPcs
<1>5. call' = [call EXCEPT ![t] = c]
  BY <1>1, <1>2
<1> HIDE DEF c
<1>6. call' \in [Threads -> CallRows] /\ OthersKept(t) /\ call'[t] = c
  BY <1>2, <1>4, <1>5, CallTyped
<1>7. /\ request' \in [Requests -> RequestRows]
      /\ \A q \in Requests : request'[q] = request[q] \/ request'[q].pc = "idle"
  BY <1>1, <1>2, IdleTyped
<1>8. Meant(call[t].mail) => Dealt(call[t].mail)
  <2>1. PICK r \in Requests : r = call[t].request
    BY <1>1, <1>2 DEF CallGood
  <2>2. request[r].pc = "done" /\ request[r].mail = call[t].mail /\ RequestGood(r)
    BY <1>1, <1>2, <2>1 DEF CallGood, IInv
  <2>3. QED
    BY <2>2 DEF RequestGood
<1>9. c.pc \in Holding /\ c.pc # "answer"
  BY <1>4 DEF Holding
<1>10. QED
  BY <1>1, <1>3, <1>4, <1>6, <1>7, <1>8, <1>9, HoldsOn

LEMMA CompleteMailSound ==
  ASSUME IInv, NEW t \in Threads, CompleteMail(t)
  PROVE  SoundThread(t)
<1> DEFINE c == [call[t] EXCEPT !.pc = "mail", !.mail = call[t].mail + 1]
<1>1. /\ call[t].pc = "handled"
      /\ mailKey' = [mailKey EXCEPT ![call[t].mail] = "completed"]
      /\ call' = [call EXCEPT ![t].pc = "mail", ![t].mail = call[t].mail + 1]
      /\ arrived' = arrived /\ forgotten' = forgotten /\ message' = message
      /\ checkpoint' = checkpoint /\ renewal' = renewal /\ lock' = lock
      /\ noteKey' = noteKey /\ ingestKey' = ingestKey
      /\ ingested' = ingested /\ failedLate' = failedLate /\ request' = request /\ passedOver' = passedOver
      /\ overlooked' = overlooked /\ delivered' = delivered /\ faults' = faults
  BY DEF CompleteMail, At, gmail, cursor, server, ingestion, counters
<1>2. /\ Typed /\ call \in [Threads -> CallRows] /\ call[t] \in CallRows /\ CallGood(t)
      /\ arrived \in Nat /\ Mails \subseteq Nat
  BY Here DEF IInv
<1>3. /\ lock = t /\ call[t].note \in Mails /\ call[t].note <= arrived
      /\ call[t].note <= call[t].latest /\ call[t].latest <= arrived
      /\ call[t].mail \in Mails /\ call[t].mail \in Nat \ {0} /\ call[t].latest \in Nat
      /\ call[t].mail <= call[t].latest /\ mailKey[call[t].mail] = "reserved"
      /\ \A m \in Mails : m < call[t].mail => Covered(m)
      /\ Meant(call[t].mail) => Dealt(call[t].mail)
  BY <1>1, <1>2, HoldingHere, MailsTyped
  DEF CallGood, CursorGood, Locked, Listed, Holding, CallRows
<1>4. c \in CallRows /\ c.pc = "mail" /\ c.note = call[t].note /\ c.mail = call[t].mail + 1
      /\ c.latest = call[t].latest
  <2>1. call[t].mail + 1 \in Nat
    BY <1>3
  <2>2. QED
    BY <1>2, <2>1 DEF CallRows, ThreadPcs
<1>5. call' = [call EXCEPT ![t] = c]
  BY <1>1, <1>2
<1> HIDE DEF c
<1>6. call' \in [Threads -> CallRows] /\ OthersKept(t) /\ call'[t] = c
  BY <1>2, <1>4, <1>5, CallTyped
<1>7. /\ mailKey' \in [Mails -> Keys] /\ mailKey'[call[t].mail] = "completed"
      /\ \A m \in Mails : m # call[t].mail => mailKey'[m] = mailKey[m]
  BY <1>1, <1>2, <1>3 DEF Typed, Keys
<1>8. Typed'
  BY <1>1, <1>2, <1>6, <1>7 DEF Typed
<1>9. ThreadFrame(t)
  BY <1>1, <1>3, <1>6, <1>7, <1>8 DEF ThreadFrame
<1>10. \A m \in Mails : m < call[t].mail + 1 => Covered(m)'
  <2>1. \A m \in Mails : m < call[t].mail + 1 => m < call[t].mail \/ m = call[t].mail
    BY <1>2, <1>3
  <2>2. QED
    BY <1>1, <1>3, <1>7, <2>1 DEF Covered
<1>11. CursorGood(call[t])'
  BY <1>1, <1>2, <1>3, <1>4, <1>6, <1>10 DEF CursorGood, Listed, Holding
<1>12. CallGood(t)'
  BY <1>1, <1>3, <1>4, <1>6, <1>11 DEF CallGood, Locked, Listed, Holding
<1>13. MailStep(t)
  BY <1>1, <1>3, <1>7 DEF MailStep, Holding
<1>14. NoteStep /\ CheckpointStep
  BY <1>1 DEF NoteStep, CheckpointStep
<1>15. QED
  BY <1>9, <1>12, <1>13, <1>14 DEF SoundThread

\* All the mails of the list are behind the cursor.
LEMMA SaveCheckpointSound ==
  ASSUME IInv, NEW t \in Threads, SaveCheckpoint(t)
  PROVE  SoundThread(t)
<1>1. /\ call[t].pc = "mail" /\ call[t].mail > call[t].latest
      /\ checkpoint' = call[t].latest /\ lock' = None /\ Goto(t, "complete")
      /\ arrived' = arrived /\ forgotten' = forgotten /\ message' = message
      /\ renewal' = renewal /\ mailKey' = mailKey
      /\ noteKey' = noteKey /\ ingestKey' = ingestKey
      /\ ingested' = ingested /\ failedLate' = failedLate /\ request' = request /\ passedOver' = passedOver
      /\ overlooked' = overlooked /\ delivered' = delivered /\ faults' = faults
  BY DEF SaveCheckpoint, At, gmail, server, ingestion, counters
<1>2. /\ Typed /\ call \in [Threads -> CallRows] /\ call[t] \in CallRows /\ CallGood(t)
      /\ arrived \in Nat /\ Mails \subseteq Nat /\ t # None /\ None \notin Threads
  BY Here, MailsTyped DEF IInv
<1>3. /\ lock = t /\ call[t].note \in Mails /\ call[t].note <= arrived
      /\ call[t].note <= call[t].latest /\ call[t].latest <= arrived
      /\ call[t].mail \in Nat /\ call[t].latest \in Nat
      /\ \A m \in Mails : m < call[t].mail => Covered(m)
  BY <1>1, <1>2 DEF CallGood, CursorGood, Locked, Listed, CallRows
<1>4. /\ call' \in [Threads -> CallRows] /\ OthersKept(t)
      /\ call'[t].pc = "complete" /\ call'[t].note = call[t].note
  BY <1>1, <1>2, GotoTyped DEF ThreadPcs
<1>5. checkpoint' \in 0..arrived
  BY <1>1, <1>2, <1>3
<1>6. Typed'
  BY <1>1, <1>2, <1>4, <1>5 DEF Typed
<1>7. ThreadFrame(t)
  <2>1. \A u \in Threads \ {t} : lock # u
    BY <1>3
  <2>2. QED
    BY <1>1, <1>2, <1>3, <1>4, <1>6, <2>1 DEF ThreadFrame
<1>8. \A m \in Mails : m <= call[t].latest => Covered(m)
  <2>1. \A m \in Mails : m <= call[t].latest => m < call[t].mail
    BY <1>1, <1>2, <1>3
  <2>2. QED
    BY <1>3, <2>1
<1>9. CallGood(t)'
  <2>1. Covered(call[t].note)'
    BY <1>1, <1>3, <1>4, <1>8 DEF Covered
  <2>2. QED
    BY <1>1, <1>2, <1>3, <1>4, <2>1
    DEF CallGood, CursorGood, Locked, Listed, Holding, Covered
<1>10. MailStep(t) /\ NoteStep
  BY <1>1, <1>4 DEF MailStep, NoteStep, Holding
<1>11. CheckpointStep
  BY <1>1, <1>8 DEF CheckpointStep
<1>12. QED
  BY <1>7, <1>9, <1>10, <1>11 DEF SoundThread

LEMMA CompleteNotificationSound ==
  ASSUME IInv, NEW t \in Threads, CompleteNotification(t)
  PROVE  SoundThread(t)
<1>1. /\ call[t].pc = "complete" /\ Goto(t, "ack")
      /\ noteKey' = [noteKey EXCEPT ![call[t].note] = "completed"]
      /\ arrived' = arrived /\ forgotten' = forgotten /\ message' = message
      /\ checkpoint' = checkpoint /\ renewal' = renewal /\ lock' = lock
      /\ mailKey' = mailKey /\ ingestKey' = ingestKey
      /\ ingested' = ingested /\ failedLate' = failedLate /\ request' = request /\ passedOver' = passedOver
      /\ overlooked' = overlooked /\ delivered' = delivered /\ faults' = faults
  BY DEF CompleteNotification, At, gmail, cursor, server, ingestion, counters
<1>2. Typed /\ call \in [Threads -> CallRows] /\ CallGood(t)
  BY Here DEF IInv
<1>3. /\ call[t].note \in Mails /\ call[t].note <= arrived /\ lock # t
      /\ Covered(call[t].note)
  BY <1>1, <1>2 DEF CallGood, Locked, Listed, Holding
<1>4. /\ call' \in [Threads -> CallRows] /\ OthersKept(t)
      /\ call'[t].pc = "ack" /\ call'[t].note = call[t].note
  BY <1>1, <1>2, GotoTyped DEF ThreadPcs
<1>5. /\ noteKey' \in [Mails -> Keys]
      /\ \A n \in Mails : n # call[t].note => noteKey'[n] = noteKey[n]
  BY <1>1, <1>2 DEF Typed, Keys
<1>6. Typed'
  BY <1>1, <1>2, <1>4, <1>5 DEF Typed
<1>7. ThreadFrame(t)
  BY <1>1, <1>4, <1>6 DEF ThreadFrame
<1>8. CallGood(t)'
  BY <1>1, <1>3, <1>4 DEF CallGood, CursorGood, Locked, Listed, Holding, Covered
<1>9. MailStep(t) /\ CheckpointStep
  BY <1>1, <1>4 DEF MailStep, CheckpointStep, Holding
<1>10. NoteStep
  BY <1>1, <1>3, <1>5 DEF NoteStep
<1>11. QED
  BY <1>7, <1>8, <1>9, <1>10 DEF SoundThread

LEMMA DeliverSound ==
  ASSUME IInv, NEW t \in Threads, NEW n \in Mails, Deliver(t, n)
  PROVE  SoundThread(t)
<1> DEFINE c == [Idle EXCEPT !.note = n, !.pc = IF noteKey[n] = "free" THEN "lock" ELSE "wait"]
<1>1. /\ call[t].pc = "idle" /\ message[n] = "pending"
      /\ delivered < MaxDeliveries /\ delivered' = delivered + 1
      /\ call' = [call EXCEPT ![t] = c]
      /\ noteKey' = [noteKey EXCEPT ![n] = IF @ = "free" THEN "reserved" ELSE @]
      /\ arrived' = arrived /\ forgotten' = forgotten /\ message' = message
      /\ checkpoint' = checkpoint /\ renewal' = renewal /\ lock' = lock
      /\ mailKey' = mailKey /\ ingestKey' = ingestKey
      /\ ingested' = ingested /\ failedLate' = failedLate /\ request' = request /\ passedOver' = passedOver
      /\ overlooked' = overlooked /\ faults' = faults
  BY DEF Deliver, Taken, At, gmail, cursor, server, ingestion
<1>2. /\ Typed /\ call \in [Threads -> CallRows] /\ CallGood(t) /\ NotesGood
      /\ arrived \in Nat /\ Mails \subseteq Nat
  BY Here DEF IInv
<1>3. n <= arrived /\ lock # t
  <2>1. ~ (n > arrived)
    BY <1>1, <1>2 DEF NotesGood
  <2>2. n \in Nat
    BY <1>2
  <2>3. QED
    BY <1>1, <1>2, <2>1, <2>2 DEF CallGood, Locked, Listed, Holding
<1>4. c \in CallRows /\ c.pc \in {"lock", "wait"} /\ c.note = n
  BY DEF Idle, CallRows, ThreadPcs
<1> HIDE DEF c
<1>5. call' \in [Threads -> CallRows] /\ OthersKept(t) /\ call'[t] = c
  BY <1>1, <1>2, <1>4, CallTyped
<1>6. /\ noteKey' \in [Mails -> Keys]
      /\ \A m \in Mails : noteKey'[m] = "completed" => noteKey[m] = "completed"
  BY <1>1, <1>2 DEF Typed, Keys
<1>7. delivered' \in 0..MaxDeliveries
  BY <1>1, <1>2, MailsTyped DEF Typed
<1>8. Typed'
  BY <1>1, <1>2, <1>5, <1>6, <1>7 DEF Typed
<1>9. ThreadFrame(t)
  BY <1>1, <1>5, <1>8 DEF ThreadFrame
<1>10. CallGood(t)'
  BY <1>1, <1>3, <1>4, <1>5 DEF CallGood, CursorGood, Locked, Listed, Holding
<1>11. MailStep(t) /\ NoteStep /\ CheckpointStep
  BY <1>1, <1>4, <1>5, <1>6 DEF MailStep, NoteStep, CheckpointStep, Holding
<1>12. QED
  BY <1>9, <1>10, <1>11 DEF SoundThread

LEMMA ThreadStepKeeps ==
  ASSUME IInv, NEW t \in Threads, ThreadStep(t) \/ GmailFails(t) \/ PostFails(t)
  PROVE  IInv'
<1>1. SoundThread(t)
  BY WaitForNotificationSound, AcknowledgeSound, TakeLockSound, ListHistorySound,
     HistoryIsForgottenSound, ReserveMailSound, FetchMessageSound, PostSound, TakeAnswerSound,
     ConnectionBreaksSound, CompleteMailSound, SaveCheckpointSound, CompleteNotificationSound,
     GmailFailsSound, PostFailsSound DEF ThreadStep
<1>2. QED
  BY <1>1, ThreadSuffices

-----------------------------------------------------------------------------
(* The steps of a request.                                                 *)

\* What a step of request r leaves alone.
RequestFrame(r) ==
  /\ Typed' /\ \A s \in Requests \ {r} : request'[s] = request[s]
  /\ arrived' = arrived /\ message' = message /\ checkpoint' = checkpoint
  /\ lock' = lock /\ noteKey' = noteKey /\ mailKey' = mailKey /\ call' = call
  /\ overlooked' = overlooked /\ passedOver \subseteq passedOver'
  /\ \A m \in Mails \ {request[r].mail} :
       ingestKey'[m] = ingestKey[m] /\ ingested'[m] = ingested[m] /\ failedLate'[m] = failedLate[m]
  /\ request'[r].pc # "idle" => request'[r].mail = request[r].mail

\* What it does to the mail m it is about: its key is written only by the request
\* that ingests it, or reserved when it is free.
IngestStep(r, m) ==
  /\ request[r].pc # "idle" /\ request[r].mail = m
  /\ \/ ingestKey'[m] = ingestKey[m] /\ ingested'[m] = ingested[m] /\ failedLate'[m] = failedLate[m]
     \/ Ingesting(r, m) \/ ingestKey[m] = "free"
  /\ Ingesting(r, m)' => Ingesting(r, m) \/ ingestKey[m] = "free"
  /\ Dealt(m) => Dealt(m)'
  /\ ingested'[m] <= 1 + failedLate'[m]
  /\ ingestKey'[m] = "free" => ingested'[m] <= failedLate'[m]
  /\ ingestKey'[m] = "completed" => ingested'[m] > 0

LEMMA RequestSuffices ==
  ASSUME IInv, NEW r \in Requests, NEW m \in Mails, RequestFrame(r), IngestStep(r, m),
         RequestGood(r)'
  PROVE  IInv'
<1>1. Typed /\ Typed' /\ arrived \in Nat
  BY MailsTyped DEF RequestFrame, IInv, Typed
<1>2. \A n \in Mails : (Dealt(n) => Dealt(n)') /\ (Covered(n) => Covered(n)')
  <2>1. \A n \in Mails \ {m} : Dealt(n) => Dealt(n)'
    BY DEF RequestFrame, IngestStep, Dealt
  <2>2. Dealt(m) => Dealt(m)'
    BY DEF IngestStep
  <2>3. \A n \in Mails : Covered(n) => Covered(n)'
    BY DEF RequestFrame, Covered
  <2>4. QED
    BY <2>1, <2>2, <2>3
<1>3. Forward
  BY <1>1, <1>2 DEF Forward, RequestFrame
<1>4. ASSUME NEW s \in Requests, s # r, Ingesting(s, m)
      PROVE  ingestKey'[m] = ingestKey[m] /\ ingested'[m] = ingested[m] /\ failedLate'[m] = failedLate[m] /\ ~ Ingesting(r, m)'
  <2>1. ~ Ingesting(r, m)
    BY <1>4 DEF IInv, OneIngests
  <2>2. ingestKey[m] = "reserved"
    BY <1>4 DEF IInv, RequestGood, Ingesting
  <2>3. QED
    BY <2>1, <2>2 DEF IngestStep
<1>5. ASSUME NEW s \in Requests
      PROVE  RequestGood(s)'
  <2>1. CASE s = r
    BY <2>1
  <2>2. CASE s # r
    <3>1. request'[s] = request[s] /\ RequestGood(s)
      BY <2>2 DEF RequestFrame, IInv
    <3>2. request[s].pc \in {"ingest", "complete"} =>
            /\ ingestKey'[request[s].mail] = ingestKey[request[s].mail]
            /\ ingested'[request[s].mail] = ingested[request[s].mail] /\ failedLate'[request[s].mail] = failedLate[request[s].mail]
      <4>1. CASE request[s].mail = m
        BY <1>4, <2>2, <4>1 DEF Ingesting
      <4>2. CASE request[s].mail # m
        BY <3>1, <4>2 DEF RequestGood, RequestFrame, IngestStep
      <4>3. QED
        BY <4>1, <4>2
    <3>3. QED
      BY <1>3, <3>1, <3>2, RequestStays
  <2>3. QED
    BY <2>1, <2>2
<1>6. ASSUME NEW u \in Threads
      PROVE  CallGood(u)'
  <2>1. \A s \in Requests : request'[s].pc # "idle" =>
          request[s].pc # "idle" /\ request'[s].mail = request[s].mail
    BY DEF RequestFrame, IngestStep
  <2>2. call'[u] = call[u] /\ lock' = lock /\ mailKey' = mailKey
    BY DEF RequestFrame
  <2>3. CallGood(u)
    BY DEF IInv
  <2>4. QED
    BY <1>1, <1>3, <2>1, <2>2, <2>3, CallStays
<1>7. OneIngests'
  <2> SUFFICES ASSUME NEW s \in Requests, NEW q \in Requests, NEW n \in Mails,
                      Ingesting(s, n)', Ingesting(q, n)'
               PROVE  s = q
    BY DEF OneIngests
  <2>1. \A p \in Requests \ {r} : Ingesting(p, n) <=> Ingesting(p, n)'
    BY DEF RequestFrame, Ingesting
  <2>2. Ingesting(r, n)' => n = m
    BY DEF RequestFrame, IngestStep, Ingesting
  <2>3. \A p \in Requests \ {r} : ~ (Ingesting(p, n)' /\ Ingesting(r, n)')
    BY <1>4, <2>1, <2>2
  <2>4. QED
    BY <2>1, <2>3 DEF IInv, OneIngests
<1>8. IngestKeysGood'
  <2>1. \A n \in Mails \ {m} : ingestKey'[n] = ingestKey[n] /\ ingested'[n] = ingested[n] /\ failedLate'[n] = failedLate[n]
    BY DEF RequestFrame, IngestStep
  <2>2. QED
    BY <2>1 DEF IngestStep, IInv, IngestKeysGood
<1>9. MailKeysGood'
  <2>1. /\ mailKey' = mailKey /\ call' = call /\ passedOver \subseteq passedOver'
    BY DEF RequestFrame
  <2>2. \A n \in Mails : mailKey[n] = "reserved" =>
          n \in passedOver' \/ \E t \in Threads : call[t].pc \in Holding /\ call[t].mail = n
    BY <2>1 DEF IInv, MailKeysGood
  <2>3. \A n \in Mails : mailKey[n] = "completed" /\ Meant(n) => Dealt(n)'
    BY <1>2 DEF IInv, MailKeysGood
  <2>4. QED
    BY <2>1, <2>2, <2>3 DEF MailKeysGood, Meant, Routed
<1>10. NotesGood'
  BY <1>2 DEF RequestFrame, IInv, NotesGood
<1>11. \A n \in Mails : n <= checkpoint' => Covered(n)'
  BY <1>2 DEF RequestFrame, IInv
<1>12. QED
  BY <1>1, <1>5, <1>6, <1>7, <1>8, <1>9, <1>10, <1>11 DEF IInv

\* The answer of a request, which somebody waits for or not.
LEMMA AnsweredRow ==
  ASSUME IInv, NEW r \in Requests, request[r].pc # "idle", Answered(r)
  PROVE  /\ request' \in [Requests -> RequestRows]
         /\ \A s \in Requests \ {r} : request'[s] = request[s]
         /\ \/ request'[r].pc = "idle"
            \/ request'[r].pc = "done" /\ request'[r].mail = request[r].mail
<1> DEFINE q == [request[r] EXCEPT !.pc = "done"]
<1>1. request \in [Requests -> RequestRows] /\ request[r] \in RequestRows
  BY DEF IInv, Typed
<1>2. q \in RequestRows /\ q.pc = "done" /\ q.mail = request[r].mail
  BY <1>1 DEF RequestRows
<1>3. \/ request' = [request EXCEPT ![r] = q]
      \/ request' = [request EXCEPT ![r] = NoRequest]
  BY <1>1 DEF Answered
<1> HIDE DEF q
<1>4. QED
  BY <1>1, <1>2, <1>3, IdleTyped

LEMMA NextRow ==
  ASSUME IInv, NEW r \in Requests, NEW pc \in {"reserve", "ingest", "complete"},
         ServeNext(r, pc)
  PROVE  /\ request' \in [Requests -> RequestRows]
         /\ \A s \in Requests \ {r} : request'[s] = request[s]
         /\ request'[r].pc = pc /\ request'[r].mail = request[r].mail
<1> DEFINE q == [request[r] EXCEPT !.pc = pc]
<1>1. request \in [Requests -> RequestRows] /\ request[r] \in RequestRows
  BY DEF IInv, Typed
<1>2. q \in RequestRows /\ q.pc = pc /\ q.mail = request[r].mail
  BY <1>1 DEF RequestRows
<1>3. request' = [request EXCEPT ![r] = q]
  BY DEF ServeNext
<1> HIDE DEF q
<1>4. QED
  BY <1>1, <1>2, <1>3

LEMMA RequestHere ==
  ASSUME IInv, NEW r \in Requests, request[r].pc # "idle"
  PROVE  /\ Typed /\ RequestGood(r) /\ IngestKeysGood
         /\ request[r].mail \in Mails /\ TheMail(r) = request[r].mail
         /\ ingested[request[r].mail] \in Nat /\ failedLate[request[r].mail] \in Nat
BY DEF IInv, RequestGood, TheMail, Typed

\* A request for a mail that is not meant to be ingested is answered at once.
LEMMA RouteKeeps ==
  ASSUME IInv, NEW r \in Requests, Route(r)
  PROVE  IInv'
<1>1. /\ request[r].pc = "route"
      /\ IF Routed(TheMail(r)) /\ Letter[TheMail(r)].safe
         THEN ServeNext(r, "reserve") ELSE Answered(r)
      /\ arrived' = arrived /\ forgotten' = forgotten /\ message' = message
      /\ checkpoint' = checkpoint /\ renewal' = renewal /\ lock' = lock
      /\ noteKey' = noteKey /\ mailKey' = mailKey /\ call' = call /\ ingestKey' = ingestKey
      /\ ingested' = ingested /\ failedLate' = failedLate /\ passedOver' = passedOver
      /\ overlooked' = overlooked /\ delivered' = delivered /\ faults' = faults
  BY DEF Route, Serving, gmail, cursor, counters, ingestion
<1>2. PICK m \in Mails : m = request[r].mail
  BY <1>1, RequestHere
<1>3. Typed /\ RequestGood(r) /\ IngestKeysGood /\ TheMail(r) = m /\ ingested[m] \in Nat /\ failedLate[m] \in Nat
  BY <1>1, <1>2, RequestHere
<1>4. /\ request' \in [Requests -> RequestRows]
      /\ \A s \in Requests \ {r} : request'[s] = request[s]
      /\ \/ request'[r].pc = "idle"
         \/ request'[r].pc = "done" /\ request'[r].mail = m /\ ~ Meant(m)
         \/ request'[r].pc = "reserve" /\ request'[r].mail = m /\ Routed(m)
  BY <1>1, <1>2, <1>3, NextRow, AnsweredRow DEF Meant
<1>5. Typed'
  BY <1>1, <1>3, <1>4 DEF Typed
<1>6. RequestFrame(r)
  BY <1>1, <1>2, <1>4, <1>5 DEF RequestFrame
<1>7. IngestStep(r, m)
  BY <1>1, <1>2, <1>3, <1>4 DEF IngestStep, IngestKeysGood, Ingesting, Dealt
<1>8. RequestGood(r)'
  BY <1>4 DEF RequestGood, Meant, Routed
<1>9. QED
  BY <1>6, <1>7, <1>8, RequestSuffices

LEMMA ReserveIngestionKeeps ==
  ASSUME IInv, NEW r \in Requests, ReserveIngestion(r)
  PROVE  IInv'
<1>1. /\ request[r].pc = "reserve"
      /\ IF ingestKey[TheMail(r)] = "free"
         THEN /\ ingestKey' = [ingestKey EXCEPT ![TheMail(r)] = "reserved"]
              /\ ServeNext(r, "ingest")
         ELSE Answered(r) /\ ingestKey' = ingestKey
      /\ arrived' = arrived /\ forgotten' = forgotten /\ message' = message
      /\ checkpoint' = checkpoint /\ renewal' = renewal /\ lock' = lock
      /\ noteKey' = noteKey /\ mailKey' = mailKey /\ call' = call
      /\ ingested' = ingested /\ failedLate' = failedLate /\ passedOver' = passedOver
      /\ overlooked' = overlooked /\ delivered' = delivered /\ faults' = faults
  BY DEF ReserveIngestion, Serving, gmail, cursor, counters, ingestion
<1>2. PICK m \in Mails : m = request[r].mail
  BY <1>1, RequestHere
<1>3. /\ Typed /\ RequestGood(r) /\ IngestKeysGood /\ TheMail(r) = m /\ ingested[m] \in Nat
      /\ failedLate[m] \in Nat /\ Routed(m) /\ ingestKey[m] \in Keys
  BY <1>1, <1>2, RequestHere DEF RequestGood, Typed
<1>4. CASE ingestKey[m] = "free"
  <2>1. /\ ingestKey' = [ingestKey EXCEPT ![m] = "reserved"] /\ ServeNext(r, "ingest")
    BY <1>1, <1>3, <1>4
  <2>2. /\ request' \in [Requests -> RequestRows]
        /\ \A s \in Requests \ {r} : request'[s] = request[s]
        /\ request'[r].pc = "ingest" /\ request'[r].mail = m
    BY <1>2, <2>1, NextRow
  <2>3. /\ ingestKey' \in [Mails -> Keys] /\ ingestKey'[m] = "reserved"
        /\ \A n \in Mails \ {m} : ingestKey'[n] = ingestKey[n]
    BY <1>3, <2>1 DEF Typed, Keys
  <2>4. Typed'
    BY <1>1, <1>3, <2>2, <2>3 DEF Typed
  <2>5. RequestFrame(r)
    BY <1>1, <1>2, <2>2, <2>3, <2>4 DEF RequestFrame
  <2>6. IngestStep(r, m)
    BY <1>1, <1>2, <1>3, <1>4, <2>3 DEF IngestStep, IngestKeysGood, Dealt
  <2>7. RequestGood(r)'
    BY <1>1, <1>3, <1>4, <2>2, <2>3 DEF RequestGood, Meant, Routed, IngestKeysGood
  <2>8. QED
    BY <2>5, <2>6, <2>7, RequestSuffices
<1>5. CASE ingestKey[m] # "free"
  <2>1. ingestKey' = ingestKey /\ Answered(r)
    BY <1>1, <1>3, <1>5
  <2>2. /\ request' \in [Requests -> RequestRows]
        /\ \A s \in Requests \ {r} : request'[s] = request[s]
        /\ \/ request'[r].pc = "idle"
           \/ request'[r].pc = "done" /\ request'[r].mail = m
    BY <1>1, <1>2, <2>1, AnsweredRow
  <2>3. Typed'
    BY <1>1, <1>3, <2>1, <2>2 DEF Typed
  <2>4. RequestFrame(r)
    BY <1>1, <1>2, <2>1, <2>2, <2>3 DEF RequestFrame
  <2>5. IngestStep(r, m)
    BY <1>1, <1>2, <1>3, <2>1, <2>2 DEF IngestStep, IngestKeysGood, Ingesting, Dealt
  <2>6. Dealt(m) /\ Dealt(m)'
    BY <1>1, <1>3, <1>5, <2>1 DEF Dealt, IngestKeysGood, Keys
  <2>7. RequestGood(r)'
    BY <2>2, <2>6 DEF RequestGood, Dealt
  <2>8. QED
    BY <2>4, <2>5, <2>7, RequestSuffices
<1>6. QED
  BY <1>4, <1>5

LEMMA IngestKeeps ==
  ASSUME IInv, NEW r \in Requests, Ingest(r)
  PROVE  IInv'
<1>1. /\ request[r].pc = "ingest" /\ ServeNext(r, "complete")
      /\ ingested' = [ingested EXCEPT ![TheMail(r)] = @ + 1] /\ failedLate' = failedLate
      /\ arrived' = arrived /\ forgotten' = forgotten /\ message' = message
      /\ checkpoint' = checkpoint /\ renewal' = renewal /\ lock' = lock
      /\ noteKey' = noteKey /\ mailKey' = mailKey /\ call' = call
      /\ ingestKey' = ingestKey /\ passedOver' = passedOver
      /\ overlooked' = overlooked /\ delivered' = delivered /\ faults' = faults
  BY DEF Ingest, Serving, gmail, cursor, counters, ingestion
<1>2. PICK m \in Mails : m = request[r].mail
  BY <1>1, RequestHere
<1>3. /\ Typed /\ RequestGood(r) /\ TheMail(r) = m /\ Routed(m)
      /\ ingestKey[m] = "reserved" /\ ingested[m] <= failedLate[m]
      /\ ingested[m] \in Nat /\ failedLate[m] \in Nat
  BY <1>1, <1>2, RequestHere DEF RequestGood
<1>4. /\ request' \in [Requests -> RequestRows]
      /\ \A s \in Requests \ {r} : request'[s] = request[s]
      /\ request'[r].pc = "complete" /\ request'[r].mail = m
  BY <1>1, <1>2, NextRow
<1>5. /\ ingested' \in [Mails -> Nat] /\ ingested'[m] = ingested[m] + 1
      /\ \A n \in Mails \ {m} : ingested'[n] = ingested[n]
  <2>1. ingested' = [ingested EXCEPT ![m] = ingested[m] + 1]
    BY <1>1, <1>3
  <2>2. QED
    BY <1>3, <2>1 DEF Typed
<1>6. Typed'
  BY <1>1, <1>3, <1>4, <1>5 DEF Typed
<1>7. RequestFrame(r)
  BY <1>1, <1>2, <1>4, <1>5, <1>6 DEF RequestFrame
<1>8. IngestStep(r, m)
  BY <1>1, <1>2, <1>3, <1>4, <1>5 DEF IngestStep, Ingesting, Dealt
<1>9. RequestGood(r)'
  BY <1>1, <1>3, <1>4, <1>5 DEF RequestGood, Meant, Routed
<1>10. QED
  BY <1>7, <1>8, <1>9, RequestSuffices

LEMMA CompleteIngestionKeeps ==
  ASSUME IInv, NEW r \in Requests, CompleteIngestion(r)
  PROVE  IInv'
<1>1. /\ request[r].pc = "complete" /\ Answered(r)
      /\ ingestKey' = [ingestKey EXCEPT ![TheMail(r)] = "completed"]
      /\ arrived' = arrived /\ forgotten' = forgotten /\ message' = message
      /\ checkpoint' = checkpoint /\ renewal' = renewal /\ lock' = lock
      /\ noteKey' = noteKey /\ mailKey' = mailKey /\ call' = call
      /\ ingested' = ingested /\ failedLate' = failedLate /\ passedOver' = passedOver
      /\ overlooked' = overlooked /\ delivered' = delivered /\ faults' = faults
  BY DEF CompleteIngestion, Serving, gmail, cursor, counters, ingestion
<1>2. PICK m \in Mails : m = request[r].mail
  BY <1>1, RequestHere
<1>3. /\ Typed /\ RequestGood(r) /\ TheMail(r) = m /\ IngestKeysGood
      /\ ingested[m] > 0
  BY <1>1, <1>2, RequestHere DEF RequestGood
<1>4. /\ request' \in [Requests -> RequestRows]
      /\ \A s \in Requests \ {r} : request'[s] = request[s]
      /\ \/ request'[r].pc = "idle"
         \/ request'[r].pc = "done" /\ request'[r].mail = m
  BY <1>1, <1>2, AnsweredRow
<1>5. /\ ingestKey' \in [Mails -> Keys] /\ ingestKey'[m] = "completed"
      /\ \A n \in Mails \ {m} : ingestKey'[n] = ingestKey[n]
  BY <1>1, <1>3 DEF Typed, Keys
<1>6. Typed'
  BY <1>1, <1>3, <1>4, <1>5 DEF Typed
<1>7. RequestFrame(r)
  BY <1>1, <1>2, <1>4, <1>5, <1>6 DEF RequestFrame
<1>8. Dealt(m)'
  BY <1>1, <1>3 DEF Dealt
<1>9. IngestStep(r, m)
  BY <1>1, <1>2, <1>3, <1>4, <1>5, <1>8 DEF IngestStep, Ingesting, IngestKeysGood
<1>10. RequestGood(r)'
  BY <1>4, <1>8 DEF RequestGood, Dealt
<1>11. QED
  BY <1>7, <1>9, <1>10, RequestSuffices

\* What a failed ingestion has made is counted when its key is given back.
LEMMA IngestFailsKeeps ==
  ASSUME IInv, NEW r \in Requests, IngestFails(r)
  PROVE  IInv'
<1>1. /\ request[r].pc \in {"route", "reserve", "ingest", "complete"} /\ Answered(r) /\ Fault
      /\ ingestKey' = IF request[r].pc \in {"ingest", "complete"}
                      THEN [ingestKey EXCEPT ![TheMail(r)] = "free"] ELSE ingestKey
      /\ failedLate' = IF request[r].pc = "complete"
                       THEN [failedLate EXCEPT ![TheMail(r)] = @ + 1] ELSE failedLate
      /\ passedOver' = passedOver \cup {TheMail(r)}
      /\ arrived' = arrived /\ forgotten' = forgotten /\ message' = message
      /\ checkpoint' = checkpoint /\ renewal' = renewal /\ lock' = lock
      /\ noteKey' = noteKey /\ mailKey' = mailKey /\ call' = call
      /\ ingested' = ingested /\ overlooked' = overlooked
  BY DEF IngestFails, Serving, gmail, cursor
<1>2. PICK m \in Mails : m = request[r].mail
  BY <1>1, RequestHere
<1>3. /\ Typed /\ RequestGood(r) /\ IngestKeysGood /\ TheMail(r) = m
      /\ ingested[m] \in Nat /\ failedLate[m] \in Nat
  BY <1>1, <1>2, RequestHere
<1>4. /\ request' \in [Requests -> RequestRows]
      /\ \A s \in Requests \ {r} : request'[s] = request[s]
      /\ \/ request'[r].pc = "idle"
         \/ request'[r].pc = "done" /\ request'[r].mail = m
  BY <1>1, <1>2, AnsweredRow
<1>5. /\ ingestKey' \in [Mails -> Keys] /\ failedLate' \in [Mails -> Nat]
      /\ \A n \in Mails \ {m} : ingestKey'[n] = ingestKey[n] /\ failedLate'[n] = failedLate[n]
      /\ \/ Ingesting(r, m) /\ ingestKey'[m] = "free" /\ ingested[m] <= failedLate'[m]
         \/ ingestKey'[m] = ingestKey[m] /\ failedLate'[m] = failedLate[m]
  <2>1. CASE request[r].pc = "complete"
    <3>1. /\ ingestKey' = [ingestKey EXCEPT ![m] = "free"]
          /\ failedLate' = [failedLate EXCEPT ![m] = failedLate[m] + 1]
      BY <1>1, <1>3, <2>1
    <3>2. ingested[m] <= failedLate[m] + 1 /\ Ingesting(r, m)
      BY <1>2, <1>3, <2>1 DEF RequestGood, Ingesting
    <3>3. QED
      BY <1>3, <3>1, <3>2 DEF Typed, Keys
  <2>2. CASE request[r].pc = "ingest"
    <3>1. ingestKey' = [ingestKey EXCEPT ![m] = "free"] /\ failedLate' = failedLate
      BY <1>1, <1>3, <2>2
    <3>2. ingested[m] <= failedLate[m] /\ Ingesting(r, m)
      BY <1>2, <1>3, <2>2 DEF RequestGood, Ingesting
    <3>3. QED
      BY <1>3, <3>1, <3>2 DEF Typed, Keys
  <2>3. CASE request[r].pc \in {"route", "reserve"}
    BY <1>1, <1>3, <2>3 DEF Typed
  <2>4. QED
    BY <1>1, <2>1, <2>2, <2>3
<1>6. faults' \in 0..MaxFaults /\ delivered' = delivered
  BY <1>1, FaultTyped
<1>7. Typed'
  BY <1>1, <1>3, <1>4, <1>5, <1>6 DEF Typed
<1>8. RequestFrame(r)
  BY <1>1, <1>2, <1>4, <1>5, <1>7 DEF RequestFrame
<1>9. Dealt(m)'
  BY <1>1, <1>3 DEF Dealt
<1>10. IngestStep(r, m)
  BY <1>1, <1>2, <1>3, <1>4, <1>5, <1>9 DEF IngestStep, Ingesting, IngestKeysGood
<1>11. RequestGood(r)'
  BY <1>4, <1>9 DEF RequestGood, Dealt
<1>12. QED
  BY <1>8, <1>10, <1>11, RequestSuffices

\* A key that stays reserved lets nobody ingest again.
LEMMA CompletionFailsKeeps ==
  ASSUME IInv, NEW r \in Requests, CompletionFails(r)
  PROVE  IInv'
<1>1. /\ request[r].pc = "complete" /\ Answered(r) /\ Fault
      /\ ingestKey' = ingestKey /\ failedLate' = failedLate
      /\ passedOver' = passedOver
      /\ arrived' = arrived /\ forgotten' = forgotten /\ message' = message
      /\ checkpoint' = checkpoint /\ renewal' = renewal /\ lock' = lock
      /\ noteKey' = noteKey /\ mailKey' = mailKey /\ call' = call
      /\ ingested' = ingested /\ overlooked' = overlooked
  BY DEF CompletionFails, Serving, gmail, cursor, ingestion
<1>2. PICK m \in Mails : m = request[r].mail
  BY <1>1, RequestHere
<1>3. /\ Typed /\ RequestGood(r) /\ IngestKeysGood /\ TheMail(r) = m
      /\ ingested[m] \in Nat /\ failedLate[m] \in Nat /\ ingested[m] > 0
  BY <1>1, <1>2, RequestHere DEF RequestGood
<1>4. /\ request' \in [Requests -> RequestRows]
      /\ \A s \in Requests \ {r} : request'[s] = request[s]
      /\ \/ request'[r].pc = "idle"
         \/ request'[r].pc = "done" /\ request'[r].mail = m
  BY <1>1, <1>2, AnsweredRow
<1>5. faults' \in 0..MaxFaults /\ delivered' = delivered
  BY <1>1, FaultTyped
<1>6. Typed'
  BY <1>1, <1>3, <1>4, <1>5 DEF Typed
<1>7. RequestFrame(r)
  BY <1>1, <1>2, <1>4, <1>6 DEF RequestFrame
<1>8. Dealt(m)'
  BY <1>1, <1>3 DEF Dealt
<1>9. IngestStep(r, m)
  BY <1>1, <1>2, <1>3, <1>4, <1>8 DEF IngestStep, Ingesting, IngestKeysGood
<1>10. RequestGood(r)'
  BY <1>4, <1>8 DEF RequestGood, Dealt
<1>11. QED
  BY <1>7, <1>9, <1>10, RequestSuffices

LEMMA RequestStepKeeps ==
  ASSUME IInv, NEW r \in Requests, RequestStep(r) \/ IngestFails(r) \/ CompletionFails(r)
  PROVE  IInv'
BY RouteKeeps, ReserveIngestionKeeps, IngestKeeps, CompleteIngestionKeeps, IngestFailsKeeps,
   CompletionFailsKeeps
DEF RequestStep

-----------------------------------------------------------------------------
(* The mailbox, the renewal and the deaths.                                *)

\* A step that no thread notices, and at most ends requests.
LEMMA QuietKeeps ==
  ASSUME IInv, Typed', NotesGood', arrived <= arrived', passedOver \subseteq passedOver',
         UNCHANGED <<lock, noteKey, mailKey, call, ingestKey, ingested, failedLate,
                     overlooked>>,
         \A r \in Requests : request'[r] = request[r] \/ request'[r].pc = "idle",
         \A m \in Mails : m <= checkpoint' => Covered(m)'
  PROVE  IInv'
<1>1. /\ lock' = lock /\ mailKey' = mailKey /\ call' = call
      /\ ingestKey' = ingestKey /\ ingested' = ingested /\ failedLate' = failedLate
      /\ overlooked' = overlooked
  OBVIOUS
<1>2. \A m \in Mails : (Covered(m) => Covered(m)') /\ (Dealt(m) => Dealt(m)')
  BY <1>1 DEF Covered, Dealt
<1>3. Forward
  BY <1>1, <1>2 DEF Forward
<1>4. ASSUME NEW t \in Threads
      PROVE  CallGood(t)'
  <2>1. CallGood(t) /\ Typed
    BY DEF IInv
  <2>2. \A r \in Requests : request'[r].pc # "idle" =>
          request[r].pc # "idle" /\ request'[r].mail = request[r].mail
    OBVIOUS
  <2>3. QED
    BY <1>1, <1>3, <2>1, <2>2, CallStays
<1>5. ASSUME NEW r \in Requests
      PROVE  RequestGood(r)'
  <2>1. CASE request'[r] = request[r]
    BY <1>1, <1>3, <2>1, RequestStays DEF IInv
  <2>2. CASE request'[r].pc = "idle"
    BY <2>2 DEF RequestGood
  <2>3. QED
    BY <2>1, <2>2
<1>6. OneIngests'
  <2>1. \A r \in Requests, m \in Mails : Ingesting(r, m)' => Ingesting(r, m)
    BY DEF Ingesting
  <2>2. QED
    BY <2>1 DEF IInv, OneIngests
<1>7. IngestKeysGood'
  BY <1>1 DEF IInv, IngestKeysGood
<1>8. MailKeysGood'
  <2>1. \A n \in Mails : mailKey[n] = "reserved" =>
          n \in passedOver' \/ \E t \in Threads : call[t].pc \in Holding /\ call[t].mail = n
    BY DEF IInv, MailKeysGood
  <2>2. \A n \in Mails : mailKey[n] = "completed" /\ Meant(n) => Dealt(n)'
    BY <1>2 DEF IInv, MailKeysGood
  <2>3. QED
    BY <1>1, <2>1, <2>2 DEF MailKeysGood, Meant, Routed
<1>9. QED
  BY <1>4, <1>5, <1>6, <1>7, <1>8 DEF IInv

\* Notifications that stay as they are, of mails that do not change.
LEMMA NotesStay ==
  ASSUME IInv, UNCHANGED <<arrived, message, noteKey, mailKey, overlooked>>,
         passedOver \subseteq passedOver'
  PROVE  NotesGood' /\ \A m \in Mails : Covered(m) => Covered(m)'
BY DEF IInv, NotesGood, Covered

LEMMA MailArrivesKeeps ==
  ASSUME IInv, MailArrives
  PROVE  IInv'
<1>1. /\ arrived + 1 \in Mails /\ arrived' = arrived + 1
      /\ message' = [message EXCEPT ![arrived + 1] = "pending"]
      /\ forgotten' = forgotten /\ checkpoint' = checkpoint /\ renewal' = renewal
      /\ lock' = lock /\ noteKey' = noteKey /\ mailKey' = mailKey /\ call' = call
      /\ ingestKey' = ingestKey /\ ingested' = ingested /\ failedLate' = failedLate /\ request' = request
      /\ passedOver' = passedOver
      /\ overlooked' = overlooked /\ delivered' = delivered /\ faults' = faults
  BY DEF MailArrives, cursor, server, ingestion, counters
<1>2. Typed /\ arrived \in Nat /\ Mails \subseteq Nat /\ NotesGood
  BY MailsTyped DEF IInv, Typed
<1>3. Typed'
  <2>1. message' \in [Mails -> {"unsent", "pending", "settled"}]
    BY <1>1, <1>2 DEF Typed
  <2>2. forgotten' \in 0..arrived' /\ checkpoint' \in 0..arrived'
    BY <1>1, <1>2 DEF Typed
  <2>3. renewal' \in (0..arrived') \cup {None}
    BY <1>1, <1>2 DEF Typed
  <2>4. QED
    BY <1>1, <1>2, <2>1, <2>2, <2>3 DEF Typed
<1>4. NotesGood'
  <2> SUFFICES ASSUME NEW n \in Mails
               PROVE  /\ message'[n] = "unsent" <=> n > arrived'
                      /\ message'[n] = "settled" => overlooked' \/ Covered(n)'
                      /\ noteKey'[n] = "completed" => Covered(n)'
    BY DEF NotesGood
  <2>1. Covered(n)' <=> Covered(n)
    BY <1>1 DEF Covered
  <2>2. message'[n] = IF n = arrived + 1 THEN "pending" ELSE message[n]
    BY <1>1, <1>2 DEF Typed
  <2>3. /\ message[n] = "unsent" <=> n > arrived
        /\ message[n] = "settled" => overlooked \/ Covered(n)
        /\ noteKey[n] = "completed" => Covered(n)
    BY <1>2 DEF NotesGood
  <2>4. n \in Nat
    BY <1>2
  <2>5. QED
    BY <1>1, <1>2, <2>1, <2>2, <2>3, <2>4
<1>5. arrived <= arrived'
  BY <1>1, <1>2
<1>6. \A m \in Mails : m <= checkpoint' => Covered(m)'
  BY <1>1 DEF IInv, Covered
<1>7. QED
  BY <1>1, <1>3, <1>4, <1>5, <1>6, QuietKeeps

LEMMA HistoryExpiresKeeps ==
  ASSUME IInv, HistoryExpires
  PROVE  IInv'
<1>1. /\ forgotten' = arrived /\ Fault /\ arrived' = arrived /\ message' = message
      /\ checkpoint' = checkpoint /\ renewal' = renewal
      /\ lock' = lock /\ noteKey' = noteKey /\ mailKey' = mailKey /\ call' = call
      /\ ingestKey' = ingestKey /\ ingested' = ingested /\ failedLate' = failedLate /\ request' = request
      /\ passedOver' = passedOver /\ overlooked' = overlooked
  BY DEF HistoryExpires, cursor, server, ingestion
<1>2. Typed /\ arrived \in Nat
  BY MailsTyped DEF IInv, Typed
<1>3. Typed'
  BY <1>1, <1>2, FaultTyped DEF Typed
<1>4. NotesGood' /\ \A m \in Mails : m <= checkpoint' => Covered(m)'
  BY <1>1, NotesStay DEF IInv
<1>5. QED
  BY <1>1, <1>2, <1>3, <1>4, QuietKeeps

LEMMA RenewWatchKeeps ==
  ASSUME IInv, RenewWatch
  PROVE  IInv'
<1>1. /\ renewal' = arrived /\ Fault /\ arrived' = arrived /\ message' = message
      /\ forgotten' = forgotten /\ checkpoint' = checkpoint
      /\ lock' = lock /\ noteKey' = noteKey /\ mailKey' = mailKey /\ call' = call
      /\ ingestKey' = ingestKey /\ ingested' = ingested /\ failedLate' = failedLate /\ request' = request
      /\ passedOver' = passedOver /\ overlooked' = overlooked
  BY DEF RenewWatch, gmail, server, ingestion
<1>2. Typed /\ arrived \in Nat
  BY MailsTyped DEF IInv, Typed
<1>3. Typed'
  BY <1>1, <1>2, FaultTyped DEF Typed
<1>4. NotesGood' /\ \A m \in Mails : m <= checkpoint' => Covered(m)'
  BY <1>1, NotesStay DEF IInv
<1>5. QED
  BY <1>1, <1>2, <1>3, <1>4, QuietKeeps

\* The mails the new checkpoint skips are passed over.
LEMMA SaveRenewalKeeps ==
  ASSUME IInv, SaveRenewal
  PROVE  IInv'
<1>1. /\ renewal # None /\ checkpoint' = renewal /\ renewal' = None
      /\ passedOver' = passedOver \cup
           {m \in Mails : m <= renewal /\ mailKey[m] # "completed"}
      /\ arrived' = arrived /\ forgotten' = forgotten /\ message' = message
      /\ lock' = lock /\ noteKey' = noteKey /\ mailKey' = mailKey /\ call' = call
      /\ ingestKey' = ingestKey /\ ingested' = ingested /\ failedLate' = failedLate /\ request' = request
      /\ overlooked' = overlooked /\ delivered' = delivered /\ faults' = faults
  BY DEF SaveRenewal, gmail, server, ingestion, counters
<1>2. Typed /\ arrived \in Nat
  BY MailsTyped DEF IInv, Typed
<1>3. Typed'
  BY <1>1, <1>2 DEF Typed
<1>4. NotesGood'
  BY <1>1, NotesStay
<1>5. \A m \in Mails : m <= checkpoint' => Covered(m)'
  BY <1>1 DEF Covered
<1>6. QED
  BY <1>1, <1>2, <1>3, <1>4, <1>5, QuietKeeps

LEMMA ServerDiesKeeps ==
  ASSUME IInv, ServerDies
  PROVE  IInv'
<1>1. /\ Fault /\ passedOver' = passedOver \cup {m \in Mails : ingestKey[m] = "reserved"}
      /\ request' = [r \in Requests |-> IF request[r].pc = "done" THEN request[r] ELSE NoRequest]
      /\ arrived' = arrived /\ forgotten' = forgotten /\ message' = message
      /\ checkpoint' = checkpoint /\ renewal' = renewal
      /\ lock' = lock /\ noteKey' = noteKey /\ mailKey' = mailKey /\ call' = call
      /\ ingestKey' = ingestKey /\ ingested' = ingested /\ failedLate' = failedLate
      /\ overlooked' = overlooked
  BY DEF ServerDies, Serving, gmail, cursor, ingestion
<1>2. Typed /\ arrived \in Nat
  BY MailsTyped DEF IInv, Typed
<1>3. /\ request' \in [Requests -> RequestRows]
      /\ \A r \in Requests : request'[r] = request[r] \/ request'[r].pc = "idle"
  BY <1>1, <1>2, IdleTyped DEF Typed
<1>4. Typed'
  BY <1>1, <1>2, <1>3, FaultTyped DEF Typed
<1>5. NotesGood' /\ \A m \in Mails : m <= checkpoint' => Covered(m)'
  BY <1>1, NotesStay DEF IInv
<1>6. QED
  BY <1>1, <1>2, <1>3, <1>4, <1>5, QuietKeeps

\* What the threads held is passed over from now on.
LEMMA SubscriberDiesKeeps ==
  ASSUME IInv, SubscriberDies
  PROVE  IInv'
<1>1. /\ Fault /\ call' = [t \in Threads |-> Idle] /\ lock' = None /\ renewal' = None
      /\ request' = [r \in Requests |-> IF request[r].pc = "done" THEN NoRequest ELSE request[r]]
      /\ passedOver' = passedOver \cup {m \in Mails : mailKey[m] = "reserved"}
      /\ arrived' = arrived /\ forgotten' = forgotten /\ message' = message
      /\ checkpoint' = checkpoint /\ noteKey' = noteKey /\ mailKey' = mailKey
      /\ ingestKey' = ingestKey /\ ingested' = ingested /\ failedLate' = failedLate
      /\ overlooked' = overlooked
  BY DEF SubscriberDies, Serving, gmail, ingestion
<1>2. Typed /\ arrived \in Nat /\ None \notin Threads
  BY MailsTyped DEF IInv, Typed
<1>3. /\ request' \in [Requests -> RequestRows]
      /\ \A r \in Requests : request'[r] = request[r] \/ request'[r].pc = "idle"
  BY <1>1, <1>2, IdleTyped DEF Typed
<1>4. Typed'
  BY <1>1, <1>2, <1>3, FaultTyped, IdleTyped DEF Typed
<1>5. NotesGood' /\ \A m \in Mails : m <= checkpoint' => Covered(m)'
  BY <1>1, NotesStay DEF IInv
<1>6. \A m \in Mails : (Covered(m) => Covered(m)') /\ (Dealt(m) => Dealt(m)')
  BY <1>1 DEF Covered, Dealt
<1>7. Forward
  BY <1>1, <1>2, <1>6 DEF Forward
<1>8. \A t \in Threads : CallGood(t)'
  BY <1>1, <1>2, IdleTyped DEF CallGood, CursorGood, Locked, Listed, Holding
<1>9. ASSUME NEW r \in Requests
      PROVE  RequestGood(r)'
  <2>1. CASE request'[r] = request[r]
    BY <1>1, <1>7, <2>1, RequestStays DEF IInv
  <2>2. CASE request'[r].pc = "idle"
    BY <2>2 DEF RequestGood
  <2>3. QED
    BY <1>3, <2>1, <2>2
<1>10. OneIngests'
  <2>1. \A r \in Requests, m \in Mails : Ingesting(r, m)' => Ingesting(r, m)
    BY <1>3 DEF Ingesting
  <2>2. QED
    BY <2>1 DEF IInv, OneIngests
<1>11. IngestKeysGood'
  BY <1>1 DEF IInv, IngestKeysGood
<1>12. MailKeysGood'
  <2>1. \A n \in Mails : mailKey[n] = "reserved" => n \in passedOver'
    BY <1>1
  <2>2. \A n \in Mails : mailKey[n] = "completed" /\ Meant(n) => Dealt(n)'
    BY <1>6 DEF IInv, MailKeysGood
  <2>3. QED
    BY <1>1, <2>1, <2>2 DEF MailKeysGood, Meant, Routed
<1>13. QED
  BY <1>4, <1>5, <1>8, <1>9, <1>10, <1>11, <1>12 DEF IInv

-----------------------------------------------------------------------------
(* The theorems.                                                           *)

LEMMA InitGood ==
  Init => IInv
<1> SUFFICES ASSUME Init
             PROVE  IInv
  OBVIOUS
<1>1. /\ arrived = 0 /\ forgotten = 0 /\ message = [n \in Mails |-> "unsent"]
      /\ checkpoint = 0 /\ renewal = None /\ lock = None
      /\ noteKey = [n \in Mails |-> "free"] /\ mailKey = [m \in Mails |-> "free"]
      /\ call = [t \in Threads |-> Idle] /\ ingestKey = [m \in Mails |-> "free"]
      /\ ingested = [m \in Mails |-> 0] /\ failedLate = [m \in Mails |-> 0]
      /\ request = [r \in Requests |-> NoRequest]
      /\ passedOver = {} /\ overlooked = FALSE /\ delivered = 0 /\ faults = 0
  BY DEF Init
<1>2. Mails \subseteq Nat \ {0}
  BY MailsTyped
<1>3. Typed
  <2>1. call \in [Threads -> CallRows] /\ request \in [Requests -> RequestRows]
    BY <1>1, IdleTyped
  <2>2. /\ message \in [Mails -> {"unsent", "pending", "settled"}]
        /\ noteKey \in [Mails -> Keys] /\ mailKey \in [Mails -> Keys]
        /\ ingestKey \in [Mails -> Keys] /\ ingested \in [Mails -> Nat]
        /\ failedLate \in [Mails -> Nat]
    BY <1>1 DEF Keys
  <2>3. /\ arrived \in Mails \cup {0} /\ forgotten \in 0..arrived
        /\ checkpoint \in 0..arrived /\ delivered \in 0..MaxDeliveries /\ faults \in 0..MaxFaults
    BY <1>1, MailsTyped
  <2>4. QED
    BY <1>1, <2>1, <2>2, <2>3 DEF Typed
<1>4. \A t \in Threads : CallGood(t)
  BY <1>1, MailsTyped, IdleTyped DEF CallGood, CursorGood, Locked, Listed, Holding
<1>5. \A r \in Requests : RequestGood(r) /\ request[r].pc = "idle"
  BY <1>1, IdleTyped DEF RequestGood
<1>6. OneIngests
  BY <1>5 DEF OneIngests, Ingesting
<1>7. IngestKeysGood /\ MailKeysGood
  BY <1>1 DEF IngestKeysGood, MailKeysGood
<1>8. NotesGood
  BY <1>1, <1>2 DEF NotesGood
<1>9. \A m \in Mails : m <= checkpoint => Covered(m)
  BY <1>1, <1>2
<1>10. QED
  BY <1>3, <1>4, <1>5, <1>6, <1>7, <1>8, <1>9 DEF IInv

LEMMA NextKeeps ==
  ASSUME IInv, [Next]_vars
  PROVE  IInv'
<1>1. CASE UNCHANGED vars
  <2>1. /\ arrived' = arrived /\ forgotten' = forgotten /\ message' = message
        /\ checkpoint' = checkpoint /\ renewal' = renewal /\ lock' = lock
        /\ noteKey' = noteKey /\ mailKey' = mailKey /\ call' = call
        /\ ingestKey' = ingestKey /\ ingested' = ingested /\ failedLate' = failedLate /\ request' = request
        /\ passedOver' = passedOver /\ overlooked' = overlooked
        /\ delivered' = delivered /\ faults' = faults
    BY <1>1 DEF vars, ingestion
  <2>2. Typed /\ arrived \in Nat
    BY MailsTyped DEF IInv, Typed
  <2>3. Typed'
    BY <2>1, <2>2 DEF Typed
  <2>4. NotesGood' /\ \A m \in Mails : m <= checkpoint' => Covered(m)'
    BY <2>1, NotesStay DEF IInv
  <2>5. QED
    BY <2>1, <2>2, <2>3, <2>4, QuietKeeps
<1>2. ASSUME NEW t \in Threads, NEW n \in Mails, Deliver(t, n)
      PROVE  IInv'
  BY <1>2, DeliverSound, ThreadSuffices
<1>3. CASE Next
  BY <1>2, <1>3, ThreadStepKeeps, RequestStepKeeps, MailArrivesKeeps, HistoryExpiresKeeps,
     RenewWatchKeeps, SaveRenewalKeeps, SubscriberDiesKeeps, ServerDiesKeeps DEF Next
<1>4. QED
  BY <1>1, <1>3

\* The invariant: whoever holds a key, or has left it, answers for its mail.
THEOREM EmailIngressInvariant ==
  Spec => []IInv
<1>1. IInv /\ [Next]_vars => IInv'
  BY NextKeeps
<1>2. QED
  BY InitGood, <1>1, PTL DEF Spec

\* Redelivered notifications, relisted mails and repeated requests ingest an
\* attachment once, and once more only for each ingestion that raised after its effect
\* and gave its key back (run_once around _do_ingest).
THEOREM AttachmentsIngestedOnce ==
  Spec => []IngestedOnce
<1>1. IInv => IngestedOnce
  BY DEF IInv, IngestKeysGood, IngestedOnce
<1>2. QED
  BY <1>1, EmailIngressInvariant, PTL

\* gmail_watch_state.history_id passes no mail that was not handled, whoever dies and
\* whatever fails, unless the renewal sets it.
THEOREM CheckpointNeverSkips ==
  Spec => []CheckpointCovers
<1>1. IInv => CheckpointCovers
  BY DEF IInv, Typed, CheckpointCovers, TypeOK, Covered, CallRows, RequestRows
<1>2. QED
  BY <1>1, EmailIngressInvariant, PTL

\* From the notification to the ingestion, no mail that arrived is lost.
THEOREM MailsArrive ==
  Spec => []NoMailLost
<1>1. IInv => NoMailLost
  <2> SUFFICES ASSUME IInv
               PROVE  NoMailLost
    OBVIOUS
  <2>1. \A m \in Mails : mailKey[m] = "completed" /\ Meant(m) =>
          ingested[m] > 0 \/ ingestKey[m] = "reserved" \/ m \in passedOver
    BY DEF IInv, MailKeysGood, Dealt
  <2>2. ASSUME ~ overlooked, \A n \in Mails : message[n] # "pending",
               NEW m \in Mails, m <= arrived
        PROVE  mailKey[m] = "completed" \/ m \in passedOver
    <3>1. m \in Nat /\ arrived \in Nat
      BY MailsTyped DEF IInv, Typed
    <3>2. message[m] \in {"unsent", "pending", "settled"} /\ message[m] # "unsent"
      BY <2>2, <3>1 DEF IInv, Typed, NotesGood
    <3>3. message[m] = "settled"
      BY <2>2, <3>2
    <3>4. QED
      BY <2>2, <3>3 DEF IInv, NotesGood, Covered
  <2>3. QED
    BY <2>1, <2>2 DEF NoMailLost
<1>2. QED
  BY <1>1, EmailIngressInvariant, PTL
=============================================================================
