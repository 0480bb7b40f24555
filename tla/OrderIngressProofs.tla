------------------------- MODULE OrderIngressProofs -------------------------
(***************************************************************************)
(* For every history of updates, all zones, every set of loops and         *)
(* operators and every bound: the state is well typed, an update whose     *)
(* webhook was answered is lost only to one that is later or reads later,  *)
(* and a paid order whose call has answered is settled.                    *)
(*                                                                         *)
(* The second needs what the code leaves implicit: the text a row keeps is *)
(* the shop's local time of the update it shows, or the time in UTC where  *)
(* a resync put that update (RowsTrue), as a webhook holds the local time  *)
(* of its update and an operator's call the time in UTC (TextsTrue).  An   *)
(* update that ReadOrder drops is then older than the one the row shows,   *)
(* which was put, or only reads as if it were (ReadsLater).                *)
(***************************************************************************)
EXTENDS OrderIngress, SequenceTheorems, TLAPS

Before == {"idle", "reserve_key", "wait", "read", "put_order"}
Covered(v) ==
  \/ v \in applied
  \/ \E w \in applied : Updates[w].time > Updates[v].time \/ ReadsLater(w, v)

CallsPlaced ==
  \A c \in Calls :
    /\ call[c].pc # "idle" => call[c].version \in Versions /\ call[c].text \in Int
    /\ call[c].pc = "put_order" => call[c].id \in DOMAIN order \cup {None}
    /\ call[c].pc \notin Before => call[c].id \in DOMAIN order

RowsTrue ==
  \A i \in DOMAIN order :
    /\ order[i].version \in applied
    /\ \/ order[i].text = LocalText(order[i].version)
       \/ order[i].version \in resynced /\ order[i].text = UtcText(order[i].version)

TextOf(c, v) == IF c \in Loops THEN LocalText(v) ELSE UtcText(v)
TextsTrue ==
  \A c \in Calls : call[c].pc # "idle" => call[c].text = TextOf(c, call[c].version)

CallsCovered ==
  \A c \in Loops : call[c].pc \notin Before => Covered(call[c].version)

IInv == TypeOK /\ CallsPlaced /\ RowsTrue /\ TextsTrue /\ CallsCovered /\ NoUpdateIsLost

LEMMA UpdatesTyped ==
  /\ 1 \in Versions /\ Versions = 1..Len(Updates) /\ Len(Updates) \in Nat
  /\ \A v \in Versions : Updates[v].time \in Nat
<1>1. /\ Updates \in Seq([time : Nat, financial : {"authorized", "paid", "refunded"}])
      /\ Updates # <<>>
  BY IngressAssumption DEF IngressAssumption
<1>2. Len(Updates) \in Nat /\ Len(Updates) # 0 /\ DOMAIN Updates = 1..Len(Updates)
  BY <1>1
<1>3. \A v \in DOMAIN Updates : Updates[v] \in [time : Nat, financial : {"authorized", "paid", "refunded"}]
  BY <1>1, <1>2, ElementOfSeq
<1>4. QED
  BY <1>2, <1>3 DEF Versions

LEMMA ConstantsTyped ==
  /\ MaxBegun \in Nat /\ Stock \in Nat /\ None \notin Int
  /\ \A z \in Zones : \A v \in Versions : z[v] \in Int
BY IngressAssumption DEF IngressAssumption, Versions

LEMMA CoveredKept ==
  ASSUME zone' = zone, applied \subseteq applied', resynced \subseteq resynced'
  PROVE  \A v : Covered(v) => Covered(v)'
BY DEF Covered, ReadsLater, LocalText, UtcText

LEMMA TextsTyped ==
  ASSUME zone \in Zones, NEW v \in Versions
  PROVE  LocalText(v) \in Int /\ UtcText(v) \in Int
<1>1. zone[v] \in Int /\ Updates[v].time \in Nat
  BY ConstantsTyped, UpdatesTyped
<1>2. QED
  BY <1>1 DEF LocalText, UtcText

-----------------------------------------------------------------------------
(* What a call holds.                                                      *)

\* Call c goes from where it is to p and keeps its update; the others keep all.
Moved(c, p) ==
  /\ call'[c].pc = p /\ call'[c].version = call[c].version /\ call'[c].text = call[c].text
  /\ \A x \in Calls \ {c} : call'[x] = call[x]

\* Two steps of a call: one that only goes on, and one that also fills other fields.
LEMMA GotoTyped ==
  ASSUME NEW c \in Calls, NEW p \in Places, call \in [Calls -> CallRows],
         call' = [call EXCEPT ![c].pc = p]
  PROVE  /\ call' \in [Calls -> CallRows] /\ Moved(c, p)
         /\ call'[c].id = call[c].id
BY DEF CallRows, Moved

LEMMA OutcomeTyped ==
  ASSUME NEW c \in Calls, NEW p \in Places, call \in [Calls -> CallRows], NEW o \in Outcomes,
         call' = [call EXCEPT ![c].pc = p, ![c].outcome = o]
  PROVE  /\ call' \in [Calls -> CallRows] /\ Moved(c, p)
         /\ call'[c].id = call[c].id
BY DEF CallRows, Moved

LEMMA LookTyped ==
  ASSUME NEW c \in Calls, NEW p \in Places, call \in [Calls -> CallRows], NEW o \in Outcomes,
         call' = [call EXCEPT ![c].pc = p, ![c].look = o]
  PROVE  /\ call' \in [Calls -> CallRows] /\ Moved(c, p)
         /\ call'[c].id = call[c].id
BY DEF CallRows, Moved

LEMMA LinesTyped ==
  ASSUME NEW c \in Calls, NEW p \in Places, call \in [Calls -> CallRows], NEW n \in Nat,
         NEW o \in Outcomes,
         call' = [call EXCEPT ![c].lines = n, ![c].outcome = o, ![c].pc = p]
  PROVE  /\ call' \in [Calls -> CallRows] /\ Moved(c, p)
         /\ call'[c].id = call[c].id
<1> DEFINE row == [call[c] EXCEPT !.lines = n, !.outcome = o, !.pc = p]
<1>1. /\ row \in CallRows /\ row.pc = p /\ row.id = call[c].id
      /\ row.version = call[c].version /\ row.text = call[c].text
  BY DEF CallRows
<1>2. call' = [call EXCEPT ![c] = row]
  OBVIOUS
<1> HIDE DEF row
<1>3. QED
  BY <1>1, <1>2 DEF Moved

LEMMA RowTyped ==
  ASSUME NEW c \in Calls, NEW p \in Places, call \in [Calls -> CallRows],
         NEW i \in OrderIds \cup {None},
         call' = [call EXCEPT ![c].pc = p, ![c].id = i]
  PROVE  /\ call' \in [Calls -> CallRows] /\ Moved(c, p)
         /\ call'[c].id = i
BY DEF CallRows, Moved

LEMMA IdleTyped == Idle \in CallRows
BY DEF Idle, CallRows, Places, Outcomes, OrderIds

LEMMA InitType == Init => TypeOK
<1> USE ConstantsTyped, UpdatesTyped
<1> SUFFICES ASSUME Init PROVE TypeOK
    OBVIOUS
<1>1. call \in [Calls -> CallRows]
  BY IdleTyped DEF Init
<1>2. order \in Seq([version : Versions, text : Int]) /\ Len(order) <= MaxBegun
  BY DEF Init
<1>3. QED
  BY <1>1, <1>2 DEF Init, TypeOK, Outcomes

-----------------------------------------------------------------------------
(* The steps after the row: they keep the call's update, its row, the keys *)
(* and the history.                                                        *)

StoreTyped ==
  /\ current \in Versions /\ zone \in Zones
  /\ key \in [Versions -> {"free", "reserved", "completed"}]
  /\ order \in Seq([version : Versions, text : Int]) /\ Len(order) <= MaxBegun
  /\ mapping \in DOMAIN order \cup {None}
  /\ lines \in [OrderIds -> Nat] /\ reserved \in [OrderIds -> Nat]
  /\ execution \in [OrderIds -> Steps \cup {None}]
  /\ marker \in [OrderIds -> Outcomes] /\ asked \in [OrderIds -> BOOLEAN]
  /\ applied \subseteq Versions /\ resynced \subseteq applied
  /\ putBy \in [OrderIds -> Calls \cup {None}]
  /\ empty \in [OrderIds -> BOOLEAN]

LEMMA TypeParts == TypeOK <=> StoreTyped /\ call \in [Calls -> CallRows]
BY DEF TypeOK, StoreTyped

OnwardStep(c) ==
  \/ PutMapping(c) \/ PutLines(c) \/ FindExecution(c) \/ PutExecution(c) \/ Advance(c)
  \/ FindMarker(c) \/ FindReserved(c) \/ Reserve(c) \/ LookForMarker(c) \/ PutMarker(c)
  \/ PutStep(c) \/ EvaluateShortage(c)

Onward(c) ==
  /\ call[c].pc \notin Before /\ call[c].pc \in Places
  /\ \E p \in Places \ Before : Moved(c, p)
  /\ call'[c].id = call[c].id
  /\ UNCHANGED <<zone, key, order, applied, resynced>>

LEMMA OnwardTyped ==
  ASSUME NEW c \in Calls, TypeOK, CallsPlaced, OnwardStep(c)
  PROVE  TypeOK' /\ Onward(c)
<1> USE ConstantsTyped, UpdatesTyped
<1>0. StoreTyped /\ call \in [Calls -> CallRows]
  BY TypeParts
<1>a. call[c] \in CallRows /\ DOMAIN order = 1..Len(order) /\ Len(order) \in Nat
  BY <1>0 DEF StoreTyped
<1>b. call[c].pc \notin Before => call[c].id \in DOMAIN order /\ call[c].id \in OrderIds
  BY <1>0, <1>a DEF CallsPlaced, StoreTyped, OrderIds
<1> SUFFICES StoreTyped' /\ call' \in [Calls -> CallRows] /\ Onward(c)
  BY DEF TypeOK, StoreTyped
<1>1. CASE PutMapping(c)
  <2>0. call[c].pc = "put_mapping"
    BY <1>1 DEF PutMapping, At
  <2>1. PICK p \in Places \ Before : call' = [call EXCEPT ![c].pc = p]
    BY <1>1 DEF PutMapping, Goto, Places, Before
  <2>2. /\ call' \in [Calls -> CallRows] /\ Moved(c, p)
        /\ call'[c].id = call[c].id
    BY <1>0, <2>1, GotoTyped
  <2>3. StoreTyped' /\ UNCHANGED <<zone, key, order, applied, resynced>>
    BY <1>0, <1>a, <1>b, <1>1, <2>0 DEF PutMapping, StoreTyped, Before, storefront, allocation, history
  <2>4. QED
    BY <2>0, <2>2, <2>3 DEF Onward, Places, Before
<1>2. CASE PutLines(c)
  <2>0. call[c].pc = "put_lines"
    BY <1>2 DEF PutLines, At
  <2>1. PICK p \in Places \ Before : call' = [call EXCEPT ![c].pc = p]
    BY <1>2 DEF PutLines, Goto, Places, Before
  <2>2. /\ call' \in [Calls -> CallRows] /\ Moved(c, p)
        /\ call'[c].id = call[c].id
    BY <1>0, <2>1, GotoTyped
  <2>3. StoreTyped' /\ UNCHANGED <<zone, key, order, applied, resynced>>
    <3>1. lines' = [lines EXCEPT ![call[c].id] = lines[call[c].id] + 1]
      BY <1>2 DEF PutLines
    <3>2. lines' \in [OrderIds -> Nat]
      <4>1. call[c].id \in OrderIds /\ lines \in [OrderIds -> Nat]
        BY <1>0, <1>b, <2>0 DEF StoreTyped, Before
      <4>2. QED
        BY <3>1, <4>1
    <3>3. QED
      BY <1>0, <1>2, <3>2 DEF PutLines, StoreTyped, storefront, allocation, history
  <2>4. QED
    BY <2>0, <2>2, <2>3 DEF Onward, Places, Before
<1>3. CASE FindExecution(c)
  <2>0. call[c].pc = "find_execution"
    BY <1>3 DEF FindExecution, At
  <2>1. PICK p \in Places \ Before : call' = [call EXCEPT ![c].pc = p]
    <3>1. \/ call' = [call EXCEPT ![c].pc = "put_execution"]
          \/ call' = [call EXCEPT ![c].pc = "advance"]
      BY <1>3 DEF FindExecution, Goto
    <3>2. QED
      BY <3>1 DEF Places, Before
  <2>2. /\ call' \in [Calls -> CallRows] /\ Moved(c, p)
        /\ call'[c].id = call[c].id
    BY <1>0, <2>1, GotoTyped
  <2>3. StoreTyped' /\ UNCHANGED <<zone, key, order, applied, resynced>>
    BY <1>0, <1>a, <1>b, <1>3, <2>0 DEF FindExecution, StoreTyped, Before, storefront, allocation, history
  <2>4. QED
    BY <2>0, <2>2, <2>3 DEF Onward, Places, Before
<1>4. CASE PutExecution(c)
  <2>0. call[c].pc = "put_execution"
    BY <1>4 DEF PutExecution, At
  <2>1. PICK p \in Places \ Before : call' = [call EXCEPT ![c].pc = p]
    BY <1>4 DEF PutExecution, Goto, Places, Before
  <2>2. /\ call' \in [Calls -> CallRows] /\ Moved(c, p)
        /\ call'[c].id = call[c].id
    BY <1>0, <2>1, GotoTyped
  <2>3. StoreTyped' /\ UNCHANGED <<zone, key, order, applied, resynced>>
    BY <1>0, <1>a, <1>b, <1>4, <2>0 DEF PutExecution, StoreTyped, Before, storefront, allocation, history, Steps
  <2>4. QED
    BY <2>0, <2>2, <2>3 DEF Onward, Places, Before
<1>5. CASE Advance(c)
  <2>0. call[c].pc = "advance"
    BY <1>5 DEF Advance, At
  <2>1. PICK p \in Places \ Before : call' = [call EXCEPT ![c].pc = p]
    BY <1>5 DEF Advance, Goto, Places, Before
  <2>2. /\ call' \in [Calls -> CallRows] /\ Moved(c, p)
        /\ call'[c].id = call[c].id
    BY <1>0, <2>1, GotoTyped
  <2>3. StoreTyped' /\ UNCHANGED <<zone, key, order, applied, resynced>>
    BY <1>0, <1>a, <1>b, <1>5, <2>0 DEF Advance, StoreTyped, Before, storefront, allocation, history
  <2>4. QED
    BY <2>0, <2>2, <2>3 DEF Onward, Places, Before
<1>6. CASE FindMarker(c)
  <2>0. call[c].pc = "find_marker"
    BY <1>6 DEF FindMarker, At
  <2>1. PICK p \in Places \ Before, x \in Nat, o \in Outcomes :
             call' = [call EXCEPT ![c].lines = x, ![c].outcome = o, ![c].pc = p]
    BY <1>0, <1>b, <1>6, <2>0 DEF FindMarker, StoreTyped, Places, Before
  <2>2. /\ call' \in [Calls -> CallRows] /\ Moved(c, p)
        /\ call'[c].id = call[c].id
    BY <1>0, <2>1, LinesTyped
  <2>3. StoreTyped' /\ UNCHANGED <<zone, key, order, applied, resynced>>
    BY <1>0, <1>a, <1>b, <1>6, <2>0 DEF FindMarker, StoreTyped, Before, storefront, allocation, history
  <2>4. QED
    BY <2>0, <2>2, <2>3 DEF Onward, Places, Before
<1>7. CASE FindReserved(c)
  <2>0. call[c].pc = "find_reserved"
    BY <1>7 DEF FindReserved, At
  <2>1. PICK p \in Places \ Before, o \in Outcomes :
             call' = [call EXCEPT ![c].pc = p, ![c].outcome = o]
    BY <1>0, <1>b, <1>7, <2>0 DEF FindReserved, StoreTyped, Places, Before, Outcomes, Results
  <2>2. /\ call' \in [Calls -> CallRows] /\ Moved(c, p)
        /\ call'[c].id = call[c].id
    BY <1>0, <2>1, OutcomeTyped
  <2>3. StoreTyped' /\ UNCHANGED <<zone, key, order, applied, resynced>>
    BY <1>0, <1>a, <1>b, <1>7, <2>0 DEF FindReserved, StoreTyped, Before, storefront, allocation, history
  <2>4. QED
    BY <2>0, <2>2, <2>3 DEF Onward, Places, Before
<1>8. CASE Reserve(c)
  <2>0. call[c].pc = "reserve"
    BY <1>8 DEF Reserve, At
  <2>1. PICK p \in Places \ Before, o \in Outcomes :
             call' = [call EXCEPT ![c].pc = p, ![c].outcome = o]
    <3> DEFINE o == IF call[c].lines = 0 THEN "nothing"
                    ELSE IF call[c].lines <= Left THEN "reserved" ELSE "shortfall"
    <3>1. o \in Outcomes
      BY DEF Outcomes, Results
    <3>2. call' = [call EXCEPT ![c].pc = "look_marker", ![c].outcome = o]
      BY <1>8 DEF Reserve
    <3>3. QED
      BY <3>1, <3>2 DEF Places, Before
  <2>2. /\ call' \in [Calls -> CallRows] /\ Moved(c, p)
        /\ call'[c].id = call[c].id
    BY <1>0, <2>1, OutcomeTyped
  <2>3. StoreTyped' /\ UNCHANGED <<zone, key, order, applied, resynced>>
    BY <1>0, <1>a, <1>b, <1>8, <2>0 DEF Reserve, StoreTyped, Before, storefront, allocation, history, CallRows
  <2>4. QED
    BY <2>0, <2>2, <2>3 DEF Onward, Places, Before
<1>9. CASE LookForMarker(c)
  <2>0. call[c].pc = "look_marker"
    BY <1>9 DEF LookForMarker, At
  <2>1. PICK p \in Places \ Before, o \in Outcomes :
             call' = [call EXCEPT ![c].pc = p, ![c].look = o]
    BY <1>0, <1>b, <1>9, <2>0 DEF LookForMarker, StoreTyped, Places, Before, Outcomes, Results
  <2>2. /\ call' \in [Calls -> CallRows] /\ Moved(c, p)
        /\ call'[c].id = call[c].id
    BY <1>0, <2>1, LookTyped
  <2>3. StoreTyped' /\ UNCHANGED <<zone, key, order, applied, resynced>>
    BY <1>0, <1>a, <1>b, <1>9, <2>0 DEF LookForMarker, StoreTyped, Before, storefront, allocation, history
  <2>4. QED
    BY <2>0, <2>2, <2>3 DEF Onward, Places, Before
<1>10. CASE PutMarker(c)
  <2>0. call[c].pc = "put_marker"
    BY <1>10 DEF PutMarker, At
  <2>1. PICK p \in Places \ Before : call' = [call EXCEPT ![c].pc = p]
    BY <1>10 DEF PutMarker, Goto, Places, Before
  <2>2. /\ call' \in [Calls -> CallRows] /\ Moved(c, p)
        /\ call'[c].id = call[c].id
    BY <1>0, <2>1, GotoTyped
  <2>3. StoreTyped' /\ UNCHANGED <<zone, key, order, applied, resynced>>
    BY <1>0, <1>a, <1>b, <1>10, <2>0 DEF PutMarker, StoreTyped, Before, storefront, allocation, history, CallRows, Outcomes, Results
  <2>4. QED
    BY <2>0, <2>2, <2>3 DEF Onward, Places, Before
<1>11. CASE PutStep(c)
  <2>0. call[c].pc = "put_step"
    BY <1>11 DEF PutStep, At
  <2>1. PICK p \in Places \ Before : call' = [call EXCEPT ![c].pc = p]
    BY <1>11 DEF PutStep, Goto, Places, Before
  <2>2. /\ call' \in [Calls -> CallRows] /\ Moved(c, p)
        /\ call'[c].id = call[c].id
    BY <1>0, <2>1, GotoTyped
  <2>3. StoreTyped' /\ UNCHANGED <<zone, key, order, applied, resynced>>
    BY <1>0, <1>a, <1>b, <1>11, <2>0 DEF PutStep, StoreTyped, Before, storefront, allocation, history, StepOf, Steps
  <2>4. QED
    BY <2>0, <2>2, <2>3 DEF Onward, Places, Before
<1>12. CASE EvaluateShortage(c)
  <2>0. call[c].pc = "ask"
    BY <1>12 DEF EvaluateShortage, At
  <2>1. PICK p \in Places \ Before : call' = [call EXCEPT ![c].pc = p]
    BY <1>12 DEF EvaluateShortage, Goto, Places, Before
  <2>2. /\ call' \in [Calls -> CallRows] /\ Moved(c, p)
        /\ call'[c].id = call[c].id
    BY <1>0, <2>1, GotoTyped
  <2>3. StoreTyped' /\ UNCHANGED <<zone, key, order, applied, resynced>>
    BY <1>0, <1>a, <1>b, <1>12, <2>0 DEF EvaluateShortage, StoreTyped, Before, storefront, allocation, history
  <2>4. QED
    BY <2>0, <2>2, <2>3 DEF Onward, Places, Before
<1>20. QED
  BY <1>1, <1>2, <1>3, <1>4, <1>5, <1>6, <1>7, <1>8, <1>9, <1>10, <1>11, <1>12 DEF OnwardStep

-----------------------------------------------------------------------------
(* The steps before and beside.                                            *)

Others(c) == \A x \in Calls \ {c} : call'[x] = call[x]

LEMMA ReturnTyped ==
  ASSUME NEW c \in Calls, call \in [Calls -> CallRows], Return(c)
  PROVE  call' \in [Calls -> CallRows] /\ call'[c].pc = "idle" /\ Others(c)
<1>1. call' = [call EXCEPT ![c] = Idle] /\ Idle.pc = "idle"
  BY DEF Return, Idle
<1>2. QED
  BY <1>1, IdleTyped DEF Others

\* A call ends, or all do; what is completed then was covered before.
LEMMA EndingKeeps ==
  ASSUME IInv, NEW C \in SUBSET Calls,
         \A c \in C : call'[c].pc = "idle", \A c \in Calls \ C : call'[c] = call[c],
         UNCHANGED <<zone, order, applied, resynced>>,
         \A v \in Versions : key'[v] = "completed" => key[v] = "completed" \/ Covered(v)
  PROVE  CallsPlaced' /\ RowsTrue' /\ TextsTrue' /\ CallsCovered' /\ NoUpdateIsLost'
<1>1. CallsPlaced'
  BY DEF IInv, CallsPlaced, Before
<1>2. RowsTrue'
  BY DEF IInv, RowsTrue, LocalText, UtcText
<1>3. TextsTrue'
  BY DEF IInv, TextsTrue, TextOf, LocalText, UtcText
<1>4. CallsCovered'
  BY CoveredKept DEF IInv, CallsCovered, Calls, Before
<1>5. NoUpdateIsLost'
  <2>1. \A v \in Versions : key'[v] = "completed" => Covered(v)
    BY DEF IInv, NoUpdateIsLost, Covered
  <2>2. QED
    BY <2>1, CoveredKept DEF NoUpdateIsLost, Covered
<1>6. QED
  BY <1>1, <1>2, <1>3, <1>4, <1>5

LEMMA OnwardKeeps ==
  ASSUME IInv, NEW c \in Calls, Onward(c)
  PROVE  CallsPlaced' /\ RowsTrue' /\ TextsTrue' /\ CallsCovered' /\ NoUpdateIsLost'
<1>0. PICK p \in Places \ Before : Moved(c, p)
  BY DEF Onward
<1>1. CallsPlaced'
  BY <1>0 DEF IInv, CallsPlaced, Onward, Moved, Before
<1>2. RowsTrue'
  BY DEF IInv, RowsTrue, Onward, LocalText, UtcText
<1>3. TextsTrue'
  BY <1>0 DEF IInv, TextsTrue, Onward, Moved, Before, TextOf, LocalText, UtcText
<1>4. CallsCovered'
  BY <1>0, CoveredKept DEF IInv, CallsCovered, Onward, Moved, Calls
<1>5. NoUpdateIsLost'
  BY DEF IInv, NoUpdateIsLost, Onward, ReadsLater, LocalText, UtcText
<1>6. QED
  BY <1>1, <1>2, <1>3, <1>4, <1>5

LEMMA BeginKeeps ==
  ASSUME IInv, NEW c \in Calls, NEW v \in Versions, NEW t \in Int,
         NEW p \in {"reserve_key", "read"}, Begin(c, v, t, p),
         t = TextOf(c, v),
         UNCHANGED <<storefront, key, mapping, order, lines, execution, allocation, history>>
  PROVE  IInv'
<1>0. StoreTyped /\ call \in [Calls -> CallRows]
  BY TypeParts DEF IInv
<1>1. /\ call' \in [Calls -> CallRows]
      /\ call'[c].pc = p /\ call'[c].version = v /\ call'[c].text = t
      /\ Others(c)
  <2> DEFINE row == [Idle EXCEPT !.pc = p, !.version = v, !.text = t]
  <2>1. call' = [call EXCEPT ![c] = row]
    BY DEF Begin
  <2>2. p \in Places
    BY DEF Places
  <2>3. row \in CallRows /\ row.pc = p /\ row.version = v /\ row.text = t
    BY <2>2 DEF CallRows, Idle, Outcomes
  <2> HIDE DEF row
  <2>4. QED
    BY <1>0, <2>1, <2>3 DEF Others
<1>2. TypeOK'
  <2>1. StoreTyped'
    BY <1>0 DEF StoreTyped, storefront, allocation, history
  <2>2. QED
    BY <1>1, <2>1 DEF TypeOK, StoreTyped
<1>3. CallsPlaced'
  BY <1>1 DEF IInv, CallsPlaced, Others, Before
<1>a. UNCHANGED <<zone, key, order, applied, resynced>>
  BY DEF storefront, history
<1>4. RowsTrue'
  BY <1>a DEF IInv, RowsTrue, LocalText, UtcText
<1>5. TextsTrue'
  BY <1>1, <1>a DEF IInv, TextsTrue, Others, TextOf, LocalText, UtcText
<1>6. CallsCovered'
  BY <1>1, <1>a, CoveredKept DEF IInv, CallsCovered, Others, Before, Calls
<1>7. NoUpdateIsLost'
  BY <1>a DEF IInv, NoUpdateIsLost, ReadsLater, LocalText, UtcText
<1>8. QED
  BY <1>2, <1>3, <1>4, <1>5, <1>6, <1>7 DEF IInv

LEMMA ReserveKeyKeeps ==
  ASSUME IInv, NEW c \in Calls, ReserveKey(c)
  PROVE  IInv'
<1>0. StoreTyped /\ call \in [Calls -> CallRows]
  BY TypeParts DEF IInv
<1>1. call[c].pc = "reserve_key" /\ call[c].version \in Versions
  BY DEF IInv, CallsPlaced, ReserveKey, At
<1>2. PICK p \in {"read", "wait"} : call' = [call EXCEPT ![c].pc = p]
  BY DEF ReserveKey, Goto
<1>3. /\ call' \in [Calls -> CallRows] /\ Moved(c, p)
      /\ call'[c].id = call[c].id
  BY <1>0, <1>2, GotoTyped DEF Places
<1>4. /\ key' \in [Versions -> {"free", "reserved", "completed"}]
      /\ \A v \in Versions : key'[v] = "completed" => key[v] = "completed"
  BY <1>0, <1>1 DEF ReserveKey, StoreTyped
<1>5. UNCHANGED <<storefront, mapping, order, lines, execution, allocation, history>>
  BY DEF ReserveKey
<1>6. TypeOK'
  BY <1>0, <1>3, <1>4, <1>5 DEF TypeOK, StoreTyped, storefront, allocation, history
<1>7. CallsPlaced'
  BY <1>1, <1>3, <1>5 DEF IInv, CallsPlaced, Moved, Before
<1>a. UNCHANGED <<zone, order, applied, resynced>>
  BY <1>5 DEF storefront, history
<1>8. RowsTrue' /\ NoUpdateIsLost'
  BY <1>4, <1>a DEF IInv, RowsTrue, NoUpdateIsLost, ReadsLater, LocalText, UtcText
<1>9. TextsTrue'
  BY <1>1, <1>3, <1>a DEF IInv, TextsTrue, Moved, TextOf, LocalText, UtcText
<1>10. CallsCovered'
  BY <1>3, <1>a, CoveredKept DEF IInv, CallsCovered, Moved, Before, Calls
<1>11. QED
  BY <1>6, <1>7, <1>8, <1>9, <1>10 DEF IInv

\* An update that is dropped is older than the one the row shows, and that was put.
LEMMA ReadOrderKeeps ==
  ASSUME IInv, NEW c \in Calls, ReadOrder(c)
  PROVE  IInv'
<1> USE ConstantsTyped, UpdatesTyped
<1>0. StoreTyped /\ call \in [Calls -> CallRows]
  BY TypeParts DEF IInv
<1>1. /\ call[c].pc = "read" /\ call[c].version \in Versions /\ call[c].text \in Int
      /\ DOMAIN order = 1..Len(order) /\ Len(order) \in Nat
      /\ mapping \in OrderIds \cup {None}
  <2>1. call[c].pc = "read" /\ call[c].version \in Versions /\ call[c].text \in Int
    BY DEF IInv, CallsPlaced, ReadOrder, At
  <2>2. DOMAIN order = 1..Len(order) /\ Len(order) \in Nat
    BY <1>0 DEF StoreTyped
  <2>3. mapping \in OrderIds \cup {None}
    BY <1>0, <2>2 DEF StoreTyped, OrderIds
  <2>4. QED
    BY <2>1, <2>2, <2>3
<1> DEFINE stale == mapping # None /\ Stale(call[c].text, order[mapping].text)
           p == IF stale THEN "find_execution" ELSE "put_order"
<1>2. p \in Places /\ call' = [call EXCEPT ![c].pc = p, ![c].id = mapping]
  BY DEF ReadOrder, Places
<1>3. /\ call' \in [Calls -> CallRows] /\ Moved(c, p)
      /\ call'[c].id = mapping
  BY <1>0, <1>1, <1>2, RowTyped
<1>4. UNCHANGED <<storefront, key, mapping, order, lines, execution, allocation, history>>
  BY DEF ReadOrder
<1>5. c \in Loops /\ stale => Covered(call[c].version)
  <2> SUFFICES ASSUME c \in Loops, stale PROVE Covered(call[c].version)
      OBVIOUS
  <2>1. mapping \in DOMAIN order
    BY <1>0 DEF StoreTyped
  <2> DEFINE w == order[mapping].version
  <2>2. order[mapping] \in [version : Versions, text : Int]
    BY <1>0, <1>1, <2>1, ElementOfSeq DEF StoreTyped
  <2>3. /\ w \in applied /\ w \in Versions
        /\ \/ order[mapping].text = LocalText(w)
           \/ w \in resynced /\ order[mapping].text = UtcText(w)
    BY <2>1, <2>2 DEF IInv, RowsTrue
  <2>4. call[c].text = LocalText(call[c].version)
    BY <1>1 DEF IInv, TextsTrue, TextOf
  <2>5. call[c].text < order[mapping].text
    BY DEF Stale
  <2> HIDE DEF w
  <2>6. Updates[w].time > Updates[call[c].version].time \/ ReadsLater(w, call[c].version)
    <3>1. Updates[w].time \in Nat /\ Updates[call[c].version].time \in Nat
      BY <1>1, <2>3
    <3>2. SUFFICES ASSUME Updates[w].time <= Updates[call[c].version].time
                   PROVE  ReadsLater(w, call[c].version)
      BY <3>1
    <3>3. QED
      BY <2>3, <2>4, <2>5, <3>2 DEF ReadsLater
  <2>7. QED
    BY <2>3, <2>6 DEF Covered
<1>6. TypeOK'
  BY <1>0, <1>3, <1>4 DEF TypeOK, StoreTyped, storefront, allocation, history
<1>7. CallsPlaced'
  BY <1>0, <1>1, <1>3, <1>4 DEF IInv, CallsPlaced, StoreTyped, Moved, Before
<1>a. UNCHANGED <<zone, key, order, applied, resynced>>
  BY <1>4 DEF storefront, history
<1>8. RowsTrue' /\ NoUpdateIsLost'
  BY <1>a DEF IInv, RowsTrue, NoUpdateIsLost, ReadsLater, LocalText, UtcText
<1>9. TextsTrue'
  BY <1>1, <1>3, <1>a DEF IInv, TextsTrue, Moved, TextOf, LocalText, UtcText
<1>10. CallsCovered'
  BY <1>3, <1>5, <1>a, CoveredKept DEF IInv, CallsCovered, Moved, Before, Calls
<1>11. QED
  BY <1>6, <1>7, <1>8, <1>9, <1>10 DEF IInv

LEMMA PutOrderKeeps ==
  ASSUME IInv, NEW c \in Calls, PutOrder(c)
  PROVE  IInv'
<1> USE ConstantsTyped, UpdatesTyped
<1>0. StoreTyped /\ call \in [Calls -> CallRows]
  BY TypeParts DEF IInv
<1> DEFINE id == IF call[c].id = None THEN Len(order) + 1 ELSE call[c].id
           row == [version |-> call[c].version, text |-> call[c].text]
           Rows == [version : Versions, text : Int]
<1>1. /\ call[c].pc = "put_order" /\ call[c].version \in Versions /\ call[c].text \in Int
      /\ call[c].id \in DOMAIN order \cup {None}
      /\ DOMAIN order = 1..Len(order) /\ Len(order) \in Nat
  <2>1. call[c].pc = "put_order" /\ CallsPlaced
    BY DEF IInv, PutOrder, At
  <2>2. /\ call[c].version \in Versions /\ call[c].text \in Int
        /\ call[c].id \in DOMAIN order \cup {None}
    BY <2>1, Zenon DEF CallsPlaced
  <2>3. DOMAIN order = 1..Len(order) /\ Len(order) \in Nat
    BY <1>0 DEF StoreTyped
  <2> QED BY <2>1, <2>2, <2>3
<1>2. /\ id \in 1..Len(order) + 1 /\ id \in OrderIds
      /\ row \in [version : Versions, text : Int]
  BY <1>1 DEF PutOrder, OrderIds
<1>3. /\ order' = IF id > Len(order) THEN Append(order, row) ELSE [order EXCEPT ![id] = row]
      /\ call' = [call EXCEPT ![c].pc = "put_mapping", ![c].id = id]
      /\ applied' = applied \cup {call[c].version} /\ putBy' = [putBy EXCEPT ![id] = c]
      /\ resynced' = IF c \in Operators THEN resynced \cup {call[c].version} ELSE resynced
      /\ UNCHANGED <<storefront, key, mapping, lines, execution, reserved, marker, asked, empty>>
  <2>1. /\ order' = IF id > Len(order) THEN Append(order, row) ELSE [order EXCEPT ![id] = row]
        /\ call' = [call EXCEPT ![c].pc = "put_mapping", ![c].id = id]
        /\ putBy' = [putBy EXCEPT ![id] = c]
    BY DEF PutOrder
  <2>2. /\ applied' = applied \cup {call[c].version}
        /\ resynced' = IF c \in Operators THEN resynced \cup {call[c].version} ELSE resynced
        /\ UNCHANGED <<storefront, key, mapping, lines, execution, reserved, marker, asked, empty>>
    BY DEF PutOrder, allocation
  <2>3. QED
    BY <2>1, <2>2
<1>4. /\ call' \in [Calls -> CallRows] /\ Moved(c, "put_mapping")
      /\ call'[c].id = id
  <2>1. "put_mapping" \in Places /\ id \in OrderIds \cup {None}
    BY <1>2 DEF Places
  <2> HIDE DEF id
  <2>2. QED
    BY <1>0, <1>3, <2>1, RowTyped
<1>5. /\ order' \in Seq([version : Versions, text : Int]) /\ Len(order') <= MaxBegun
      /\ DOMAIN order \subseteq DOMAIN order' /\ id \in DOMAIN order' /\ order'[id] = row
      /\ \A i \in DOMAIN order' \ {id} : i \in DOMAIN order /\ order'[i] = order[i]
  <2>0. order \in Seq(Rows) /\ Len(order) <= MaxBegun /\ row \in Rows
    BY <1>0, <1>2 DEF StoreTyped
  <2>a. id \in 1..Len(order) + 1 /\ id <= MaxBegun
    BY <1>2 DEF OrderIds
  <2> HIDE DEF row, id, Rows
  <2>1. /\ order' \in Seq(Rows) /\ Len(order') <= MaxBegun
        /\ Len(order') >= Len(order) /\ id \in 1..Len(order') /\ order'[id] = row
        /\ \A i \in 1..Len(order') \ {id} : i \in 1..Len(order) /\ order'[i] = order[i]
    <3>1. CASE id > Len(order)
      <4>1. order' = Append(order, row) /\ id = Len(order) + 1
        BY <1>1, <1>3, <2>a, <3>1
      <4>2. QED
        BY <1>1, <2>0, <2>a, <4>1, AppendProperties
    <3>2. CASE ~ (id > Len(order))
      <4>1. order' = [order EXCEPT ![id] = row] /\ id \in 1..Len(order)
        BY <1>1, <1>3, <2>a, <3>2
      <4>2. QED
        BY <1>1, <2>0, <4>1, ExceptSeq
    <3>3. QED
      BY <3>1, <3>2
  <2>2. DOMAIN order' = 1..Len(order') /\ Len(order') \in Nat
    BY <2>1
  <2>3. order' \in Seq([version : Versions, text : Int])
    BY <2>1 DEF Rows
  <2>4. DOMAIN order \subseteq DOMAIN order'
    BY <1>1, <2>1, <2>2
  <2>5. QED
    BY <1>1, <2>1, <2>2, <2>3, <2>4
<1>6. TypeOK'
  <2>1. /\ applied' \subseteq Versions /\ resynced' \subseteq applied'
        /\ putBy' \in [OrderIds -> Calls \cup {None}]
    BY <1>0, <1>1, <1>3 DEF StoreTyped
  <2>2. mapping' \in DOMAIN order' \cup {None} /\ current' \in Versions /\ zone' \in Zones
    BY <1>0, <1>3, <1>5 DEF StoreTyped, storefront
  <2>3. QED
    BY <1>0, <1>3, <1>4, <1>5, <2>1, <2>2 DEF TypeOK, StoreTyped
<1>a. /\ zone' = zone /\ applied \subseteq applied' /\ resynced \subseteq resynced'
      /\ call[c].version \in applied'
      /\ c \notin Loops => call[c].version \in resynced'
  BY <1>3 DEF storefront, Calls
<1>7. CallsPlaced'
  BY <1>1, <1>4, <1>5 DEF IInv, CallsPlaced, Moved, Before
<1>8. RowsTrue'
  <2> SUFFICES ASSUME NEW i \in DOMAIN order'
               PROVE  /\ order'[i].version \in applied'
                      /\ \/ order'[i].text = LocalText(order'[i].version)
                         \/ /\ order'[i].version \in resynced'
                            /\ order'[i].text = UtcText(order'[i].version)
      BY <1>a DEF RowsTrue, LocalText, UtcText
  <2>1. CASE i = id
    <3>1. call[c].text = IF c \in Loops THEN LocalText(call[c].version)
                         ELSE UtcText(call[c].version)
      BY <1>1 DEF IInv, TextsTrue, TextOf
    <3>2. order'[i].version = call[c].version /\ order'[i].text = call[c].text
      BY <1>5, <2>1
    <3>3. QED
      BY <1>a, <3>1, <3>2
  <2>2. CASE i # id
    BY <1>a, <1>5, <2>2 DEF IInv, RowsTrue
  <2>3. QED
    BY <2>1, <2>2
<1>9. TextsTrue'
  BY <1>1, <1>4, <1>a DEF IInv, TextsTrue, Moved, TextOf, LocalText, UtcText
<1>10. CallsCovered'
  <2>1. Covered(call[c].version)'
    BY <1>4, <1>a DEF Covered, Moved
  <2>2. QED
    BY <1>4, <1>a, <2>1, CoveredKept DEF IInv, CallsCovered, Moved, Before, Calls
<1>11. NoUpdateIsLost'
  <2>1. \A v \in Versions : key'[v] = "completed" => Covered(v)
    BY <1>3 DEF IInv, NoUpdateIsLost, Covered
  <2>2. QED
    BY <1>a, <2>1, CoveredKept DEF NoUpdateIsLost, Covered
<1>12. QED
  BY <1>6, <1>7, <1>8, <1>9, <1>10, <1>11 DEF IInv

\* An answered webhook has covered its update, and only then its key is completed.
LEMMA CompleteKeeps ==
  ASSUME IInv, NEW c \in Calls, Complete(c)
  PROVE  IInv'
<1>0. StoreTyped /\ call \in [Calls -> CallRows]
  BY TypeParts DEF IInv
<1>1. call' \in [Calls -> CallRows] /\ call'[c].pc = "idle" /\ Others(c)
  BY <1>0, ReturnTyped DEF Complete
<1>2. /\ call[c].pc = "complete" /\ call[c].version \in Versions
      /\ c \in Loops => Covered(call[c].version)
  BY DEF IInv, CallsPlaced, CallsCovered, Complete, At, Before
<1>3. /\ key' \in [Versions -> {"free", "reserved", "completed"}]
      /\ \A v \in Versions : key'[v] = "completed" => key[v] = "completed" \/ Covered(v)
  BY <1>0, <1>2 DEF Complete, StoreTyped
<1>4. putBy' \in [OrderIds -> Calls \cup {None}]
  BY <1>0 DEF Complete, StoreTyped
<1>5. UNCHANGED <<storefront, mapping, order, lines, execution, reserved, marker, asked, applied, resynced>>
  BY DEF Complete, allocation
<1>9. empty' = empty
  BY DEF Complete
<1>6. TypeOK'
  BY <1>0, <1>1, <1>3, <1>4, <1>5, <1>9 DEF TypeOK, StoreTyped, storefront
<1>7. CallsPlaced' /\ RowsTrue' /\ TextsTrue' /\ CallsCovered' /\ NoUpdateIsLost'
  BY <1>1, <1>3, <1>5, EndingKeeps, {c} \in SUBSET Calls DEF Others, storefront
<1>8. QED
  BY <1>6, <1>7 DEF IInv

LEMMA EndKeeps ==
  ASSUME IInv, NEW c \in Calls, WaitForResult(c) \/ Raise(c)
  PROVE  IInv'
<1>0. StoreTyped /\ call \in [Calls -> CallRows]
  BY TypeParts DEF IInv
<1>1. call' \in [Calls -> CallRows] /\ call'[c].pc = "idle" /\ Others(c)
  BY <1>0, ReturnTyped DEF WaitForResult, Raise
<1>2. call[c].pc # "idle" /\ call[c].version \in Versions
  BY DEF IInv, CallsPlaced, WaitForResult, Raise, At
<1>3. /\ key' \in [Versions -> {"free", "reserved", "completed"}]
      /\ \A v \in Versions : key'[v] = "completed" => key[v] = "completed"
  BY <1>0, <1>2 DEF WaitForResult, Raise, StoreTyped
<1>4. UNCHANGED <<storefront, mapping, order, lines, execution, allocation, history>>
  BY DEF WaitForResult, Raise
<1>5. TypeOK'
  BY <1>0, <1>1, <1>3, <1>4 DEF TypeOK, StoreTyped, storefront, allocation, history
<1>6. UNCHANGED <<zone, order, applied, resynced>>
  BY <1>4 DEF storefront, history
<1>7. CallsPlaced' /\ RowsTrue' /\ TextsTrue' /\ CallsCovered' /\ NoUpdateIsLost'
  BY <1>1, <1>3, <1>6, EndingKeeps, {c} \in SUBSET Calls DEF Others
<1>8. QED
  BY <1>5, <1>7 DEF IInv

LEMMA CrashKeeps == IInv /\ Crash => IInv'
<1> SUFFICES ASSUME IInv, Crash PROVE IInv'
    OBVIOUS
<1>0. StoreTyped /\ call \in [Calls -> CallRows]
  BY TypeParts DEF IInv
<1>1. call' = [c \in Calls |-> Idle] /\ Idle.pc = "idle"
  BY DEF Crash, Idle
<1>2. UNCHANGED <<storefront, key, mapping, order, lines, execution, allocation, history>>
  BY DEF Crash
<1>3. TypeOK'
  BY <1>0, <1>1, <1>2, IdleTyped DEF TypeOK, StoreTyped, storefront, allocation, history
<1>4. \A c \in Calls : call'[c].pc = "idle"
  BY <1>1
<1>5. UNCHANGED <<zone, order, applied, resynced, key>>
  BY <1>2 DEF storefront, history
<1>6. CallsPlaced' /\ RowsTrue' /\ TextsTrue' /\ CallsCovered' /\ NoUpdateIsLost'
  BY <1>4, <1>5, EndingKeeps, Calls \in SUBSET Calls
<1>7. QED
  BY <1>3, <1>6 DEF IInv

-----------------------------------------------------------------------------
(* The theorems.                                                           *)

LEMMA InitInv == Init => IInv
<1> SUFFICES ASSUME Init PROVE IInv
    OBVIOUS
<1>1. \A c \in Calls : call[c].pc = "idle"
  BY DEF Init, Idle
<1>2. CallsPlaced /\ TextsTrue /\ CallsCovered
  BY <1>1 DEF CallsPlaced, TextsTrue, CallsCovered, Before, Calls
<1>3. RowsTrue /\ NoUpdateIsLost
  BY DEF Init, RowsTrue, NoUpdateIsLost
<1>4. QED
  BY <1>2, <1>3, InitType DEF IInv

LEMMA StepKeepsInv == IInv /\ [Next]_vars => IInv'
<1> SUFFICES ASSUME IInv, [Next]_vars PROVE IInv'
    OBVIOUS
<1>0. TypeOK /\ CallsPlaced
  BY DEF IInv
<1>1. CASE UNCHANGED vars
  BY <1>1 DEF IInv, TypeOK, CallsPlaced, RowsTrue, TextsTrue, CallsCovered, Covered,
              NoUpdateIsLost, ReadsLater, TextOf, LocalText, UtcText,
              vars, storefront, allocation, history, bounds
<1>2. CASE Change
  <2>1. TypeOK'
    BY <1>0, <1>2, UpdatesTyped DEF Change, TypeOK, storefront, allocation, history
  <2>2. QED
    BY <1>2, <2>1 DEF Change, IInv, CallsPlaced, RowsTrue, TextsTrue, CallsCovered, Covered,
              NoUpdateIsLost, ReadsLater, TextOf, LocalText, UtcText, history
<1>3. CASE Crash
  BY <1>3, CrashKeeps
<1>4. ASSUME NEW c \in Loops, IngestWebhook(c) PROVE IInv'
  <2>1. PICK v \in 1..current : Begin(c, v, LocalText(v), "reserve_key")
    BY <1>4 DEF IngestWebhook
  <2>a. current \in Versions /\ zone \in Zones
    BY <1>0 DEF TypeOK
  <2>2. v \in Versions /\ LocalText(v) \in Int
    BY <2>a, UpdatesTyped, TextsTyped
  <2>3. QED
    BY <1>4, <2>1, <2>2, BeginKeeps DEF IngestWebhook, Calls, TextOf
<1>5. ASSUME NEW c \in Operators, ResyncOrder(c) PROVE IInv'
  <2>1. current \in Versions /\ UtcText(current) \in Int
    BY <1>0, TextsTyped DEF TypeOK
  <2>2. c \in Calls /\ c \notin Loops
    BY IngressAssumption DEF IngressAssumption, Calls
  <2>3. QED
    BY <1>5, <2>1, <2>2, BeginKeeps DEF ResyncOrder, TextOf
<1>6. ASSUME NEW c \in Calls, OnwardStep(c) PROVE IInv'
  <2>1. TypeOK' /\ Onward(c)
    BY <1>0, <1>6, OnwardTyped
  <2>2. QED
    BY <2>1, OnwardKeeps DEF IInv
<1>7. ASSUME NEW c \in Calls, Step(c) PROVE IInv'
  BY <1>6, <1>7, ReserveKeyKeeps, EndKeeps, ReadOrderKeeps, PutOrderKeeps, CompleteKeeps
     DEF Step, OnwardStep
<1>8. QED
  BY <1>1, <1>2, <1>3, <1>4, <1>5, <1>7, EndKeeps DEF Next

THEOREM IngressInvariant == Spec => []IInv
BY InitInv, StepKeepsInv, PTL DEF Spec

\* Every reachable state is well typed: rows, mapping and calls always refer to what
\* exists, for any calls, updates and bounds.
THEOREM IngressTypes == Spec => []TypeOK
<1>1. IInv => TypeOK
  BY DEF IInv
<1>2. QED
  BY <1>1, IngressInvariant, PTL

\* However late, often or out of order webhooks come, whatever resyncs run beside them
\* and whatever dies, in a zone ahead of UTC or behind it, with or without a change of
\* the clocks: an update that was answered for was put, or one that is later was, or
\* one whose text reads later by the zone or by the clocks.
THEOREM UpdatesSurvive == Spec => []NoUpdateIsLost
<1>1. IInv => NoUpdateIsLost
  BY DEF IInv
<1>2. QED
  BY <1>1, IngressInvariant, PTL

-----------------------------------------------------------------------------
(* What a paid order has got: the invariant behind PaidIsReserved.  What a *)
(* marker or a call says a reservation came to is true of the order        *)
(* (MarkersTrue, ResultsTrue), so that the call whose row it is answers    *)
(* for a paid order only when it is settled (AnswersSettle, RowsSettled);  *)
(* and while nothing failed, a paid order at "received" has a call that    *)
(* still has its step to put (StepsOwed).                                  *)

Paid(i) == Updates[order[i].version].financial = "paid"
Settled(i) == reserved[i] > 0 \/ asked[i] \/ empty[i]

\* Units are held, or no lines were found.
ResultTrue(o, i) == (o = "reserved" => reserved[i] > 0) /\ (o = "nothing" => empty[i])

\* A call that carries a result, and one that still has the step to put.
Carrying == {"look_marker", "put_marker", "put_step"}
Owing == {"put_mapping", "put_lines", "find_execution", "put_execution", "advance",
          "find_marker", "find_reserved", "reserve"} \cup Carrying

MarkersTrue == \A i \in OrderIds : ResultTrue(marker[i], i)

ResultGood(c) ==
  call[c].pc \in Carrying =>
    call[c].outcome # None /\ ResultTrue(call[c].outcome, call[c].id)
ResultsTrue == \A c \in Calls : ResultGood(c)

AnswerGood(c) ==
  call[c].pc = "complete" /\ putBy[call[c].id] = c /\ Paid(call[c].id) => Settled(call[c].id)
AnswersSettle == \A c \in Calls : AnswerGood(c)

RowsSettled == \A i \in DOMAIN order : putBy[i] = None /\ Paid(i) => Settled(i)

Owes(c, i) == call[c].id = i /\ call[c].pc \in Owing
StepsOwed ==
  faults = 0 => \A i \in DOMAIN order : Paid(i) /\ execution[i] = "received" =>
    \E c \in Calls : Owes(c, i)

PInv ==
  faults \in Nat /\ MarkersTrue /\ ResultsTrue /\ AnswersSettle /\ RowsSettled /\ StepsOwed

ResultAfter(o, i) == (o = "reserved" => reserved'[i] > 0) /\ (o = "nothing" => empty'[i])

\* What an order has got, it keeps.
Grow ==
  \A i \in OrderIds : /\ reserved[i] > 0 => reserved'[i] > 0
                      /\ asked[i] => asked'[i]
                      /\ empty[i] => empty'[i]

\* Only the step of a call that has settled the order may answer for its row.
AnsweredBy(c) ==
  \A i \in OrderIds :
    \/ putBy'[i] = putBy[i]
    \/ putBy'[i] = None /\ (i \in DOMAIN order /\ Paid(i) => Settled(i))

\* The step of a paid order is put to "received" by one that owes the next, and a
\* call stops owing only when it has put the next.
OwingKept(c) ==
  faults' = 0 => /\ faults = 0
                 /\ \A i \in DOMAIN order : Paid(i) /\ execution'[i] = "received" =>
                      \/ Owes(c, i)'
                      \/ execution[i] = "received" /\ ~ Owes(c, i)

LEMMA PlacesTyped ==
  ASSUME IInv
  PROVE  /\ DOMAIN order \subseteq OrderIds
         /\ \A c \in Calls : call[c] \in CallRows
         /\ \A c \in Calls : call[c].pc \notin Before =>
              call[c].id \in DOMAIN order /\ call[c].id \in OrderIds
         /\ None \notin Calls /\ None \notin Results /\ None \notin Steps
<1>1. StoreTyped /\ call \in [Calls -> CallRows] /\ CallsPlaced
  BY TypeParts DEF IInv
<1>2. DOMAIN order \subseteq OrderIds
  BY <1>1, ConstantsTyped DEF StoreTyped, OrderIds
<1>3. QED
  BY <1>1, <1>2, IngressAssumption DEF CallsPlaced, IngressAssumption, Calls

LEMMA GrowKeeps ==
  ASSUME Grow, NEW i \in OrderIds
  PROVE  /\ Settled(i) => Settled(i)'
         /\ \A o : ResultTrue(o, i) => ResultAfter(o, i)
BY DEF Grow, Settled, ResultTrue, ResultAfter

LEMMA StepKeepsPaid ==
  ASSUME IInv, PInv, NEW c \in Calls, Others(c), order' = order, Grow,
         faults' \in Nat, MarkersTrue', ResultGood(c)', AnswerGood(c)', AnsweredBy(c),
         OwingKept(c)
  PROVE  PInv'
<1>0. /\ DOMAIN order \subseteq OrderIds
      /\ \A x \in Calls : call[x].pc \notin Before =>
           call[x].id \in DOMAIN order /\ call[x].id \in OrderIds
      /\ None \notin Calls
  BY PlacesTyped
<1>a. \A i : Paid(i)' <=> Paid(i)
  BY DEF Paid
<1>1. ResultsTrue'
  <2> SUFFICES ASSUME NEW x \in Calls, x # c, call[x].pc \in Carrying
               PROVE  /\ call[x].outcome # None
                      /\ call[x].outcome = "reserved" => reserved'[call[x].id] > 0
                      /\ call[x].outcome = "nothing" => empty'[call[x].id]
      BY DEF ResultsTrue, ResultGood, ResultTrue, Others
  <2>1. ResultGood(x) /\ call[x].id \in OrderIds
    BY <1>0 DEF PInv, ResultsTrue, Carrying, Before
  <2>2. QED
    BY <2>1, GrowKeeps DEF ResultGood, ResultAfter
<1>2. AnswersSettle'
  <2> SUFFICES ASSUME NEW x \in Calls, x # c, AnswerGood(x) PROVE AnswerGood(x)'
      BY DEF PInv, AnswersSettle
  <2>1. call'[x] = call[x]
    BY DEF Others
  <2>2. call[x].pc = "complete" => call[x].id \in OrderIds /\ x # None
    BY <1>0 DEF Before
  <2> SUFFICES ASSUME NEW i \in OrderIds, i = call[x].id, call[x].pc = "complete",
                      putBy'[i] = x, Paid(i)
               PROVE  Settled(i)'
      BY <1>a, <2>1, <2>2 DEF AnswerGood, Settled, Paid
  <2>3. putBy[i] = x
    BY <2>2 DEF AnsweredBy
  <2>4. Settled(i)
    BY <2>3 DEF AnswerGood
  <2>5. QED
    BY <2>4, GrowKeeps
<1>3. RowsSettled'
  <2> SUFFICES ASSUME NEW i \in DOMAIN order, putBy'[i] = None, Paid(i) PROVE Settled(i)'
      BY <1>a DEF RowsSettled
  <2>1. i \in OrderIds
    BY <1>0
  <2>2. Settled(i)
    BY <2>1 DEF AnsweredBy, PInv, RowsSettled
  <2>3. QED
    BY <2>1, <2>2, GrowKeeps
<1>4. StepsOwed'
  <2> SUFFICES ASSUME faults' = 0, NEW i \in DOMAIN order, Paid(i), execution'[i] = "received"
               PROVE  \E x \in Calls : Owes(x, i)'
      BY <1>a DEF StepsOwed
  <2>1. CASE Owes(c, i)'
    BY <2>1
  <2>2. CASE execution[i] = "received" /\ ~ Owes(c, i)
    <3>1. PICK x \in Calls : Owes(x, i)
      BY <2>2 DEF OwingKept, PInv, StepsOwed
    <3>2. x # c /\ call'[x] = call[x]
      BY <2>2, <3>1 DEF Others
    <3>3. Owes(x, i)'
      BY <3>1, <3>2 DEF Owes
    <3>4. QED
      BY <3>3
  <2>3. QED
    BY <2>1, <2>2 DEF OwingKept
<1>5. QED
  BY <1>1, <1>2, <1>3, <1>4 DEF PInv

-----------------------------------------------------------------------------
(* The steps of a call.                                                    *)

\* What the rest of an order's steps share: rows and answers stay.
LEMMA OnwardKeepsPaid ==
  ASSUME IInv, PInv, NEW c \in Calls, NEW i \in OrderIds, call[c].id = i, call'[c].id = i,
         Others(c), UNCHANGED <<order, putBy, faults>>, Grow, MarkersTrue',
         call'[c].pc \in Carrying =>
           call'[c].outcome # None /\ ResultAfter(call'[c].outcome, i),
         call'[c].pc = "complete" /\ Paid(i) => Settled(i)',
         \A x \in OrderIds \ {i} : execution'[x] = execution[x],
         \/ call'[c].pc \in Owing
         \/ ~ Paid(i) /\ execution' = execution
         \/ execution'[i] # "received"
         \/ execution' = execution /\ call[c].pc \notin Owing
  PROVE  PInv'
<1>1. AnsweredBy(c) /\ faults' \in Nat
  BY DEF AnsweredBy, PInv
<1>2. ResultGood(c)'
  BY DEF ResultGood, ResultTrue, ResultAfter
<1>3. AnswerGood(c)'
  BY DEF AnswerGood, Settled, Paid
<1>4. OwingKept(c)
  <2> SUFFICES ASSUME NEW x \in DOMAIN order, Paid(x), execution'[x] = "received", ~ Owes(c, x)'
               PROVE  execution[x] = "received" /\ ~ Owes(c, x)
      BY DEF OwingKept
  <2>1. x \in OrderIds
    BY PlacesTyped
  <2>2. QED
    BY <2>1 DEF Owes
<1>5. QED
  BY <1>1, <1>2, <1>3, <1>4, StepKeepsPaid

LEMMA OnwardStepKeepsPaid ==
  ASSUME IInv, PInv, NEW c \in Calls, OnwardStep(c)
  PROVE  PInv'
<1>0. /\ StoreTyped /\ call \in [Calls -> CallRows] /\ TypeOK'
      /\ Onward(c) /\ None \notin Results
  BY TypeParts, OnwardTyped, PlacesTyped DEF IInv
<1>1. PICK i \in OrderIds : i = call[c].id
  BY <1>0, PlacesTyped DEF Onward
<1>2. call'[c].id = i /\ Others(c) /\ order' = order
  BY <1>0, <1>1 DEF Onward, Moved, Others
<1>3. /\ ResultTrue(marker[i], i) /\ ResultGood(c) /\ MarkersTrue
      /\ marker[i] \in Outcomes /\ reserved[i] \in Nat /\ call[c].lines \in Nat
      /\ call[c].outcome \in Outcomes
  BY <1>0, <1>1 DEF PInv, MarkersTrue, ResultsTrue, StoreTyped, CallRows
<1> DEFINE Same == UNCHANGED <<reserved, asked, empty>>
           SameMarker == UNCHANGED <<reserved, empty, marker>>
<1>4. Same => Grow
  BY DEF Grow
<1>5. SameMarker => MarkersTrue'
  BY <1>3 DEF MarkersTrue, ResultTrue
<1>6. CASE PutMapping(c)
  <2>1. call'[c].pc = "put_lines"
    BY <1>0, <1>6 DEF PutMapping, Goto, CallRows
  <2>2. Same /\ SameMarker /\ UNCHANGED <<execution, putBy, faults>>
    BY <1>6 DEF PutMapping, storefront, allocation, history, bounds
  <2>3. QED
    BY <1>1, <1>2, <1>4, <1>5, <2>1, <2>2, OnwardKeepsPaid DEF Carrying, Owing
<1>7. CASE PutLines(c)
  <2>1. call'[c].pc = "find_execution"
    BY <1>0, <1>7 DEF PutLines, Goto, CallRows
  <2>2. Same /\ SameMarker /\ UNCHANGED <<execution, putBy, faults>>
    BY <1>7 DEF PutLines, storefront, allocation, history, bounds
  <2>3. QED
    BY <1>1, <1>2, <1>4, <1>5, <2>1, <2>2, OnwardKeepsPaid DEF Carrying, Owing
<1>8. CASE FindExecution(c)
  <2>1. call'[c].pc \in {"put_execution", "advance"}
    BY <1>0, <1>8 DEF FindExecution, Goto, CallRows
  <2>2. Same /\ SameMarker /\ UNCHANGED <<execution, putBy, faults>>
    BY <1>8 DEF FindExecution, storefront, allocation, history, bounds
  <2>3. QED
    BY <1>1, <1>2, <1>4, <1>5, <2>1, <2>2, OnwardKeepsPaid DEF Carrying, Owing
<1>9. CASE PutExecution(c)
  <2>1. call'[c].pc = "advance"
    BY <1>0, <1>9 DEF PutExecution, Goto, CallRows
  <2>2. Same /\ SameMarker /\ UNCHANGED <<putBy, faults>>
    BY <1>9 DEF PutExecution, storefront, allocation, history, bounds
  <2>3. \A x \in OrderIds \ {i} : execution'[x] = execution[x]
    BY <1>0, <1>1, <1>9 DEF PutExecution, StoreTyped
  <2>4. QED
    BY <1>1, <1>2, <1>4, <1>5, <2>1, <2>2, <2>3, OnwardKeepsPaid DEF Carrying, Owing
<1>10. CASE Advance(c)
  <2>1. call'[c].pc = IF Paid(i) THEN "find_marker" ELSE "complete"
    BY <1>0, <1>1, <1>10 DEF Advance, Goto, CallRows, Paid
  <2>2. Same /\ SameMarker /\ UNCHANGED <<execution, putBy, faults>>
    BY <1>10 DEF Advance, storefront, allocation, history, bounds
  <2>3. QED
    BY <1>1, <1>2, <1>4, <1>5, <2>1, <2>2, OnwardKeepsPaid DEF Carrying, Owing
<1>11. CASE FindMarker(c)
  <2>1. /\ call'[c].pc = IF marker[i] = None THEN "find_reserved" ELSE "put_step"
        /\ call'[c].outcome = marker[i]
    BY <1>0, <1>1, <1>11 DEF FindMarker, CallRows
  <2>2. Same /\ SameMarker /\ UNCHANGED <<execution, putBy, faults>>
    BY <1>11 DEF FindMarker, storefront, allocation, history, bounds
  <2>3. ResultAfter(call'[c].outcome, i)
    BY <1>3, <2>1, <2>2 DEF ResultTrue, ResultAfter
  <2>4. QED
    BY <1>1, <1>2, <1>4, <1>5, <2>1, <2>2, <2>3, OnwardKeepsPaid DEF Carrying, Owing
<1>12. CASE FindReserved(c)
  <2>1. \/ call'[c].pc = "reserve"
        \/ /\ call'[c].pc = "look_marker" /\ call'[c].outcome = "reserved"
           /\ reserved[i] > 0
    BY <1>0, <1>1, <1>12 DEF FindReserved, CallRows
  <2>2. Same /\ SameMarker /\ UNCHANGED <<execution, putBy, faults>>
    BY <1>12 DEF FindReserved, storefront, allocation, history, bounds
  <2>3. call'[c].pc \in Carrying =>
           call'[c].outcome # None /\ ResultAfter(call'[c].outcome, i)
    BY <1>0, <2>1, <2>2 DEF ResultAfter, Carrying, Results
  <2>4. QED
    BY <1>1, <1>2, <1>4, <1>5, <2>1, <2>2, <2>3, OnwardKeepsPaid DEF Carrying, Owing
<1>13. CASE Reserve(c)
  <2>1. /\ call'[c].pc = "look_marker"
        /\ call'[c].outcome = IF call[c].lines = 0 THEN "nothing"
                              ELSE IF call[c].lines <= Left THEN "reserved" ELSE "shortfall"
    BY <1>0, <1>13 DEF Reserve, CallRows
  <2>2. UNCHANGED <<execution, putBy, faults, asked, marker>>
    BY <1>13 DEF Reserve, bounds
  <2>3. /\ \A x \in OrderIds \ {i} : reserved'[x] = reserved[x] /\ empty'[x] = empty[x]
        /\ reserved'[i] = IF reserved[i] = 0 /\ call[c].lines <= Left
                          THEN call[c].lines ELSE reserved[i]
        /\ empty'[i] = (empty[i] \/ call[c].lines = 0)
    BY <1>0, <1>1, <1>13 DEF Reserve, StoreTyped
  <2>4. Grow
    <3>1. reserved[i] > 0 => reserved'[i] > 0
      BY <1>3, <2>3
    <3>2. \A x \in OrderIds : reserved[x] > 0 => reserved'[x] > 0
      BY <2>3, <3>1
    <3>3. \A x \in OrderIds : empty[x] => empty'[x]
      BY <2>3
    <3>4. QED
      BY <2>2, <3>2, <3>3 DEF Grow
  <2>5. MarkersTrue'
    BY <1>3, <2>2, <2>4, GrowKeeps DEF MarkersTrue, ResultTrue, ResultAfter
  <2>6. call'[c].outcome # None /\ ResultAfter(call'[c].outcome, i)
    <3>1. CASE call[c].lines = 0
      BY <1>0, <2>1, <2>3, <3>1 DEF ResultAfter, Results
    <3>2. CASE call[c].lines # 0 /\ call[c].lines <= Left
      <4>1. call'[c].outcome = "reserved" /\ (reserved[i] = 0 => reserved'[i] = call[c].lines)
            /\ (reserved[i] # 0 => reserved'[i] = reserved[i])
        BY <2>1, <2>3, <3>2
      <4>2. reserved'[i] > 0
        BY <1>3, <3>2, <4>1
      <4>3. QED
        BY <1>0, <4>1, <4>2 DEF ResultAfter, Results
    <3>3. CASE call[c].lines # 0 /\ ~ (call[c].lines <= Left)
      BY <1>0, <2>1, <3>3 DEF ResultAfter, Results
    <3>4. QED
      BY <3>1, <3>2, <3>3
  <2>7. QED
    BY <1>1, <1>2, <2>1, <2>2, <2>4, <2>5, <2>6, OnwardKeepsPaid DEF Carrying, Owing
<1>14. CASE LookForMarker(c)
  <2>1. call[c].pc = "look_marker" /\ call'[c].pc = "put_marker" /\ call'[c].outcome = call[c].outcome
    BY <1>0, <1>14 DEF LookForMarker, At, CallRows
  <2>2. Same /\ SameMarker /\ UNCHANGED <<execution, putBy, faults>>
    BY <1>14 DEF LookForMarker, storefront, allocation, history, bounds
  <2>3. call'[c].outcome # None /\ ResultAfter(call'[c].outcome, i)
    BY <1>1, <1>3, <2>1, <2>2 DEF ResultGood, ResultTrue, ResultAfter, Carrying
  <2>4. QED
    BY <1>1, <1>2, <1>4, <1>5, <2>1, <2>2, <2>3, OnwardKeepsPaid DEF Carrying, Owing
<1>15. CASE PutMarker(c)
  <2>1. call[c].pc = "put_marker" /\ call'[c].pc = "put_step" /\ call'[c].outcome = call[c].outcome
    BY <1>0, <1>15 DEF PutMarker, Goto, At, CallRows
  <2>2. Same /\ UNCHANGED <<execution, putBy, faults>>
    BY <1>15 DEF PutMarker, history, bounds
  <2>3. call'[c].outcome # None /\ ResultTrue(call[c].outcome, i) /\ ResultAfter(call'[c].outcome, i)
    BY <1>1, <1>3, <2>1, <2>2 DEF ResultGood, ResultTrue, ResultAfter, Carrying
  <2>4. /\ \A x \in OrderIds \ {i} : marker'[x] = marker[x]
        /\ marker'[i] \in {marker[i], call[c].outcome}
    BY <1>0, <1>1, <1>15 DEF PutMarker, StoreTyped
  <2>5. MarkersTrue'
    BY <1>3, <2>2, <2>3, <2>4 DEF MarkersTrue, ResultTrue
  <2>6. QED
    BY <1>1, <1>2, <1>4, <2>1, <2>2, <2>3, <2>5, OnwardKeepsPaid DEF Carrying, Owing
<1>16. CASE PutStep(c)
  <2>1. /\ call[c].pc = "put_step"
        /\ call'[c].pc = IF call[c].outcome = "shortfall" THEN "ask" ELSE "complete"
    BY <1>0, <1>16 DEF PutStep, Goto, At, CallRows
  <2>2. Same /\ SameMarker /\ UNCHANGED <<putBy, faults>>
    BY <1>16 DEF PutStep, storefront, allocation, history, bounds
  <2>3. /\ \A x \in OrderIds \ {i} : execution'[x] = execution[x]
        /\ execution'[i] # "received"
    BY <1>0, <1>1, <1>16 DEF PutStep, StoreTyped, StepOf
  <2>4. call'[c].pc = "complete" => Settled(i)'
    <3>1. call[c].outcome # None /\ ResultTrue(call[c].outcome, i)
      BY <1>1, <1>3, <2>1 DEF ResultGood, Carrying
    <3>2. call[c].outcome # "shortfall" => Settled(i)
      BY <1>3, <3>1 DEF Settled, ResultTrue, Outcomes, Results
    <3>3. QED
      BY <2>1, <2>2, <3>2 DEF Settled
  <2>5. QED
    BY <1>1, <1>2, <1>4, <1>5, <2>1, <2>2, <2>3, <2>4, OnwardKeepsPaid DEF Carrying, Owing
<1>17. CASE EvaluateShortage(c)
  <2>1. call[c].pc = "ask" /\ call'[c].pc = "complete"
    BY <1>0, <1>17 DEF EvaluateShortage, Goto, At, CallRows
  <2>2. SameMarker /\ UNCHANGED <<execution, putBy, faults>>
    BY <1>17 DEF EvaluateShortage, history, bounds
  <2>3. asked'[i] /\ \A x \in OrderIds : asked[x] => asked'[x]
    BY <1>0, <1>1, <1>17 DEF EvaluateShortage, StoreTyped
  <2>4. Grow /\ Settled(i)'
    BY <2>2, <2>3 DEF Grow, Settled
  <2>5. QED
    BY <1>1, <1>2, <1>5, <2>1, <2>2, <2>4, OnwardKeepsPaid DEF Carrying, Owing
<1>20. QED
  BY <1>6, <1>7, <1>8, <1>9, <1>10, <1>11, <1>12, <1>13, <1>14, <1>15, <1>16, <1>17 DEF OnwardStep

\* A call that begins, reads the order or ends without an answer.
LEMMA OutsideKeepsPaid ==
  ASSUME IInv, PInv, NEW c \in Calls, Others(c),
         UNCHANGED <<order, execution, allocation, history>>,
         call'[c].pc \notin Carrying \cup {"complete"},
         \/ call[c].pc \in Before /\ faults' = faults
         \/ faults' = faults + 1
  PROVE  PInv'
<1>1. Grow /\ MarkersTrue' /\ AnsweredBy(c)
  BY DEF Grow, PInv, MarkersTrue, ResultTrue, AnsweredBy, storefront, allocation, history
<1>2. ResultGood(c)' /\ AnswerGood(c)' /\ faults' \in Nat
  BY DEF ResultGood, AnswerGood, PInv
<1>3. OwingKept(c)
  <2>1. CASE call[c].pc \in Before /\ faults' = faults
    BY <2>1 DEF OwingKept, Owes, Before, Owing, Carrying
  <2>2. CASE faults' = faults + 1
    BY <2>2 DEF OwingKept, PInv
  <2>3. QED
    BY <2>1, <2>2
<1>4. QED
  BY <1>1, <1>2, <1>3, StepKeepsPaid

\* The row is put by a call that owes its step, and nobody else answers for it then.
LEMMA PutOrderKeepsPaid ==
  ASSUME IInv, IInv', PInv, NEW c \in Calls, PutOrder(c)
  PROVE  PInv'
<1>0. /\ StoreTyped /\ call \in [Calls -> CallRows] /\ DOMAIN order \subseteq OrderIds
      /\ DOMAIN order = 1..Len(order) /\ Len(order) \in Nat
      /\ call[c].id \in DOMAIN order \cup {None}
      /\ call[c].pc = "put_order" /\ None \notin Calls
      /\ DOMAIN order' \subseteq OrderIds
      /\ \A x \in Calls : call[x].pc \notin Before =>
           call[x].id \in DOMAIN order /\ call[x].id \in OrderIds
  <2>1. DOMAIN order' \subseteq OrderIds
    <3>1. StoreTyped'
      BY DEF IInv, TypeOK, StoreTyped
    <3>2. QED
      BY <3>1, ConstantsTyped DEF StoreTyped, OrderIds
  <2>2. StoreTyped /\ call \in [Calls -> CallRows]
    BY TypeParts DEF IInv
  <2>3. DOMAIN order = 1..Len(order) /\ Len(order) \in Nat
    BY <2>2 DEF StoreTyped
  <2>4. call[c].pc = "put_order" /\ call[c].id \in DOMAIN order \cup {None}
    BY DEF IInv, CallsPlaced, PutOrder, At
  <2>5. QED
    BY <2>1, <2>2, <2>3, <2>4, PlacesTyped
<1>1. PICK i \in OrderIds :
        /\ call' = [call EXCEPT ![c].pc = "put_mapping", ![c].id = i]
        /\ putBy' = [putBy EXCEPT ![i] = c]
        /\ \A x \in DOMAIN order' \ {i} : x \in DOMAIN order /\ order'[x] = order[x]
  <2> DEFINE id == IF call[c].id = None THEN Len(order) + 1 ELSE call[c].id
             row == [version |-> call[c].version, text |-> call[c].text]
  <2>1. /\ order' = IF id > Len(order) THEN Append(order, row) ELSE [order EXCEPT ![id] = row]
        /\ call' = [call EXCEPT ![c].pc = "put_mapping", ![c].id = id]
        /\ putBy' = [putBy EXCEPT ![id] = c] /\ id <= MaxBegun
    BY DEF PutOrder
  <2>2. id \in 1..Len(order) + 1 /\ id \in OrderIds
    BY <1>0, <2>1, ConstantsTyped DEF OrderIds
  <2> HIDE DEF id, row
  <2>3. \A x \in DOMAIN order' \ {id} : x \in DOMAIN order /\ order'[x] = order[x]
    <3>1. CASE id > Len(order)
      <4>1. order' = Append(order, row) /\ id = Len(order) + 1
        BY <1>0, <2>1, <2>2, <3>1
      <4>2. QED
        BY <1>0, <4>1
    <3>2. CASE ~ (id > Len(order))
      <4>1. order' = [order EXCEPT ![id] = row]
        BY <2>1, <3>2
      <4>2. QED
        BY <4>1
    <3>3. QED
      BY <3>1, <3>2
  <2>4. QED
    BY <2>1, <2>2, <2>3
<1>2. /\ call'[c].pc = "put_mapping" /\ call'[c].id = i /\ Others(c)
      /\ putBy'[i] = c /\ \A x \in OrderIds \ {i} : putBy'[x] = putBy[x]
      /\ UNCHANGED <<execution, reserved, marker, asked, empty, faults>>
  <2>1. call'[c].pc = "put_mapping" /\ call'[c].id = i /\ Others(c)
    BY <1>0, <1>1 DEF CallRows, Others
  <2>2. putBy'[i] = c /\ \A x \in OrderIds \ {i} : putBy'[x] = putBy[x]
    BY <1>0, <1>1 DEF StoreTyped
  <2>3. UNCHANGED <<execution, reserved, marker, asked, empty, faults>>
    BY DEF PutOrder, allocation, bounds
  <2>4. QED
    BY <2>1, <2>2, <2>3
<1>3. \A x \in DOMAIN order' \ {i} : (Paid(x)' <=> Paid(x)) /\ (Settled(x)' <=> Settled(x))
  BY <1>1, <1>2 DEF Paid, Settled
<1>4. faults' \in Nat /\ MarkersTrue'
  BY <1>2 DEF PInv, MarkersTrue, ResultTrue
<1>5. ResultsTrue'
  <2> SUFFICES ASSUME NEW x \in Calls PROVE ResultGood(x)'
      BY DEF ResultsTrue
  <2>1. CASE x = c
    BY <1>2, <2>1 DEF ResultGood, Carrying
  <2>2. CASE x # c
    BY <1>2, <2>2 DEF PInv, ResultsTrue, ResultGood, ResultTrue, Others
  <2>3. QED
    BY <2>1, <2>2
<1>6. AnswersSettle'
  <2> SUFFICES ASSUME NEW x \in Calls PROVE AnswerGood(x)'
      BY DEF AnswersSettle
  <2>1. CASE x = c
    BY <1>2, <2>1 DEF AnswerGood
  <2>2. CASE x # c
    <3>1. call'[x] = call[x] /\ (call[x].pc = "complete" => call[x].id \in DOMAIN order')
      <4>1. x \in Calls /\ call'[x] = call[x]
        BY <1>2, <2>2 DEF Others
      <4>2. call'[x].pc = "complete" => call'[x].id \in DOMAIN order'
        BY DEF IInv, CallsPlaced, Before
      <4>3. QED
        BY <4>1, <4>2
    <3> SUFFICES ASSUME NEW k \in OrderIds, k = call[x].id, call[x].pc = "complete",
                        putBy'[k] = x, Paid(k)'
                 PROVE  Settled(k)'
      BY <1>0, <3>1 DEF AnswerGood, Paid, Settled, Before
    <3>2. k # i /\ k \in DOMAIN order' /\ putBy[k] = x
      BY <1>2, <2>2, <3>1
    <3>3. Settled(k)
      BY <1>3, <3>2 DEF PInv, AnswersSettle, AnswerGood
    <3>4. QED
      BY <1>3, <3>2, <3>3
  <2>3. QED
    BY <2>1, <2>2
<1>7. RowsSettled'
  <2> SUFFICES ASSUME NEW x \in DOMAIN order', putBy'[x] = None, Paid(x)' PROVE Settled(x)'
      BY DEF RowsSettled
  <2>1. x # i /\ x \in OrderIds /\ x \in DOMAIN order
    BY <1>0, <1>1, <1>2
  <2>2. putBy[x] = None /\ Paid(x)
    BY <1>2, <1>3, <2>1
  <2>3. QED
    BY <1>3, <2>1, <2>2 DEF PInv, RowsSettled
<1>8. StepsOwed'
  <2> SUFFICES ASSUME faults' = 0, NEW k \in DOMAIN order', Paid(k)', execution'[k] = "received"
               PROVE  \E x \in Calls : Owes(x, k)'
      BY DEF StepsOwed
  <2>1. CASE k = i
    <3>1. Owes(c, k)'
      BY <1>2, <2>1 DEF Owes, Owing
    <3>2. QED
      BY <3>1
  <2>2. CASE k # i
    <3>1. PICK x \in Calls : Owes(x, k)
      BY <1>1, <1>2, <1>3, <2>2 DEF PInv, StepsOwed
    <3>2. x # c
      BY <1>0, <3>1 DEF Owes, Owing, Carrying
    <3>3. Owes(x, k)'
      BY <1>2, <3>1, <3>2 DEF Owes, Others
    <3>4. QED
      BY <3>3
  <2>3. QED
    BY <2>1, <2>2
<1>9. QED
  BY <1>4, <1>5, <1>6, <1>7, <1>8 DEF PInv

\* The call that put the row answers, and what it answers is true.
LEMMA CompleteKeepsPaid ==
  ASSUME IInv, PInv, NEW c \in Calls, Complete(c)
  PROVE  PInv'
<1>0. StoreTyped /\ call \in [Calls -> CallRows] /\ call[c].pc = "complete"
  BY TypeParts DEF IInv, Complete, At
<1>1. call'[c].pc = "idle" /\ Others(c)
  BY <1>0, ReturnTyped DEF Complete
<1>2. UNCHANGED <<order, execution, reserved, marker, asked, empty, faults>>
  BY DEF Complete, allocation, bounds
<1>3. AnsweredBy(c)
  <2>1. \A i \in OrderIds : \/ putBy'[i] = putBy[i]
                            \/ i = call[c].id /\ putBy[i] = c /\ putBy'[i] = None
    BY <1>0 DEF Complete, StoreTyped
  <2>2. AnswerGood(c)
    BY DEF PInv, AnswersSettle
  <2>3. QED
    BY <1>0, <2>1, <2>2 DEF AnsweredBy, AnswerGood
<1>4. Grow /\ MarkersTrue'
  BY <1>2 DEF Grow, PInv, MarkersTrue, ResultTrue
<1>5. ResultGood(c)' /\ AnswerGood(c)' /\ faults' \in Nat
  BY <1>1, <1>2 DEF ResultGood, AnswerGood, PInv, Carrying
<1>6. OwingKept(c)
  BY <1>0, <1>2 DEF OwingKept, Owes, Owing, Carrying
<1>7. QED
  BY <1>1, <1>2, <1>3, <1>4, <1>5, <1>6, StepKeepsPaid

LEMMA CrashKeepsPaid == IInv /\ PInv /\ Crash => PInv'
<1> SUFFICES ASSUME IInv, PInv, Crash PROVE PInv'
    OBVIOUS
<1>1. \A c \in Calls : call'[c].pc = "idle"
  BY DEF Crash, Idle
<1>2. UNCHANGED <<order, reserved, marker, asked, putBy, empty>> /\ faults' = faults + 1
  BY DEF Crash, storefront, allocation, history
<1>3. faults' \in Nat /\ faults' # 0 /\ MarkersTrue' /\ RowsSettled'
  BY <1>2 DEF PInv, MarkersTrue, ResultTrue, RowsSettled, Paid, Settled
<1>4. ResultsTrue' /\ AnswersSettle' /\ StepsOwed'
  BY <1>1, <1>3 DEF ResultsTrue, ResultGood, AnswersSettle, AnswerGood, StepsOwed, Carrying
<1>5. QED
  BY <1>3, <1>4 DEF PInv

LEMMA InitPaid == Init => PInv
<1> SUFFICES ASSUME Init PROVE PInv
    OBVIOUS
<1>1. \A c \in Calls : call[c].pc = "idle"
  BY DEF Init, Idle
<1>2. MarkersTrue
  BY IngressAssumption DEF Init, MarkersTrue, ResultTrue, IngressAssumption, Results
<1>3. faults \in Nat /\ RowsSettled /\ StepsOwed
  BY DEF Init, RowsSettled, StepsOwed
<1>4. ResultsTrue /\ AnswersSettle
  BY <1>1 DEF ResultsTrue, ResultGood, AnswersSettle, AnswerGood, Carrying
<1>5. QED
  BY <1>2, <1>3, <1>4 DEF PInv

LEMMA StepKeepsPInv == IInv /\ IInv' /\ PInv /\ [Next]_vars => PInv'
<1> SUFFICES ASSUME IInv, IInv', PInv, [Next]_vars PROVE PInv'
    OBVIOUS
<1>0. call \in [Calls -> CallRows]
  BY DEF IInv, TypeOK
<1>1. CASE UNCHANGED vars \/ Change
  <2>1. UNCHANGED <<order, execution, reserved, marker, asked, call, putBy, empty, faults>>
    BY <1>1 DEF Change, vars, storefront, allocation, history, bounds
  <2>2. QED
    BY <2>1 DEF PInv, MarkersTrue, ResultsTrue, ResultGood, ResultTrue, AnswersSettle, AnswerGood,
                RowsSettled, StepsOwed, Owes, Paid, Settled
<1>2. CASE Crash
  BY <1>2, CrashKeepsPaid
<1>3. ASSUME NEW c \in Calls, NEW v, NEW text, NEW p \in {"reserve_key", "read"},
             Begin(c, v, text, p),
             UNCHANGED <<order, execution, storefront, allocation, history, faults>>
      PROVE  PInv'
  <2>1. call[c].pc = "idle" /\ call'[c].pc = p /\ Others(c)
    BY <1>0, <1>3 DEF Begin, At, Others, Idle
  <2>2. QED
    BY <1>3, <2>1, OutsideKeepsPaid DEF Before, Carrying
<1>4. ASSUME NEW c \in Loops, IngestWebhook(c) PROVE PInv'
  BY <1>3, <1>4 DEF IngestWebhook, Calls
<1>5. ASSUME NEW c \in Operators, ResyncOrder(c) PROVE PInv'
  BY <1>3, <1>5 DEF ResyncOrder, Calls
<1>6. ASSUME NEW c \in Calls, ReserveKey(c) PROVE PInv'
  <2>1. call[c].pc = "reserve_key" /\ call'[c].pc \in {"read", "wait"} /\ Others(c)
    BY <1>0, <1>6 DEF ReserveKey, At, Goto, Others, CallRows
  <2>2. UNCHANGED <<order, execution, storefront, allocation, history, faults>>
    BY <1>6 DEF ReserveKey, bounds
  <2>3. QED
    BY <2>1, <2>2, OutsideKeepsPaid DEF Before, Carrying
<1>7. ASSUME NEW c \in Calls, ReadOrder(c) PROVE PInv'
  <2>1. call[c].pc = "read" /\ call'[c].pc \in {"find_execution", "put_order"} /\ Others(c)
    BY <1>0, <1>7 DEF ReadOrder, At, Others, CallRows
  <2>2. UNCHANGED <<order, execution, storefront, allocation, history, faults>>
    BY <1>7 DEF ReadOrder, bounds
  <2>3. QED
    BY <2>1, <2>2, OutsideKeepsPaid DEF Before, Carrying
<1>8. ASSUME NEW c \in Calls, WaitForResult(c) \/ Raise(c) PROVE PInv'
  <2>1. call'[c].pc = "idle" /\ Others(c)
    BY <1>0, <1>8, ReturnTyped DEF WaitForResult, Raise
  <2>2. /\ UNCHANGED <<order, execution, allocation, history>>
        /\ \/ call[c].pc = "wait" /\ faults' = faults
           \/ faults' = faults + 1
    BY <1>8 DEF WaitForResult, Raise, At, bounds
  <2>3. QED
    BY <2>1, <2>2, OutsideKeepsPaid DEF Before, Carrying
<1>9. ASSUME NEW c \in Calls, Step(c) PROVE PInv'
  BY <1>6, <1>7, <1>8, <1>9, OnwardStepKeepsPaid, PutOrderKeepsPaid, CompleteKeepsPaid
     DEF Step, OnwardStep
<1>10. QED
  BY <1>1, <1>2, <1>4, <1>5, <1>8, <1>9 DEF Next

\* However webhooks and resyncs overlap, fail and come again: when nothing runs and the
\* call that put the row has answered, a paid order holds its units, or its shortage
\* was put to the owner, or a reservation found it without lines; and without failures
\* its workflow is past "received".
THEOREM PaidOrdersAreServed == Spec => []PaidIsReserved
<1>1. IInv /\ PInv => PaidIsReserved
  <2> SUFFICES ASSUME IInv, PInv, Quiet, mapping # None, putBy[mapping] = None,
                      Updates[TheOrder.version].financial = "paid"
               PROVE  /\ reserved[mapping] > 0 \/ asked[mapping] \/ empty[mapping]
                      /\ faults = 0 => execution[mapping] # "received"
      BY DEF PaidIsReserved, IInv
  <2>1. mapping \in DOMAIN order /\ Paid(mapping)
    BY DEF IInv, TypeOK, TheOrder, Paid
  <2>2. Settled(mapping)
    BY <2>1 DEF PInv, RowsSettled
  <2>3. \A c \in Calls : call[c].pc \notin Owing
    BY DEF Quiet, At, Owing, Carrying
  <2>4. faults = 0 => execution[mapping] # "received"
    BY <2>1, <2>3 DEF PInv, StepsOwed, Owes
  <2>5. QED
    BY <2>2, <2>4 DEF Settled
<1>2. Spec => []PInv
  BY InitInv, InitPaid, StepKeepsInv, StepKeepsPInv, PTL DEF Spec
<1>3. QED
  BY <1>1, <1>2, IngressInvariant, PTL
=============================================================================
