----------------------- MODULE OwnerConversationProofs -----------------------
(***************************************************************************)
(* Proofs about OwnerConversation and the OwnerDecisions it extends: the   *)
(* four invariants of ConversationSpec from one inductive invariant.       *)
(***************************************************************************)
EXTENDS OwnerConversation, FiniteSetTheorems, TLAPS

-----------------------------------------------------------------------------
(* The inductive invariant.                                                *)

Handling == {"touch", "handle", "referred", "put_conv", "complete", "release",
             "resolved", "advance", "put_edit", "put_draft", "publish", "next_draft"}
Judged == {"approved", "denied"}
CallRows ==
  [pc : Pcs \cup Handling, id : Approvals \cup {None}, held : Rows \cup {None},
   decision : Judged \cup {None},
   then : {"idle", "resolved", "advance"}, otherwise : {"idle", "release"}]
TextRows == [word : Words, ref : Approvals \cup {None}]
DraftRows == [open : BOOLEAN, done : SUBSET (1..Questions)]
ChatRows ==
  [msg : Messages \cup {None}, text : TextRows \cup {None}, conv : ConvRows \cup {None},
   target : Approvals \cup {None}, row : DraftRows \cup {None},
   next : {"complete", "handle", "referred"}]

HasObject(h) ==
  /\ h \in ConvRows
  /\ h.context = "approval_decision" => h.approval # None
  /\ h.context = "approval_edit" => h.approval \in Approvals \ OrderFlow
  /\ h.context = "approval_disambiguation" => Len(h.ids) > 1
  /\ h.context = "product_onboarding" => h.draft # None

CallGood(r, rws) ==
  /\ r \in CallRows
  /\ r.pc = "put_shortage" => r.id \in Shortages /\ rws[r.id] = None
  /\ r.pc = "list_outstanding" => r.id \in Shortages /\ rws[r.id] # None
  /\ r.pc \in {"find_contact", "send", "notified"} => r.id \in OrderFlow /\ rws[r.id] # None
  /\ r.pc \in {"read", "put_expired", "decide", "dispatch", "put_edit"} => r.id \in Approvals
  /\ r.pc \in {"notified", "put_expired", "decide", "put_edit"} =>
       rws[r.id] # None /\ r.held \in Rows /\ r.held.at = rws[r.id].at
  /\ r.pc \in {"read", "decide"} => r.decision \in Judged
  /\ r.pc = "put_edit" => r.id \notin OrderFlow

ChatGood(r, k) ==
  /\ k \in ChatRows
  /\ k.msg = None => r.pc \in Pcs /\ r.then = "idle" /\ r.otherwise = "idle"
  /\ k.msg # None =>
       /\ r.pc \notin {"idle", "put_shortage", "list_outstanding"}
       /\ HasObject(k.conv) /\ k.text \in TextRows
       /\ r.pc \in Pcs => r.then # "idle" /\ r.otherwise = "release"
       /\ r.pc = "referred" \/ (r.pc = "put_conv" /\ k.next = "referred") =>
            k.conv.approval # None
       /\ r.pc = "put_draft" => k.row \in DraftRows

StoreTyped ==
  /\ approval \in [Approvals -> Rows \cup {None}]
  /\ clock \in Nat /\ expired \subseteq Approvals /\ contact \in BOOLEAN
  /\ dispatched \in [Approvals -> Nat]
  /\ redecided \subseteq Approvals /\ missed \in BOOLEAN /\ begun \in 0..MaxBegun
TalkTyped ==
  /\ conv \in ConvRows \cup {None}
  /\ conv # None => HasObject(conv)
  /\ key \in [Messages -> {"free", "reserved", "completed"}]
  /\ text \in [Messages -> Texts \cup {None}]
  /\ draft \in [Drafts -> DraftRows]
  /\ decisions \in [Messages -> Nat] /\ raised \subseteq Messages
CallsTyped ==
  /\ call \in [Calls -> CallRows] /\ chat \in [Calls -> ChatRows]
  /\ \A c \in Calls : CallGood(call[c], approval) /\ ChatGood(call[c], chat[c])
  /\ \A c, d \in Calls : call[c].pc = "put_shortage" /\ call[d].pc = "put_shortage"
                         /\ call[c].id = call[d].id => c = d

Ordered ==
  \A a, b \in Approvals : approval[a] # None =>
    /\ approval[a].at < clock
    /\ approval[b] # None /\ approval[a].at = approval[b].at => a = b

Told(rws, a) == rws[a] # None /\ rws[a].status = "pending" /\ rws[a].notified
Untold(rws, a) == rws[a] # None /\ rws[a].status = "pending" /\ ~ rws[a].notified
Obliged(r, rws) ==
  \/ r.pc \in {"dispatch", "list_pending"}
  \/ r.pc \in {"list_outstanding", "find_contact", "send"} /\ rws[r.id].status = "pending"
  \/ r.pc = "notified" /\ r.held.status = "pending"
NobodyForgotten ==
  ~ missed => \A s \in Shortages : Untold(approval, s) =>
    \/ \E a \in OrderFlow : Told(approval, a)
    \/ \E c \in Calls : Obliged(call[c], approval)

Dispatching(r, a) == r.pc = "dispatch" /\ r.id = a
DispatchOnce ==
  ~ missed => \A a \in Approvals \ redecided :
    IF approval[a] # None /\ approval[a].status = "approved"
    THEN \/ dispatched[a] = 1 /\ \A c \in Calls : ~ Dispatching(call[c], a)
         \/ dispatched[a] = 0 /\ \E c \in Calls : \A d \in Calls : Dispatching(call[d], a) <=> d = c
    ELSE dispatched[a] = 0 /\ \A c \in Calls : ~ Dispatching(call[c], a)

Undecided(r, k) ==
  \/ r.pc \in {"touch", "handle", "referred", "read", "put_expired", "decide",
               "put_edit", "release"}
  \/ r.pc = "put_conv" /\ k.next # "complete"
MessagesGood ==
  /\ \A c \in Calls : chat[c].msg # None => key[chat[c].msg] = "reserved"
  /\ \A c, d \in Calls : chat[c].msg # None /\ chat[c].msg = chat[d].msg => c = d
  /\ \A m \in Messages \ raised :
       /\ decisions[m] <= 1
       /\ key[m] = "free" => decisions[m] = 0
       /\ \A c \in Calls : chat[c].msg = m /\ Undecided(call[c], chat[c]) => decisions[m] = 0

OwnerInv ==
  /\ StoreTyped /\ TalkTyped /\ CallsTyped
  /\ Ordered /\ NobodyForgotten /\ DispatchOnce /\ MessagesGood

-----------------------------------------------------------------------------
(* What is put in order by time.                                           *)

\* Finitely many things with distinct numbers can be put in the order of their
\* numbers: the number of those before it is the place of each.
LEMMA SortedExists ==
  ASSUME NEW S, NEW f, NEW n \in Nat,
         \A a \in S : f[a] \in Nat /\ f[a] < n,
         \A a, b \in S : f[a] = f[b] => a = b
  PROVE  /\ IsFiniteSet(S)
         /\ \E s \in [1..Cardinality(S) -> S] :
              /\ \A i, j \in 1..Cardinality(S) : i < j => f[s[i]] < f[s[j]]
              /\ \A a \in S : \E i \in 1..Cardinality(S) : s[i] = a
<1> DEFINE Before(a) == {b \in S : f[b] < f[a]}
           N == Cardinality(S)
           rank == [a \in S |-> Cardinality(Before(a))]
<1>1. IsFiniteSet(S)
  <2> DEFINE g == [a \in S |-> f[a]]
  <2>1. g \in [S -> 0..n-1]
    OBVIOUS
  <2>2. g \in Injection(S, 0..n-1)
    BY <2>1 DEF Injection, IsInjective
  <2>3. IsFiniteSet(0..n-1)
    BY FS_Interval
  <2> QED BY <2>2, <2>3, FS_Injection
<1>2. N \in Nat
  BY <1>1, FS_CardinalityType
<1>3. ASSUME NEW a \in S PROVE rank[a] \in 0..N-1
  <2>1. /\ IsFiniteSet(Before(a)) /\ Cardinality(Before(a)) <= N
        /\ Cardinality(Before(a)) = N => Before(a) = S
    BY <1>1, FS_Subset
  <2>2. a \notin Before(a)
    OBVIOUS
  <2>3. Cardinality(Before(a)) \in Nat
    BY <2>1, FS_CardinalityType
  <2> HIDE DEF Before
  <2> QED BY <1>2, <2>1, <2>2, <2>3
<1>4. ASSUME NEW a \in S, NEW b \in S, f[a] < f[b] PROVE rank[a] < rank[b]
  <2>1. Before(a) \subseteq Before(b) /\ a \in Before(b) /\ a \notin Before(a)
    BY <1>4
  <2>2. IsFiniteSet(Before(b)) /\ IsFiniteSet(Before(a))
    BY <1>1, FS_Subset
  <2> HIDE DEF Before
  <2>3. /\ Cardinality(Before(a)) <= Cardinality(Before(b))
        /\ Cardinality(Before(a)) # Cardinality(Before(b))
    BY <2>1, <2>2, FS_Subset
  <2>4. Cardinality(Before(a)) \in Nat /\ Cardinality(Before(b)) \in Nat
    BY <2>2, FS_CardinalityType
  <2> QED BY <2>3, <2>4
<1> HIDE DEF N, rank
<1>5. rank \in Injection(S, 0..N-1)
  <2>1. rank \in [S -> 0..N-1]
    BY <1>3 DEF rank
  <2>2. ASSUME NEW a \in S, NEW b \in S, rank[a] = rank[b] PROVE a = b
    <3>1. rank[a] \in Int /\ rank[b] \in Int
      BY <1>3, <1>2
    <3>2. ~ (f[a] < f[b]) /\ ~ (f[b] < f[a])
      BY <1>4, <2>2, <3>1
    <3> QED BY <3>2
  <2> QED BY <2>1, <2>2 DEF Injection, IsInjective
<1>6. rank \in Surjection(S, 0..N-1)
  <2>1. IsFiniteSet(0..N-1) /\ Cardinality(0..N-1) = N
    <3>1. 0 \in Int /\ N-1 \in Int
      BY <1>2
    <3>2. /\ IsFiniteSet(0..N-1)
          /\ Cardinality(0..N-1) = IF 0 > N-1 THEN 0 ELSE N-1-0+1
      BY <3>1, FS_Interval
    <3> QED BY <1>2, <3>2
  <2> QED BY <1>5, <2>1, FS_Injection DEF N
<1>7. \A k \in 0..N-1 : \E a \in S : rank[a] = k
  BY <1>6 DEF Surjection
<1> DEFINE s == [i \in 1..N |-> CHOOSE a \in S : rank[a] = i - 1]
<1>8. ASSUME NEW i \in 1..N PROVE s[i] \in S /\ rank[s[i]] = i - 1
  BY <1>2, <1>7
<1> HIDE DEF s
<1>9. s \in [1..N -> S]
  BY <1>8 DEF s
<1>10. ASSUME NEW i \in 1..N, NEW j \in 1..N, i < j PROVE f[s[i]] < f[s[j]]
  <2>1. s[i] \in S /\ s[j] \in S /\ rank[s[i]] < rank[s[j]]
    BY <1>2, <1>8, <1>10
  <2>2. f[s[i]] # f[s[j]]
    BY <1>2, <1>8, <1>10, <2>1
  <2>3. ~ (f[s[j]] < f[s[i]])
    BY <1>4, <1>3, <1>2, <2>1
  <2> QED BY <2>1, <2>2, <2>3
<1>11. ASSUME NEW a \in S PROVE \E i \in 1..N : s[i] = a
  <2>1. rank[a] + 1 \in 1..N /\ rank[a] \in 0..N-1
    BY <1>2, <1>3
  <2> DEFINE i == rank[a] + 1
  <2>2. s[i] \in S /\ rank[s[i]] = rank[a]
    BY <1>2, <1>8, <2>1
  <2>3. s[i] = a
    BY <1>5, <2>2 DEF Injection, IsInjective
  <2> QED BY <2>1, <2>3
<1> QED BY <1>1, <1>9, <1>10, <1>11 DEF N

\* A set of numbers has a smallest one.
LEMMA SmallestExists ==
  ASSUME NEW T, T \subseteq Nat, T # {}
  PROVE  \E x \in T : \A y \in T : x <= y
<1>1. PICK n \in T : TRUE
  OBVIOUS
<1> DEFINE S == {x \in T : x <= n}
           f == [x \in S |-> x]
<1>2. /\ IsFiniteSet(S)
      /\ \E s \in [1..Cardinality(S) -> S] :
              /\ \A i, j \in 1..Cardinality(S) : i < j => f[s[i]] < f[s[j]]
              /\ \A a \in S : \E i \in 1..Cardinality(S) : s[i] = a
  <2>1. n + 1 \in Nat
    BY <1>1
  <2>2. \A a \in S : f[a] \in Nat /\ f[a] < n + 1
    BY <1>1
  <2>3. \A a, b \in S : f[a] = f[b] => a = b
    OBVIOUS
  <2> HIDE DEF S, f
  <2> QED BY <2>1, <2>2, <2>3, SortedExists
<1>3. PICK s \in [1..Cardinality(S) -> S] :
              /\ \A i, j \in 1..Cardinality(S) : i < j => f[s[i]] < f[s[j]]
              /\ \A a \in S : \E i \in 1..Cardinality(S) : s[i] = a
  BY <1>2
<1>4. n \in S /\ Cardinality(S) \in Nat
  BY <1>1, <1>2, FS_CardinalityType
<1>5. 1 \in 1..Cardinality(S)
  <2>1. PICK i \in 1..Cardinality(S) : s[i] = n
    BY <1>3, <1>4
  <2> QED BY <2>1, <1>4
<1>6. s[1] \in S
  BY <1>3, <1>5
<1>7. ASSUME NEW y \in S PROVE s[1] <= y
  <2>1. PICK i \in 1..Cardinality(S) : s[i] = y
    BY <1>3
  <2>2. i = 1 \/ 1 < i
    BY <1>4, <2>1
  <2>3. CASE i = 1
    BY <2>1, <2>3
  <2>4. CASE 1 < i
    <3>1. f[s[1]] < f[s[i]]
      BY <1>3, <1>5, <2>1, <2>4
    <3>2. f[s[1]] = s[1] /\ f[y] = y
      BY <1>6
    <3>3. s[1] \in Nat /\ y \in Nat
      BY <1>6
    <3> QED BY <2>1, <3>1, <3>2, <3>3
  <2> QED BY <2>2, <2>3, <2>4
<1>8. ASSUME NEW y \in T PROVE s[1] <= y
  <2>1. s[1] \in Nat /\ s[1] <= n /\ y \in Nat /\ n \in Nat
    BY <1>1, <1>6
  <2>2. CASE y <= n
    BY <1>7, <2>2
  <2>3. CASE ~ (y <= n)
    BY <2>1, <2>3
  <2> QED BY <2>2, <2>3
<1>9. s[1] \in T
  BY <1>6
<1> QED BY <1>8, <1>9

-----------------------------------------------------------------------------
(* The conversation row a handler puts.                                    *)

LEMMA MenuGood ==
  ASSUME NEW h, HasObject(h)
  PROVE  HasObject(Menu(h)) /\ HasObject(Nothing(h))
BY DEF HasObject, ConvRows, Contexts, Menu, Nothing

LEMMA DecisionGood ==
  ASSUME NEW h, HasObject(h), NEW a \in Approvals
  PROVE  HasObject(Decision(h, a)) /\ Decision(h, a).approval # None
BY DecisionsAssumption DEF HasObject, ConvRows, Contexts, Decision, DecisionsAssumption

LEMMA FreshGood == HasObject(Fresh)
<1>1. <<>> \in Seq(Approvals)
  OBVIOUS
<1> QED BY <1>1 DEF HasObject, ConvRows, Contexts, Fresh

LEMMA ReadRowGood ==
  ASSUME TalkTyped
  PROVE  HasObject(ReadRow)
<1>1. CASE conv = None
  BY <1>1, FreshGood DEF ReadRow
<1>2. CASE conv # None /\ ~ conv.old
  BY <1>2 DEF ReadRow, TalkTyped
<1>3. CASE conv # None /\ conv.old
  <2>1. conv.paused \in {None, "approval_decision", "product_onboarding"}
    BY <1>3 DEF TalkTyped, ConvRows
  <2>2. HasObject([Fresh EXCEPT !.paused = conv.paused])
    <3> DEFINE p == conv.paused
    <3>1. p \in {None, "approval_decision", "product_onboarding"}
      BY <2>1
    <3> HIDE DEF p
    <3>2. <<>> \in Seq(Approvals)
      OBVIOUS
    <3>3. HasObject([Fresh EXCEPT !.paused = p])
      BY <3>1, <3>2 DEF HasObject, ConvRows, Contexts, Fresh
    <3> QED BY <3>3 DEF p
  <2> QED BY <1>3, <2>2 DEF ReadRow
<1> QED BY <1>1, <1>2, <1>3

\* The first unanswered question is one of the questions.
LEMMA NextStepTyped ==
  ASSUME NEW row \in DraftRows
  PROVE  NextStep(row) \in (1..Questions) \cup {None}
<1>1. CASE row.done = 1..Questions
  BY <1>1 DEF NextStep
<1>2. CASE row.done # 1..Questions
  <2> DEFINE T == (1..Questions) \ row.done
  <2>1. T \subseteq Nat /\ T # {}
    <3>1. row.done \subseteq 1..Questions
      BY DEF DraftRows
    <3>2. 1..Questions \subseteq Nat
      BY ConversationAssumption DEF ConversationAssumption
    <3>3. PICK q \in 1..Questions : q \notin row.done
      BY <1>2, <3>1
    <3> QED BY <3>2, <3>3
  <2>2. \E x \in T : \A y \in T : x <= y
    BY <2>1, SmallestExists
  <2> QED BY <1>2, <2>2 DEF NextStep
<1> QED BY <1>1, <1>2

LEMMA OnboardingGood ==
  ASSUME TalkTyped, NEW h, HasObject(h), NEW d \in Drafts
  PROVE  HasObject(Onboarding(h, d))
<1> DEFINE q == NextStep(draft[d])
<1>1. q \in (1..Questions) \cup {None}
  BY NextStepTyped DEF TalkTyped
<1>2. d # None
  BY ConversationAssumption DEF ConversationAssumption
<1> HIDE DEF q
<1>3. HasObject([h EXCEPT !.context = "product_onboarding", !.draft = d, !.step = q])
  BY <1>1, <1>2 DEF HasObject, ConvRows, Contexts
<1> QED BY <1>3 DEF Onboarding, q

\* The pending approvals are a list without gaps, the oldest first.
LEMMA OldestTyped ==
  ASSUME StoreTyped, Ordered, NEW S, S \subseteq Actionable
  PROVE  /\ IsFiniteSet(S)
         /\ OldestFirst(S) \in [1..Cardinality(S) -> S]
<1> DEFINE f == [a \in S |-> approval[a].at]
<1>1. \A a \in S : a \in Approvals /\ approval[a] # None /\ approval[a] \in Rows
  BY DEF Actionable, Pending, StoreTyped
<1>2. clock \in Nat
  BY DEF StoreTyped
<1>3. \A a \in S : f[a] \in Nat /\ f[a] < clock
  BY <1>1 DEF Ordered, Rows
<1>4. \A a, b \in S : f[a] = f[b] => a = b
  BY <1>1 DEF Ordered
<1>5. /\ IsFiniteSet(S)
      /\ \E s \in [1..Cardinality(S) -> S] :
           \A i, j \in 1..Cardinality(S) : i < j => f[s[i]] < f[s[j]]
  <2> HIDE DEF f
  <2> QED BY <1>2, <1>3, <1>4, SortedExists
<1>6. PICK s \in [1..Cardinality(S) -> S] :
           \A i, j \in 1..Cardinality(S) : i < j => f[s[i]] < f[s[j]]
  BY <1>5
<1>7. \A i, j \in DOMAIN s : i < j => approval[s[i]].at < approval[s[j]].at
  BY <1>6
<1>8. OldestFirst(S) \in [1..Cardinality(S) -> S]
  BY <1>7 DEF OldestFirst
<1> QED BY <1>5, <1>8

LEMMA OldestFirstOne ==
  ASSUME StoreTyped, Ordered, NEW S, S \subseteq Actionable,
         S # {} \/ Cardinality(S) = 1
  PROVE  OldestFirst(S)[1] \in Approvals /\ OldestFirst(S)[1] \in Actionable
<1>1. IsFiniteSet(S) /\ OldestFirst(S) \in [1..Cardinality(S) -> S]
  BY OldestTyped
<1>2. Cardinality(S) \in Nat /\ (S # {} => Cardinality(S) # 0)
  BY <1>1, FS_CardinalityType, FS_EmptySet
<1>3. 1 \in 1..Cardinality(S)
  BY <1>2
<1>4. OldestFirst(S)[1] \in S
  BY <1>1, <1>3
<1> QED BY <1>4 DEF Actionable

LEMMA DecisionsGood ==
  ASSUME StoreTyped, Ordered, NEW h, HasObject(h)
  PROVE  HasObject(Decisions(h))
<1>1. CASE Actionable = {}
  BY <1>1, MenuGood DEF Decisions
<1>2. CASE Actionable # {} /\ Cardinality(Actionable) = 1
  BY <1>2, OldestFirstOne, DecisionGood DEF Decisions
<1>3. CASE Actionable # {} /\ Cardinality(Actionable) # 1
  <2> DEFINE s == OldestFirst(Actionable)
             n == Cardinality(Actionable)
  <2>1. IsFiniteSet(Actionable) /\ s \in [1..n -> Actionable]
    BY OldestTyped
  <2>2. n \in Nat /\ n # 0
    BY <1>3, <2>1, FS_CardinalityType, FS_EmptySet
  <2>3. Actionable \subseteq Approvals
    BY DEF Actionable
  <2>4. n # 1
    BY <1>3
  <2> HIDE DEF s, n
  <2>5. s \in Seq(Approvals) /\ Len(s) = n
    BY <2>1, <2>2, <2>3
  <2>6. Len(s) > 1
    BY <2>2, <2>4, <2>5
  <2>7. HasObject([h EXCEPT !.context = "approval_disambiguation", !.ids = s])
    BY <2>5, <2>6 DEF HasObject, ConvRows, Contexts
  <2> QED BY <1>3, <2>7 DEF Decisions, s
<1> QED BY <1>1, <1>2, <1>3

LEMMA ResumedGood ==
  ASSUME TalkTyped, NEW h, HasObject(h)
  PROVE  HasObject(Resumed(h))
<1>1. h.approval # None => h.approval \in Approvals
  BY DEF HasObject, ConvRows
<1>2. h.draft # None => h.draft \in Drafts
  BY DEF HasObject, ConvRows
<1>3. HasObject(Menu(h))
  BY MenuGood
<1>4. h.approval # None => HasObject(Decision(h, h.approval))
  BY <1>1, DecisionGood
<1>5. h.draft # None => HasObject(Onboarding(h, h.draft))
  BY <1>2, OnboardingGood
<1> QED BY <1>3, <1>4, <1>5 DEF Resumed

-----------------------------------------------------------------------------
(* What one call's move leaves of the parts of the invariant.              *)

\* A call that moves while no row changes.
LEMMA CallsMoved ==
  ASSUME CallsTyped, NEW c \in Calls, NEW r, NEW k,
         call' = [call EXCEPT ![c] = r], chat' = [chat EXCEPT ![c] = k],
         \A d \in Calls \ {c} : CallGood(call[d], approval'),
         CallGood(r, approval'), ChatGood(r, k),
         r.pc = "put_shortage" => \A d \in Calls \ {c} : call[d].id # r.id
  PROVE  CallsTyped'
<1>1. call \in [Calls -> CallRows] /\ chat \in [Calls -> ChatRows]
  BY DEF CallsTyped
<1>2. r \in CallRows /\ k \in ChatRows
  BY DEF CallGood, ChatGood
<1>3. call'[c] = r /\ chat'[c] = k
  BY <1>1
<1>4. \A d \in Calls \ {c} : call'[d] = call[d] /\ chat'[d] = chat[d]
  BY <1>1
<1>5. call' \in [Calls -> CallRows] /\ chat' \in [Calls -> ChatRows]
  BY <1>1, <1>2
<1>6. ASSUME NEW d \in Calls
      PROVE  CallGood(call'[d], approval') /\ ChatGood(call'[d], chat'[d])
  <2>1. CASE d = c
    BY <1>3, <2>1
  <2>2. CASE d # c
    BY <1>4, <2>2 DEF CallsTyped
  <2> QED BY <2>1, <2>2
<1>7. ASSUME NEW d \in Calls, NEW e \in Calls,
             call'[d].pc = "put_shortage", call'[e].pc = "put_shortage",
             call'[d].id = call'[e].id
      PROVE  d = e
  BY <1>3, <1>4, <1>7 DEF CallsTyped
<1> QED BY <1>5, <1>6, <1>7 DEF CallsTyped

\* The rows that a put leaves: each keeps its time, none disappears.
RowsKept(put) ==
  /\ put \in [Approvals -> Rows \cup {None}]
  /\ \A a \in Approvals : approval[a] # None => put[a] # None /\ put[a].at = approval[a].at

LEMMA OthersGood ==
  ASSUME CallsTyped, NEW c \in Calls, NEW put, RowsKept(put),
         \A d \in Calls \ {c} : call[d].pc = "put_shortage" => put[call[d].id] = None
  PROVE  \A d \in Calls \ {c} : CallGood(call[d], put)
<1> TAKE d \in Calls \ {c}
<1> DEFINE r == call[d]
<1>1. CallGood(r, approval)
  BY DEF CallsTyped
<1>2. r.pc = "put_shortage" => put[r.id] = None
  OBVIOUS
<1>3. Shortages \subseteq Approvals /\ OrderFlow \subseteq Approvals
  BY DecisionsAssumption DEF DecisionsAssumption
<1> HIDE DEF r
<1>4. CallGood(r, put)
  BY <1>1, <1>2, <1>3 DEF CallGood, RowsKept
<1> QED BY <1>4 DEF r

LEMMA NobodyMoved ==
  ASSUME NobodyForgotten, CallsTyped, NEW c \in Calls, NEW r,
         call' = [call EXCEPT ![c] = r], approval' = approval, ~ missed' => ~ missed,
         ~ missed' /\ Obliged(call[c], approval) => Obliged(r, approval)
  PROVE  NobodyForgotten'
<1>1. call'[c] = r /\ \A d \in Calls \ {c} : call'[d] = call[d]
  BY DEF CallsTyped
<1> QED BY <1>1 DEF NobodyForgotten

LEMMA DispatchMoved ==
  ASSUME DispatchOnce, CallsTyped, NEW c \in Calls, NEW r,
         call' = [call EXCEPT ![c] = r], approval' = approval, ~ missed' => ~ missed,
         dispatched' = dispatched, redecided' = redecided,
         call[c].pc # "dispatch", r.pc # "dispatch"
  PROVE  DispatchOnce'
<1>1. call'[c] = r /\ \A d \in Calls \ {c} : call'[d] = call[d]
  BY DEF CallsTyped
<1>2. ASSUME NEW d \in Calls, NEW a
      PROVE  Dispatching(call'[d], a) <=> Dispatching(call[d], a)
  BY <1>1 DEF Dispatching
<1>3. CASE missed'
  BY <1>3 DEF DispatchOnce
<1>4. CASE ~ missed'
  <2> SUFFICES ASSUME NEW a \in Approvals \ redecided
      PROVE  IF approval[a] # None /\ approval[a].status = "approved"
             THEN \/ dispatched[a] = 1 /\ \A e \in Calls : ~ Dispatching(call'[e], a)
                  \/ dispatched[a] = 0 /\
                       \E e \in Calls : \A d \in Calls : Dispatching(call'[d], a) <=> d = e
             ELSE dispatched[a] = 0 /\ \A e \in Calls : ~ Dispatching(call'[e], a)
    BY DEF DispatchOnce
  <2>1. IF approval[a] # None /\ approval[a].status = "approved"
        THEN \/ dispatched[a] = 1 /\ \A e \in Calls : ~ Dispatching(call[e], a)
             \/ dispatched[a] = 0 /\
                  \E e \in Calls : \A d \in Calls : Dispatching(call[d], a) <=> d = e
        ELSE dispatched[a] = 0 /\ \A e \in Calls : ~ Dispatching(call[e], a)
    BY <1>4 DEF DispatchOnce
  <2> QED BY <1>2, <2>1
<1> QED BY <1>3, <1>4

\* A handler or a caller that decides nothing.
LEMMA MessagesMoved ==
  ASSUME MessagesGood, CallsTyped, NEW c \in Calls, NEW r, NEW k,
         call' = [call EXCEPT ![c] = r], chat' = [chat EXCEPT ![c] = k],
         UNCHANGED <<key, history>>,
         k.msg = None \/ k.msg = chat[c].msg,
         k.msg # None /\ Undecided(r, k) => Undecided(call[c], chat[c])
  PROVE  MessagesGood'
<1>1. call'[c] = r /\ \A d \in Calls \ {c} : call'[d] = call[d]
  BY DEF CallsTyped
<1>2. chat'[c] = k /\ \A d \in Calls \ {c} : chat'[d] = chat[d]
  BY DEF CallsTyped
<1>3. None \notin Messages
  BY ConversationAssumption DEF ConversationAssumption
<1>4. ASSUME NEW d \in Calls, chat'[d].msg # None
      PROVE  chat'[d].msg = chat[d].msg /\ (Undecided(call'[d], chat'[d]) => Undecided(call[d], chat[d]))
  BY <1>1, <1>2, <1>4
<1>5. \A d \in Calls : chat'[d].msg # None => key'[chat'[d].msg] = "reserved"
  BY <1>4 DEF MessagesGood, talk
<1>6. \A d, e \in Calls : chat'[d].msg # None /\ chat'[d].msg = chat'[e].msg => d = e
  BY <1>4 DEF MessagesGood
<1>7. ASSUME NEW m \in Messages \ raised'
      PROVE  /\ decisions'[m] <= 1
             /\ key'[m] = "free" => decisions'[m] = 0
             /\ \A d \in Calls : chat'[d].msg = m /\ Undecided(call'[d], chat'[d]) => decisions'[m] = 0
  BY <1>3, <1>4, <1>7 DEF MessagesGood, history
<1> QED BY <1>5, <1>6, <1>7 DEF MessagesGood

\* The message is over: no call holds it any more.
LEMMA MessagesOver ==
  ASSUME MessagesGood, CallsTyped, TalkTyped, NEW c \in Calls, chat[c].msg # None,
         call' = [call EXCEPT ![c] = Idle], chat' = [chat EXCEPT ![c] = Silent],
         NEW v \in {"free", "completed"}, key' = [key EXCEPT ![chat[c].msg] = v],
         UNCHANGED history,
         v = "free" => Undecided(call[c], chat[c])
  PROVE  MessagesGood' /\ key' \in [Messages -> {"free", "reserved", "completed"}]
<1>1. call'[c] = Idle /\ \A d \in Calls \ {c} : call'[d] = call[d]
  BY DEF CallsTyped
<1>2. chat'[c] = Silent /\ \A d \in Calls \ {c} : chat'[d] = chat[d]
  BY DEF CallsTyped
<1>3. Silent.msg = None
  BY DEF Silent
<1>4. PICK m \in Messages : m = chat[c].msg
  BY DEF CallsTyped, ChatRows
<1>5. None \notin Messages
  BY ConversationAssumption DEF ConversationAssumption
<1>6. key \in [Messages -> {"free", "reserved", "completed"}]
  BY DEF TalkTyped
<1>7. key' = [key EXCEPT ![m] = v]
  BY <1>4
<1>8. key'[m] = v /\ \A n \in Messages \ {m} : key'[n] = key[n]
  BY <1>6, <1>7
<1>9. ASSUME NEW d \in Calls, chat'[d].msg # None
      PROVE  d # c /\ chat'[d] = chat[d] /\ call'[d] = call[d] /\ chat[d].msg # m
  <2>1. d # c
    BY <1>2, <1>3, <1>9
  <2>2. chat'[d] = chat[d] /\ call'[d] = call[d]
    BY <1>1, <1>2, <2>1
  <2>3. chat[d].msg # m
    BY <1>4, <2>1 DEF MessagesGood
  <2> QED BY <2>1, <2>2, <2>3
<1>10. \A d \in Calls : chat'[d].msg # None => key'[chat'[d].msg] = "reserved"
  <2> SUFFICES ASSUME NEW d \in Calls, chat'[d].msg # None
      PROVE  key'[chat'[d].msg] = "reserved"
    OBVIOUS
  <2>1. chat'[d] = chat[d] /\ chat[d].msg # m /\ chat[d].msg # None
    BY <1>9
  <2>2. chat[d].msg \in Messages /\ key[chat[d].msg] = "reserved"
    BY <2>1 DEF MessagesGood, CallsTyped, ChatRows
  <2> QED BY <1>8, <2>1, <2>2
<1>11. \A d, e \in Calls : chat'[d].msg # None /\ chat'[d].msg = chat'[e].msg => d = e
  BY <1>9 DEF MessagesGood
<1>12. ASSUME NEW n \in Messages \ raised'
       PROVE  /\ decisions'[n] <= 1
              /\ key'[n] = "free" => decisions'[n] = 0
              /\ \A d \in Calls : chat'[d].msg = n /\ Undecided(call'[d], chat'[d]) => decisions'[n] = 0
  <2>1. n \in Messages \ raised /\ decisions'[n] = decisions[n]
    BY DEF history
  <2>2. key'[n] = "free" => decisions[n] = 0
    BY <1>4, <1>8, <2>1 DEF MessagesGood
  <2>3. ASSUME NEW d \in Calls, chat'[d].msg = n, Undecided(call'[d], chat'[d])
        PROVE  decisions[n] = 0
    <3>1. chat'[d].msg # None
      BY <1>5, <2>3
    <3>2. chat[d].msg = n /\ Undecided(call[d], chat[d])
      BY <1>9, <2>3, <3>1
    <3> QED BY <2>1, <3>2 DEF MessagesGood
  <2> QED BY <2>1, <2>2, <2>3 DEF MessagesGood
<1>13. key' \in [Messages -> {"free", "reserved", "completed"}]
  BY <1>6, <1>7
<1> QED BY <1>10, <1>11, <1>12, <1>13 DEF MessagesGood

-----------------------------------------------------------------------------
(* The moves of a handler.                                                 *)

\* A call moves and the rows of the store stay.
LEMMA CallMoves ==
  ASSUME OwnerInv, NEW c \in Calls, NEW r, NEW k,
         call' = [call EXCEPT ![c] = r], chat' = [chat EXCEPT ![c] = k],
         call[c].pc \in Handling \cup {"idle"}, r.pc \notin {"put_shortage", "dispatch"},
         CallGood(r, approval), ChatGood(r, k),
         k.msg = None \/ k.msg = chat[c].msg,
         k.msg # None /\ Undecided(r, k) => Undecided(call[c], chat[c]),
         UNCHANGED <<rows, key, history>>, TalkTyped', begun' \in 0..MaxBegun
  PROVE  OwnerInv'
<1>1. /\ approval' = approval /\ clock' = clock /\ expired' = expired /\ contact' = contact
      /\ dispatched' = dispatched /\ redecided' = redecided /\ missed' = missed
  BY DEF rows, world
<1>2. StoreTyped' /\ Ordered'
  BY <1>1 DEF OwnerInv, StoreTyped, Ordered
<1>3. CallsTyped /\ NobodyForgotten /\ DispatchOnce /\ MessagesGood
  BY DEF OwnerInv
<1>4. CallsTyped'
  <2>1. \A d \in Calls \ {c} : CallGood(call[d], approval')
    BY <1>1, <1>3 DEF CallsTyped
  <2>2. CallGood(r, approval')
    BY <1>1
  <2> QED BY <1>3, <2>1, <2>2, CallsMoved
<1>5. ~ Obliged(call[c], approval) /\ call[c].pc # "dispatch"
  BY DEF Obliged, Handling
<1>6. NobodyForgotten'
  BY <1>1, <1>3, <1>5, NobodyMoved
<1>7. DispatchOnce'
  BY <1>1, <1>3, <1>5, DispatchMoved
<1>8. MessagesGood'
  BY <1>3, MessagesMoved
<1> QED BY <1>2, <1>4, <1>6, <1>7, <1>8 DEF OwnerInv

\* What is known of a call that handles a message.
LEMMA HandlerHolds ==
  ASSUME OwnerInv, NEW c \in Calls, call[c].pc \in Handling
  PROVE  /\ call[c] \in CallRows /\ chat[c] \in ChatRows
         /\ chat[c].msg # None /\ chat[c].msg \in Messages
         /\ HasObject(chat[c].conv) /\ chat[c].text \in TextRows
         /\ CallGood(call[c], approval) /\ ChatGood(call[c], chat[c])
         /\ StoreTyped /\ TalkTyped /\ CallsTyped /\ Ordered
<1>1. /\ CallGood(call[c], approval) /\ ChatGood(call[c], chat[c])
      /\ StoreTyped /\ TalkTyped /\ CallsTyped /\ Ordered
  BY DEF OwnerInv, CallsTyped
<1>2. call[c] \in CallRows /\ chat[c] \in ChatRows
  BY <1>1 DEF CallGood, ChatGood
<1>3. chat[c].msg # None
  BY <1>1 DEF ChatGood, Handling, Pcs
<1>4. chat[c].msg \in Messages
  BY <1>2, <1>3 DEF ChatRows
<1> QED BY <1>1, <1>2, <1>3, <1>4 DEF ChatGood

\* A call at a step of its handler is good wherever its other fields come from.
Plain(pc) == pc \in Handling \ {"put_edit"}

LEMMA PlainGood ==
  ASSUME NEW i \in CallRows, NEW pc, Plain(pc), NEW rws
  PROVE  CallGood([i EXCEPT !.pc = pc], rws) /\ [i EXCEPT !.pc = pc].pc = pc
<1> DEFINE r == [i EXCEPT !.pc = pc]
<1>1. r \in CallRows /\ r.pc = pc
  BY DEF CallRows, Plain
<1>2. pc \in {"touch", "handle", "referred", "put_conv", "complete", "release",
             "resolved", "advance", "put_draft", "publish", "next_draft"}
  BY DEF Plain, Handling
<1> HIDE DEF r
<1>3. CallGood(r, rws)
  BY <1>1, <1>2 DEF CallGood
<1> QED BY <1>1, <1>3 DEF r

LEMMA LeaveGood ==
  ASSUME OwnerInv, NEW c \in Calls, call[c].pc \in Handling,
         NEW row, HasObject(row), Leave(c, row),
         UNCHANGED <<rows, conv, key, text, history>>,
         draft' \in [Drafts -> DraftRows], begun' \in 0..MaxBegun
  PROVE  OwnerInv'
<1> DEFINE i == call[c]  j == chat[c]
           r == [i EXCEPT !.pc = "put_conv"]
           k == [j EXCEPT !.conv = row, !.next = "complete"]
<1>1. /\ i \in CallRows /\ j \in ChatRows /\ j.msg # None /\ j.text \in TextRows
      /\ TalkTyped
  BY HandlerHolds
<1>2. call' = [call EXCEPT ![c] = r] /\ chat' = [chat EXCEPT ![c] = k]
  BY DEF Leave, Goto
<1> HIDE DEF i, j
<1>3. CallGood(r, approval) /\ r.pc = "put_conv"
  BY <1>1, PlainGood DEF Plain, Handling
<1>4. row \in ConvRows
  BY DEF HasObject
<1>5. k \in ChatRows /\ k.msg = j.msg /\ k.conv = row /\ k.next = "complete" /\ k.text = j.text
  BY <1>1, <1>4 DEF ChatRows
<1> HIDE DEF r, k
<1>6. ChatGood(r, k)
  BY <1>1, <1>3, <1>5 DEF ChatGood, Pcs
<1>7. ~ Undecided(r, k)
  BY <1>3, <1>5 DEF Undecided
<1>8. TalkTyped'
  BY <1>1 DEF TalkTyped, history
<1>9. k.msg = chat[c].msg
  BY <1>5 DEF j
<1> QED BY <1>2, <1>3, <1>6, <1>7, <1>8, <1>9, CallMoves

LEMMA LeaveThenGood ==
  ASSUME OwnerInv, NEW c \in Calls, call[c].pc \in Handling, Undecided(call[c], chat[c]),
         NEW row, HasObject(row), NEW next \in {"handle", "referred"}, row.approval # None \/ next = "handle",
         LeaveThen(c, row, next), UNCHANGED <<rows, talk, history>>, begun' \in 0..MaxBegun
  PROVE  OwnerInv'
<1> DEFINE i == call[c]  j == chat[c]
           t == [j.text EXCEPT !.ref = None]
           r == [i EXCEPT !.pc = "put_conv"]
           k == [j EXCEPT !.conv = row, !.next = next, !.text = t]
<1>1. /\ i \in CallRows /\ j \in ChatRows /\ j.msg # None /\ j.text \in TextRows
      /\ TalkTyped
  BY HandlerHolds
<1>2. call' = [call EXCEPT ![c] = r]
  BY DEF LeaveThen, Goto
<1>3. chat' = [chat EXCEPT ![c] = k]
  BY DEF LeaveThen
<1> HIDE DEF i, j
<1>4. CallGood(r, approval) /\ r.pc = "put_conv"
  BY <1>1, PlainGood DEF Plain, Handling
<1>5. row \in ConvRows
  BY DEF HasObject
<1>6. t \in TextRows
  BY <1>1 DEF TextRows
<1> HIDE DEF t
<1>7. k \in ChatRows /\ k.msg = j.msg /\ k.conv = row /\ k.next = next /\ k.text = t
  BY <1>1, <1>5, <1>6 DEF ChatRows
<1> HIDE DEF r, k
<1>8. ChatGood(r, k)
  BY <1>1, <1>4, <1>6, <1>7 DEF ChatGood, Pcs
<1>9. TalkTyped'
  BY <1>1 DEF TalkTyped, history, talk
<1>10. k.msg = chat[c].msg
  BY <1>7 DEF j
<1>11. UNCHANGED <<rows, key, history>>
  BY DEF talk
<1> QED BY <1>2, <1>3, <1>4, <1>8, <1>9, <1>10, <1>11, CallMoves

\* A handler goes on at another of its steps.
LEMMA GotoGood ==
  ASSUME OwnerInv, NEW c \in Calls, call[c].pc \in Handling,
         NEW pc, Plain(pc), pc \notin {"put_conv", "put_draft"},
         Goto(c, pc), chat' = chat,
         pc = "referred" => chat[c].conv.approval # None,
         pc \in {"handle", "referred", "touch", "release"} => Undecided(call[c], chat[c]),
         UNCHANGED <<rows, key, history>>, TalkTyped', begun' \in 0..MaxBegun
  PROVE  OwnerInv'
<1> DEFINE i == call[c]  k == chat[c]
           r == [i EXCEPT !.pc = pc]
<1>1. /\ i \in CallRows /\ k \in ChatRows /\ k.msg # None /\ k.text \in TextRows
      /\ HasObject(k.conv) /\ CallsTyped
  BY HandlerHolds
<1>2. call' = [call EXCEPT ![c] = r] /\ chat' = [chat EXCEPT ![c] = k]
  BY <1>1 DEF Goto, CallsTyped
<1> HIDE DEF i
<1>3. CallGood(r, approval) /\ r.pc = pc
  BY <1>1, PlainGood
<1>4. pc \in {"touch", "handle", "referred", "complete", "release",
             "resolved", "advance", "publish", "next_draft"}
  BY DEF Plain, Handling
<1> HIDE DEF r
<1>5. ChatGood(r, k)
  BY <1>1, <1>3, <1>4 DEF ChatGood, Pcs
<1>6. Undecided(r, k) => Undecided(call[c], chat[c])
  BY <1>3, <1>4 DEF Undecided
<1> HIDE DEF k
<1>7. k.msg = chat[c].msg
  BY DEF k
<1>8. r.pc \notin {"put_shortage", "dispatch"}
  BY <1>3, <1>4
<1> QED BY <1>2, <1>3, <1>5, <1>6, <1>7, <1>8, CallMoves

\* The decision is taken on behalf of the message.
LEMMA ResolveGood ==
  ASSUME OwnerInv, NEW c \in Calls, call[c].pc \in Handling, Undecided(call[c], chat[c]),
         NEW a \in Approvals, NEW decision \in Judged, NEW then \in {"resolved", "advance"},
         Resolve(c, a, decision, then), UNCHANGED <<rows, talk, history>>,
         begun' \in 0..MaxBegun
  PROVE  OwnerInv'
<1> DEFINE j == chat[c]
           r == [Idle EXCEPT !.pc = "read", !.id = a, !.decision = decision,
                             !.then = then, !.otherwise = "release"]
           k == [j EXCEPT !.target = a]
<1>1. /\ j \in ChatRows /\ j.msg # None /\ j.text \in TextRows /\ HasObject(j.conv)
      /\ TalkTyped
  BY HandlerHolds
<1>2. call' = [call EXCEPT ![c] = r] /\ chat' = [chat EXCEPT ![c] = k]
  BY DEF Resolve
<1> HIDE DEF j
<1>3. /\ r.pc = "read" /\ r.id = a /\ r.decision = decision /\ r.then = then
      /\ r.otherwise = "release" /\ r \in CallRows
  BY DEF Idle, CallRows, Pcs
<1>4. k \in ChatRows /\ k.msg = j.msg /\ k.conv = j.conv /\ k.text = j.text
  BY <1>1 DEF ChatRows
<1> HIDE DEF r, k
<1>5. CallGood(r, approval)
  BY <1>3 DEF CallGood
<1>6. ChatGood(r, k)
  BY <1>1, <1>3, <1>4 DEF ChatGood
<1>7. TalkTyped'
  BY <1>1 DEF TalkTyped, history, talk
<1>8. k.msg = chat[c].msg
  BY <1>4 DEF j
<1>9. UNCHANGED <<rows, key, history>>
  BY DEF talk
<1> QED BY <1>2, <1>3, <1>5, <1>6, <1>7, <1>8, <1>9, CallMoves

-----------------------------------------------------------------------------
(* The steps of a handler.                                                 *)

LEMMA BegunKept ==
  ASSUME OwnerInv, UNCHANGED begun
  PROVE  begun' \in 0..MaxBegun
BY DEF OwnerInv, StoreTyped

\* A handler that only leaves another row behind, or answers.
LEMMA LeaveTalk ==
  ASSUME OwnerInv, NEW c \in Calls, call[c].pc \in Handling,
         NEW row, HasObject(row), Leave(c, row),
         UNCHANGED <<rows, talk, history>>, UNCHANGED begun
  PROVE  OwnerInv'
<1>1. UNCHANGED <<rows, conv, key, text, history>> /\ draft' = draft
  BY DEF talk
<1>2. draft' \in [Drafts -> DraftRows]
  BY <1>1 DEF OwnerInv, TalkTyped
<1> QED BY <1>1, <1>2, LeaveGood, BegunKept

LEMMA AnswerTalk ==
  ASSUME OwnerInv, NEW c \in Calls, call[c].pc \in Handling, Answer(c),
         UNCHANGED <<rows, talk, history>>, UNCHANGED begun
  PROVE  OwnerInv'
<1>1. Goto(c, "complete") /\ chat' = chat
  BY DEF Answer
<1>2. UNCHANGED <<rows, key, history>>
  BY DEF talk
<1>3. TalkTyped'
  BY DEF OwnerInv, TalkTyped, talk, history
<1>4. Plain("complete")
  BY DEF Plain, Handling
<1> QED BY <1>1, <1>2, <1>3, <1>4, GotoGood, BegunKept

LEMMA GotoTalk ==
  ASSUME OwnerInv, NEW c \in Calls, call[c].pc \in Handling, Undecided(call[c], chat[c]),
         Goto(c, "release"), UNCHANGED chat,
         UNCHANGED <<rows, talk, history>>, UNCHANGED begun
  PROVE  OwnerInv'
<1>2. UNCHANGED <<rows, key, history>>
  BY DEF talk
<1>3. TalkTyped'
  BY DEF OwnerInv, TalkTyped, talk, history
<1>4. Plain("release")
  BY DEF Plain, Handling
<1> QED BY <1>2, <1>3, <1>4, GotoGood, BegunKept

LEMMA OverGood ==
  ASSUME OwnerInv, NEW c \in Calls, call[c].pc \in Handling, Continue(c, "idle"),
         chat' = [chat EXCEPT ![c] = Silent],
         NEW v \in {"free", "completed"}, key' = [key EXCEPT ![chat[c].msg] = v],
         v = "free" => Undecided(call[c], chat[c]),
         text' \in [Messages -> Texts \cup {None}],
         conv' \in ConvRows \cup {None}, conv' # None => HasObject(conv'),
         UNCHANGED <<rows, draft, history>>, UNCHANGED begun
  PROVE  OwnerInv'
<1>1. call' = [call EXCEPT ![c] = Idle]
  BY DEF Continue
<1>2. /\ approval' = approval /\ clock' = clock /\ expired' = expired /\ contact' = contact
      /\ dispatched' = dispatched /\ redecided' = redecided /\ missed' = missed
  BY DEF rows, world
<1>3. chat[c].msg # None /\ StoreTyped /\ TalkTyped /\ CallsTyped /\ Ordered
  BY HandlerHolds
<1>4. NobodyForgotten /\ DispatchOnce /\ MessagesGood
  BY DEF OwnerInv
<1>5. StoreTyped' /\ Ordered'
  BY <1>2, <1>3 DEF StoreTyped, Ordered
<1>6. MessagesGood' /\ key' \in [Messages -> {"free", "reserved", "completed"}]
  BY <1>1, <1>3, <1>4, MessagesOver
<1>7. TalkTyped'
  BY <1>3, <1>6 DEF TalkTyped, history
<1>8. Idle \in CallRows /\ Idle.pc = "idle" /\ Idle.then = "idle" /\ Idle.otherwise = "idle"
  BY DEF Idle, CallRows, Pcs
<1>9. Silent \in ChatRows /\ Silent.msg = None
  BY DEF Silent, ChatRows
<1>10. CallGood(Idle, approval') /\ ChatGood(Idle, Silent)
  BY <1>8, <1>9 DEF CallGood, ChatGood, Pcs
<1>11. CallsTyped'
  <2>1. \A d \in Calls \ {c} : CallGood(call[d], approval')
    BY <1>2, <1>3 DEF CallsTyped
  <2> QED BY <1>1, <1>3, <1>8, <1>10, <2>1, CallsMoved
<1>12. ~ Obliged(call[c], approval) /\ call[c].pc # "dispatch"
  BY DEF Obliged, Handling
<1>13. NobodyForgotten' /\ DispatchOnce'
  BY <1>1, <1>2, <1>3, <1>4, <1>8, <1>12, NobodyMoved, DispatchMoved
<1> QED BY <1>5, <1>6, <1>7, <1>11, <1>13 DEF OwnerInv

LEMMA MessageStepKeeps ==
  ASSUME OwnerInv, NEW c \in Calls, UNCHANGED begun,
         Release(c) \/ Complete(c) \/ Touch(c) \/ PutConversation(c)
  PROVE  OwnerInv'
<1>1. CASE Release(c)
  <2>1. call[c].pc = "release" /\ call[c].pc \in Handling /\ Undecided(call[c], chat[c])
    BY <1>1 DEF Release, At, Handling, Undecided
  <2>2. TalkTyped
    BY DEF OwnerInv
  <2>3. /\ text' \in [Messages -> Texts \cup {None}]
        /\ conv' \in ConvRows \cup {None} /\ (conv' # None => HasObject(conv'))
    BY <1>1, <2>2 DEF Release, TalkTyped
  <2> QED BY <1>1, <2>1, <2>3, OverGood DEF Release
<1>2. CASE Complete(c)
  <2>1. call[c].pc \in Handling
    BY <1>2 DEF Complete, At, Handling
  <2>2. TalkTyped
    BY DEF OwnerInv
  <2>3. /\ text' \in [Messages -> Texts \cup {None}]
        /\ conv' \in ConvRows \cup {None} /\ (conv' # None => HasObject(conv'))
    BY <1>2, <2>2 DEF Complete, Completed, TalkTyped
  <2> QED BY <1>2, <2>1, <2>3, OverGood DEF Complete, Completed
<1>3. CASE Touch(c)
  <2>1. call[c].pc = "touch" /\ call[c].pc \in Handling /\ Undecided(call[c], chat[c])
    BY <1>3 DEF Touch, At, Handling, Undecided
  <2>2. HasObject(chat[c].conv) /\ TalkTyped
    BY <2>1, HandlerHolds
  <2>3. TalkTyped'
    BY <1>3, <2>2 DEF Touch, Held, TalkTyped, HasObject, history
  <2>4. Plain("handle")
    BY DEF Plain, Handling
  <2>5. UNCHANGED <<rows, key, history>> /\ Goto(c, "handle") /\ chat' = chat
    BY <1>3 DEF Touch
  <2> QED BY <2>1, <2>3, <2>4, <2>5, GotoGood, BegunKept
<1>4. CASE PutConversation(c)
  <2>1. call[c].pc = "put_conv" /\ call[c].pc \in Handling
    BY <1>4 DEF PutConversation, At, Handling
  <2>2. /\ HasObject(chat[c].conv) /\ TalkTyped
        /\ ChatGood(call[c], chat[c]) /\ chat[c] \in ChatRows /\ chat[c].msg # None
    BY <2>1, HandlerHolds
  <2>3. conv' = chat[c].conv /\ conv' \in ConvRows /\ HasObject(conv')
    BY <1>4, <2>2 DEF PutConversation, Held, HasObject
  <2>4. CASE chat[c].next = "complete"
    <3>1. Completed(c) /\ UNCHANGED <<rows, draft, history>>
      BY <1>4, <2>4 DEF PutConversation
    <3>2. text' \in [Messages -> Texts \cup {None}]
      BY <2>2, <3>1 DEF Completed, TalkTyped
    <3> QED BY <2>1, <2>3, <3>1, <3>2, OverGood DEF Completed
  <2>5. CASE chat[c].next # "complete"
    <3>1. /\ Goto(c, chat[c].next) /\ chat' = chat /\ UNCHANGED <<rows, key, history>>
          /\ text' = text /\ draft' = draft
      BY <1>4, <2>5 DEF PutConversation
    <3>2. chat[c].next \in {"handle", "referred"}
      BY <2>2, <2>5 DEF ChatRows
    <3>3. chat[c].next = "referred" => chat[c].conv.approval # None
      BY <2>1, <2>2 DEF ChatGood
    <3>4. Undecided(call[c], chat[c])
      BY <2>1, <2>5 DEF Undecided
    <3>5. TalkTyped'
      BY <2>2, <2>3, <3>1 DEF TalkTyped, history
    <3>6. Plain(chat[c].next) /\ chat[c].next \notin {"put_conv", "put_draft"}
      BY <3>2 DEF Plain, Handling
    <3> QED BY <2>1, <3>1, <3>2, <3>3, <3>4, <3>5, <3>6, GotoGood, BegunKept
  <2> QED BY <2>4, <2>5
<1> QED BY <1>1, <1>2, <1>3, <1>4

\* The facts every handler of the row starts from.
LEMMA HandleStarts ==
  ASSUME OwnerInv, NEW c \in Calls,
         call[c].pc \in {"handle", "referred"}
  PROVE  /\ call[c].pc \in Handling /\ Undecided(call[c], chat[c])
         /\ HasObject(Held(c)) /\ StoreTyped /\ TalkTyped /\ Ordered
         /\ Held(c).approval \in Approvals \cup {None} /\ Held(c).draft \in Drafts \cup {None}
         /\ chat[c].text.ref \in Approvals \cup {None}
         /\ call[c].pc = "referred" => Held(c).approval # None
<1>1. call[c].pc \in Handling /\ Undecided(call[c], chat[c])
  BY DEF Handling, Undecided
<1>2. /\ HasObject(chat[c].conv) /\ StoreTyped /\ TalkTyped /\ Ordered
      /\ chat[c].text \in TextRows /\ ChatGood(call[c], chat[c]) /\ chat[c].msg # None
  BY <1>1, HandlerHolds
<1>3. chat[c].text.ref \in Approvals \cup {None}
  BY <1>2 DEF TextRows
<1>4. Held(c).approval \in Approvals \cup {None} /\ Held(c).draft \in Drafts \cup {None}
  BY <1>2 DEF Held, HasObject, ConvRows
<1>5. call[c].pc = "referred" => Held(c).approval # None
  BY <1>2 DEF ChatGood, Held
<1> QED BY <1>1, <1>2, <1>3, <1>4, <1>5 DEF Held

LEMMA MenuStepKeeps ==
  ASSUME OwnerInv, NEW c \in Calls, UNCHANGED begun,
         \/ HandleMenu(c) \/ HandleResume(c) \/ HandleMainMenu(c)
         \/ ResolvedFromMenu(c) \/ HandleStockIssue(c) \/ HandleDisambiguation(c)
  PROVE  OwnerInv'
<1> DEFINE h == Held(c)
<1>1. CASE HandleMenu(c)
  <2>1. call[c].pc = "handle" /\ UNCHANGED <<rows, talk, history>>
    BY <1>1 DEF HandleMenu, At
  <2>2. HasObject(h) /\ call[c].pc \in Handling
    BY <2>1, HandleStarts
  <2>3. PICK p : /\ p \in {h.paused, "approval_decision", "product_onboarding"}
                 /\ Leave(c, [Menu(h) EXCEPT !.paused = p])
    <3>1. Menu(h).paused = h.paused
      BY <2>2 DEF Menu, HasObject, ConvRows
    <3> QED BY <1>1, <3>1 DEF HandleMenu
  <2> DEFINE g == Menu(h)
  <2>4. HasObject(g) /\ g.context = "main_menu"
    BY <2>2, MenuGood DEF HasObject, ConvRows, Menu
  <2>5. p \in {None, "approval_decision", "product_onboarding"}
    BY <2>2, <2>3 DEF HasObject, ConvRows
  <2> HIDE DEF g
  <2>6. HasObject([g EXCEPT !.paused = p])
    BY <2>4, <2>5 DEF HasObject, ConvRows
  <2> QED BY <2>1, <2>2, <2>3, <2>6, LeaveTalk DEF g
<1>2. CASE HandleResume(c)
  <2>1. call[c].pc = "handle" /\ UNCHANGED <<rows, talk, history>> /\ Leave(c, Resumed(h))
    BY <1>2 DEF HandleResume, At
  <2>2. HasObject(h) /\ call[c].pc \in Handling /\ TalkTyped
    BY <2>1, HandleStarts
  <2> QED BY <2>1, <2>2, ResumedGood, LeaveTalk
<1>3. CASE HandleMainMenu(c)
  <2>1. call[c].pc = "handle" /\ UNCHANGED <<rows, talk, history>>
    BY <1>3 DEF HandleMainMenu, In, At
  <2>2. /\ HasObject(h) /\ call[c].pc \in Handling /\ TalkTyped /\ StoreTyped /\ Ordered
        /\ Undecided(call[c], chat[c])
    BY <2>1, HandleStarts
  <2>3. HasObject(Menu(h)) /\ HasObject(Decisions(h))
    BY <2>2, MenuGood, DecisionsGood
  <2>4. HasObject([h EXCEPT !.context = "stock_issue_detail"])
    BY <2>2 DEF HasObject, ConvRows, Contexts
  <2>5. Incomplete # {} => HasObject(Onboarding(h, FirstDraft))
    <3> SUFFICES ASSUME Incomplete # {} PROVE HasObject(Onboarding(h, FirstDraft))
      OBVIOUS
    <3>1. Incomplete \subseteq Nat /\ Incomplete \subseteq Drafts
      BY ConversationAssumption DEF Incomplete, ConversationAssumption
    <3>2. \E d \in Incomplete : \A e \in Incomplete : d <= e
      BY <3>1, SmallestExists
    <3>3. FirstDraft \in Drafts
      BY <3>1, <3>2 DEF FirstDraft
    <3> QED BY <2>2, <3>3, OnboardingGood
  <2>6. Cardinality(Actionable) = 1 => OldestFirst(Actionable)[1] \in Approvals
    BY <2>2, OldestFirstOne
  <2>7. CASE Cardinality(Actionable) = 1
             /\ Resolve(c, OldestFirst(Actionable)[1], "approved", "resolved")
    <3>1. "approved" \in Judged
      BY DEF Judged
    <3> QED BY <2>1, <2>2, <2>6, <2>7, <3>1, ResolveGood, BegunKept
  <2>8. CASE \/ Leave(c, Decisions(h)) \/ Leave(c, Menu(h))
             \/ Leave(c, [h EXCEPT !.context = "stock_issue_detail"])
             \/ Leave(c, IF Incomplete # {} THEN Onboarding(h, FirstDraft) ELSE Menu(h))
    BY <2>1, <2>2, <2>3, <2>4, <2>5, <2>8, LeaveTalk
  <2>9. CASE Answer(c)
    BY <2>1, <2>2, <2>9, AnswerTalk
  <2> QED BY <1>3, <2>7, <2>8, <2>9 DEF HandleMainMenu
<1>4. CASE ResolvedFromMenu(c)
  <2>1. call[c].pc \in Handling /\ UNCHANGED <<rows, talk, history>> /\ Leave(c, Menu(h))
    BY <1>4 DEF ResolvedFromMenu, At, Handling
  <2>2. HasObject(h)
    BY <2>1, HandlerHolds DEF Held
  <2> QED BY <2>1, <2>2, MenuGood, LeaveTalk
<1>5. CASE HandleStockIssue(c)
  <2>1. call[c].pc = "handle" /\ UNCHANGED <<rows, talk, history>>
    BY <1>5 DEF HandleStockIssue, In, At
  <2>2. HasObject(h) /\ call[c].pc \in Handling
    BY <2>1, HandleStarts
  <2>3. Leave(c, Menu(h)) \/ Answer(c)
    BY <1>5 DEF HandleStockIssue
  <2> QED BY <2>1, <2>2, <2>3, MenuGood, LeaveTalk, AnswerTalk
<1>6. CASE HandleDisambiguation(c)
  <2>1. call[c].pc = "handle" /\ UNCHANGED <<rows, talk, history>>
    BY <1>6 DEF HandleDisambiguation, In, At
  <2>2. HasObject(h) /\ call[c].pc \in Handling
    BY <2>1, HandleStarts
  <2>3. <<>> \in Seq(Approvals)
    OBVIOUS
  <2>4. ASSUME NEW g, HasObject(g), g.context # "approval_disambiguation"
        PROVE  HasObject([g EXCEPT !.ids = <<>>])
    BY <2>3, <2>4 DEF HasObject, ConvRows
  <2>5. CASE \E i \in DOMAIN h.ids : Leave(c, [Decision(h, h.ids[i]) EXCEPT !.ids = <<>>])
    <3>1. PICK i \in DOMAIN h.ids : Leave(c, [Decision(h, h.ids[i]) EXCEPT !.ids = <<>>])
      BY <2>5
    <3>2. h.ids[i] \in Approvals
      BY <2>2, <3>1 DEF HasObject, ConvRows
    <3> DEFINE a == h.ids[i]
    <3>3. HasObject(Decision(h, a))
      BY <2>2, <3>2, DecisionGood
    <3>4. Decision(h, a).context = "approval_decision"
      BY <2>2 DEF Decision, HasObject, ConvRows
    <3>5. HasObject([Decision(h, a) EXCEPT !.ids = <<>>])
      <4> DEFINE g == Decision(h, a)
      <4>1. HasObject(g) /\ g.context # "approval_disambiguation"
        BY <3>3, <3>4
      <4> HIDE DEF g
      <4>2. HasObject([g EXCEPT !.ids = <<>>])
        BY <2>4, <4>1
      <4> QED BY <4>2 DEF g
    <3> QED BY <2>1, <2>2, <3>1, <3>5, LeaveTalk
  <2>6. CASE Leave(c, [Menu(h) EXCEPT !.ids = <<>>])
    <3> DEFINE g == Menu(h)
    <3>1. HasObject(g) /\ g.context # "approval_disambiguation"
      BY <2>2, MenuGood DEF Menu, HasObject, ConvRows
    <3>2. Leave(c, [g EXCEPT !.ids = <<>>])
      BY <2>6
    <3> HIDE DEF g
    <3> QED BY <2>1, <2>2, <2>4, <3>1, <3>2, LeaveTalk
  <2>7. CASE Answer(c)
    BY <2>1, <2>2, <2>7, AnswerTalk
  <2>8. \/ \E i \in DOMAIN h.ids : Leave(c, [Decision(h, h.ids[i]) EXCEPT !.ids = <<>>])
        \/ Leave(c, [Menu(h) EXCEPT !.ids = <<>>])
        \/ Answer(c)
    <3> DEFINE chosen == {i \in DOMAIN h.ids : Word(c) \in Numbers /\ Value[Word(c)] = i}
    <3>1. chosen # {} => (CHOOSE i \in chosen : TRUE) \in DOMAIN h.ids
      OBVIOUS
    <3>2. IF chosen # {}
          THEN Leave(c, [Decision(h, h.ids[CHOOSE i \in chosen : TRUE]) EXCEPT !.ids = <<>>])
          ELSE IF Word(c) = "cancel" THEN Leave(c, [Menu(h) EXCEPT !.ids = <<>>])
          ELSE Answer(c)
      BY <1>6 DEF HandleDisambiguation
    <3> QED BY <3>1, <3>2, Zenon
  <2> QED BY <2>5, <2>6, <2>7, <2>8
<1> QED BY <1>1, <1>2, <1>3, <1>4, <1>5, <1>6

LEMMA DecideGood ==
  ASSUME OwnerInv, NEW c \in Calls, UNCHANGED begun, call[c].pc \in {"handle", "referred"},
         NEW a \in Approvals, a = Held(c).approval, Decide(c, a), UNCHANGED <<rows, talk, history>>
  PROVE  OwnerInv'
<1> DEFINE h == Held(c)
<1>1. HasObject(h) /\ call[c].pc \in Handling /\ Undecided(call[c], chat[c])
  BY HandleStarts
<1>2. CASE Verdict(Word(c)) # None /\ Resolve(c, a, Verdict(Word(c)), "advance")
  <2>1. Verdict(Word(c)) \in Judged
    BY <1>2 DEF Verdict, Judged
  <2> QED BY <1>1, <1>2, <2>1, ResolveGood, BegunKept
<1>3. CASE Leave(c, Nothing(h))
  BY <1>1, <1>3, MenuGood, LeaveTalk
<1>4. CASE a \notin OrderFlow /\ Leave(c, [h EXCEPT !.context = "approval_edit"])
  <2>1. HasObject([h EXCEPT !.context = "approval_edit"])
    BY <1>1, <1>4 DEF HasObject, ConvRows, Contexts
  <2> QED BY <1>1, <1>4, <2>1, LeaveTalk
<1>5. CASE Answer(c)
  BY <1>1, <1>5, AnswerTalk
<1> QED BY <1>2, <1>3, <1>4, <1>5 DEF Decide

LEMMA DecisionStepKeeps ==
  ASSUME OwnerInv, NEW c \in Calls, UNCHANGED begun,
         HandleDecision(c) \/ HandleReferred(c) \/ Advance(c) \/ HandleEdit(c)
  PROVE  OwnerInv'
<1> DEFINE h == Held(c)
<1>1. CASE HandleDecision(c)
  <2>1. call[c].pc = "handle" /\ UNCHANGED <<rows, talk, history>>
    BY <1>1 DEF HandleDecision, In, At
  <2>2. /\ HasObject(h) /\ call[c].pc \in Handling /\ Undecided(call[c], chat[c])
        /\ h.approval \in Approvals \cup {None}
        /\ chat[c].text.ref \in Approvals \cup {None}
    BY <2>1, HandleStarts
  <2>3. CASE h.approval = None \/ ~ Pending(h.approval)
    <3>1. Leave(c, Nothing(h))
      BY <1>1, <2>3 DEF HandleDecision
    <3> QED BY <2>1, <2>2, <3>1, MenuGood, LeaveTalk
  <2>4. CASE ~ (h.approval = None \/ ~ Pending(h.approval)) /\ Refers(c)
    <3>1. \/ LeaveThen(c, Decision(h, chat[c].text.ref), "referred")
          \/ Answer(c)
      BY <1>1, <2>4 DEF HandleDecision
    <3> DEFINE b == chat[c].text.ref
    <3>2. b \in Approvals
      BY <2>2, <2>4 DEF Refers
    <3> HIDE DEF b
    <3>3. HasObject(Decision(h, b)) /\ Decision(h, b).approval # None
      BY <2>2, <3>2, DecisionGood
    <3>4. CASE LeaveThen(c, Decision(h, b), "referred")
      BY <2>1, <2>2, <3>3, <3>4, LeaveThenGood, BegunKept
    <3>5. CASE Answer(c)
      BY <2>1, <2>2, <3>5, AnswerTalk
    <3> QED BY <3>1, <3>4, <3>5 DEF b
  <2>5. CASE ~ (h.approval = None \/ ~ Pending(h.approval)) /\ ~ Refers(c)
    <3>1. Decide(c, h.approval) /\ h.approval \in Approvals
      BY <1>1, <2>2, <2>5 DEF HandleDecision
    <3> QED BY <2>1, <3>1, DecideGood
  <2> QED BY <2>3, <2>4, <2>5
<1>2. CASE HandleReferred(c)
  <2>1. call[c].pc = "referred" /\ UNCHANGED <<rows, talk, history>> /\ Decide(c, h.approval)
    BY <1>2 DEF HandleReferred, At
  <2>2. h.approval \in Approvals
    BY <2>1, HandleStarts
  <2> QED BY <2>1, <2>2, DecideGood
<1>3. CASE Advance(c)
  <2> DEFINE S == Actionable \ {chat[c].target}
  <2>1. call[c].pc \in Handling /\ UNCHANGED <<rows, talk, history>>
    BY <1>3 DEF Advance, At, Handling
  <2>2. HasObject(h) /\ StoreTyped /\ Ordered
    BY <2>1, HandlerHolds DEF Held
  <2>3. Leave(c, IF S = {} THEN Nothing(h) ELSE Decision(h, OldestFirst(S)[1]))
    BY <1>3 DEF Advance
  <2>4. S \subseteq Actionable
    OBVIOUS
  <2> HIDE DEF S
  <2>5. S # {} => OldestFirst(S)[1] \in Approvals
    BY <2>2, <2>4, OldestFirstOne
  <2>6. S # {} => HasObject(Decision(h, OldestFirst(S)[1]))
    BY <2>2, <2>5, DecisionGood
  <2>7. HasObject(Nothing(h))
    BY <2>2, MenuGood
  <2>8. HasObject(IF S = {} THEN Nothing(h) ELSE Decision(h, OldestFirst(S)[1]))
    BY <2>6, <2>7
  <2> QED BY <2>1, <2>3, <2>8, LeaveTalk
<1>4. CASE HandleEdit(c)
  <2>1. call[c].pc = "handle" /\ UNCHANGED <<rows, talk, history>> /\ h.context = "approval_edit"
    BY <1>4 DEF HandleEdit, In, At
  <2>2. HasObject(h) /\ call[c].pc \in Handling /\ StoreTyped /\ TalkTyped
    BY <2>1, HandleStarts
  <2>3. h.approval \in Approvals \ OrderFlow
    BY <2>1, <2>2 DEF HasObject
  <2> DEFINE a == h.approval
  <2>4. CASE Leave(c, Decision(h, a))
    BY <2>1, <2>2, <2>3, <2>4, DecisionGood, LeaveTalk
  <2>5. CASE Answer(c)
    BY <2>1, <2>2, <2>5, AnswerTalk
  <2>6. CASE Leave(c, Nothing(h))
    BY <2>1, <2>2, <2>6, MenuGood, LeaveTalk
  <2>7. CASE /\ Pending(a)
             /\ call' = [call EXCEPT ![c].pc = "put_edit", ![c].id = a, ![c].held = approval[a]]
             /\ UNCHANGED chat
    <3> DEFINE i == call[c]  k == chat[c]  v == approval[a]
               r == [i EXCEPT !.pc = "put_edit", !.id = a, !.held = v]
    <3>1. /\ i \in CallRows /\ k \in ChatRows /\ k.msg # None /\ k.text \in TextRows
          /\ HasObject(k.conv) /\ CallsTyped
      BY <2>2, HandlerHolds
    <3>2. v \in Rows /\ v # None
      BY <2>2, <2>3, <2>7 DEF Pending, StoreTyped
    <3>3. call' = [call EXCEPT ![c] = r] /\ chat' = [chat EXCEPT ![c] = k]
      BY <2>7, <3>1 DEF CallsTyped
    <3> HIDE DEF i, a
    <3>4. /\ r \in CallRows /\ r.pc = "put_edit" /\ r.id = a /\ r.held = v
      <4> HIDE DEF v
      <4>1. a \in Approvals
        BY <2>3 DEF a
      <4> QED BY <3>1, <3>2, <4>1 DEF CallRows, Handling
    <3> HIDE DEF r
    <3>5. CallGood(r, approval)
      BY <2>3, <3>2, <3>4 DEF CallGood, a
    <3>6. ChatGood(r, k)
      BY <3>1, <3>4 DEF ChatGood, Pcs
    <3>7. Undecided(call[c], chat[c])
      BY <2>1 DEF Undecided
    <3> HIDE DEF k
    <3>8. k.msg = chat[c].msg
      BY DEF k
    <3>9. TalkTyped' /\ UNCHANGED <<rows, key, history>>
      BY <2>1, <2>2 DEF TalkTyped, talk, history
    <3>10. r.pc \notin {"put_shortage", "dispatch"}
      BY <3>4
    <3> QED BY <2>2, <3>3, <3>5, <3>6, <3>7, <3>8, <3>9, <3>10, CallMoves, BegunKept
  <2> QED BY <1>4, <2>4, <2>5, <2>6, <2>7 DEF HandleEdit
<1> QED BY <1>1, <1>2, <1>3, <1>4

LEMMA OnboardingStepKeeps ==
  ASSUME OwnerInv, NEW c \in Calls, UNCHANGED begun,
         HandleOnboarding(c) \/ PutDraft(c) \/ Publish(c) \/ NextDraft(c)
  PROVE  OwnerInv'
<1> DEFINE h == Held(c)
<1>1. CASE HandleOnboarding(c)
  <2> DEFINE step == IF h.step # None THEN h.step ELSE NextStep(draft[h.draft])
  <2>1. call[c].pc = "handle" /\ UNCHANGED <<rows, talk, history>>
    BY <1>1 DEF HandleOnboarding, In, At
  <2>2. HasObject(h) /\ call[c].pc \in Handling /\ TalkTyped /\ h.draft \in Drafts \cup {None}
    BY <2>1, HandleStarts
  <2>3. CASE \/ Leave(c, [h EXCEPT !.context = "none"])
             \/ Leave(c, [h EXCEPT !.context = "none", !.draft = None])
    <3>1. /\ HasObject([h EXCEPT !.context = "none"])
          /\ HasObject([h EXCEPT !.context = "none", !.draft = None])
      BY <2>2 DEF HasObject, ConvRows, Contexts
    <3> QED BY <2>1, <2>2, <2>3, <3>1, LeaveTalk
  <2>4. CASE Answer(c)
    BY <2>1, <2>2, <2>4, AnswerTalk
  <2>5. CASE /\ h.draft # None /\ step # None
             /\ chat' = [chat EXCEPT ![c].row =
                          [draft[h.draft] EXCEPT !.done = @ \cup {step}]]
             /\ Goto(c, "put_draft")
    <3> DEFINE i == call[c]  j == chat[c]
               d == draft[h.draft]
               w == [d EXCEPT !.done = @ \cup {step}]
               r == [i EXCEPT !.pc = "put_draft"]
               k == [j EXCEPT !.row = w]
    <3>1. /\ i \in CallRows /\ j \in ChatRows /\ j.msg # None /\ j.text \in TextRows
          /\ HasObject(j.conv)
      BY <2>2, HandlerHolds
    <3>2. call' = [call EXCEPT ![c] = r] /\ chat' = [chat EXCEPT ![c] = k]
      BY <2>5 DEF Goto
    <3>3. d \in DraftRows
      BY <2>2, <2>5 DEF TalkTyped
    <3>4. step \in 1..Questions
      <4>1. h.step # None => h.step \in 1..Questions
        BY <2>2 DEF HasObject, ConvRows
      <4>2. NextStep(d) \in (1..Questions) \cup {None}
        BY <3>3, NextStepTyped
      <4> QED BY <2>5, <4>1, <4>2
    <3> HIDE DEF d, step, i, j
    <3>5. w \in DraftRows
      BY <3>3, <3>4 DEF DraftRows
    <3> HIDE DEF w
    <3>6. CallGood(r, approval) /\ r.pc = "put_draft"
      BY <3>1, PlainGood DEF Plain, Handling
    <3>7. k \in ChatRows /\ k.msg = j.msg /\ k.conv = j.conv /\ k.text = j.text /\ k.row = w
      BY <3>1, <3>5 DEF ChatRows
    <3> HIDE DEF r, k
    <3>8. ChatGood(r, k)
      BY <3>1, <3>5, <3>6, <3>7 DEF ChatGood, Pcs
    <3>9. ~ Undecided(r, k)
      BY <3>6 DEF Undecided
    <3>10. k.msg = chat[c].msg
      BY <3>7 DEF j
    <3>11. TalkTyped' /\ UNCHANGED <<rows, key, history>>
      BY <2>1, <2>2 DEF TalkTyped, talk, history
    <3>12. r.pc \notin {"put_shortage", "dispatch"}
      BY <3>6
    <3> QED BY <2>2, <3>2, <3>6, <3>8, <3>9, <3>10, <3>11, <3>12, CallMoves, BegunKept
  <2> QED BY <1>1, <2>3, <2>4, <2>5 DEF HandleOnboarding
<1>2. CASE PutDraft(c)
  <2> DEFINE row == chat[c].row
  <2>1. call[c].pc = "put_draft" /\ call[c].pc \in Handling
        /\ UNCHANGED <<rows, conv, key, text, history>> /\ draft' = [draft EXCEPT ![h.draft] = row]
    BY <1>2 DEF PutDraft, At, Handling
  <2>2. HasObject(h) /\ TalkTyped /\ ChatGood(call[c], chat[c]) /\ chat[c].msg # None
    BY <2>1, HandlerHolds DEF Held
  <2>3. row \in DraftRows
    BY <2>1, <2>2 DEF ChatGood
  <2>4. draft' \in [Drafts -> DraftRows]
    BY <2>1, <2>2, <2>3 DEF TalkTyped
  <2>5. CASE NextStep(row) # None /\ Leave(c, [h EXCEPT !.step = NextStep(row)])
    <3> DEFINE q == NextStep(row)
    <3>1. q \in (1..Questions) \cup {None}
      BY <2>3, NextStepTyped
    <3> HIDE DEF q
    <3>2. HasObject([h EXCEPT !.step = q])
      BY <2>2, <3>1 DEF HasObject, ConvRows
    <3>3. Leave(c, [h EXCEPT !.step = q])
      BY <2>5 DEF q
    <3> QED BY <2>1, <2>4, <3>2, <3>3, LeaveGood, BegunKept
  <2>6. CASE Goto(c, "publish") /\ UNCHANGED chat
    <3>1. Plain("publish")
      BY DEF Plain, Handling
    <3>2. TalkTyped' /\ UNCHANGED <<rows, key, history>>
      BY <2>1, <2>2, <2>4 DEF TalkTyped, history
    <3> QED BY <2>1, <2>6, <3>1, <3>2, GotoGood, BegunKept
  <2> QED BY <1>2, <2>5, <2>6 DEF PutDraft
<1>3. CASE Publish(c)
  <2>1. call[c].pc \in Handling /\ UNCHANGED <<rows, conv, key, text, chat, history>>
        /\ Goto(c, "next_draft")
    BY <1>3 DEF Publish, At, Handling
  <2>2. PICK open \in BOOLEAN : draft' = [draft EXCEPT ![h.draft].open = open]
    BY <1>3 DEF Publish
  <2>3. TalkTyped
    BY <2>1, HandlerHolds
  <2>4. draft' \in [Drafts -> DraftRows]
    <3>1. draft \in [Drafts -> DraftRows]
      BY <2>3 DEF TalkTyped
    <3>2. \A d \in Drafts : [draft[d] EXCEPT !.open = open] \in DraftRows
      BY <2>2, <3>1 DEF DraftRows
    <3> QED BY <2>2, <3>1, <3>2
  <2>5. TalkTyped' /\ UNCHANGED <<rows, key, history>> /\ chat' = chat
    BY <2>1, <2>3, <2>4 DEF TalkTyped, history
  <2>6. Plain("next_draft")
    BY DEF Plain, Handling
  <2> QED BY <2>1, <2>5, <2>6, GotoGood, BegunKept
<1>4. CASE NextDraft(c)
  <2> DEFINE others == Incomplete \ {h.draft}
             n == CHOOSE d \in others : \A e \in others : d <= e
  <2>1. call[c].pc \in Handling /\ UNCHANGED <<rows, talk, history>>
        /\ Leave(c, IF others = {}
              THEN [h EXCEPT !.context = "none", !.draft = None, !.step = None]
              ELSE Onboarding(h, n))
    BY <1>4 DEF NextDraft, At, Handling
  <2>2. HasObject(h) /\ TalkTyped
    BY <2>1, HandlerHolds DEF Held
  <2>3. HasObject([h EXCEPT !.context = "none", !.draft = None, !.step = None])
    BY <2>2 DEF HasObject, ConvRows, Contexts
  <2>4. others # {} => n \in Drafts
    <3>1. others \subseteq Nat /\ others \subseteq Drafts
      BY ConversationAssumption DEF Incomplete, ConversationAssumption
    <3> HIDE DEF others
    <3>2. others # {} => \E d \in others : \A e \in others : d <= e
      BY <3>1, SmallestExists
    <3> QED BY <3>1, <3>2
  <2> HIDE DEF n, others
  <2>5. others # {} => HasObject(Onboarding(h, n))
    BY <2>2, <2>4, OnboardingGood
  <2> QED BY <2>1, <2>3, <2>5, LeaveTalk
<1> QED BY <1>1, <1>2, <1>3, <1>4

LEMMA CommandStepKeeps ==
  ASSUME OwnerInv, NEW c \in Calls, UNCHANGED begun,
         HandleCommand(c) \/ HandleUnscoped(c)
  PROVE  OwnerInv'
<1> DEFINE h == Held(c)  ref == chat[c].text.ref
<1>1. call[c].pc = "handle" /\ UNCHANGED <<rows, talk, history>>
  BY DEF HandleCommand, HandleUnscoped, In, At
<1>2. /\ HasObject(h) /\ call[c].pc \in Handling /\ TalkTyped /\ StoreTyped /\ Ordered
      /\ Undecided(call[c], chat[c]) /\ ref \in Approvals \cup {None}
  BY <1>1, HandleStarts
<1>3. CASE ref # None /\ LeaveThen(c, Decision(h, ref), "handle")
  <2>1. HasObject(Decision(h, ref))
    BY <1>2, <1>3, DecisionGood
  <2> QED BY <1>1, <1>2, <1>3, <2>1, LeaveThenGood, BegunKept
<1>4. CASE Goto(c, "release") /\ UNCHANGED chat
  BY <1>1, <1>2, <1>4, GotoTalk
<1>5. CASE LeaveThen(c, Decisions(h), "handle")
  BY <1>1, <1>2, <1>5, DecisionsGood, LeaveThenGood, BegunKept
<1>6. CASE Leave(c, Decisions(h))
  BY <1>1, <1>2, <1>6, DecisionsGood, LeaveTalk
<1>7. CASE Incomplete # {} /\ LeaveThen(c, Onboarding(h, FirstDraft), "handle")
  <2>1. Incomplete \subseteq Nat /\ Incomplete \subseteq Drafts
    BY ConversationAssumption DEF Incomplete, ConversationAssumption
  <2>2. \E d \in Incomplete : \A e \in Incomplete : d <= e
    BY <1>7, <2>1, SmallestExists
  <2>3. FirstDraft \in Drafts
    BY <2>1, <2>2 DEF FirstDraft
  <2>4. HasObject(Onboarding(h, FirstDraft))
    BY <1>2, <2>3, OnboardingGood
  <2> QED BY <1>1, <1>2, <1>7, <2>4, LeaveThenGood, BegunKept
<1>8. CASE Answer(c)
  BY <1>1, <1>2, <1>8, AnswerTalk
<1>9. \/ HandleCommand(c)
      \/ HandleUnscoped(c)
  OBVIOUS
<1>10. HandleUnscoped(c) => Answer(c) \/ (Goto(c, "release") /\ UNCHANGED chat)
  BY DEF HandleUnscoped
<1>11. CASE HandleCommand(c)
  BY <1>3, <1>4, <1>5, <1>6, <1>7, <1>8, <1>11 DEF HandleCommand
<1> QED BY <1>4, <1>8, <1>9, <1>10, <1>11

-----------------------------------------------------------------------------
(* What a put of an approval row leaves.                                   *)

LEMMA RowPut ==
  ASSUME StoreTyped, Ordered, NEW a \in Approvals, approval[a] # None,
         NEW v \in Rows, v.at = approval[a].at,
         approval' = [approval EXCEPT ![a] = v], clock' = clock
  PROVE  RowsKept(approval') /\ Ordered'
<1>1. approval \in [Approvals -> Rows \cup {None}]
  BY DEF StoreTyped
<1>2. None \notin Rows
  BY DecisionsAssumption DEF DecisionsAssumption
<1>3. approval' \in [Approvals -> Rows \cup {None}] /\ approval'[a] = v /\ v # None
      /\ \A b \in Approvals \ {a} : approval'[b] = approval[b]
  BY <1>1, <1>2
<1>4. \A b \in Approvals : /\ approval'[b] # None <=> approval[b] # None
                           /\ approval[b] # None => approval'[b].at = approval[b].at
  BY <1>3
<1>5. RowsKept(approval')
  BY <1>3, <1>4 DEF RowsKept
<1>6. Ordered'
  <2> SUFFICES ASSUME NEW b \in Approvals, NEW d \in Approvals, approval'[b] # None
      PROVE  /\ approval'[b].at < clock
             /\ approval'[d] # None /\ approval'[b].at = approval'[d].at => b = d
    BY DEF Ordered
  <2>1. approval[b] # None /\ approval'[b].at = approval[b].at
    BY <1>4
  <2>2. approval'[d] # None => approval[d] # None /\ approval'[d].at = approval[d].at
    BY <1>4
  <2> QED BY <2>1, <2>2 DEF Ordered
<1> QED BY <1>5, <1>6

\* A put of a row that exists makes no row of a shortage that is still to be created.
LEMMA OthersGoodPut ==
  ASSUME CallsTyped, StoreTyped, NEW c \in Calls, NEW a \in Approvals, approval[a] # None,
         NEW v \in Rows, approval' = [approval EXCEPT ![a] = v], RowsKept(approval')
  PROVE  \A d \in Calls \ {c} : CallGood(call[d], approval')
<1>1. ASSUME NEW d \in Calls \ {c}, call[d].pc = "put_shortage" PROVE approval'[call[d].id] = None
  <2>1. call[d].id \in Shortages /\ approval[call[d].id] = None
    BY <1>1 DEF CallsTyped, CallGood
  <2>2. call[d].id \in Approvals /\ call[d].id # a
    BY <2>1, DecisionsAssumption DEF DecisionsAssumption
  <2> QED BY <2>1, <2>2 DEF StoreTyped
<1> QED BY <1>1, OthersGood

\* The status stays, and a message that was sent stays sent.
LEMMA NobodyPut ==
  ASSUME NobodyForgotten, CallsTyped, StoreTyped, NEW c \in Calls, NEW r,
         NEW a \in Approvals, approval[a] # None, NEW v \in Rows,
         call' = [call EXCEPT ![c] = r], approval' = [approval EXCEPT ![a] = v],
         ~ missed, v.status = approval[a].status,
         a \in OrderFlow /\ approval[a].notified => v.notified,
         Obliged(call[c], approval) => \/ Obliged(r, approval')
                                       \/ \E b \in OrderFlow : Told(approval', b)
  PROVE  NobodyForgotten'
<1>1. approval \in [Approvals -> Rows \cup {None}] /\ None \notin Rows
  BY DecisionsAssumption DEF StoreTyped, DecisionsAssumption
<1>2. approval'[a] = v /\ v # None /\ \A b \in Approvals \ {a} : approval'[b] = approval[b]
  BY <1>1
<1>3. Shortages \subseteq OrderFlow /\ OrderFlow \subseteq Approvals
  BY DecisionsAssumption DEF DecisionsAssumption
<1>4. call'[c] = r /\ \A d \in Calls \ {c} : call'[d] = call[d]
  BY DEF CallsTyped
<1>5. \A b \in OrderFlow : Told(approval, b) => Told(approval', b)
  BY <1>2, <1>3 DEF Told
<1>6. \A s \in Shortages : Untold(approval', s) => Untold(approval, s)
  <2>1. v.notified \in BOOLEAN
    BY DEF Rows
  <2>2. approval[a].notified \in BOOLEAN
    BY <1>1 DEF Rows
  <2> QED BY <1>2, <1>3, <2>1, <2>2 DEF Untold
<1>7. ASSUME NEW d \in Calls \ {c}, Obliged(call[d], approval)
      PROVE  Obliged(call[d], approval')
  <2> DEFINE i == call[d]
  <2>1. CallGood(i, approval)
    BY DEF CallsTyped
  <2> HIDE DEF i
  <2>2. i.pc \in {"list_outstanding", "find_contact", "send"} => i.id \in Approvals
    BY <1>3, <2>1 DEF CallGood
  <2>3. \A b \in Approvals : approval'[b].status = approval[b].status
    BY <1>2
  <2>4. Obliged(i, approval)
    BY <1>7 DEF i
  <2>5. Obliged(i, approval')
    BY <2>2, <2>3, <2>4 DEF Obliged
  <2> QED BY <2>5 DEF i
<1>8. ASSUME NEW s \in Shortages, Untold(approval', s)
      PROVE  \/ \E b \in OrderFlow : Told(approval', b)
             \/ \E d \in Calls : Obliged(call'[d], approval')
  <2>1. CASE \E b \in OrderFlow : Told(approval, b)
    BY <1>5, <2>1
  <2>2. CASE \E d \in Calls : Obliged(call[d], approval)
    <3>1. PICK d \in Calls : Obliged(call[d], approval)
      BY <2>2
    <3>2. CASE d = c
      BY <1>4, <3>1, <3>2
    <3>3. CASE d # c
      BY <1>4, <1>7, <3>1, <3>3
    <3> QED BY <3>2, <3>3
  <2> QED BY <1>6, <1>8, <2>1, <2>2 DEF NobodyForgotten
<1> QED BY <1>8 DEF NobodyForgotten

LEMMA DispatchPut ==
  ASSUME DispatchOnce, CallsTyped, StoreTyped, NEW c \in Calls, NEW r,
         NEW a \in Approvals, approval[a] # None, NEW v \in Rows,
         call' = [call EXCEPT ![c] = r], approval' = [approval EXCEPT ![a] = v],
         ~ missed, v.status = approval[a].status,
         dispatched' = dispatched, redecided' = redecided,
         call[c].pc # "dispatch", r.pc # "dispatch"
  PROVE  DispatchOnce'
<1>1. approval \in [Approvals -> Rows \cup {None}] /\ None \notin Rows
  BY DecisionsAssumption DEF StoreTyped, DecisionsAssumption
<1>2. approval'[a] = v /\ v # None /\ \A b \in Approvals \ {a} : approval'[b] = approval[b]
  BY <1>1
<1>3. call'[c] = r /\ \A d \in Calls \ {c} : call'[d] = call[d]
  BY DEF CallsTyped
<1>4. ASSUME NEW d \in Calls, NEW b
      PROVE  Dispatching(call'[d], b) <=> Dispatching(call[d], b)
  BY <1>3 DEF Dispatching
<1>5. \A b \in Approvals :
        approval'[b] # None /\ approval'[b].status = "approved" <=>
        approval[b] # None /\ approval[b].status = "approved"
  BY <1>2
<1> SUFFICES ASSUME NEW b \in Approvals \ redecided
    PROVE  IF approval'[b] # None /\ approval'[b].status = "approved"
           THEN \/ dispatched[b] = 1 /\ \A e \in Calls : ~ Dispatching(call'[e], b)
                \/ dispatched[b] = 0 /\
                     \E e \in Calls : \A d \in Calls : Dispatching(call'[d], b) <=> d = e
           ELSE dispatched[b] = 0 /\ \A e \in Calls : ~ Dispatching(call'[e], b)
  BY DEF DispatchOnce
<1>6. IF approval[b] # None /\ approval[b].status = "approved"
      THEN \/ dispatched[b] = 1 /\ \A e \in Calls : ~ Dispatching(call[e], b)
           \/ dispatched[b] = 0 /\
                \E e \in Calls : \A d \in Calls : Dispatching(call[d], b) <=> d = e
      ELSE dispatched[b] = 0 /\ \A e \in Calls : ~ Dispatching(call[e], b)
  BY DEF DispatchOnce
<1> QED BY <1>4, <1>5, <1>6

LEMMA PutEditKeeps ==
  ASSUME OwnerInv, NEW c \in Calls, UNCHANGED begun, PutEdit(c)
  PROVE  OwnerInv'
<1> DEFINE i == call[c]  j == chat[c]  a == i.id  v == i.held
           r == [Idle EXCEPT !.pc = "read", !.id = a, !.decision = "approved",
                             !.then = "advance", !.otherwise = "release"]
           k == [j EXCEPT !.target = a]
<1>1. /\ i.pc = "put_edit" /\ i.pc \in Handling
      /\ approval' = [approval EXCEPT ![a] = v]
      /\ missed' = (missed \/ approval[a].status # v.status)
      /\ call' = [call EXCEPT ![c] = r] /\ chat' = [chat EXCEPT ![c] = k]
      /\ clock' = clock /\ expired' = expired /\ contact' = contact
      /\ dispatched' = dispatched /\ redecided' = redecided /\ UNCHANGED <<talk, history>>
  BY DEF PutEdit, Resolve, At, Handling, world
<1>2. /\ i \in CallRows /\ j \in ChatRows /\ j.msg # None /\ j.text \in TextRows
      /\ HasObject(j.conv) /\ CallGood(i, approval)
      /\ StoreTyped /\ TalkTyped /\ CallsTyped /\ Ordered
  BY <1>1, HandlerHolds
<1>3. NobodyForgotten /\ DispatchOnce /\ MessagesGood
  BY DEF OwnerInv
<1> HIDE DEF i, j
<1>4. /\ a \in Approvals \ OrderFlow /\ approval[a] # None /\ v \in Rows
      /\ v.at = approval[a].at
  BY <1>1, <1>2 DEF CallGood
<1> HIDE DEF a, v
<1>5. /\ r.pc = "read" /\ r.id = a /\ r.decision = "approved" /\ r.then = "advance"
      /\ r.otherwise = "release" /\ r \in CallRows
  BY <1>4 DEF Idle, CallRows, Pcs, Judged
<1>6. k \in ChatRows /\ k.msg = j.msg /\ k.conv = j.conv /\ k.text = j.text
  BY <1>2, <1>4 DEF ChatRows
<1> HIDE DEF r, k
<1>7. CallGood(r, approval')
  BY <1>4, <1>5 DEF CallGood, Judged
<1>8. ChatGood(r, k)
  BY <1>2, <1>5, <1>6 DEF ChatGood
<1>9. RowsKept(approval') /\ Ordered'
  BY <1>1, <1>2, <1>4, RowPut
<1>10. CallsTyped'
  <2>1. \A d \in Calls \ {c} : CallGood(call[d], approval')
    BY <1>1, <1>2, <1>4, <1>9, OthersGoodPut
  <2>2. r.pc # "put_shortage"
    BY <1>5
  <2> QED BY <1>1, <1>2, <1>7, <1>8, <2>1, <2>2, CallsMoved
<1>11. StoreTyped'
  <2>1. missed' \in BOOLEAN
    BY <1>1, <1>2 DEF StoreTyped
  <2> QED BY <1>1, <1>2, <1>9, <2>1, BegunKept DEF StoreTyped, RowsKept
<1>12. TalkTyped'
  BY <1>1, <1>2 DEF TalkTyped, talk, history
<1>13. MessagesGood'
  <2>1. Undecided(call[c], chat[c])
    BY <1>1 DEF Undecided, i
  <2>2. k.msg = chat[c].msg
    BY <1>6 DEF j
  <2>3. UNCHANGED <<key, history>>
    BY <1>1 DEF talk
  <2> QED BY <1>1, <1>2, <1>3, <2>1, <2>2, <2>3, MessagesMoved
<1>14. ~ Obliged(call[c], approval) /\ call[c].pc # "dispatch" /\ r.pc # "dispatch"
  BY <1>1, <1>5 DEF Obliged, i
<1>15. NobodyForgotten' /\ DispatchOnce'
  <2>1. CASE missed'
    BY <2>1 DEF NobodyForgotten, DispatchOnce
  <2>2. CASE ~ missed'
    <3>1. ~ missed /\ v.status = approval[a].status
      BY <1>1, <2>2
    <3>2. NobodyForgotten'
      BY <1>1, <1>2, <1>3, <1>4, <1>14, <3>1, NobodyPut
    <3>3. DispatchOnce'
      BY <1>1, <1>2, <1>3, <1>4, <1>14, <3>1, DispatchPut
    <3> QED BY <3>2, <3>3
  <2> QED BY <2>1, <2>2
<1> QED BY <1>9, <1>10, <1>11, <1>12, <1>13, <1>15 DEF OwnerInv

LEMMA HandlerKeeps ==
  ASSUME OwnerInv, NEW c \in Calls, UNCHANGED begun, HandlerStep(c)
  PROVE  OwnerInv'
BY MessageStepKeeps, MenuStepKeeps, DecisionStepKeeps, PutEditKeeps, OnboardingStepKeeps,
   CommandStepKeeps DEF HandlerStep

-----------------------------------------------------------------------------
(* The steps of OwnerDecisions: what they do to the rows and the calls.    *)

StorePart ==
  /\ StoreTyped /\ CallsTyped /\ Ordered /\ NobodyForgotten /\ DispatchOnce

\* A step leaves the messages undecided that it found undecided, but for the
\* decision and for the dispatch that raises.
KeepsUndecided(i, r, j) ==
  Undecided(r, j) => \/ Undecided(i, j) /\ i.pc # "decide"
                     \/ i.pc = "dispatch" /\ r.pc = "release"

Stepping(pc) == pc \in Pcs \ {"idle"}

\* A call that goes on with its own request.
LEMMA StepTo ==
  ASSUME NEW i, NEW j, ChatGood(i, j), Stepping(i.pc),
         NEW r \in CallRows, Stepping(r.pc), r.pc # "put_shortage",
         r.pc = "list_outstanding" => j.msg = None,
         r.then = i.then, r.otherwise = i.otherwise
  PROVE  ChatGood(r, j)
BY DEF ChatGood, Stepping, Pcs

\* A request that is answered, or a handler that has what it waited for.
LEMMA ContinueTo ==
  ASSUME NEW i \in CallRows, NEW j, ChatGood(i, j), Stepping(i.pc),
         NEW pc \in {i.then, i.otherwise}, NEW rws,
         NEW r, r = IF pc = "idle" THEN Idle ELSE [i EXCEPT !.pc = pc]
  PROVE  /\ CallGood(r, rws) /\ ChatGood(r, j) /\ r.pc = pc
         /\ pc \in {"idle", "resolved", "advance", "release"}
         /\ pc = "release" => pc = i.otherwise
<1>1. i.then \in {"idle", "resolved", "advance"} /\ i.otherwise \in {"idle", "release"}
  BY DEF CallRows
<1>2. pc \in {"idle", "resolved", "advance", "release"}
  BY <1>1
<1>3. CASE pc = "idle"
  <2>1. r \in CallRows /\ r.pc = "idle" /\ r.then = "idle" /\ r.otherwise = "idle"
    BY <1>3 DEF Idle, CallRows, Pcs
  <2>2. j.msg = None
    BY <1>1, <1>3 DEF ChatGood, Stepping
  <2>3. CallGood(r, rws)
    BY <2>1 DEF CallGood
  <2>4. ChatGood(r, j)
    BY <2>1, <2>2 DEF ChatGood, Pcs
  <2> QED BY <1>2, <1>3, <2>1, <2>3, <2>4
<1>4. CASE pc # "idle"
  <2>1. Plain(pc)
    BY <1>2, <1>4 DEF Plain, Handling
  <2>2. CallGood(r, rws) /\ r.pc = pc
    BY <1>4, <2>1, PlainGood
  <2>3. j.msg # None
    BY <1>1, <1>4 DEF ChatGood, Stepping
  <2>4. ChatGood(r, j)
    BY <1>2, <1>4, <2>2, <2>3 DEF ChatGood, Stepping, Pcs
  <2> QED BY <1>1, <1>2, <1>4, <2>2, <2>4
<1> QED BY <1>3, <1>4

\* A step that changes no row and dispatches nothing.
LEMMA StepQuiet ==
  ASSUME OwnerInv, NEW c \in Calls, NEW r,
         call' = [call EXCEPT ![c] = r], chat' = chat,
         approval' = approval, UNCHANGED <<clock, expired, contact, dispatched, redecided>>,
         missed' \in BOOLEAN, ~ missed' => ~ missed, begun' \in 0..MaxBegun,
         CallGood(r, approval), ChatGood(r, chat[c]),
         r.pc = "put_shortage" => \A d \in Calls \ {c} : call[d].id # r.id,
         ~ missed' => call[c].pc # "dispatch", r.pc # "dispatch",
         ~ missed' /\ Obliged(call[c], approval) =>
           \/ Obliged(r, approval)
           \/ \E a \in OrderFlow : Told(approval, a)
           \/ \A s \in Shortages : ~ Untold(approval, s)
  PROVE  StorePart'
<1>1. StoreTyped /\ Ordered /\ CallsTyped /\ NobodyForgotten /\ DispatchOnce
  BY DEF OwnerInv
<1>2. StoreTyped' /\ Ordered'
  BY <1>1 DEF StoreTyped, Ordered
<1>3. CallsTyped'
  <2>1. chat' = [chat EXCEPT ![c] = chat[c]]
    BY <1>1 DEF CallsTyped
  <2>2. \A d \in Calls \ {c} : CallGood(call[d], approval')
    BY <1>1 DEF CallsTyped
  <2>3. CallGood(r, approval')
    OBVIOUS
  <2> QED BY <1>1, <2>1, <2>2, <2>3, CallsMoved
<1>4. NobodyForgotten'
  <2>1. CASE \/ missed' \/ \E a \in OrderFlow : Told(approval, a)
             \/ \A s \in Shortages : ~ Untold(approval, s)
    BY <2>1 DEF NobodyForgotten
  <2>2. CASE ~ missed' /\ Obliged(call[c], approval) => Obliged(r, approval)
    BY <1>1, <2>2, NobodyMoved
  <2> QED BY <2>1, <2>2
<1>5. DispatchOnce'
  <2>1. CASE missed'
    BY <2>1 DEF DispatchOnce
  <2>2. CASE ~ missed'
    <3>1. dispatched' = dispatched /\ redecided' = redecided /\ call[c].pc # "dispatch"
      BY <2>2
    <3> QED BY <1>1, <3>1, DispatchMoved
  <2> QED BY <2>1, <2>2
<1> QED BY <1>2, <1>3, <1>4, <1>5 DEF StorePart

\* What is known of a call at a step.
LEMMA StepHolds ==
  ASSUME OwnerInv, NEW c \in Calls
  PROVE  /\ call[c] \in CallRows /\ CallGood(call[c], approval) /\ ChatGood(call[c], chat[c])
         /\ StoreTyped /\ CallsTyped /\ TalkTyped /\ Ordered /\ NobodyForgotten
         /\ DispatchOnce /\ MessagesGood
BY DEF OwnerInv, CallsTyped

\* The end of a call that only goes on.
LEMMA StepContinues ==
  ASSUME OwnerInv, NEW c \in Calls, Stepping(call[c].pc),
         NEW pc \in {call[c].then, call[c].otherwise}, Continue(c, pc), chat' = chat,
         approval' = approval, UNCHANGED <<clock, expired, contact, dispatched, redecided>>,
         missed' \in BOOLEAN, ~ missed' => ~ missed, UNCHANGED begun,
         ~ missed' => call[c].pc # "dispatch",
         pc = "release" => \/ Undecided(call[c], chat[c]) /\ call[c].pc # "decide"
                           \/ call[c].pc = "dispatch",
         ~ missed' /\ Obliged(call[c], approval) =>
           \/ \E a \in OrderFlow : Told(approval, a)
           \/ \A s \in Shortages : ~ Untold(approval, s)
  PROVE  /\ StorePart' /\ KeepsUndecided(call[c], call'[c], chat[c])
         /\ \A d \in Calls \ {c} : call'[d] = call[d]
<1> DEFINE i == call[c]  j == chat[c]
           r == IF pc = "idle" THEN Idle ELSE [i EXCEPT !.pc = pc]
<1>1. i \in CallRows /\ ChatGood(i, j) /\ CallsTyped
  BY StepHolds
<1>2. call' = [call EXCEPT ![c] = r]
  BY <1>1 DEF Continue, CallsTyped
<1>3. /\ CallGood(r, approval) /\ ChatGood(r, j) /\ r.pc = pc
      /\ pc \in {"idle", "resolved", "advance", "release"}
  BY <1>1, ContinueTo
<1> HIDE DEF r
<1>4. call'[c] = r /\ \A d \in Calls \ {c} : call'[d] = call[d]
  BY <1>1, <1>2 DEF CallsTyped
<1>5. Undecided(r, j) => pc = "release"
  BY <1>3 DEF Undecided
<1>6. KeepsUndecided(i, r, j)
  BY <1>3, <1>5 DEF KeepsUndecided
<1>7. StorePart'
  BY <1>2, <1>3, BegunKept, StepQuiet
<1> QED BY <1>4, <1>6, <1>7

\* ListOutstanding holds a message back only for one that was sent.
LEMMA ListOutstandingKeeps ==
  ASSUME OwnerInv, NEW c \in Calls, ListOutstanding(c), chat' = chat, UNCHANGED begun
  PROVE  /\ StorePart' /\ KeepsUndecided(call[c], call'[c], chat[c])
         /\ \A d \in Calls \ {c} : call'[d] = call[d]
<1> DEFINE i == call[c]  j == chat[c]
           pc == IF Outstanding(i.id) # {} THEN "idle" ELSE "find_contact"
           r == IF pc = "idle" THEN Idle ELSE [i EXCEPT !.pc = pc]
<1>1. /\ i \in CallRows /\ ChatGood(i, j) /\ CallGood(i, approval) /\ CallsTyped
      /\ StoreTyped
  BY StepHolds
<1>2. /\ i.pc = "list_outstanding" /\ call' = [call EXCEPT ![c] = r]
      /\ approval' = approval /\ UNCHANGED <<clock, expired, contact, dispatched, redecided>>
      /\ missed' = missed
  BY <1>1 DEF ListOutstanding, At, Continue, CallsTyped, world
<1>3. missed' \in BOOLEAN
  BY <1>1, <1>2 DEF StoreTyped
<1>4. j.msg = None /\ i.then = "idle" /\ i.otherwise = "idle"
  BY <1>1, <1>2 DEF ChatGood
<1>5. i.id \in Shortages /\ i.id \in OrderFlow /\ approval[i.id] # None
  BY <1>1, <1>2, DecisionsAssumption DEF CallGood, DecisionsAssumption
<1>6. call'[c] = r /\ \A d \in Calls \ {c} : call'[d] = call[d]
  BY <1>1, <1>2 DEF CallsTyped
<1>7. CASE Outstanding(i.id) # {}
  <2>1. r = Idle
    BY <1>7
  <2>2. CallGood(Idle, approval) /\ ChatGood(Idle, j) /\ Idle.pc = "idle"
    <3>1. Idle \in CallRows /\ Idle.pc = "idle" /\ Idle.then = "idle" /\ Idle.otherwise = "idle"
      BY DEF Idle, CallRows, Pcs
    <3>2. j \in ChatRows
      BY <1>1 DEF ChatGood
    <3> QED BY <1>4, <3>1, <3>2 DEF CallGood, ChatGood, Pcs
  <2>3. \E a \in OrderFlow : Told(approval, a)
    BY <1>7 DEF Outstanding, Pending, Notified, Told
  <2> HIDE DEF r, i
  <2>4. StorePart'
    BY <1>2, <1>3, <2>1, <2>2, <2>3, BegunKept, StepQuiet DEF i
  <2>5. ~ Undecided(r, j)
    BY <2>1, <2>2 DEF Undecided
  <2> QED BY <1>6, <2>4, <2>5 DEF KeepsUndecided
<1>8. CASE Outstanding(i.id) = {}
  <2>1. r = [i EXCEPT !.pc = "find_contact"]
    BY <1>8
  <2> HIDE DEF r, i
  <2>2. /\ r \in CallRows /\ r.pc = "find_contact" /\ r.id = i.id /\ r.held = i.held
        /\ r.then = i.then /\ r.otherwise = i.otherwise
    BY <1>1, <2>1 DEF CallRows, Pcs
  <2>3. CallGood(r, approval)
    BY <1>5, <2>2 DEF CallGood
  <2>4. Stepping(r.pc) /\ Stepping(i.pc)
    BY <1>2, <2>2 DEF Stepping, Pcs
  <2>5. ChatGood(r, j)
    BY <1>1, <2>2, <2>4, StepTo
  <2>6. Obliged(i, approval) => Obliged(r, approval)
    BY <1>2, <2>2 DEF Obliged
  <2>7. StorePart'
    BY <1>2, <1>3, <2>2, <2>3, <2>5, <2>6, BegunKept, StepQuiet DEF i
  <2>8. ~ Undecided(r, j)
    BY <2>2 DEF Undecided
  <2> QED BY <1>6, <2>7, <2>8 DEF KeepsUndecided
<1> QED BY <1>7, <1>8

LEMMA FindContactKeeps ==
  ASSUME OwnerInv, NEW c \in Calls, FindContact(c), chat' = chat, UNCHANGED begun
  PROVE  /\ StorePart' /\ KeepsUndecided(call[c], call'[c], chat[c])
         /\ \A d \in Calls \ {c} : call'[d] = call[d]
<1> DEFINE i == call[c]  j == chat[c]
<1>1. /\ i \in CallRows /\ ChatGood(i, j) /\ CallGood(i, approval) /\ CallsTyped
      /\ StoreTyped
  BY StepHolds
<1>2. /\ i.pc = "find_contact" /\ Stepping(i.pc)
      /\ approval' = approval /\ UNCHANGED <<clock, expired, contact, dispatched, redecided>>
      /\ missed' = (missed \/ ~ contact)
      /\ Continue(c, IF contact THEN "send" ELSE i.then)
  BY DEF FindContact, At, world, Stepping, Pcs
<1>3. missed' \in BOOLEAN /\ (~ missed' => ~ missed)
  BY <1>1, <1>2 DEF StoreTyped
<1>4. CASE contact
  <2> DEFINE r == [i EXCEPT !.pc = "send"]
  <2>1. call' = [call EXCEPT ![c] = r]
    BY <1>1, <1>2, <1>4 DEF Continue, CallsTyped
  <2>2. call'[c] = r /\ \A d \in Calls \ {c} : call'[d] = call[d]
    BY <1>1, <2>1 DEF CallsTyped
  <2> HIDE DEF i
  <2>3. /\ r \in CallRows /\ r.pc = "send" /\ r.id = i.id /\ r.held = i.held
        /\ r.then = i.then /\ r.otherwise = i.otherwise
    BY <1>1 DEF CallRows, Pcs
  <2> HIDE DEF r
  <2>4. CallGood(r, approval)
    BY <1>1, <1>2, <2>3 DEF CallGood
  <2>5. Stepping(r.pc)
    BY <2>3 DEF Stepping, Pcs
  <2>6. ChatGood(r, j)
    BY <1>1, <1>2, <2>3, <2>5, StepTo
  <2>7. Obliged(i, approval) => Obliged(r, approval)
    BY <1>2, <2>3 DEF Obliged
  <2>8. StorePart'
    BY <1>2, <1>3, <2>1, <2>3, <2>4, <2>6, <2>7, BegunKept, StepQuiet DEF i
  <2>9. ~ Undecided(r, j)
    BY <2>3 DEF Undecided
  <2> QED BY <2>2, <2>8, <2>9 DEF KeepsUndecided
<1>5. CASE ~ contact
  <2>1. Continue(c, i.then) /\ missed'
    BY <1>2, <1>5
  <2>2. i.then # "release"
    BY <1>1 DEF CallRows
  <2> QED BY <1>2, <1>3, <2>1, <2>2, StepContinues
<1> QED BY <1>4, <1>5

LEMMA SendApprovalKeeps ==
  ASSUME OwnerInv, NEW c \in Calls, SendApproval(c), chat' = chat, UNCHANGED begun
  PROVE  /\ StorePart' /\ KeepsUndecided(call[c], call'[c], chat[c])
         /\ \A d \in Calls \ {c} : call'[d] = call[d]
<1> DEFINE i == call[c]  j == chat[c]  v == approval[i.id]
           r == [i EXCEPT !.pc = "notified", !.held = v]
<1>1. /\ i \in CallRows /\ ChatGood(i, j) /\ CallGood(i, approval) /\ CallsTyped
      /\ StoreTyped
  BY StepHolds
<1>2. /\ i.pc = "send" /\ Stepping(i.pc)
      /\ approval' = approval /\ UNCHANGED <<clock, expired, contact, dispatched, redecided>>
      /\ missed' = missed /\ call' = [call EXCEPT ![c] = r]
  BY DEF SendApproval, At, world, Stepping, Pcs
<1>3. missed' \in BOOLEAN
  BY <1>1, <1>2 DEF StoreTyped
<1>4. call'[c] = r /\ \A d \in Calls \ {c} : call'[d] = call[d]
  BY <1>1, <1>2 DEF CallsTyped
<1> HIDE DEF i
<1>5. i.id \in OrderFlow /\ v # None /\ v \in Rows
  <2>1. i.id \in OrderFlow /\ v # None
    BY <1>1, <1>2 DEF CallGood
  <2> QED BY <1>1, <2>1, DecisionsAssumption DEF StoreTyped, DecisionsAssumption
<1>6. v = approval[i.id]
  OBVIOUS
<1> HIDE DEF v
<1>7. /\ r \in CallRows /\ r.pc = "notified" /\ r.id = i.id /\ r.held = v
      /\ r.then = i.then /\ r.otherwise = i.otherwise
  BY <1>1, <1>5 DEF CallRows, Pcs
<1> HIDE DEF r
<1>8. CallGood(r, approval)
  BY <1>5, <1>6, <1>7 DEF CallGood
<1>9. Stepping(r.pc)
  BY <1>7 DEF Stepping, Pcs
<1>10. ChatGood(r, j)
  BY <1>1, <1>2, <1>7, <1>9, StepTo
<1>11. Obliged(i, approval) => Obliged(r, approval)
  BY <1>2, <1>6, <1>7 DEF Obliged
<1>12. StorePart'
  BY <1>2, <1>3, <1>7, <1>8, <1>10, <1>11, BegunKept, StepQuiet DEF i
<1>13. ~ Undecided(r, j)
  BY <1>7 DEF Undecided
<1> QED BY <1>4, <1>12, <1>13 DEF KeepsUndecided

LEMMA ReadForResolveKeeps ==
  ASSUME OwnerInv, NEW c \in Calls, ReadForResolve(c), chat' = chat, UNCHANGED begun
  PROVE  /\ StorePart' /\ KeepsUndecided(call[c], call'[c], chat[c])
         /\ \A d \in Calls \ {c} : call'[d] = call[d]
<1> DEFINE i == call[c]  j == chat[c]  a == i.id  v == approval[a]
<1>1. /\ i \in CallRows /\ ChatGood(i, j) /\ CallGood(i, approval) /\ CallsTyped
      /\ StoreTyped
  BY StepHolds
<1>2. /\ i.pc = "read" /\ Stepping(i.pc)
      /\ approval' = approval /\ UNCHANGED <<clock, expired, contact, dispatched, redecided>>
      /\ missed' = missed
  BY DEF ReadForResolve, At, world, Stepping, Pcs
<1>3. missed' \in BOOLEAN /\ ~ Obliged(i, approval)
  BY <1>1, <1>2 DEF StoreTyped, Obliged
<1>4. CASE Pending(a)
  <2> DEFINE pc == IF a \in expired THEN "put_expired" ELSE "decide"
             r == [i EXCEPT !.held = v, !.pc = pc]
  <2>1. call' = [call EXCEPT ![c] = r]
    BY <1>4 DEF ReadForResolve
  <2>2. call'[c] = r /\ \A d \in Calls \ {c} : call'[d] = call[d]
    BY <1>1, <2>1 DEF CallsTyped
  <2>3. a \in Approvals /\ i.decision \in Judged
    BY <1>1, <1>2 DEF CallGood
  <2>4. v \in Rows /\ v # None
    BY <1>1, <1>4, <2>3 DEF Pending, StoreTyped
  <2>5. pc \in {"put_expired", "decide"}
    OBVIOUS
  <2>6. v = approval[i.id]
    OBVIOUS
  <2> HIDE DEF v, pc, i
  <2>7. /\ r \in CallRows /\ r.pc = pc /\ r.id = i.id /\ r.held = v
        /\ r.then = i.then /\ r.otherwise = i.otherwise /\ r.decision = i.decision
    BY <1>1, <2>4, <2>5 DEF CallRows, Pcs
  <2> HIDE DEF r
  <2>8. CallGood(r, approval)
    BY <2>3, <2>4, <2>5, <2>6, <2>7 DEF CallGood
  <2>9. Stepping(r.pc)
    BY <2>5, <2>7 DEF Stepping, Pcs
  <2>10. ChatGood(r, j)
    BY <1>1, <1>2, <2>5, <2>7, <2>9, StepTo
  <2>11. StorePart'
    BY <1>2, <1>3, <2>1, <2>5, <2>7, <2>8, <2>10, BegunKept, StepQuiet DEF i
  <2>12. Undecided(i, j) /\ i.pc # "decide"
    BY <1>2 DEF Undecided
  <2>13. KeepsUndecided(i, r, j)
    BY <2>12 DEF KeepsUndecided
  <2> QED BY <2>2, <2>11, <2>13 DEF i
<1>5. CASE ~ Pending(a)
  <2>1. Continue(c, i.then)
    BY <1>5 DEF ReadForResolve
  <2>2. i.then # "release"
    BY <1>1 DEF CallRows
  <2> QED BY <1>2, <1>3, <2>1, <2>2, StepContinues
<1> QED BY <1>4, <1>5

LEMMA DispatchRaisesKeeps ==
  ASSUME OwnerInv, NEW c \in Calls, DispatchRaises(c), chat' = chat, UNCHANGED begun
  PROVE  /\ StorePart' /\ KeepsUndecided(call[c], call'[c], chat[c])
         /\ \A d \in Calls \ {c} : call'[d] = call[d]
<1>1. /\ call[c].pc = "dispatch" /\ Stepping(call[c].pc)
      /\ approval' = approval /\ UNCHANGED <<clock, expired, contact, dispatched, redecided>>
      /\ missed' = TRUE /\ Continue(c, call[c].otherwise)
  BY DEF DispatchRaises, At, world, Stepping, Pcs
<1>2. missed' \in BOOLEAN /\ (~ missed' => ~ missed)
  BY <1>1
<1> QED BY <1>1, <1>2, StepContinues

LEMMA ListPendingKeeps ==
  ASSUME OwnerInv, NEW c \in Calls, ListPending(c), chat' = chat, UNCHANGED begun
  PROVE  /\ StorePart' /\ KeepsUndecided(call[c], call'[c], chat[c])
         /\ \A d \in Calls \ {c} : call'[d] = call[d]
<1> DEFINE i == call[c]  j == chat[c]
<1>1. /\ i \in CallRows /\ ChatGood(i, j) /\ CallGood(i, approval) /\ CallsTyped
      /\ StoreTyped
  BY StepHolds
<1>2. /\ i.pc = "list_pending" /\ Stepping(i.pc)
      /\ approval' = approval /\ UNCHANGED <<clock, expired, contact, dispatched, redecided>>
      /\ missed' = missed
  BY DEF ListPending, At, world, Stepping, Pcs
<1>3. missed' \in BOOLEAN
  BY <1>1, <1>2 DEF StoreTyped
<1>4. CASE HeldBack = {}
  <2>1. Continue(c, i.then)
    BY <1>4 DEF ListPending
  <2>2. i.then # "release"
    BY <1>1 DEF CallRows
  <2>3. \A s \in Shortages : ~ Untold(approval, s)
    BY <1>4, DecisionsAssumption
       DEF HeldBack, Untold, Pending, Notified, DecisionsAssumption
  <2> QED BY <1>2, <1>3, <2>1, <2>2, <2>3, StepContinues
<1>5. CASE HeldBack # {}
  <2>1. PICK a \in HeldBack :
          call' = [call EXCEPT ![c].pc = "find_contact", ![c].id = a]
    BY <1>5 DEF ListPending
  <2> DEFINE r == [i EXCEPT !.pc = "find_contact", !.id = a]
  <2>2. call' = [call EXCEPT ![c] = r]
    BY <2>1
  <2>3. call'[c] = r /\ \A d \in Calls \ {c} : call'[d] = call[d]
    BY <1>1, <2>2 DEF CallsTyped
  <2>4. /\ a \in OrderFlow /\ a \in Approvals /\ approval[a] # None
        /\ approval[a].status = "pending"
    BY <2>1, DecisionsAssumption DEF HeldBack, Pending, DecisionsAssumption
  <2> HIDE DEF i
  <2>5. /\ r \in CallRows /\ r.pc = "find_contact" /\ r.id = a
        /\ r.then = i.then /\ r.otherwise = i.otherwise
    BY <1>1, <2>4 DEF CallRows, Pcs
  <2> HIDE DEF r
  <2>6. CallGood(r, approval)
    BY <2>4, <2>5 DEF CallGood
  <2>7. Stepping(r.pc)
    BY <2>5 DEF Stepping, Pcs
  <2>8. ChatGood(r, j)
    BY <1>1, <1>2, <2>5, <2>7, StepTo
  <2>9. Obliged(r, approval)
    BY <2>4, <2>5 DEF Obliged
  <2>10. i.pc # "dispatch" /\ r.pc # "dispatch" /\ r.pc # "put_shortage"
    BY <1>2, <2>5
  <2>11. StorePart'
    BY <1>2, <1>3, <2>2, <2>6, <2>8, <2>9, <2>10, BegunKept, StepQuiet DEF i
  <2>12. ~ Undecided(r, j)
    BY <2>5 DEF Undecided
  <2> QED BY <2>3, <2>11, <2>12 DEF KeepsUndecided
<1> QED BY <1>4, <1>5

\* A row is created: nobody is to dispatch it, and a shortage has its call.
LEMMA CreateKeeps ==
  ASSUME OwnerInv, NEW c \in Calls, NEW r, NEW a \in Approvals, approval[a] = None, Create(a),
         call' = [call EXCEPT ![c] = r], chat' = chat,
         UNCHANGED <<dispatched, redecided, missed>>, begun' \in 0..MaxBegun,
         CallGood(r, approval'), ChatGood(r, chat[c]), r.pc \notin {"put_shortage", "dispatch"},
         ~ Obliged(call[c], approval),
         \A d \in Calls \ {c} : call[d].pc = "put_shortage" => call[d].id # a,
         a \in Shortages => Obliged(r, approval')
  PROVE  StorePart'
<1> DEFINE v == Row(clock)
<1>1. StoreTyped /\ Ordered /\ CallsTyped /\ NobodyForgotten /\ DispatchOnce
  BY DEF OwnerInv
<1>2. clock \in Nat /\ approval \in [Approvals -> Rows \cup {None}] /\ None \notin Rows
  BY <1>1, DecisionsAssumption DEF StoreTyped, DecisionsAssumption
<1>3. v \in Rows /\ v.at = clock /\ v.status = "pending" /\ clock + 1 \in Nat
  BY <1>2 DEF Row, Rows, Statuses
<1>4. /\ approval' = [approval EXCEPT ![a] = v] /\ clock' = clock + 1
      /\ expired' = expired /\ contact' = contact /\ dispatched' = dispatched
      /\ redecided' = redecided /\ missed' = missed
  BY DEF Create
<1> HIDE DEF v
<1>5. /\ approval' \in [Approvals -> Rows \cup {None}] /\ approval'[a] = v /\ v # None
      /\ \A b \in Approvals \ {a} : approval'[b] = approval[b]
  BY <1>2, <1>3, <1>4
<1>6. StoreTyped'
  BY <1>1, <1>3, <1>4, <1>5 DEF StoreTyped
<1>7. Ordered'
  <2> SUFFICES ASSUME NEW b \in Approvals, NEW d \in Approvals, approval'[b] # None
      PROVE  /\ approval'[b].at < clock'
             /\ approval'[d] # None /\ approval'[b].at = approval'[d].at => b = d
    BY DEF Ordered
  <2>1. ASSUME NEW e \in Approvals, e # a, approval'[e] # None
        PROVE  approval'[e] = approval[e] /\ approval[e].at \in Nat /\ approval[e].at < clock
    <3>1. approval'[e] = approval[e] /\ approval[e] \in Rows
      BY <1>2, <1>5, <2>1
    <3>2. approval[e].at < clock
      BY <1>1, <2>1, <3>1 DEF Ordered
    <3> QED BY <3>1, <3>2 DEF Rows
  <2>2. approval'[b].at < clock'
    <3>1. CASE b = a
      BY <1>2, <1>3, <1>4, <1>5, <3>1
    <3>2. CASE b # a
      BY <1>2, <1>4, <2>1, <3>2
    <3> QED BY <3>1, <3>2
  <2>3. ASSUME approval'[d] # None, approval'[b].at = approval'[d].at PROVE b = d
    <3>1. CASE b = a /\ d # a
      BY <1>2, <1>3, <1>5, <2>1, <2>3, <3>1
    <3>2. CASE b # a /\ d = a
      BY <1>2, <1>3, <1>5, <2>1, <2>3, <3>2
    <3>3. CASE b # a /\ d # a
      <4>1. approval'[b] = approval[b] /\ approval'[d] = approval[d]
        BY <1>5, <3>3
      <4> QED BY <1>1, <2>3, <4>1 DEF Ordered
    <3> QED BY <3>1, <3>2, <3>3
  <2> QED BY <2>2, <2>3
<1>8. CallsTyped'
  <2>1. RowsKept(approval')
    BY <1>5 DEF RowsKept
  <2>2. \A d \in Calls \ {c} : call[d].pc = "put_shortage" => approval'[call[d].id] = None
    <3> SUFFICES ASSUME NEW d \in Calls \ {c}, call[d].pc = "put_shortage"
        PROVE  approval'[call[d].id] = None
      OBVIOUS
    <3>1. call[d].id \in Shortages /\ approval[call[d].id] = None
      BY <1>1 DEF CallsTyped, CallGood
    <3>2. call[d].id \in Approvals /\ call[d].id # a
      BY <3>1, DecisionsAssumption DEF DecisionsAssumption
    <3> QED BY <1>5, <3>1, <3>2
  <2>3. \A d \in Calls \ {c} : CallGood(call[d], approval')
    BY <1>1, <2>1, <2>2, OthersGood
  <2>4. chat' = [chat EXCEPT ![c] = chat[c]] /\ r.pc # "put_shortage"
    BY <1>1 DEF CallsTyped
  <2> QED BY <1>1, <2>3, <2>4, CallsMoved
<1>9. call'[c] = r /\ \A d \in Calls \ {c} : call'[d] = call[d]
  BY <1>1 DEF CallsTyped
<1>10. Shortages \subseteq OrderFlow /\ OrderFlow \subseteq Approvals
  BY DecisionsAssumption DEF DecisionsAssumption
<1>11. ASSUME ~ missed, NEW s \in Shortages, Untold(approval', s)
       PROVE  \/ \E b \in OrderFlow : Told(approval', b)
              \/ \E d \in Calls : Obliged(call'[d], approval')
  <2>1. CASE s = a
    BY <1>9, <2>1
  <2>2. CASE s # a
    <3>1. Untold(approval, s)
      BY <1>5, <1>10, <1>11, <2>2 DEF Untold
    <3>2. CASE \E b \in OrderFlow : Told(approval, b)
      <4>1. PICK b \in OrderFlow : Told(approval, b)
        BY <3>2
      <4>2. b # a
        BY <4>1 DEF Told
      <4>3. Told(approval', b)
        BY <1>5, <1>10, <4>1, <4>2 DEF Told
      <4> QED BY <4>3
    <3>3. CASE \E d \in Calls : Obliged(call[d], approval)
      <4>1. PICK d \in Calls : Obliged(call[d], approval)
        BY <3>3
      <4>2. d # c
        BY <4>1
      <4> DEFINE i == call[d]
      <4>3. CallGood(i, approval) /\ Obliged(i, approval)
        BY <1>1, <4>1 DEF CallsTyped
      <4> HIDE DEF i
      <4>4. i.pc \in {"list_outstanding", "find_contact", "send"} =>
              i.id \in Approvals /\ approval[i.id] # None
        BY <1>10, <4>3 DEF CallGood
      <4>5. i.pc \in {"list_outstanding", "find_contact", "send"} =>
              approval'[i.id] = approval[i.id]
        BY <1>5, <4>4
      <4>6. Obliged(i, approval')
        BY <4>3, <4>5 DEF Obliged
      <4> QED BY <1>9, <4>2, <4>6 DEF i
    <3> QED BY <1>1, <1>11, <3>1, <3>2, <3>3 DEF NobodyForgotten
  <2> QED BY <2>1, <2>2
<1>12. DispatchOnce'
  <2>1. call[c].pc # "dispatch"
    BY DEF Obliged
  <2>2. ASSUME NEW d \in Calls, NEW b
        PROVE  Dispatching(call'[d], b) <=> Dispatching(call[d], b)
    BY <1>9, <2>1 DEF Dispatching
  <2>3. \A b \in Approvals :
          approval'[b] # None /\ approval'[b].status = "approved" <=>
          approval[b] # None /\ approval[b].status = "approved"
    BY <1>3, <1>5
  <2> SUFFICES ASSUME ~ missed, NEW b \in Approvals \ redecided
      PROVE  IF approval'[b] # None /\ approval'[b].status = "approved"
             THEN \/ dispatched[b] = 1 /\ \A e \in Calls : ~ Dispatching(call'[e], b)
                  \/ dispatched[b] = 0 /\
                       \E e \in Calls : \A d \in Calls : Dispatching(call'[d], b) <=> d = e
             ELSE dispatched[b] = 0 /\ \A e \in Calls : ~ Dispatching(call'[e], b)
    BY <1>4 DEF DispatchOnce
  <2>4. IF approval[b] # None /\ approval[b].status = "approved"
        THEN \/ dispatched[b] = 1 /\ \A e \in Calls : ~ Dispatching(call[e], b)
             \/ dispatched[b] = 0 /\
                  \E e \in Calls : \A d \in Calls : Dispatching(call[d], b) <=> d = e
        ELSE dispatched[b] = 0 /\ \A e \in Calls : ~ Dispatching(call[e], b)
    BY <1>1 DEF DispatchOnce
  <2> QED BY <2>2, <2>3, <2>4
<1>13. missed' = missed
  BY <1>4
<1>14. NobodyForgotten'
  BY <1>11, <1>13 DEF NobodyForgotten
<1> QED BY <1>6, <1>7, <1>8, <1>12, <1>14 DEF StorePart

LEMMA PutShortageKeeps ==
  ASSUME OwnerInv, NEW c \in Calls, PutShortage(c), chat' = chat, UNCHANGED begun
  PROVE  /\ StorePart' /\ KeepsUndecided(call[c], call'[c], chat[c])
         /\ \A d \in Calls \ {c} : call'[d] = call[d]
<1> DEFINE i == call[c]  j == chat[c]  a == i.id
           r == [i EXCEPT !.pc = "list_outstanding"]
<1>1. /\ i \in CallRows /\ ChatGood(i, j) /\ CallGood(i, approval) /\ CallsTyped
      /\ StoreTyped
  BY StepHolds
<1>2. /\ i.pc = "put_shortage" /\ Stepping(i.pc) /\ Create(a)
      /\ call' = [call EXCEPT ![c] = r] /\ UNCHANGED <<dispatched, redecided, missed>>
  BY DEF PutShortage, At, Goto, Stepping, Pcs
<1>3. call'[c] = r /\ \A d \in Calls \ {c} : call'[d] = call[d]
  BY <1>1, <1>2 DEF CallsTyped
<1>4. a \in Shortages /\ a \in Approvals /\ approval[a] = None
  BY <1>1, <1>2, DecisionsAssumption DEF CallGood, DecisionsAssumption
<1>5. \A d \in Calls \ {c} : call[d].pc = "put_shortage" => call[d].id # a
  BY <1>1, <1>2 DEF CallsTyped
<1>6. approval'[a] = Row(clock) /\ Row(clock) # None /\ Row(clock).status = "pending"
  <2>1. Row(clock) \in Rows
    BY <1>1 DEF Row, Rows, Statuses, StoreTyped
  <2>2. Row(clock) # None
    BY <2>1, DecisionsAssumption DEF DecisionsAssumption
  <2>3. approval'[a] = Row(clock)
    BY <1>1, <1>2, <1>4 DEF Create, StoreTyped
  <2> QED BY <2>2, <2>3 DEF Row
<1>7. ~ Obliged(call[c], approval)
  BY <1>2 DEF Obliged
<1>8. j.msg = None
  BY <1>1, <1>2 DEF ChatGood
<1> HIDE DEF i
<1>9. /\ r \in CallRows /\ r.pc = "list_outstanding" /\ r.id = a
      /\ r.then = i.then /\ r.otherwise = i.otherwise
  BY <1>1 DEF CallRows, Pcs
<1> HIDE DEF r
<1>10. CallGood(r, approval')
  BY <1>4, <1>6, <1>9 DEF CallGood
<1>11. Stepping(r.pc)
  BY <1>9 DEF Stepping, Pcs
<1>12. ChatGood(r, j)
  BY <1>1, <1>2, <1>8, <1>9, <1>11, StepTo
<1>13. Obliged(r, approval')
  BY <1>6, <1>9 DEF Obliged
<1>14. StorePart'
  BY <1>2, <1>4, <1>5, <1>7, <1>9, <1>10, <1>12, <1>13, BegunKept, CreateKeeps
<1>15. ~ Undecided(r, j)
  BY <1>9 DEF Undecided
<1> QED BY <1>3, <1>14, <1>15 DEF KeepsUndecided

\* The row is put as it was read, with notifications_sent.
LEMMA PutNotifiedKeeps ==
  ASSUME OwnerInv, NEW c \in Calls, PutNotified(c), chat' = chat, UNCHANGED begun
  PROVE  /\ StorePart' /\ KeepsUndecided(call[c], call'[c], chat[c])
         /\ \A d \in Calls \ {c} : call'[d] = call[d]
<1> DEFINE i == call[c]  j == chat[c]  a == i.id  w == i.held
           v == [w EXCEPT !.notified = TRUE]
           r == IF i.then = "idle" THEN Idle ELSE [i EXCEPT !.pc = i.then]
<1>1. /\ i \in CallRows /\ ChatGood(i, j) /\ CallGood(i, approval) /\ CallsTyped
      /\ StoreTyped /\ Ordered /\ NobodyForgotten /\ DispatchOnce
  BY StepHolds
<1>2. /\ i.pc = "notified" /\ Stepping(i.pc)
      /\ approval' = [approval EXCEPT ![a] = v]
      /\ missed' = (missed \/ approval[a].status # w.status)
      /\ clock' = clock /\ UNCHANGED <<expired, contact, dispatched, redecided>>
  BY DEF PutNotified, At, world, Stepping, Pcs
<1>3. call' = [call EXCEPT ![c] = r]
  BY <1>1 DEF PutNotified, Continue, CallsTyped
<1>4. CallGood(r, approval') /\ ChatGood(r, j) /\ r.pc = i.then
  BY <1>1, <1>2, ContinueTo
<1>5. r.pc \in {"idle", "resolved", "advance"}
  BY <1>1, <1>4 DEF CallRows
<1>6. call'[c] = r /\ \A d \in Calls \ {c} : call'[d] = call[d]
  BY <1>1, <1>3 DEF CallsTyped
<1>7. a \in OrderFlow /\ a \in Approvals /\ approval[a] # None /\ w \in Rows /\ w.at = approval[a].at
  BY <1>1, <1>2, DecisionsAssumption DEF CallGood, DecisionsAssumption
<1> HIDE DEF r
<1>8. v \in Rows /\ v.at = approval[a].at /\ v.notified = TRUE /\ v.status = w.status
  <2> HIDE DEF w
  <2> QED BY <1>7 DEF Rows
<1>9. Obliged(i, approval) => w.status = "pending"
  BY <1>2 DEF Obliged
<1>10. call[c].pc # "dispatch"
  BY <1>2
<1> HIDE DEF i, v, w, a
<1>11. RowsKept(approval') /\ Ordered'
  BY <1>1, <1>2, <1>7, <1>8, RowPut
<1>12. CallsTyped'
  <2>1. \A d \in Calls \ {c} : CallGood(call[d], approval')
    BY <1>1, <1>2, <1>7, <1>8, <1>11, OthersGoodPut
  <2>2. chat' = [chat EXCEPT ![c] = chat[c]] /\ r.pc # "put_shortage"
    BY <1>1, <1>5 DEF CallsTyped
  <2> QED BY <1>1, <1>3, <1>4, <2>1, <2>2, CallsMoved
<1>13. StoreTyped'
  <2>1. missed' \in BOOLEAN
    BY <1>1, <1>2 DEF StoreTyped
  <2> QED BY <1>1, <1>2, <1>11, <2>1, BegunKept DEF StoreTyped, RowsKept
<1>14. NobodyForgotten' /\ DispatchOnce'
  <2>1. CASE missed'
    BY <2>1 DEF NobodyForgotten, DispatchOnce
  <2>2. CASE ~ missed'
    <3>1. ~ missed /\ v.status = approval[a].status
      BY <1>2, <1>8, <2>2
    <3>2. Obliged(call[c], approval) => \E b \in OrderFlow : Told(approval', b)
      <4> SUFFICES ASSUME Obliged(call[c], approval) PROVE Told(approval', a)
        BY <1>7
      <4>1. w.status = "pending"
        BY <1>9 DEF i
      <4>2. approval'[a] = v /\ v # None
        BY <1>1, <1>2, <1>7, <1>8, DecisionsAssumption DEF StoreTyped, DecisionsAssumption
      <4> QED BY <1>8, <4>1, <4>2 DEF Told
    <3>3. NobodyForgotten'
      BY <1>1, <1>2, <1>3, <1>7, <1>8, <3>1, <3>2, NobodyPut
    <3>4. dispatched' = dispatched /\ redecided' = redecided /\ r.pc # "dispatch"
      BY <1>2, <1>5
    <3>5. DispatchOnce'
      BY <1>1, <1>2, <1>3, <1>7, <1>8, <1>10, <3>1, <3>4, DispatchPut
    <3> QED BY <3>3, <3>5
  <2> QED BY <2>1, <2>2
<1>15. ~ Undecided(r, j)
  BY <1>5 DEF Undecided
<1> QED BY <1>6, <1>11, <1>12, <1>13, <1>14, <1>15 DEF StorePart, KeepsUndecided

LEMMA PutExpiredKeeps ==
  ASSUME OwnerInv, NEW c \in Calls, PutExpired(c), chat' = chat, UNCHANGED begun
  PROVE  /\ StorePart' /\ KeepsUndecided(call[c], call'[c], chat[c])
         /\ \A d \in Calls \ {c} : call'[d] = call[d]
<1> DEFINE i == call[c]  j == chat[c]  a == i.id  w == i.held
           v == [w EXCEPT !.status = "expired"]
           r == IF i.otherwise = "idle" THEN Idle ELSE [i EXCEPT !.pc = i.otherwise]
<1>1. /\ i \in CallRows /\ ChatGood(i, j) /\ CallGood(i, approval) /\ CallsTyped
      /\ StoreTyped /\ Ordered
  BY StepHolds
<1>2. /\ i.pc = "put_expired" /\ Stepping(i.pc)
      /\ approval' = [approval EXCEPT ![a] = v] /\ missed' = TRUE
      /\ clock' = clock /\ UNCHANGED <<expired, contact, dispatched, redecided>>
  BY DEF PutExpired, At, world, Stepping, Pcs
<1>3. call' = [call EXCEPT ![c] = r]
  BY <1>1 DEF PutExpired, Continue, CallsTyped
<1>4. CallGood(r, approval') /\ ChatGood(r, j) /\ r.pc = i.otherwise
  BY <1>1, <1>2, ContinueTo
<1>5. r.pc \in {"idle", "release"}
  BY <1>1, <1>4 DEF CallRows
<1>6. call'[c] = r /\ \A d \in Calls \ {c} : call'[d] = call[d]
  BY <1>1, <1>3 DEF CallsTyped
<1>7. a \in Approvals /\ approval[a] # None /\ w \in Rows /\ w.at = approval[a].at
  BY <1>1, <1>2 DEF CallGood
<1> HIDE DEF r
<1>8. v \in Rows /\ v.at = approval[a].at
  <2> HIDE DEF w
  <2> QED BY <1>7 DEF Rows, Statuses
<1> HIDE DEF v, w, a
<1>9. RowsKept(approval') /\ Ordered'
  BY <1>1, <1>2, <1>7, <1>8, RowPut
<1>10. CallsTyped'
  <2>1. \A d \in Calls \ {c} : CallGood(call[d], approval')
    BY <1>1, <1>2, <1>7, <1>8, <1>9, OthersGoodPut
  <2>2. chat' = [chat EXCEPT ![c] = chat[c]] /\ r.pc # "put_shortage"
    BY <1>1, <1>5 DEF CallsTyped
  <2> QED BY <1>1, <1>3, <1>4, <2>1, <2>2, CallsMoved
<1>11. StoreTyped'
  BY <1>1, <1>2, <1>9, BegunKept DEF StoreTyped, RowsKept
<1>12. NobodyForgotten' /\ DispatchOnce'
  BY <1>2 DEF NobodyForgotten, DispatchOnce
<1>13. KeepsUndecided(i, r, j)
  BY <1>2 DEF Undecided, KeepsUndecided
<1> QED BY <1>6, <1>9, <1>10, <1>11, <1>12, <1>13 DEF StorePart

\* A decision: the only pending row that leaves is the one decided, once.
LEMMA PutDecisionKeeps ==
  ASSUME OwnerInv, NEW c \in Calls, PutDecision(c), chat' = chat, UNCHANGED begun
  PROVE  /\ StorePart' /\ KeepsUndecided(call[c], call'[c], chat[c])
         /\ \A d \in Calls \ {c} : call'[d] = call[d]
<1> DEFINE i == call[c]  j == chat[c]  a == i.id  w == i.held
           v == [w EXCEPT !.status = i.decision]
           pc == IF i.decision = "approved" THEN "dispatch" ELSE "list_pending"
           r == [i EXCEPT !.pc = pc]
<1>1. /\ i \in CallRows /\ ChatGood(i, j) /\ CallGood(i, approval) /\ CallsTyped
      /\ StoreTyped /\ Ordered /\ DispatchOnce
  BY StepHolds
<1>2. /\ i.pc = "decide" /\ Stepping(i.pc)
      /\ approval' = [approval EXCEPT ![a] = v] /\ missed' = missed
      /\ call' = [call EXCEPT ![c] = r]
      /\ clock' = clock /\ UNCHANGED <<expired, contact, dispatched>>
  BY DEF PutDecision, At, Goto, world, Stepping, Pcs
<1>3. redecided' = IF Pending(a) THEN redecided ELSE redecided \cup {a}
  BY DEF PutDecision
<1>4. call'[c] = r /\ \A d \in Calls \ {c} : call'[d] = call[d]
  BY <1>1, <1>2 DEF CallsTyped
<1>5. /\ a \in Approvals /\ approval[a] # None /\ w \in Rows /\ w.at = approval[a].at
      /\ i.decision \in Judged
  BY <1>1, <1>2 DEF CallGood
<1>6. v \in Rows /\ v.at = approval[a].at /\ v.status = i.decision
  <2> HIDE DEF w
  <2>1. i.decision \in Statuses
    BY <1>5 DEF Judged, Statuses
  <2> QED BY <1>5, <2>1 DEF Rows
<1>7. pc \in {"dispatch", "list_pending"} /\ (pc = "dispatch" <=> i.decision = "approved")
  OBVIOUS
<1>8. a = i.id
  OBVIOUS
<1> HIDE DEF i, w, pc
<1>9. /\ r \in CallRows /\ r.pc = pc /\ r.id = i.id /\ r.decision = i.decision
      /\ r.then = i.then /\ r.otherwise = i.otherwise
  BY <1>1, <1>7 DEF CallRows, Pcs
<1> HIDE DEF r, v, a
<1>10. CallGood(r, approval')
  BY <1>5, <1>7, <1>8, <1>9 DEF CallGood
<1>11. Stepping(r.pc)
  BY <1>7, <1>9 DEF Stepping, Pcs
<1>12. ChatGood(r, j)
  BY <1>1, <1>2, <1>7, <1>9, <1>11, StepTo
<1>13. RowsKept(approval') /\ Ordered'
  BY <1>1, <1>2, <1>5, <1>6, RowPut
<1>14. CallsTyped'
  <2>1. \A d \in Calls \ {c} : CallGood(call[d], approval')
    BY <1>1, <1>2, <1>5, <1>6, <1>13, OthersGoodPut
  <2>2. chat' = [chat EXCEPT ![c] = chat[c]] /\ r.pc # "put_shortage"
    BY <1>1, <1>7, <1>9 DEF CallsTyped
  <2> QED BY <1>1, <1>2, <1>10, <1>12, <2>1, <2>2, CallsMoved
<1>15. StoreTyped'
  <2>1. redecided' \subseteq Approvals
    BY <1>1, <1>3, <1>5 DEF StoreTyped
  <2> QED BY <1>1, <1>2, <1>13, <2>1, BegunKept DEF StoreTyped, RowsKept
<1>16. NobodyForgotten'
  <2>1. Obliged(call'[c], approval')
    BY <1>4, <1>7, <1>9 DEF Obliged
  <2> QED BY <2>1 DEF NobodyForgotten
<1>17. \A b \in Approvals \ {a} : approval'[b] = approval[b]
  BY <1>1, <1>2 DEF StoreTyped
<1>18. approval'[a] = v /\ v # None
  BY <1>1, <1>2, <1>5, <1>6, DecisionsAssumption DEF StoreTyped, DecisionsAssumption
<1>19. dispatched' = dispatched
  BY <1>2
<1>20. ASSUME ~ missed, NEW b \in Approvals \ redecided'
       PROVE  IF approval'[b] # None /\ approval'[b].status = "approved"
              THEN \/ dispatched[b] = 1 /\ \A e \in Calls : ~ Dispatching(call'[e], b)
                   \/ dispatched[b] = 0 /\
                        \E e \in Calls : \A d \in Calls : Dispatching(call'[d], b) <=> d = e
              ELSE dispatched[b] = 0 /\ \A e \in Calls : ~ Dispatching(call'[e], b)
  <2>1. b \in Approvals \ redecided /\ (b = a => Pending(a))
    BY <1>3, <1>20
  <2>2. IF approval[b] # None /\ approval[b].status = "approved"
        THEN \/ dispatched[b] = 1 /\ \A e \in Calls : ~ Dispatching(call[e], b)
             \/ dispatched[b] = 0 /\
                  \E e \in Calls : \A d \in Calls : Dispatching(call[d], b) <=> d = e
        ELSE dispatched[b] = 0 /\ \A e \in Calls : ~ Dispatching(call[e], b)
    BY <1>1, <1>20, <2>1 DEF DispatchOnce
  <2>3. ~ Dispatching(call[c], b)
    BY <1>2 DEF Dispatching, i
  <2>4. \A d \in Calls \ {c} : Dispatching(call'[d], b) <=> Dispatching(call[d], b)
    BY <1>4
  <2>5. CASE b # a
    <3>1. ~ Dispatching(call'[c], b)
      BY <1>4, <1>8, <1>9, <2>5 DEF Dispatching
    <3>2. \A d \in Calls : Dispatching(call'[d], b) <=> Dispatching(call[d], b)
      BY <2>3, <2>4, <3>1
    <3>3. approval'[b] = approval[b]
      BY <1>17, <2>1, <2>5
    <3> QED BY <2>2, <3>2, <3>3
  <2>6. CASE b = a
    <3>1. dispatched[b] = 0 /\ \A e \in Calls : ~ Dispatching(call[e], b)
      BY <2>1, <2>2, <2>6 DEF Pending
    <3>2. approval'[b] # None /\ (approval'[b].status = "approved" <=> i.decision = "approved")
      BY <1>6, <1>18, <2>6
    <3>3. Dispatching(call'[c], b) <=> i.decision = "approved"
      BY <1>4, <1>7, <1>8, <1>9, <2>6 DEF Dispatching
    <3>4. \A d \in Calls \ {c} : ~ Dispatching(call'[d], b)
      BY <2>4, <3>1
    <3>5. CASE i.decision = "approved"
      <4>1. \A d \in Calls : Dispatching(call'[d], b) <=> d = c
        BY <3>3, <3>4, <3>5
      <4> QED BY <3>1, <3>2, <3>5, <4>1
    <3>6. CASE i.decision # "approved"
      BY <3>1, <3>2, <3>3, <3>4, <3>6
    <3> QED BY <3>5, <3>6
  <2> QED BY <2>5, <2>6
<1>21. missed' = missed
  BY <1>2
<1>22. DispatchOnce'
  BY <1>19, <1>20, <1>21 DEF DispatchOnce
<1>23. ~ Undecided(r, j)
  BY <1>7, <1>9 DEF Undecided
<1> QED BY <1>4, <1>13, <1>14, <1>15, <1>16, <1>22, <1>23 DEF StorePart, KeepsUndecided

LEMMA DispatchKeeps ==
  ASSUME OwnerInv, NEW c \in Calls, Dispatch(c), chat' = chat, UNCHANGED begun
  PROVE  /\ StorePart' /\ KeepsUndecided(call[c], call'[c], chat[c])
         /\ \A d \in Calls \ {c} : call'[d] = call[d]
<1> DEFINE i == call[c]  j == chat[c]  a == i.id
           r == [i EXCEPT !.pc = "list_pending"]
<1>1. /\ i \in CallRows /\ ChatGood(i, j) /\ CallGood(i, approval) /\ CallsTyped
      /\ StoreTyped /\ Ordered /\ DispatchOnce
  BY StepHolds
<1>2. /\ i.pc = "dispatch" /\ Stepping(i.pc)
      /\ dispatched' = [dispatched EXCEPT ![a] = dispatched[a] + 1]
      /\ call' = [call EXCEPT ![c] = r] /\ approval' = approval /\ clock' = clock
      /\ UNCHANGED <<expired, contact, redecided>> /\ missed' = missed
  BY DEF Dispatch, At, Goto, world, Stepping, Pcs
<1>3. call'[c] = r /\ \A d \in Calls \ {c} : call'[d] = call[d]
  BY <1>1, <1>2 DEF CallsTyped
<1>4. a \in Approvals
  BY <1>1, <1>2 DEF CallGood
<1> HIDE DEF i
<1>5. /\ r \in CallRows /\ r.pc = "list_pending" /\ r.id = i.id
      /\ r.then = i.then /\ r.otherwise = i.otherwise
  BY <1>1 DEF CallRows, Pcs
<1> HIDE DEF r
<1>6. CallGood(r, approval')
  BY <1>5 DEF CallGood
<1>7. Stepping(r.pc)
  BY <1>5 DEF Stepping, Pcs
<1>8. ChatGood(r, j)
  BY <1>1, <1>2, <1>5, <1>7, StepTo
<1>9. CallsTyped'
  <2>1. \A d \in Calls \ {c} : CallGood(call[d], approval')
    BY <1>1, <1>2 DEF CallsTyped
  <2>2. chat' = [chat EXCEPT ![c] = chat[c]] /\ r.pc # "put_shortage"
    BY <1>1, <1>5 DEF CallsTyped
  <2> QED BY <1>1, <1>2, <1>6, <1>8, <2>1, <2>2, CallsMoved
<1>10. dispatched \in [Approvals -> Nat] /\ dispatched[a] \in Nat /\ dispatched[a] + 1 \in Nat
  BY <1>1, <1>4 DEF StoreTyped
<1>11. dispatched' \in [Approvals -> Nat] /\ dispatched'[a] = dispatched[a] + 1
       /\ \A b \in Approvals \ {a} : dispatched'[b] = dispatched[b]
  BY <1>2, <1>4, <1>10
<1>12. StoreTyped' /\ Ordered'
  BY <1>1, <1>2, <1>11, BegunKept DEF StoreTyped, Ordered
<1>13. NobodyForgotten'
  <2>1. Obliged(call'[c], approval')
    BY <1>3, <1>5 DEF Obliged
  <2> QED BY <2>1 DEF NobodyForgotten
<1>14. ASSUME ~ missed, NEW b \in Approvals \ redecided
       PROVE  IF approval[b] # None /\ approval[b].status = "approved"
              THEN \/ dispatched'[b] = 1 /\ \A e \in Calls : ~ Dispatching(call'[e], b)
                   \/ dispatched'[b] = 0 /\
                        \E e \in Calls : \A d \in Calls : Dispatching(call'[d], b) <=> d = e
              ELSE dispatched'[b] = 0 /\ \A e \in Calls : ~ Dispatching(call'[e], b)
  <2>1. IF approval[b] # None /\ approval[b].status = "approved"
        THEN \/ dispatched[b] = 1 /\ \A e \in Calls : ~ Dispatching(call[e], b)
             \/ dispatched[b] = 0 /\
                  \E e \in Calls : \A d \in Calls : Dispatching(call[d], b) <=> d = e
        ELSE dispatched[b] = 0 /\ \A e \in Calls : ~ Dispatching(call[e], b)
    BY <1>1, <1>14 DEF DispatchOnce
  <2>2. \A d \in Calls \ {c} : Dispatching(call'[d], b) <=> Dispatching(call[d], b)
    BY <1>3
  <2>3. ~ Dispatching(call'[c], b) /\ (Dispatching(call[c], b) <=> a = b)
    BY <1>2, <1>3, <1>5 DEF Dispatching, i
  <2>4. CASE b = a
    <3>1. approval[b] # None /\ approval[b].status = "approved" /\ dispatched[b] = 0
      BY <2>1, <2>3, <2>4
    <3>2. PICK e \in Calls : \A d \in Calls : Dispatching(call[d], b) <=> d = e
      BY <2>1, <2>3, <2>4
    <3>3. e = c
      BY <2>3, <2>4, <3>2
    <3>4. \A d \in Calls : ~ Dispatching(call'[d], b)
      BY <2>2, <2>3, <3>2, <3>3
    <3>5. dispatched'[b] = 1
      BY <1>11, <2>4, <3>1
    <3> QED BY <3>1, <3>4, <3>5
  <2>5. CASE b # a
    <3>1. \A d \in Calls : Dispatching(call'[d], b) <=> Dispatching(call[d], b)
      BY <2>2, <2>3, <2>5
    <3>2. dispatched'[b] = dispatched[b]
      BY <1>11, <2>5
    <3> QED BY <2>1, <3>1, <3>2
  <2> QED BY <2>4, <2>5
<1>15. missed' = missed /\ approval' = approval /\ redecided' = redecided
  BY <1>2
<1>16. DispatchOnce'
  BY <1>14, <1>15 DEF DispatchOnce
<1>17. ~ Undecided(r, j)
  BY <1>5 DEF Undecided
<1> QED BY <1>3, <1>9, <1>12, <1>13, <1>16, <1>17 DEF StorePart, KeepsUndecided

-----------------------------------------------------------------------------
(* A step for a message.                                                   *)

LEMMA StepKeeps ==
  ASSUME OwnerInv, NEW c \in Calls, Step(c), chat' = chat, UNCHANGED begun
  PROVE  /\ StorePart' /\ KeepsUndecided(call[c], call'[c], chat[c])
         /\ \A d \in Calls \ {c} : call'[d] = call[d]
BY PutShortageKeeps, ListOutstandingKeeps, FindContactKeeps, SendApprovalKeeps,
   PutNotifiedKeeps, ReadForResolveKeeps, PutExpiredKeeps, PutDecisionKeeps,
   DispatchKeeps, DispatchRaisesKeeps, ListPendingKeeps DEF Step

LEMMA DecisionStepsKeep ==
  ASSUME OwnerInv, NEW c \in Calls, DecisionStep(c), UNCHANGED begun
  PROVE  OwnerInv'
<1> DEFINE i == call[c]  j == chat[c]  r == call'[c]
<1>1. /\ Step(c) /\ chat' = chat /\ conv' = conv /\ key' = key /\ text' = text /\ draft' = draft
      /\ decisions' = [m \in Messages |->
           decisions[m] + IF m = j.msg /\ i.pc = "decide" THEN 1 ELSE 0]
      /\ raised' = raised \cup
           {m \in Messages : m = j.msg /\ i.pc = "dispatch" /\ r.pc = "release"}
  BY DEF DecisionStep, At, talk
<1>2. /\ StorePart' /\ KeepsUndecided(i, r, j)
      /\ \A d \in Calls \ {c} : call'[d] = call[d]
  BY <1>1, StepKeeps
<1>3. TalkTyped /\ MessagesGood /\ CallsTyped
  BY DEF OwnerInv
<1> HIDE DEF i, r, j
<1>4. \A m \in Messages : decisions[m] \in Nat /\ decisions'[m] \in Nat
        /\ decisions'[m] = decisions[m] + IF m = j.msg /\ i.pc = "decide" THEN 1 ELSE 0
  <2>1. decisions \in [Messages -> Nat]
    BY <1>3 DEF TalkTyped
  <2> QED BY <1>1, <2>1
<1>5. decisions' \in [Messages -> Nat]
  BY <1>1, <1>4
<1>6. TalkTyped'
  BY <1>1, <1>3, <1>5 DEF TalkTyped
<1>7. ASSUME NEW m \in Messages \ raised'
      PROVE  /\ decisions'[m] <= 1
             /\ key'[m] = "free" => decisions'[m] = 0
             /\ \A d \in Calls : chat'[d].msg = m /\ Undecided(call'[d], chat'[d])
                  => decisions'[m] = 0
  <2>1. m \in Messages \ raised /\ m # None
    BY <1>1, <1>7, ConversationAssumption DEF ConversationAssumption
  <2>2. /\ decisions[m] <= 1
        /\ key[m] = "free" => decisions[m] = 0
        /\ \A d \in Calls : chat[d].msg = m /\ Undecided(call[d], chat[d]) => decisions[m] = 0
    BY <1>3, <2>1 DEF MessagesGood
  <2>3. CASE m # j.msg
    <3>1. decisions'[m] = decisions[m]
      BY <1>4, <2>1, <2>3
    <3>2. ASSUME NEW d \in Calls, chat'[d].msg = m, Undecided(call'[d], chat'[d])
          PROVE  decisions'[m] = 0
      <4>1. d # c /\ chat[d].msg = m
        BY <1>1, <2>3, <3>2 DEF j
      <4> QED BY <1>1, <1>2, <2>2, <3>1, <3>2, <4>1
    <3> QED BY <1>1, <2>2, <3>1, <3>2
  <2>4. CASE m = j.msg
    <3>1. key[m] = "reserved"
      BY <1>3, <2>1, <2>4 DEF MessagesGood, j
    <3>2. ASSUME i.pc = "decide" PROVE decisions[m] = 0
      <4>1. Undecided(i, j)
        BY <3>2 DEF Undecided
      <4> QED BY <2>2, <2>4, <4>1 DEF i, j
    <3>3. decisions'[m] <= 1
      BY <1>4, <2>1, <2>2, <2>4, <3>2
    <3>4. ASSUME NEW d \in Calls, chat'[d].msg = m, Undecided(call'[d], chat'[d])
          PROVE  decisions'[m] = 0
      <4>1. d = c
        BY <1>1, <1>3, <2>1, <2>4, <3>4 DEF MessagesGood, j
      <4>2. Undecided(r, j)
        BY <1>1, <3>4, <4>1 DEF r, j
      <4>3. ~ (i.pc = "dispatch" /\ r.pc = "release")
        BY <1>1, <1>7, <2>4
      <4>4. Undecided(i, j) /\ i.pc # "decide"
        BY <1>2, <4>2, <4>3 DEF KeepsUndecided
      <4>5. decisions[m] = 0
        BY <2>2, <2>4, <4>4 DEF i, j
      <4> QED BY <1>4, <2>1, <4>4, <4>5
    <3> QED BY <1>1, <3>1, <3>3, <3>4
  <2> QED BY <2>3, <2>4
<1>8. MessagesGood'
  <2>1. /\ \A d \in Calls : chat'[d].msg # None => key'[chat'[d].msg] = "reserved"
        /\ \A d, e \in Calls : chat'[d].msg # None /\ chat'[d].msg = chat'[e].msg => d = e
    BY <1>1, <1>3 DEF MessagesGood
  <2> QED BY <1>7, <2>1 DEF MessagesGood
<1> QED BY <1>2, <1>6, <1>8 DEF OwnerInv, StorePart

-----------------------------------------------------------------------------
(* What begins.                                                            *)

LEMMA BeginsKept ==
  ASSUME OwnerInv, begun < MaxBegun, begun' = begun + 1
  PROVE  begun' \in 0..MaxBegun
BY DecisionsAssumption DEF OwnerInv, StoreTyped, DecisionsAssumption

\* A call that starts holds no message.
LEMMA IdleHolds ==
  ASSUME OwnerInv, NEW c \in Calls, At(c, "idle")
  PROVE  /\ chat[c].msg = None /\ chat[c] \in ChatRows /\ call[c] \in CallRows
         /\ call[c].pc = "idle" /\ ~ Obliged(call[c], approval)
         /\ ChatGood(call[c], chat[c])
         /\ \A rws : CallGood(call[c], rws)
<1>1. call[c].pc = "idle" /\ call[c] \in CallRows /\ ChatGood(call[c], chat[c])
  BY StepHolds DEF At
<1>2. chat[c].msg = None /\ chat[c] \in ChatRows
  BY <1>1 DEF ChatGood
<1>3. ~ Obliged(call[c], approval)
  BY <1>1 DEF Obliged
<1>4. \A rws : CallGood(call[c], rws)
  BY <1>1 DEF CallGood
<1> QED BY <1>1, <1>2, <1>3, <1>4

LEMMA BeginTalk ==
  ASSUME OwnerInv, NEW c \in Calls, At(c, "idle"), NEW r,
         call' = [call EXCEPT ![c] = r], UNCHANGED <<talk, chat, history>>, StorePart'
  PROVE  OwnerInv'
<1>1. /\ chat' = [chat EXCEPT ![c] = chat[c]] /\ chat[c].msg = None
      /\ CallsTyped /\ TalkTyped /\ MessagesGood
  BY IdleHolds, StepHolds DEF CallsTyped
<1>2. UNCHANGED <<key, history>>
  BY DEF talk
<1>3. MessagesGood'
  BY <1>1, <1>2, MessagesMoved
<1>4. TalkTyped'
  BY <1>1 DEF TalkTyped, talk, history
<1> QED BY <1>3, <1>4 DEF OwnerInv, StorePart

\* A request that only starts.
LEMMA StartKeeps ==
  ASSUME OwnerInv, NEW c \in Calls, begun < MaxBegun, begun' = begun + 1,
         NEW r, Start(c, r), UNCHANGED <<rows, talk, chat, history>>,
         CallGood(r, approval), r.pc \in {"put_shortage", "send", "read"},
         r.then = "idle", r.otherwise = "idle",
         r.pc = "put_shortage" => \A d \in Calls \ {c} : call[d].id # r.id
  PROVE  OwnerInv'
<1>1. At(c, "idle") /\ call' = [call EXCEPT ![c] = r]
  BY DEF Start
<1>2. /\ approval' = approval /\ UNCHANGED <<clock, expired, contact, dispatched, redecided>>
      /\ missed' = missed /\ chat' = chat
  BY DEF rows, world
<1>3. /\ chat[c].msg = None /\ chat[c] \in ChatRows /\ call[c].pc = "idle"
      /\ ~ Obliged(call[c], approval)
  BY <1>1, IdleHolds
<1>4. ChatGood(r, chat[c])
  BY <1>3 DEF ChatGood, Pcs
<1>5. missed' \in BOOLEAN /\ r.pc # "dispatch" /\ call[c].pc # "dispatch"
  BY <1>2, <1>3 DEF OwnerInv, StoreTyped
<1>6. StorePart'
  BY <1>1, <1>2, <1>3, <1>4, <1>5, BeginsKept, StepQuiet
<1> QED BY <1>1, <1>6, BeginTalk

LEMMA BeginKeeps ==
  ASSUME OwnerInv, NEW c \in Calls, begun < MaxBegun, begun' = begun + 1,
         At(c, "idle"), Begin(c), UNCHANGED <<talk, chat, history>>
  PROVE  OwnerInv'
<1>1. CASE RequestApproval(c)
  <2>1. PICK a \in Approvals \ Shortages : approval[a] = None /\ Create(a)
    BY <1>1 DEF RequestApproval
  <2>2. call' = call /\ UNCHANGED <<dispatched, redecided, missed>> /\ chat' = chat
    BY <1>1 DEF RequestApproval
  <2>3. CallsTyped
    BY StepHolds
  <2>4. call' = [call EXCEPT ![c] = call[c]]
    BY <2>2, <2>3 DEF CallsTyped
  <2>5. \A d \in Calls \ {c} : call[d].pc = "put_shortage" => call[d].id # a
    BY <2>1, <2>3 DEF CallsTyped, CallGood
  <2>6. /\ call[c].pc = "idle" /\ ~ Obliged(call[c], approval)
        /\ ChatGood(call[c], chat[c]) /\ CallGood(call[c], approval')
    BY IdleHolds
  <2> DEFINE r == call[c]
  <2>7. /\ call' = [call EXCEPT ![c] = r] /\ r.pc \notin {"put_shortage", "dispatch"}
        /\ ChatGood(r, chat[c]) /\ CallGood(r, approval')
    BY <2>4, <2>6
  <2>8. a \in Approvals /\ approval[a] = None /\ Create(a) /\ a \notin Shortages
    BY <2>1
  <2> HIDE DEF r
  <2>9. StorePart'
    BY <2>2, <2>5, <2>6, <2>7, <2>8, BeginsKept, CreateKeeps
  <2> QED BY <2>4, <2>9, BeginTalk
<1>2. CASE EvaluateShortage(c)
  <2>1. PICK a \in Shortages :
          /\ \A b \in Shortages : Order[b] = Order[a] => approval[b] = None
          /\ \A d \in Calls : call[d].id # a
          /\ Start(c, [Idle EXCEPT !.pc = "put_shortage", !.id = a])
    BY <1>2 DEF EvaluateShortage
  <2> DEFINE r == [Idle EXCEPT !.pc = "put_shortage", !.id = a]
  <2>2. a \in Approvals /\ approval[a] = None
    BY <2>1, DecisionsAssumption DEF DecisionsAssumption
  <2>3. /\ r \in CallRows /\ r.pc = "put_shortage" /\ r.id = a
        /\ r.then = "idle" /\ r.otherwise = "idle"
    BY <2>2 DEF Idle, CallRows, Pcs
  <2>4. Start(c, r)
    BY <2>1
  <2> HIDE DEF r
  <2>5. CallGood(r, approval)
    BY <2>1, <2>2, <2>3 DEF CallGood
  <2>6. UNCHANGED <<rows, talk, chat, history>>
    BY <1>2 DEF EvaluateShortage, rows
  <2>7. \A d \in Calls \ {c} : call[d].id # r.id
    BY <2>1, <2>3
  <2> QED BY <2>3, <2>4, <2>5, <2>6, <2>7, StartKeeps
<1>3. CASE OperatorSend(c)
  <2>1. PICK a \in Sendable :
          approval[a] # None /\ Start(c, [Idle EXCEPT !.pc = "send", !.id = a])
    BY <1>3 DEF OperatorSend
  <2> DEFINE r == [Idle EXCEPT !.pc = "send", !.id = a]
  <2>2. a \in OrderFlow /\ a \in Approvals
    BY <2>1, DecisionsAssumption DEF DecisionsAssumption
  <2>3. /\ r \in CallRows /\ r.pc = "send" /\ r.id = a
        /\ r.then = "idle" /\ r.otherwise = "idle"
    BY <2>2 DEF Idle, CallRows, Pcs
  <2>4. Start(c, r)
    BY <2>1
  <2> HIDE DEF r
  <2>5. CallGood(r, approval)
    BY <2>1, <2>2, <2>3 DEF CallGood
  <2>6. UNCHANGED <<rows, talk, chat, history>>
    BY <1>3 DEF OperatorSend, rows
  <2> QED BY <2>3, <2>4, <2>5, <2>6, StartKeeps
<1>4. CASE ResolveInCommandCenter(c)
  <2>1. PICK a \in Approvals, v \in {"approved", "denied"} :
          /\ approval[a] # None
          /\ Start(c, [Idle EXCEPT !.pc = "read", !.id = a, !.decision = v])
    BY <1>4 DEF ResolveInCommandCenter
  <2> DEFINE r == [Idle EXCEPT !.pc = "read", !.id = a, !.decision = v]
  <2>2. /\ r \in CallRows /\ r.pc = "read" /\ r.id = a /\ r.decision = v
        /\ r.then = "idle" /\ r.otherwise = "idle"
    BY DEF Idle, CallRows, Pcs, Judged
  <2>3. Start(c, r)
    BY <2>1
  <2> HIDE DEF r
  <2>4. CallGood(r, approval)
    BY <2>2 DEF CallGood, Judged
  <2>5. UNCHANGED <<rows, talk, chat, history>>
    BY <1>4 DEF ResolveInCommandCenter, rows
  <2> QED BY <2>2, <2>3, <2>4, <2>5, StartKeeps
<1> QED BY <1>1, <1>2, <1>3, <1>4 DEF Begin

\* A message that was not decided is taken by one call.
LEMMA ReceiveKeeps ==
  ASSUME OwnerInv, NEW c \in Calls, begun < MaxBegun, begun' = begun + 1,
         NEW m \in Messages, Receive(c, m)
  PROVE  OwnerInv'
<1>1. /\ StoreTyped /\ TalkTyped /\ CallsTyped /\ Ordered
      /\ NobodyForgotten /\ DispatchOnce /\ MessagesGood
  BY StepHolds
<1>2. PICK t \in Texts :
        /\ text' = [text EXCEPT ![m] = t]
        /\ key' = [key EXCEPT ![m] = "reserved"]
        /\ chat' = [chat EXCEPT ![c] =
                      [Silent EXCEPT !.msg = m, !.text = t, !.conv = ReadRow]]
        /\ Start(c, [Idle EXCEPT !.pc = IF contact THEN "touch" ELSE "release"])
  BY DEF Receive, Take
<1>3. key[m] = "free" /\ UNCHANGED <<rows, conv, draft, history>>
  BY DEF Receive
<1> DEFINE pc == IF contact THEN "touch" ELSE "release"
           h == ReadRow
           r == [Idle EXCEPT !.pc = pc]
           k == [Silent EXCEPT !.msg = m, !.text = t, !.conv = h]
<1>4. pc \in {"touch", "release"} /\ At(c, "idle") /\ call' = [call EXCEPT ![c] = r]
      /\ chat' = [chat EXCEPT ![c] = k]
  BY <1>2 DEF Start
<1>5. HasObject(h) /\ h \in ConvRows
  BY <1>1, ReadRowGood DEF HasObject
<1>6. t \in TextRows
  BY <1>2, ConversationAssumption DEF ConversationAssumption, TextRows
<1>7. m # None
  BY ConversationAssumption DEF ConversationAssumption
<1> HIDE DEF pc, h
<1>8. Idle \in CallRows /\ Plain(pc)
  BY <1>4 DEF Idle, CallRows, Pcs, Plain, Handling
<1>9. CallGood(r, approval) /\ r.pc = pc
  BY <1>8, PlainGood
<1>10. k \in ChatRows /\ k.msg = m /\ k.conv = h /\ k.text = t
  BY <1>5, <1>6 DEF Silent, ChatRows
<1> HIDE DEF r, k
<1>11. ChatGood(r, k)
  BY <1>4, <1>5, <1>6, <1>7, <1>9, <1>10 DEF ChatGood, Pcs
<1>12. /\ approval' = approval /\ clock' = clock /\ expired' = expired /\ contact' = contact
       /\ dispatched' = dispatched /\ redecided' = redecided /\ missed' = missed
  BY <1>3 DEF rows, world
<1>13. StoreTyped' /\ Ordered'
  BY <1>1, <1>12, BeginsKept DEF StoreTyped, Ordered
<1>14. CallsTyped'
  <2>1. \A d \in Calls \ {c} : CallGood(call[d], approval')
    BY <1>1, <1>12 DEF CallsTyped
  <2>2. CallGood(r, approval') /\ r.pc # "put_shortage"
    BY <1>4, <1>9, <1>12
  <2> QED BY <1>1, <1>4, <1>11, <2>1, <2>2, CallsMoved
<1>15. NobodyForgotten' /\ DispatchOnce'
  <2>1. ~ Obliged(call[c], approval) /\ call[c].pc = "idle" /\ chat[c].msg = None
    BY <1>4, IdleHolds
  <2>2. r.pc # "dispatch" /\ call[c].pc # "dispatch"
    BY <1>4, <1>9, <2>1
  <2> QED BY <1>1, <1>4, <1>12, <2>1, <2>2, NobodyMoved, DispatchMoved
<1>16. TalkTyped'
  <2>1. text' \in [Messages -> Texts \cup {None}]
    BY <1>1, <1>2 DEF TalkTyped
  <2>2. key' \in [Messages -> {"free", "reserved", "completed"}]
    BY <1>1, <1>2 DEF TalkTyped
  <2> QED BY <1>1, <1>3, <2>1, <2>2 DEF TalkTyped, history
<1>17. MessagesGood'
  <2>1. call'[c] = r /\ \A d \in Calls \ {c} : call'[d] = call[d]
    BY <1>1, <1>4 DEF CallsTyped
  <2>2. chat'[c] = k /\ \A d \in Calls \ {c} : chat'[d] = chat[d]
    BY <1>1, <1>4 DEF CallsTyped
  <2>3. key'[m] = "reserved" /\ \A n \in Messages \ {m} : key'[n] = key[n]
    BY <1>1, <1>2 DEF TalkTyped
  <2>4. \A d \in Calls : chat[d].msg # m
    BY <1>1, <1>3, <1>7 DEF MessagesGood
  <2>5. \A d \in Calls : chat[d].msg # None => chat[d].msg \in Messages
    BY <1>1 DEF CallsTyped, ChatRows
  <2>6. \A d \in Calls : chat'[d].msg # None => key'[chat'[d].msg] = "reserved"
    BY <1>1, <1>10, <2>2, <2>3, <2>4, <2>5 DEF MessagesGood
  <2>7. \A d, e \in Calls : chat'[d].msg # None /\ chat'[d].msg = chat'[e].msg => d = e
    BY <1>1, <1>10, <2>2, <2>4 DEF MessagesGood
  <2>8. decisions' = decisions /\ raised' = raised
    BY <1>3 DEF history
  <2>9. ASSUME NEW n \in Messages \ raised
        PROVE  /\ decisions[n] <= 1
               /\ key'[n] = "free" => decisions[n] = 0
               /\ \A d \in Calls : chat'[d].msg = n /\ Undecided(call'[d], chat'[d])
                    => decisions[n] = 0
    <3>1. CASE n = m
      <4>1. decisions[n] = 0
        BY <1>1, <1>3, <3>1 DEF MessagesGood
      <4> QED BY <4>1
    <3>2. CASE n # m
      <4>1. key'[n] = key[n]
        BY <2>3, <3>2
      <4>2. ASSUME NEW d \in Calls, chat'[d].msg = n, Undecided(call'[d], chat'[d])
            PROVE  decisions[n] = 0
        <5>1. d # c
          BY <1>10, <2>2, <3>2, <4>2
        <5> QED BY <1>1, <2>1, <2>2, <2>9, <4>2, <5>1 DEF MessagesGood
      <4> QED BY <1>1, <4>1, <4>2 DEF MessagesGood
    <3> QED BY <3>1, <3>2
  <2> QED BY <2>6, <2>7, <2>8, <2>9 DEF MessagesGood
<1> QED BY <1>13, <1>14, <1>15, <1>16, <1>17 DEF OwnerInv

\* The surroundings change: no call moves, no row is put.
LEMMA WorldKeeps ==
  ASSUME OwnerInv, begun < MaxBegun, begun' = begun + 1,
         \/ ChangeContact /\ UNCHANGED <<talk, chat, history>>
         \/ (\E a \in Approvals : Expire(a)) /\ UNCHANGED <<talk, chat, history>>
         \/ ConversationExpires
  PROVE  OwnerInv'
<1>1. /\ approval' = approval /\ clock' = clock /\ call' = call /\ chat' = chat
      /\ dispatched' = dispatched /\ redecided' = redecided /\ missed' = missed
      /\ key' = key /\ text' = text /\ draft' = draft /\ UNCHANGED history
  BY DEF ChangeContact, Expire, ConversationExpires, rows, world, talk
<1>2. StoreTyped /\ TalkTyped /\ CallsTyped /\ Ordered
      /\ NobodyForgotten /\ DispatchOnce /\ MessagesGood
  BY DEF OwnerInv
<1>3. expired' \subseteq Approvals /\ contact' \in BOOLEAN
  BY <1>2 DEF StoreTyped, ChangeContact, Expire, ConversationExpires, rows, world
<1>4. StoreTyped' /\ Ordered' /\ CallsTyped' /\ NobodyForgotten' /\ DispatchOnce'
  <2>1. StoreTyped'
    BY <1>1, <1>2, <1>3, BeginsKept DEF StoreTyped
  <2>2. Ordered'
    BY <1>1, <1>2 DEF Ordered
  <2>3. CallsTyped'
    BY <1>1, <1>2 DEF CallsTyped
  <2>4. NobodyForgotten' /\ DispatchOnce'
    BY <1>1, <1>2 DEF NobodyForgotten, DispatchOnce
  <2> QED BY <2>1, <2>2, <2>3, <2>4
<1>5. MessagesGood'
  BY <1>1, <1>2 DEF MessagesGood, history
<1>6. conv' \in ConvRows \cup {None} /\ (conv' # None => HasObject(conv'))
  <2>1. CASE conv' = conv
    BY <1>2, <2>1 DEF TalkTyped
  <2>2. CASE ConversationExpires
    <3>1. conv # None /\ HasObject(conv) /\ conv' = [conv EXCEPT !.old = TRUE]
      BY <1>2, <2>2 DEF ConversationExpires, TalkTyped
    <3> QED BY <3>1 DEF HasObject, ConvRows
  <2> QED BY <2>1, <2>2 DEF talk
<1>7. TalkTyped'
  BY <1>1, <1>2, <1>6 DEF TalkTyped, history
<1> QED BY <1>4, <1>5, <1>7 DEF OwnerInv

\* The process dies: the message stays reserved, nobody handles it any more.
LEMMA DiesKeeps ==
  ASSUME OwnerInv, NEW c \in Calls, HandlerDies(c), UNCHANGED begun
  PROVE  OwnerInv'
<1>1. /\ approval' = approval /\ clock' = clock /\ expired' = expired /\ contact' = contact
      /\ dispatched' = dispatched /\ redecided' = redecided /\ missed' = TRUE
      /\ call' = [call EXCEPT ![c] = Idle] /\ chat' = [chat EXCEPT ![c] = Silent]
      /\ UNCHANGED <<talk, history>>
  BY DEF HandlerDies, Die, world
<1>2. StoreTyped /\ TalkTyped /\ CallsTyped /\ Ordered /\ MessagesGood
  BY DEF OwnerInv
<1>3. StoreTyped' /\ Ordered'
  BY <1>1, <1>2, BegunKept DEF StoreTyped, Ordered
<1>4. Idle \in CallRows /\ Idle.pc = "idle" /\ Idle.then = "idle" /\ Idle.otherwise = "idle"
  BY DEF Idle, CallRows, Pcs
<1>5. Silent \in ChatRows /\ Silent.msg = None
  BY DEF Silent, ChatRows
<1>6. CallGood(Idle, approval') /\ ChatGood(Idle, Silent)
  BY <1>4, <1>5 DEF CallGood, ChatGood, Pcs
<1>7. CallsTyped'
  <2>1. \A d \in Calls \ {c} : CallGood(call[d], approval')
    BY <1>1, <1>2 DEF CallsTyped
  <2> QED BY <1>1, <1>2, <1>4, <1>6, <2>1, CallsMoved
<1>8. NobodyForgotten' /\ DispatchOnce'
  BY <1>1 DEF NobodyForgotten, DispatchOnce
<1>9. MessagesGood'
  <2>1. UNCHANGED <<key, history>>
    BY <1>1 DEF talk
  <2> QED BY <1>1, <1>2, <1>5, <2>1, MessagesMoved
<1>10. TalkTyped'
  BY <1>1, <1>2 DEF TalkTyped, talk, history
<1> QED BY <1>3, <1>7, <1>8, <1>9, <1>10 DEF OwnerInv

-----------------------------------------------------------------------------
(* The invariant, and the four properties.                                 *)

LEMMA OwnerInvInitially == ConversationInit => OwnerInv
<1> SUFFICES ASSUME ConversationInit PROVE OwnerInv
  OBVIOUS
<1>1. None \notin Approvals /\ None \notin Rows /\ Requested \subseteq Approvals
      /\ (\A a, b \in Requested : a = b) /\ MaxBegun \in Nat
  BY DecisionsAssumption DEF DecisionsAssumption
<1>2. Init /\ conv \in Earlier
  BY DEF ConversationInit
<1>3. Row(0) \in Rows /\ Row(0) # None /\ Row(0).at = 0 /\ Row(0).status = "pending"
  <2>1. Row(0) \in Rows
    BY DEF Row, Rows, Statuses
  <2> QED BY <1>1, <2>1 DEF Row
<1>4. /\ approval = [a \in Approvals |-> IF a \in Requested THEN Row(0) ELSE None]
      /\ clock = 1 /\ expired = {} /\ contact \in BOOLEAN
      /\ dispatched = [a \in Approvals |-> 0] /\ redecided = {} /\ missed = FALSE
      /\ begun = 0 /\ call = [c \in Calls |-> Idle]
  BY <1>2 DEF Init
<1>5. \A a \in Approvals : approval[a] # None => a \in Requested /\ approval[a] = Row(0)
  BY <1>4
<1>6. StoreTyped
  <2>1. approval \in [Approvals -> Rows \cup {None}]
    BY <1>3, <1>4
  <2>2. dispatched \in [Approvals -> Nat] /\ begun \in 0..MaxBegun
    BY <1>1, <1>4
  <2> QED BY <1>4, <2>1, <2>2 DEF StoreTyped
<1>7. Ordered
  BY <1>1, <1>3, <1>4, <1>5 DEF Ordered
<1>8. Idle \in CallRows /\ Idle.pc = "idle" /\ Idle.then = "idle" /\ Idle.otherwise = "idle"
  BY DEF Idle, CallRows, Pcs
<1>9. Silent \in ChatRows /\ Silent.msg = None
  BY DEF Silent, ChatRows
<1>10. chat = [c \in Calls |-> Silent]
  BY DEF ConversationInit
<1>11. \A c \in Calls : call[c] = Idle /\ chat[c] = Silent
  BY <1>4, <1>10
<1>12. CallsTyped
  <2>1. CallGood(Idle, approval) /\ ChatGood(Idle, Silent)
    BY <1>8, <1>9 DEF CallGood, ChatGood, Pcs
  <2>2. call \in [Calls -> CallRows] /\ chat \in [Calls -> ChatRows]
    BY <1>4, <1>8, <1>9, <1>10
  <2> QED BY <1>8, <1>11, <2>1, <2>2 DEF CallsTyped
<1>13. NobodyForgotten
  <2>1. \A s \in Shortages : approval[s] = None
    BY <1>5, DecisionsAssumption DEF DecisionsAssumption
  <2> QED BY <2>1 DEF NobodyForgotten, Untold
<1>14. DispatchOnce
  <2>1. \A c \in Calls : call[c].pc # "dispatch"
    BY <1>8, <1>11
  <2>2. \A a \in Approvals : dispatched[a] = 0 /\ ~ (approval[a] # None /\ approval[a].status = "approved")
    BY <1>3, <1>4, <1>5
  <2> QED BY <2>1, <2>2 DEF DispatchOnce, Dispatching
<1>15. conv \in ConvRows \cup {None} /\ (conv # None => HasObject(conv))
  <2>1. CASE conv = None
    BY <2>1
  <2>2. CASE conv = [Fresh EXCEPT !.context = "main_menu"]
    <3>1. HasObject([Fresh EXCEPT !.context = "main_menu"])
      BY FreshGood, MenuGood DEF Menu
    <3> QED BY <2>2, <3>1 DEF HasObject
  <2>3. CASE conv \in [context : {"approval_decision"}, approval : Requested, draft : {None},
                       step : {None}, ids : {<<>>}, paused : {None}, old : {FALSE}]
    <3>1. <<>> \in Seq(Approvals)
      OBVIOUS
    <3>2. conv \in ConvRows
      BY <1>1, <2>3, <3>1 DEF ConvRows, Contexts
    <3>3. HasObject(conv)
      BY <1>1, <2>3, <3>2 DEF HasObject
    <3> QED BY <3>2, <3>3
  <2> QED BY <1>2, <2>1, <2>2, <2>3 DEF Earlier
<1>16. /\ key = [m \in Messages |-> "free"] /\ text = [m \in Messages |-> None]
       /\ draft = [d \in Drafts |-> [open |-> TRUE, done |-> {}]]
       /\ decisions = [m \in Messages |-> 0] /\ raised = {}
  BY DEF ConversationInit
<1>17. TalkTyped
  <2>1. draft \in [Drafts -> DraftRows]
    BY <1>16 DEF DraftRows
  <2>2. decisions \in [Messages -> Nat]
    BY <1>16
  <2> QED BY <1>15, <1>16, <2>1, <2>2 DEF TalkTyped
<1>18. MessagesGood
  BY <1>9, <1>11, <1>16 DEF MessagesGood
<1> QED BY <1>6, <1>7, <1>12, <1>13, <1>14, <1>17, <1>18 DEF OwnerInv

LEMMA OwnerInvStep == OwnerInv /\ [ConversationNext]_allVars => OwnerInv'
<1> SUFFICES ASSUME OwnerInv, [ConversationNext]_allVars PROVE OwnerInv'
  OBVIOUS
<1>1. CASE UNCHANGED allVars
  <2>1. /\ UNCHANGED <<approval, clock, expired, contact, dispatched, redecided, missed, begun>>
        /\ UNCHANGED <<call, chat, conv, key, text, draft, decisions, raised>>
    BY <1>1 DEF allVars, vars, world, talk, history
  <2>2. StoreTyped' /\ TalkTyped' /\ CallsTyped'
    BY <2>1 DEF OwnerInv, StoreTyped, TalkTyped, CallsTyped
  <2>3. Ordered' /\ NobodyForgotten' /\ DispatchOnce' /\ MessagesGood'
    BY <2>1 DEF OwnerInv, Ordered, NobodyForgotten, DispatchOnce, MessagesGood
  <2> QED BY <2>2, <2>3 DEF OwnerInv
<1>2. CASE ConversationNext
  <2>1. ASSUME NEW c \in Calls, UNCHANGED begun, HandlerStep(c) PROVE OwnerInv'
    BY <2>1, HandlerKeeps
  <2>2. ASSUME NEW c \in Calls, UNCHANGED begun, DecisionStep(c) PROVE OwnerInv'
    BY <2>2, DecisionStepsKeep
  <2>3. ASSUME NEW c \in Calls, UNCHANGED begun, HandlerDies(c) PROVE OwnerInv'
    BY <2>3, DiesKeeps
  <2>4. CASE \E c \in Calls :
               (HandlerStep(c) \/ DecisionStep(c) \/ HandlerDies(c)) /\ UNCHANGED begun
    BY <2>1, <2>2, <2>3, <2>4
  <2>5. ASSUME begun < MaxBegun, begun' = begun + 1, NEW c \in Calls, Taken(c), Begin(c),
               UNCHANGED <<talk, chat, history>>
        PROVE  OwnerInv'
    BY <2>5, BeginKeeps DEF Taken
  <2>6. ASSUME begun < MaxBegun, begun' = begun + 1, NEW c \in Calls, NEW m \in Messages,
               Receive(c, m)
        PROVE  OwnerInv'
    BY <2>6, ReceiveKeeps
  <2>7. CASE /\ begun < MaxBegun /\ begun' = begun + 1
             /\ \/ \E c \in Calls : Taken(c) /\ Begin(c) /\ UNCHANGED <<talk, chat, history>>
                \/ \E c \in Calls, m \in Arriving : Taken(c) /\ Receive(c, m)
                \/ ChangeContact /\ UNCHANGED <<talk, chat, history>>
                \/ (\E a \in Approvals : Expire(a)) /\ UNCHANGED <<talk, chat, history>>
                \/ ConversationExpires
    <3>1. CASE \E c \in Calls : Taken(c) /\ Begin(c) /\ UNCHANGED <<talk, chat, history>>
      BY <2>5, <2>7, <3>1
    <3>2. CASE \E c \in Calls, m \in Arriving : Taken(c) /\ Receive(c, m)
      <4>1. Arriving \subseteq Messages
        BY DEF Arriving
      <4> QED BY <2>6, <2>7, <3>2, <4>1
    <3>3. CASE \/ ChangeContact /\ UNCHANGED <<talk, chat, history>>
               \/ (\E a \in Approvals : Expire(a)) /\ UNCHANGED <<talk, chat, history>>
               \/ ConversationExpires
      BY <2>7, <3>3, WorldKeeps
    <3> QED BY <2>7, <3>1, <3>2, <3>3
  <2> QED BY <1>2, <2>4, <2>7 DEF ConversationNext
<1> QED BY <1>1, <1>2

\* The invariant holds in every behaviour of the conversation.
THEOREM OwnerInvariant == ConversationSpec => []OwnerInv
BY OwnerInvInitially, OwnerInvStep, PTL DEF ConversationSpec

\* The row of the conversation never waits for a reply about nothing, whatever
\* messages, decisions and deaths of the process come between its reads and puts.
THEOREM RepliesHaveAnObject == ConversationSpec => []ContextHasObject
<1>1. OwnerInv => ContextHasObject
  <2> SUFFICES ASSUME OwnerInv PROVE ContextHasObject
    OBVIOUS
  <2>1. StoreTyped /\ TalkTyped /\ CallsTyped
    BY DEF OwnerInv
  <2>2. ASSUME NEW c \in Calls
        PROVE  /\ call[c].id \in Approvals \cup {None}
               /\ call[c].held \in Rows \cup {None}
               /\ call[c].pc \in {"notified", "put_expired", "decide"} => call[c].held \in Rows
               /\ call[c].pc \in Pcs \ {"idle", "dispatch", "list_pending"} =>
                    call[c].id \in Approvals
               /\ chat[c].conv \in ConvRows \cup {None}
    <3> DEFINE i == call[c]  k == chat[c]
    <3>1. CallGood(i, approval) /\ ChatGood(i, k)
      BY <2>1 DEF CallsTyped
    <3>2. Shortages \subseteq Approvals /\ OrderFlow \subseteq Approvals
      BY DecisionsAssumption DEF DecisionsAssumption
    <3> HIDE DEF i, k
    <3>3. i.id \in Approvals \cup {None} /\ i.held \in Rows \cup {None}
      BY <3>1 DEF CallGood, CallRows
    <3>4. i.pc \in {"notified", "put_expired", "decide"} => i.held \in Rows
      BY <3>1 DEF CallGood
    <3>5. i.pc \in Pcs \ {"idle", "dispatch", "list_pending"} => i.id \in Approvals
      BY <3>1, <3>2 DEF CallGood, Pcs
    <3>6. k.conv \in ConvRows \cup {None}
      BY <3>1 DEF ChatGood, ChatRows
    <3> QED BY <3>3, <3>4, <3>5, <3>6 DEF i, k
  <2>3. TypeOK
    BY <2>1, <2>2 DEF TypeOK, StoreTyped
  <2>4. draft \in [Drafts -> [open : BOOLEAN, done : SUBSET (1..Questions)]]
    BY <2>1 DEF TalkTyped, DraftRows
  <2>5. ConversationTypeOK
    BY <2>1, <2>2, <2>3, <2>4 DEF ConversationTypeOK, TalkTyped
  <2>6. conv # None =>
          /\ conv.context \in {"approval_decision", "approval_edit"} => conv.approval # None
          /\ conv.context = "approval_disambiguation" => Len(conv.ids) > 1
          /\ conv.context = "product_onboarding" => conv.draft # None
    BY <2>1, DecisionsAssumption DEF TalkTyped, HasObject, DecisionsAssumption
  <2> QED BY <2>5, <2>6 DEF ContextHasObject
<1> QED BY <1>1, OwnerInvariant, PTL

\* A message that is delivered again, to any number of calls, decides once.
THEOREM MessagesDecideOnce == ConversationSpec => []OneDecisionPerMessage
<1>1. OwnerInv => OneDecisionPerMessage
  <2> SUFFICES ASSUME OwnerInv, NEW m \in Messages, decisions[m] > 1, m \notin raised
      PROVE  FALSE
    BY DEF OneDecisionPerMessage
  <2>1. decisions[m] <= 1 /\ decisions[m] \in Nat
    BY DEF OwnerInv, MessagesGood, TalkTyped
  <2> QED BY <2>1
<1> QED BY <1>1, OwnerInvariant, PTL

\* A shortage approval that was held back is released: whoever resolves the one it
\* waits for finds it, for any number of approvals and of threads.
THEOREM ShortagesAreReleased == ConversationSpec => []NeverStranded
<1>1. OwnerInv => NeverStranded
  <2> SUFFICES ASSUME OwnerInv, Quiet, ~ missed, NEW s \in Shortages,
                      Pending(s), ~ Notified(s)
      PROVE  \E a \in OrderFlow : Pending(a) /\ Notified(a)
    BY DEF NeverStranded
  <2>1. Untold(approval, s)
    BY DEF Untold, Pending, Notified
  <2>2. \A c \in Calls : ~ Obliged(call[c], approval)
    BY DEF Quiet, At, Obliged
  <2>3. \E a \in OrderFlow : Told(approval, a)
    BY <2>1, <2>2 DEF OwnerInv, NobodyForgotten
  <2> QED BY <2>3 DEF Told, Pending, Notified
<1> QED BY <1>1, OwnerInvariant, PTL

\* What was approved is dispatched once, what was refused never, whoever decides:
\* an owner's message, a price edit or the Command Center.
THEOREM DecisionsAreCarriedOutOnce == ConversationSpec => []ApprovedWasDispatched
<1>1. OwnerInv => ApprovedWasDispatched
  <2> SUFFICES ASSUME OwnerInv, Quiet, ~ missed, NEW a \in Approvals \ redecided,
                      approval[a] # None
      PROVE  dispatched[a] = (IF approval[a].status = "approved" THEN 1 ELSE 0)
    BY DEF ApprovedWasDispatched
  <2>1. \A c \in Calls : ~ Dispatching(call[c], a)
    BY DEF Quiet, At, Dispatching
  <2>2. IF approval[a] # None /\ approval[a].status = "approved"
        THEN \/ dispatched[a] = 1 /\ \A e \in Calls : ~ Dispatching(call[e], a)
             \/ dispatched[a] = 0 /\
                  \E e \in Calls : \A d \in Calls : Dispatching(call[d], a) <=> d = e
        ELSE dispatched[a] = 0 /\ \A e \in Calls : ~ Dispatching(call[e], a)
    BY DEF OwnerInv, DispatchOnce
  <2> QED BY <2>1, <2>2
<1> QED BY <1>1, OwnerInvariant, PTL
=============================================================================
