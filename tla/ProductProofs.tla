---------------------------- MODULE ProductProofs ----------------------------
(***************************************************************************)
(* The publication of a draft, for every number of calls, prices, faults   *)
(* and policies: what a call answers about the storefront is true, and     *)
(* publications that do not overlap list the draft once.                   *)
(*                                                                         *)
(* And the drafts themselves, for all files, answers, decisions and calls: *)
(* their facts are what their sources said, their active variants are the  *)
(* last revision, and no incomplete draft waits without a question that    *)
(* is outstanding.                                                         *)
(*                                                                         *)
(* A call changes a copy of a row it read, so the invariant speaks of the  *)
(* rows that calls hold as well as of the store (Shape), and what is true  *)
(* of a row stays true when it is put back by a call that read it as it    *)
(* is; a row that another call changed in between counts as overwritten.   *)
(* Facts are followed one value at a time (Evidence), variants one         *)
(* revision at a time (Lineups), and every incomplete draft by the call    *)
(* that will still validate it or ask about it, the answer under way, or   *)
(* the question that is open (Queue).                                      *)
(***************************************************************************)
EXTENDS Publication, Catalogue, FiniteSetTheorems, SequenceTheorems, NaturalsInduction,
        WellFoundedInduction, TLAPS

-----------------------------------------------------------------------------
(* The inductive invariant.                                                *)

Untried == {"handle", "read_facts", "resolve_facts", "approve_facts", "request", "evaluate",
            "release", "find_approval", "put_approval", "approve", "resolve",
            "read_approved", "put_released", "create", "insert", "reverify", "reopen",
            "get_publication", "get_draft", "put_publishing", "put_attempt"}
Sending == {"reserve", "wait", "find", "set", "complete"}
Pcs == Untried \cup Publishing
         \cup {"idle", "find_facts", "put_facts", "put_validated", "put_again", "answered"}
HoldingDraft == {"handle", "put_validated", "put_again", "resolve_facts", "approve_facts",
                 "evaluate", "release", "put_released", "put_publishing", "put_attempt"}
Kinds == {"ingest", "supply", "facts", "request", "approve", "auto"}

\* The fields of a call, whatever the result of its mutation is.
Rowed(r) ==
  r \in [pc : Pcs, kind : Kinds \cup {None}, row : DraftRows \cup {None},
         approval : Nat \cup {None}, pub : Publications \cup {None}, key : Keys \cup {None},
         product : {r.product}, claim : {"published", "live", None}, lost : BOOLEAN]

\* What a call holds belongs to the place it is at.
Placed(r) ==
  /\ Rowed(r)
  /\ r.pc \in HoldingDraft => r.row \in DraftRows
  /\ r.pub # None => r.pub.product <= made
  /\ r.pc \in {"reverify", "reopen", "get_draft", "put_publishing"} => r.pub # None
  /\ r.pc \in Publishing \ {"insert"} => publication # None
  /\ r.pc \in {"put_publishing", "put_attempt"} =>
       r.key \in Keys /\ r.key[1] = "a" /\ r.key[2] <= attempts
  /\ r.pc \in Sending => r.key \in Keys
  /\ r.pc \in Sending /\ r.key[1] = "a" =>
       /\ r.key[2] < attempts
       /\ r.pc # "complete" => r.row \in DraftRows
       /\ r.pc = "set" => r.product \in 1..made \cup {None}
       /\ r.pc = "complete" => r.product \in 1..made
  /\ r.pc \in Sending /\ r.key[1] = "online" =>
       /\ r.pc = "set" => r.product \in 1..made
       /\ r.pc = "complete" => r.product \in BOOLEAN
  /\ r.pc = "put_published" => r.product \in 1..made

Listed == DOMAIN listing # {}

\* Under this key the product was set.
Sent(k) ==
  \/ key[k].status = "completed"
  \/ \E x \in Calls : call[x].pc = "complete" /\ call[x].key = k

\* A call that is about to say that the product is there is right, as long as the
\* merchant deleted nothing.
Right(r) ==
  ~ r.lost =>
    /\ r.pc \in {"put_published", "verify", "answered"} => Listed
    /\ r.pc \in Sending /\ r.key[1] = "online" => Listed
    /\ r.pc \in Sending \cup {"put_publishing", "put_attempt"} /\ r.key[1] = "a" /\ Sent(r.key)
         => Listed

\* What the only publication that runs knows of the storefront.
Alone(r) ==
  /\ r.pc \in Sending \cup {"put_publishing", "put_attempt"} /\ r.key[1] = "a" =>
       key[r.key].status # "completed"
  /\ r.pc = "set" /\ r.key[1] = "a" /\ r.product = None => ~ Listed
  /\ r.pc = "complete" /\ r.key[1] = "a" => DOMAIN listing \subseteq {r.product}
  /\ r.pc = "put_published" => DOMAIN listing \subseteq {r.product}
  /\ r.pc = "verify" => DOMAIN listing \subseteq {publication.product}
  /\ r.pc \in Sending /\ r.key[1] = "online" => DOMAIN listing \subseteq {r.key[2]}
  /\ r.pc = "complete" /\ r.key[1] = "online" /\ r.product = TRUE => r.key[2] \in shown

LiveIsShown(r) ==
  r.pc = "answered" /\ r.claim = "live" /\ ~ r.lost => DOMAIN listing \cap shown # {}

CallsGood ==
  /\ DOMAIN call = Calls /\ call = [c \in Calls |-> call[c]]
  /\ \A c \in Calls : Placed(call[c]) /\ Right(call[c])

KeysGood ==
  /\ DOMAIN key = Keys /\ key = [k \in Keys |-> key[k]]
  /\ \A k \in Keys :
       /\ key[k] \in [status : {"free", "reserved", "completed"}, result : {key[k].result}]
       /\ key[k].status = "completed" =>
            /\ k[1] = "a" => k[2] < attempts /\ key[k].result \in 1..made
            /\ k[1] = "online" => key[k].result \in BOOLEAN

\* As long as no two publications overlapped.
Undisturbed ==
  /\ \A c, d \in Calls : call[c].pc \in Publishing /\ call[d].pc \in Publishing => c = d
  /\ \A p, q \in DOMAIN listing : p = q
  /\ \A c \in Calls : Alone(call[c]) /\ LiveIsShown(call[c])
  /\ \A p \in 0..MaxBegun :
       LET k == OnlineKey(p) IN
       key[k].status = "completed" /\ key[k].result = TRUE => p \in shown

\* Attempts and products are paid for: by the calls that have not tried yet, and by
\* the attempts that have not set a product.
MayTry(cs) == {c \in Calls : cs[c].pc \in Untried}
Makes(r) == r.pc \in Sending \ {"complete"} /\ r.key[1] = "a"
MayMake(cs) == {c \in Calls : Makes(cs[c])}
Tallied ==
  /\ IsFiniteSet(MayTry(call)) /\ attempts + Cardinality(MayTry(call)) <= begun
  /\ IsFiniteSet(MayMake(call)) /\ made + Cardinality(MayMake(call)) <= attempts

PInv ==
  /\ TypeOK /\ CallsGood /\ KeysGood /\ Tallied
  /\ ~ overlapped => Undisturbed

-----------------------------------------------------------------------------
(* One call moves.                                                         *)

LEMMA Moved ==
  ASSUME CallsGood, NEW c \in Calls, NEW r, call' = [call EXCEPT ![c] = r]
  PROVE  /\ call'[c] = r /\ \A d \in Calls \ {c} : call'[d] = call[d]
         /\ DOMAIN call' = Calls /\ call' = [d \in Calls |-> call'[d]]
BY DEF CallsGood

\* A call that does not move loses nothing, when the world only grows.
Grows ==
  /\ made <= made' /\ attempts <= attempts'
  /\ publication # None => publication' # None
  /\ DOMAIN listing \subseteq DOMAIN listing'
  /\ \A k \in Keys : k[1] = "a" /\ Sent(k)' => Sent(k) \/ Listed'

LEMMA PlacedKept ==
  ASSUME TypeOK, TypeOK', Grows, NEW r, Placed(r)
  PROVE  Placed(r)'
<1>1. made \in Nat /\ made' \in Nat /\ attempts \in Nat /\ attempts' \in Nat
  BY DEF TypeOK
<1>2. 1..made \subseteq 1..made'
  BY <1>1 DEF Grows
<1>3. Rowed(r)'
  BY DEF Placed, Rowed
<1>4. r.pub # None => r.pub.product <= made'
  <2>1. r.pub # None => r.pub.product \in Nat
    BY <1>3 DEF Rowed, Publications
  <2> QED BY <1>1, <2>1 DEF Placed, Grows
<1>5. r.key \in Keys => r.key[2] \in Nat
  BY PublicationAssumption DEF Keys
<1>6. r.pc \in {"put_publishing", "put_attempt"} => r.key[2] <= attempts'
  BY <1>1, <1>5 DEF Placed, Grows
<1>7. r.pc \in Sending /\ r.key[1] = "a" => r.key[2] < attempts'
  BY <1>1, <1>5 DEF Placed, Grows
<1> QED BY <1>2, <1>3, <1>4, <1>6, <1>7 DEF Placed, Grows

LEMMA RightKept ==
  ASSUME Grows, NEW r, Placed(r), Right(r)
  PROVE  Right(r)'
<1>1. Listed => Listed'
  BY DEF Grows, Listed
<1>2. r.pc \in Sending \cup {"put_publishing", "put_attempt"} => r.key \in Keys
  BY DEF Placed
<1> QED BY <1>1, <1>2 DEF Grows, Right

LEMMA StepKeeps ==
  ASSUME PInv, NEW c \in Calls, NEW r, call' = [call EXCEPT ![c] = r],
         TypeOK', KeysGood', Tallied', Grows, Placed(r)', Right(r)',
         ~ overlapped' => Undisturbed'
  PROVE  PInv'
<1>1. CallsGood
  BY DEF PInv
<1>2. ASSUME NEW d \in Calls
      PROVE  Placed(call[d])' /\ Right(call[d])'
  <2>1. CASE d = c
    BY <1>1, <2>1, Moved
  <2>2. CASE d # c
    <3>1. call'[d] = call[d]
      BY <1>1, <2>2, Moved
    <3>2. Placed(call[d]) /\ Right(call[d])
      BY <1>1 DEF CallsGood
    <3> DEFINE old == call[d]
    <3>3. \A s : Placed(s) => Placed(s)'
      BY PlacedKept DEF PInv
    <3>4. \A s : Placed(s) /\ Right(s) => Right(s)'
      BY RightKept
    <3> QED BY <3>1, <3>2, <3>3, <3>4
  <2> QED BY <2>1, <2>2
<1>3. CallsGood'
  BY <1>1, <1>2, Moved DEF CallsGood
<1> QED BY <1>3 DEF PInv

LEMMA UndisturbedKept ==
  ASSUME CallsGood, Undisturbed, NEW c \in Calls, NEW r, call' = [call EXCEPT ![c] = r],
         DOMAIN listing \subseteq DOMAIN listing', shown \subseteq shown',
         \/ call[c].pc \in Publishing
         \/ /\ listing' = listing /\ publication' = publication /\ key' = key
            /\ r.pc \in Publishing => \A d \in Calls : call[d].pc \notin Publishing,
         \A p, q \in DOMAIN listing' : p = q,
         \A p \in 0..MaxBegun :
           LET k == OnlineKey(p) IN
           key'[k].status = "completed" /\ key'[k].result = TRUE => p \in shown',
         Alone(r)', LiveIsShown(r)'
  PROVE  Undisturbed'
<1>1. ASSUME NEW d \in Calls, NEW e \in Calls,
             call'[d].pc \in Publishing, call'[e].pc \in Publishing
      PROVE  d = e
  BY <1>1, Moved DEF Undisturbed
<1>2. ASSUME NEW d \in Calls
      PROVE  Alone(call[d])' /\ LiveIsShown(call[d])'
  <2>1. CASE d = c
    BY <2>1, Moved
  <2>2. CASE d # c
    <3>1. call'[d] = call[d]
      BY <2>2, Moved
    <3>2. Alone(call[d]) /\ LiveIsShown(call[d])
      BY DEF Undisturbed
    <3>3. LiveIsShown(call[d])'
      BY <3>1, <3>2 DEF LiveIsShown
    <3>4. CASE call[d].pc \notin Publishing
      <4>1. call[d].pc \notin Sending \cup {"put_publishing", "put_attempt", "put_published", "verify"}
        BY <3>4 DEF Publishing, Sending
      <4> QED BY <3>1, <3>3, <4>1 DEF Alone, Sending
    <3>5. CASE call[d].pc \in Publishing
      <4>1. listing' = listing /\ publication' = publication /\ key' = key
        BY <2>2, <3>5 DEF Undisturbed
      <4> QED BY <3>1, <3>2, <3>3, <4>1 DEF Alone, Listed
    <3> QED BY <3>4, <3>5
  <2> QED BY <2>1, <2>2
<1> QED BY <1>1, <1>2 DEF Undisturbed, OnlineKey

-----------------------------------------------------------------------------
(* The tally.                                                              *)

LEMMA TallyKept ==
  ASSUME CallsGood, Tallied, NEW c \in Calls, NEW r, call' = [call EXCEPT ![c] = r],
         r.pc \in Untried => call[c].pc \in Untried,
         Makes(r) => Makes(call[c]),
         attempts \in Nat, made \in Nat, begun \in Nat,
         attempts' = attempts, made' = made, begun' = begun
  PROVE  Tallied'
<1>1. MayTry(call') \subseteq MayTry(call) /\ MayMake(call') \subseteq MayMake(call)
  BY Moved DEF MayTry, MayMake
<1>2. IsFiniteSet(MayTry(call)) /\ IsFiniteSet(MayMake(call))
  BY DEF Tallied
<1>3. /\ IsFiniteSet(MayTry(call')) /\ Cardinality(MayTry(call')) <= Cardinality(MayTry(call))
      /\ IsFiniteSet(MayMake(call')) /\ Cardinality(MayMake(call')) <= Cardinality(MayMake(call))
  BY <1>1, <1>2, FS_Subset
<1>4. /\ Cardinality(MayTry(call)) \in Nat /\ Cardinality(MayTry(call')) \in Nat
      /\ Cardinality(MayMake(call)) \in Nat /\ Cardinality(MayMake(call')) \in Nat
  BY <1>2, <1>3, FS_CardinalityType
<1> QED BY <1>3, <1>4 DEF Tallied

\* A set that loses an element.
LEMMA Fewer ==
  ASSUME NEW S, NEW T, IsFiniteSet(S), NEW x \in S, T \subseteq S \ {x}
  PROVE  /\ IsFiniteSet(T) /\ Cardinality(T) \in Nat
         /\ Cardinality(S) \in Nat /\ Cardinality(T) + 1 <= Cardinality(S)
<1>1. IsFiniteSet(S \ {x}) /\ Cardinality(S \ {x}) = Cardinality(S) - 1
  BY FS_RemoveElement
<1>2. IsFiniteSet(T) /\ Cardinality(T) <= Cardinality(S \ {x})
  BY <1>1, FS_Subset
<1>3. Cardinality(S) \in Nat /\ Cardinality(T) \in Nat /\ Cardinality(S \ {x}) \in Nat
  BY <1>1, <1>2, FS_CardinalityType
<1> QED BY <1>1, <1>2, <1>3

\* A set that gains at most one.
LEMMA OneMore ==
  ASSUME NEW S, NEW T, IsFiniteSet(S), NEW x, T \subseteq S \cup {x}
  PROVE  /\ IsFiniteSet(T) /\ Cardinality(T) \in Nat
         /\ Cardinality(S) \in Nat /\ Cardinality(T) <= Cardinality(S) + 1
<1>1. IsFiniteSet(S \cup {x})
      /\ (Cardinality(S \cup {x}) = Cardinality(S) \/ Cardinality(S \cup {x}) = Cardinality(S) + 1)
  BY FS_AddElement
<1>2. IsFiniteSet(T) /\ Cardinality(T) <= Cardinality(S \cup {x})
  BY <1>1, FS_Subset
<1>3. Cardinality(S) \in Nat /\ Cardinality(T) \in Nat /\ Cardinality(S \cup {x}) \in Nat
  BY <1>1, <1>2, FS_CardinalityType
<1> QED BY <1>1, <1>2, <1>3

-----------------------------------------------------------------------------
(* Steps that leave the publication, the keys and the storefront alone.    *)

Approvals == Seq([action : {"facts", "publication"}, status : {"pending", "approved"}])
Outside == <<policy, publication, attempts, key, listing, shown, made, overlapped>>

LEMMA Typed ==
  ASSUME TypeOK
  PROVE  /\ made \in Nat /\ attempts \in Nat /\ begun \in Nat
         /\ publication # None => publication.product <= made /\ publication \in Publications
BY PublicationAssumption DEF TypeOK, Publications

LEMMA QuietKeeps ==
  ASSUME PInv, NEW c \in Calls, NEW r, call' = [call EXCEPT ![c] = r],
         UNCHANGED <<Outside, begun>>, draft' \in DraftRows, approval' \in Approvals,
         faults' \in 0..MaxFaults,
         Placed(r), Right(r), r.pc # "complete",
         r.pc \in Publishing => call[c].pc \in Publishing,
         r.pc \in Untried => call[c].pc \in Untried,
         Makes(r) => Makes(call[c]),
         ~ overlapped => Alone(r) /\ LiveIsShown(r)
  PROVE  PInv'
<1>1. TypeOK'
  BY DEF PInv, TypeOK, Outside, Approvals
<1>2. KeysGood'
  BY DEF PInv, KeysGood, Outside
<1>3. Tallied'
  BY Typed, TallyKept DEF PInv, Outside
<1>4. ASSUME NEW k, Sent(k)'
      PROVE  Sent(k)
  <2>1. key' = key
    BY DEF Outside
  <2>2. ASSUME NEW x \in Calls, call'[x].pc = "complete"
        PROVE  call'[x] = call[x]
    BY <2>2, Moved DEF PInv
  <2> QED BY <1>4, <2>1, <2>2 DEF Sent
<1>5. Grows
  BY <1>4, Typed DEF PInv, Grows, Outside
<1>6. Placed(r)'
  BY DEF Placed, Rowed, Outside
<1>7. Right(r)'
  BY <1>4 DEF Right, Listed, Outside
<1>8. ASSUME ~ overlapped'
      PROVE  Undisturbed'
  <2>1. CallsGood /\ Undisturbed
    BY <1>8 DEF PInv, Outside
  <2>2. Alone(r)' /\ LiveIsShown(r)'
    BY <1>8 DEF Alone, LiveIsShown, Listed, Outside
  <2>3. /\ listing' = listing /\ publication' = publication /\ shown' = shown /\ key' = key
    BY DEF Outside
  <2>4. /\ \A p, q \in DOMAIN listing' : p = q
        /\ \A p \in 0..MaxBegun :
             LET k == OnlineKey(p) IN
             key'[k].status = "completed" /\ key'[k].result = TRUE => p \in shown'
    BY <2>1, <2>3 DEF Undisturbed
  <2> HIDE DEF OnlineKey
  <2>5. CASE call[c].pc \in Publishing
    BY <2>1, <2>2, <2>3, <2>4, <2>5, UndisturbedKept
  <2>6. CASE call[c].pc \notin Publishing
    BY <2>1, <2>2, <2>3, <2>4, <2>6, UndisturbedKept
  <2> QED BY <2>5, <2>6
<1> QED BY <1>1, <1>2, <1>3, <1>5, <1>6, <1>7, <1>8, StepKeeps

-----------------------------------------------------------------------------
(* Calls that are not publishing.                                          *)

Quiet ==
  /\ UNCHANGED <<Outside, begun>> /\ draft' \in DraftRows /\ approval' \in Approvals
  /\ faults' \in 0..MaxFaults

LEMMA QuietWhenUnchanged ==
  ASSUME PInv, UNCHANGED <<bounds, publication, attempts, key, store, overlapped>>,
         draft' \in DraftRows \/ UNCHANGED draft, approval' \in Approvals \/ UNCHANGED approval,
         faults' \in 0..MaxFaults \/ UNCHANGED faults
  PROVE  Quiet
BY DEF PInv, TypeOK, Quiet, Outside, Approvals, bounds, store

LEMMA SimpleKeeps ==
  ASSUME PInv, NEW c \in Calls, NEW r, call' = [call EXCEPT ![c] = r], Quiet, Rowed(r),
         r.pc \notin Publishing \cup {"answered"},
         r.pc \in HoldingDraft => r.row \in DraftRows,
         r.pub # None => r.pub.product <= made,
         r.pc \in Untried => call[c].pc \in Untried
  PROVE  PInv'
<1>1. r.pc \notin Sending \cup {"put_publishing", "put_attempt", "put_published", "verify",
                                "reverify", "reopen", "get_draft"}
  BY DEF Publishing, Sending
<1>2. Placed(r) /\ Right(r) /\ ~ Makes(r) /\ Alone(r) /\ LiveIsShown(r)
  BY <1>1 DEF Placed, Right, Makes, Alone, LiveIsShown, Sending
<1> QED BY <1>1, <1>2, QuietKeeps DEF Quiet, Sending

Forgot(r, pc) == [Idle EXCEPT !.pc = pc, !.kind = r.kind, !.lost = r.lost]
Claimed(r, claim) == [Idle EXCEPT !.pc = "answered", !.claim = claim, !.lost = r.lost]

LEMMA Edits ==
  ASSUME NEW r, Rowed(r), NEW pc \in Pcs
  PROVE  /\ Rowed([r EXCEPT !.pc = pc]) /\ [r EXCEPT !.pc = pc].pc = pc
         /\ [r EXCEPT !.pc = pc].row = r.row /\ [r EXCEPT !.pc = pc].pub = r.pub
         /\ [r EXCEPT !.pc = pc].key = r.key /\ [r EXCEPT !.pc = pc].lost = r.lost
         /\ [r EXCEPT !.pc = pc].product = r.product
         /\ Rowed(Forgot(r, pc)) /\ Forgot(r, pc).pc = pc /\ Forgot(r, pc).pub = None
         /\ Forgot(r, pc).lost = r.lost
         /\ Rowed(Idle) /\ Idle.pc = "idle" /\ Idle.pub = None
<1>1. "idle" \in Pcs
  BY DEF Pcs
<1>2. Rowed(Idle) /\ Idle.pc = "idle" /\ Idle.pub = None
  BY <1>1 DEF Rowed, Idle
<1>3. /\ Rowed(Forgot(r, pc)) /\ Forgot(r, pc).pc = pc /\ Forgot(r, pc).pub = None
      /\ Forgot(r, pc).lost = r.lost
  BY <1>1 DEF Rowed, Idle, Forgot
<1>4. /\ Rowed([r EXCEPT !.pc = pc]) /\ [r EXCEPT !.pc = pc].pc = pc
      /\ [r EXCEPT !.pc = pc].row = r.row /\ [r EXCEPT !.pc = pc].pub = r.pub
      /\ [r EXCEPT !.pc = pc].key = r.key /\ [r EXCEPT !.pc = pc].lost = r.lost
      /\ [r EXCEPT !.pc = pc].product = r.product
  BY DEF Rowed
<1> QED BY <1>2, <1>3, <1>4

LEMMA CallAt ==
  ASSUME PInv, NEW c \in Calls
  PROVE  Placed(call[c]) /\ Right(call[c]) /\ Rowed(call[c])
BY DEF PInv, CallsGood, Placed

LEMMA ReturnKeeps ==
  ASSUME PInv, NEW c \in Calls, Quiet, Return(c)
  PROVE  PInv'
<1>1. Rowed(Idle) /\ Idle.pc = "idle" /\ Idle.pub = None
  BY CallAt, Edits DEF Pcs
<1>2. call' = [call EXCEPT ![c] = Idle]
  BY DEF Return
<1>3. "idle" \notin Publishing \cup {"answered"} \cup HoldingDraft \cup Untried
  BY DEF Publishing, HoldingDraft, Untried
<1> QED BY <1>1, <1>2, <1>3, SimpleKeeps

\* It goes on at a place before its publication, or falls back on the owner.
LEMMA ForgetKeeps ==
  ASSUME PInv, NEW c \in Calls, Quiet, NEW pc \in Pcs, Forget(c, pc),
         pc \notin Publishing \cup {"answered"} \cup HoldingDraft,
         pc \in Untried => call[c].pc \in Untried
  PROVE  PInv'
<1>1. call' = [call EXCEPT ![c] = Forgot(call[c], pc)]
  BY DEF Forget, Forgot
<1>2. Rowed(Forgot(call[c], pc)) /\ Forgot(call[c], pc).pc = pc /\ Forgot(call[c], pc).pub = None
  BY CallAt, Edits
<1> QED BY <1>1, <1>2, SimpleKeeps

LEMMA RaiseKeeps ==
  ASSUME PInv, NEW c \in Calls, Quiet, Raise(c)
  PROVE  PInv'
<1>1. "find_facts" \in Pcs
      /\ "find_facts" \notin Publishing \cup {"answered"} \cup HoldingDraft \cup Untried
  BY DEF Pcs, Publishing, HoldingDraft, Untried
<1> QED BY <1>1, ForgetKeeps, ReturnKeeps DEF Raise

\* It goes on with the draft it holds, at another place before its publication.
LEMMA GotoKeeps ==
  ASSUME PInv, NEW c \in Calls, Quiet, NEW pc \in Pcs, Goto(c, pc),
         pc \notin Publishing \cup {"answered"},
         pc \in HoldingDraft => call[c].row \in DraftRows,
         pc \in Untried => call[c].pc \in Untried
  PROVE  PInv'
<1> DEFINE r == [call[c] EXCEPT !.pc = pc]
<1>1. call' = [call EXCEPT ![c] = r]
  BY CallAt DEF Goto
<1>2. Rowed(r) /\ r.pc = pc /\ r.row = call[c].row /\ r.pub = call[c].pub
  BY CallAt, Edits
<1>3. r.pub # None => r.pub.product <= made
  BY <1>2, CallAt DEF Placed
<1> HIDE DEF r
<1> QED BY <1>1, <1>2, <1>3, SimpleKeeps

-----------------------------------------------------------------------------
(* The facts and the policy.                                               *)

LEMMA ValidatedIsDraft ==
  ASSUME NEW d \in DraftRows
  PROVE  Validated(d) \in DraftRows /\ WithFactsApproved(d) \in DraftRows
BY DEF Validated, WithFactsApproved, DraftRows, States

LEMMA ApprovalsTyped ==
  ASSUME PInv
  PROVE  /\ \A action \in {"facts", "publication"} : PutPending(action) => approval' \in Approvals
         /\ \A i : PutApproved(i) => approval' \in Approvals
<1>1. approval \in Approvals
  BY DEF PInv, TypeOK, Approvals
<1>2. ASSUME NEW action \in {"facts", "publication"}, PutPending(action)
      PROVE  approval' \in Approvals
  BY <1>1, <1>2 DEF PutPending, Approvals
<1>3. ASSUME NEW i, PutApproved(i)
      PROVE  approval' \in Approvals
  <2>1. CASE i \in DOMAIN approval
    <3> DEFINE e == [approval[i] EXCEPT !.status = "approved"]
    <3>1. i \in 1..Len(approval)
          /\ approval[i] \in [action : {"facts", "publication"}, status : {"pending", "approved"}]
      <4>1. DOMAIN approval = 1..Len(approval)
        BY <1>1, LenProperties DEF Approvals
      <4>2. i \in 1..Len(approval)
        BY <2>1, <4>1
      <4> QED BY <1>1, <4>2, ElementOfSeq DEF Approvals
    <3>2. e \in [action : {"facts", "publication"}, status : {"pending", "approved"}]
      BY <3>1
    <3>3. approval' = [approval EXCEPT ![i] = e]
      BY <1>3 DEF PutApproved
    <3> HIDE DEF e
    <3> QED BY <1>1, <3>1, <3>2, <3>3, ExceptSeq DEF Approvals
  <2>2. CASE i \notin DOMAIN approval
    <3>1. approval = [x \in DOMAIN approval |-> approval[x]]
      BY <1>1, LenProperties DEF Approvals
    <3>2. approval' = approval
      BY <1>3, <2>2, <3>1 DEF PutApproved
    <3> QED BY <1>1, <3>2
  <2> QED BY <2>1, <2>2
<1> QED BY <1>2, <1>3

LEMMA DraftTyped ==
  ASSUME PInv
  PROVE  draft \in DraftRows /\ approval \in Approvals /\ faults \in 0..MaxFaults
BY DEF PInv, TypeOK, Approvals

LEMMA HandleValidatedDraftKeeps ==
  ASSUME PInv, NEW c \in Calls, HandleValidatedDraft(c)
  PROVE  PInv'
<1>1. Quiet
  BY QuietWhenUnchanged DEF HandleValidatedDraft, rows
<1>2. "read_facts" \in Pcs /\ "find_facts" \in Pcs /\ call[c].pc \in Untried
      /\ {"read_facts", "find_facts"}
           \cap (Publishing \cup {"answered"} \cup HoldingDraft) = {}
  BY DEF HandleValidatedDraft, At, Pcs, Untried, Publishing, HoldingDraft
<1>3. Return(c) \/ Forget(c, "read_facts") \/ Forget(c, "find_facts")
  BY DEF HandleValidatedDraft
<1> QED BY <1>1, <1>2, <1>3, ReturnKeeps, ForgetKeeps

LEMMA FindFactsApprovalKeeps ==
  ASSUME PInv, NEW c \in Calls, FindFactsApproval(c)
  PROVE  PInv'
<1>1. Quiet
  BY QuietWhenUnchanged DEF FindFactsApproval, rows
<1>2. "put_facts" \in Pcs
      /\ "put_facts" \notin Publishing \cup {"answered"} \cup HoldingDraft \cup Untried
  BY DEF Pcs, Publishing, HoldingDraft, Untried
<1>3. Goto(c, "put_facts") \/ Return(c)
  BY DEF FindFactsApproval
<1> QED BY <1>1, <1>2, <1>3, ReturnKeeps, GotoKeeps

LEMMA PutFactsApprovalKeeps ==
  ASSUME PInv, NEW c \in Calls, PutFactsApproval(c)
  PROVE  PInv'
<1>1. approval' \in Approvals
  BY ApprovalsTyped DEF PutFactsApproval
<1>2. Quiet
  BY <1>1, QuietWhenUnchanged DEF PutFactsApproval
<1> QED BY <1>2, ReturnKeeps DEF PutFactsApproval

LEMMA PutSuppliedKeeps ==
  ASSUME PInv, NEW c \in Calls, PutSupplied(c)
  PROVE  PInv'
<1>1. call[c].row \in DraftRows
  BY CallAt DEF PutSupplied, Placed, HoldingDraft
<1>2. Quiet
  BY <1>1, QuietWhenUnchanged DEF PutSupplied
<1>3. "put_again" \in Pcs /\ "put_again" \notin Publishing \cup {"answered"} \cup Untried
  BY DEF Pcs, Publishing, Untried
<1>4. Goto(c, "put_again") \/ Return(c)
  BY DEF PutSupplied
<1> QED BY <1>1, <1>2, <1>3, <1>4, ReturnKeeps, GotoKeeps

\* The call takes a row along, and leaves the approval it is about as it is or sets it.
LEMMA TakesKeeps ==
  ASSUME PInv, NEW c \in Calls, Quiet, NEW pc \in Pcs, NEW d \in DraftRows,
         NEW i \in Nat,
         \/ Holding(c, pc, d)
         \/ call' = [call EXCEPT ![c].pc = pc, ![c].row = d, ![c].approval = i],
         pc \notin Publishing \cup {"answered"},
         pc \in Untried => call[c].pc \in Untried
  PROVE  PInv'
<1>1. ASSUME NEW r, call' = [call EXCEPT ![c] = r], Rowed(r), r.pc = pc, r.row = d,
             r.pub = call[c].pub
      PROVE  PInv'
  <2>1. r.pub # None => r.pub.product <= made
    BY <1>1, CallAt DEF Placed
  <2> QED BY <1>1, <2>1, SimpleKeeps
<1>2. CASE Holding(c, pc, d)
  <2> DEFINE r == [call[c] EXCEPT !.pc = pc, !.row = d]
  <2>1. call' = [call EXCEPT ![c] = r]
    BY <1>2 DEF Holding
  <2>2. Rowed(r) /\ r.pc = pc /\ r.row = d /\ r.pub = call[c].pub
    BY CallAt DEF Rowed
  <2> HIDE DEF r
  <2> QED BY <1>1, <2>1, <2>2
<1>3. CASE call' = [call EXCEPT ![c].pc = pc, ![c].row = d, ![c].approval = i]
  <2> DEFINE r == [call[c] EXCEPT !.pc = pc, !.row = d, !.approval = i]
  <2>1. call' = [call EXCEPT ![c] = r]
    BY <1>3
  <2>2. Rowed(r) /\ r.pc = pc /\ r.row = d /\ r.pub = call[c].pub
    BY CallAt DEF Rowed
  <2> HIDE DEF r
  <2> QED BY <1>1, <2>1, <2>2
<1> QED BY <1>2, <1>3

LEMMA HoldingKeeps ==
  ASSUME PInv, NEW c \in Calls, Quiet, NEW pc \in Pcs, NEW d \in DraftRows,
         Holding(c, pc, d), pc \notin Publishing \cup {"answered"},
         pc \in Untried => call[c].pc \in Untried
  PROVE  PInv'
<1>1. 0 \in Nat
  OBVIOUS
<1> QED BY <1>1, TakesKeeps

LEMMA PendingCounted ==
  ASSUME PInv, NEW action
  PROVE  Pending(action) \subseteq Nat
<1>1. DOMAIN approval = 1..Len(approval) /\ Len(approval) \in Nat
  BY DraftTyped, LenProperties DEF Approvals
<1> QED BY <1>1 DEF Pending

LEMMA ReadForFactsKeeps ==
  ASSUME PInv, NEW c \in Calls, ReadForFacts(c)
  PROVE  PInv'
<1>1. Quiet
  BY QuietWhenUnchanged DEF ReadForFacts, rows
<1>2. /\ {"resolve_facts", "approve_facts"} \subseteq Pcs /\ call[c].pc \in Untried
      /\ {"resolve_facts", "approve_facts"} \cap (Publishing \cup {"answered"}) = {}
  BY DEF ReadForFacts, At, Pcs, Untried, Publishing
<1>3. CASE Holding(c, "approve_facts", draft)
  BY <1>1, <1>2, <1>3, DraftTyped, HoldingKeeps
<1>4. CASE \E i \in Pending("facts") :
             call' = [call EXCEPT ![c].pc = "resolve_facts", ![c].row = draft, ![c].approval = i]
  <2>1. PICK i \in Pending("facts") :
          call' = [call EXCEPT ![c].pc = "resolve_facts", ![c].row = draft, ![c].approval = i]
    BY <1>4
  <2>2. i \in Nat
    BY PendingCounted
  <2> QED BY <1>1, <1>2, <2>1, <2>2, DraftTyped, TakesKeeps
<1> QED BY <1>3, <1>4 DEF ReadForFacts

LEMMA ResolveFactsApprovalKeeps ==
  ASSUME PInv, NEW c \in Calls, ResolveFactsApproval(c)
  PROVE  PInv'
<1>1. approval' \in Approvals
  BY ApprovalsTyped DEF ResolveFactsApproval
<1>2. Quiet
  BY <1>1, QuietWhenUnchanged DEF ResolveFactsApproval
<1>3. "approve_facts" \in Pcs /\ "approve_facts" \notin Publishing \cup {"answered"}
      /\ call[c].pc \in Untried /\ call[c].row \in DraftRows
  BY CallAt DEF ResolveFactsApproval, At, Pcs, Publishing, Untried, Placed, HoldingDraft
<1> QED BY <1>2, <1>3, GotoKeeps DEF ResolveFactsApproval

LEMMA ApproveFactsKeeps ==
  ASSUME PInv, NEW c \in Calls, ApproveFacts(c)
  PROVE  PInv'
<1>1. call[c].row \in DraftRows /\ call[c].pc \in Untried
  BY CallAt DEF ApproveFacts, At, Placed, HoldingDraft, Untried
<1>2. draft' \in DraftRows
  BY <1>1, ValidatedIsDraft DEF ApproveFacts
<1>3. Quiet
  BY <1>2, QuietWhenUnchanged DEF ApproveFacts
<1>4. "request" \in Pcs /\ "request" \notin Publishing \cup {"answered"} \cup HoldingDraft
  BY DEF Pcs, Publishing, Untried, HoldingDraft
<1>5. Return(c) \/ Forget(c, "request")
  BY DEF ApproveFacts
<1> QED BY <1>1, <1>3, <1>4, <1>5, ReturnKeeps, ForgetKeeps

LEMMA ReadForRequestKeeps ==
  ASSUME PInv, NEW c \in Calls, ReadForRequest(c)
  PROVE  PInv'
<1>1. Quiet
  BY QuietWhenUnchanged DEF ReadForRequest, rows
<1>2. "evaluate" \in Pcs /\ "evaluate" \notin Publishing \cup {"answered"}
      /\ call[c].pc \in Untried
  BY DEF ReadForRequest, At, Pcs, Publishing, Untried
<1>3. Validated(draft) \in DraftRows
  BY DraftTyped, ValidatedIsDraft
<1>4. Holding(c, "evaluate", Validated(draft))
  BY DEF ReadForRequest
<1> QED BY <1>1, <1>2, <1>3, <1>4, HoldingKeeps

LEMMA EvaluateKeeps ==
  ASSUME PInv, NEW c \in Calls, Evaluate(c)
  PROVE  PInv'
<1>1. call[c].row \in DraftRows /\ call[c].pc \in Untried
  BY CallAt DEF Evaluate, At, Placed, HoldingDraft, Untried
<1>2. Quiet
  BY <1>1, QuietWhenUnchanged DEF Evaluate
<1>3. /\ {"release", "find_approval"} \subseteq Pcs
      /\ {"release", "find_approval"} \cap (Publishing \cup {"answered"}) = {}
      /\ "find_approval" \notin HoldingDraft
  BY DEF Pcs, Publishing, Untried, HoldingDraft
<1>4. Return(c) \/ Goto(c, "release") \/ Forget(c, "find_approval")
  BY DEF Evaluate
<1> QED BY <1>1, <1>2, <1>3, <1>4, ReturnKeeps, GotoKeeps, ForgetKeeps

LEMMA AutoPublishKeeps ==
  ASSUME PInv, NEW c \in Calls, AutoPublish(c)
  PROVE  PInv'
<1>1. call[c].row \in DraftRows /\ call[c].pc \in Untried
  BY CallAt DEF AutoPublish, At, Placed, HoldingDraft, Untried
<1>2. draft' \in DraftRows
  BY <1>1 DEF AutoPublish, DraftRows
<1>3. Quiet
  BY <1>2, QuietWhenUnchanged DEF AutoPublish
<1>4. "create" \in Pcs /\ "create" \notin Publishing \cup {"answered"} \cup HoldingDraft
  BY DEF Pcs, Publishing, Untried, HoldingDraft
<1> QED BY <1>1, <1>3, <1>4, ForgetKeeps DEF AutoPublish

LEMMA AfterRequestKeeps ==
  ASSUME PInv, NEW c \in Calls, Quiet, call[c].pc \in Untried, AfterRequest(c)
  PROVE  PInv'
<1>1. "approve" \in Pcs /\ "approve" \notin Publishing \cup {"answered"} \cup HoldingDraft
  BY DEF Pcs, Publishing, Untried, HoldingDraft
<1> QED BY <1>1, ReturnKeeps, GotoKeeps DEF AfterRequest

LEMMA FindPublicationApprovalKeeps ==
  ASSUME PInv, NEW c \in Calls, FindPublicationApproval(c)
  PROVE  PInv'
<1>1. Quiet
  BY QuietWhenUnchanged DEF FindPublicationApproval, rows
<1>2. /\ "put_approval" \in Pcs /\ call[c].pc \in Untried
      /\ "put_approval" \notin Publishing \cup {"answered"} \cup HoldingDraft
  BY DEF FindPublicationApproval, At, Pcs, Publishing, Untried, HoldingDraft
<1>3. Goto(c, "put_approval") \/ AfterRequest(c)
  BY DEF FindPublicationApproval
<1> QED BY <1>1, <1>2, <1>3, AfterRequestKeeps, GotoKeeps

LEMMA PutPublicationApprovalKeeps ==
  ASSUME PInv, NEW c \in Calls, PutPublicationApproval(c)
  PROVE  PInv'
<1>1. approval' \in Approvals
  BY ApprovalsTyped DEF PutPublicationApproval
<1>2. Quiet
  BY <1>1, QuietWhenUnchanged DEF PutPublicationApproval
<1>3. call[c].pc \in Untried
  BY DEF PutPublicationApproval, At, Untried
<1> QED BY <1>2, <1>3, AfterRequestKeeps DEF PutPublicationApproval

LEMMA FindPendingKeeps ==
  ASSUME PInv, NEW c \in Calls, FindPending(c)
  PROVE  PInv'
<1>1. Quiet
  BY QuietWhenUnchanged DEF FindPending, rows
<1>2. "resolve" \in Pcs /\ "resolve" \notin Publishing \cup {"answered"} \cup HoldingDraft
      /\ call[c].pc \in Untried
  BY DEF FindPending, At, Pcs, Publishing, Untried, HoldingDraft
<1>3. CASE Raise(c)
  BY <1>1, <1>3, RaiseKeeps
<1>4. CASE \E i \in Pending("publication") :
             call' = [call EXCEPT ![c].pc = "resolve", ![c].approval = i]
  <2>1. PICK i \in Pending("publication") :
          call' = [call EXCEPT ![c].pc = "resolve", ![c].approval = i]
    BY <1>4
  <2> DEFINE r == [call[c] EXCEPT !.pc = "resolve", !.approval = i]
  <2>2. call' = [call EXCEPT ![c] = r]
    BY <2>1, CallAt DEF PInv, CallsGood
  <2>3. i \in Nat
    BY PendingCounted
  <2>4. Rowed(r) /\ r.pc = "resolve" /\ r.pub = call[c].pub
    BY <1>2, <2>3, CallAt DEF Rowed
  <2>5. r.pub # None => r.pub.product <= made
    BY <2>4, CallAt DEF Placed
  <2> HIDE DEF r
  <2> QED BY <1>1, <1>2, <2>2, <2>4, <2>5, SimpleKeeps
<1> QED BY <1>3, <1>4 DEF FindPending

LEMMA ResolveApprovalKeeps ==
  ASSUME PInv, NEW c \in Calls, ResolveApproval(c)
  PROVE  PInv'
<1>1. approval' \in Approvals
  BY ApprovalsTyped DEF ResolveApproval
<1>2. Quiet
  BY <1>1, QuietWhenUnchanged DEF ResolveApproval
<1>3. /\ "read_approved" \in Pcs /\ call[c].pc \in Untried
      /\ "read_approved" \notin Publishing \cup {"answered"} \cup HoldingDraft
  BY DEF ResolveApproval, At, Pcs, Publishing, Untried, HoldingDraft
<1> QED BY <1>2, <1>3, ForgetKeeps DEF ResolveApproval

LEMMA ReadApprovedKeeps ==
  ASSUME PInv, NEW c \in Calls, ReadApproved(c)
  PROVE  PInv'
<1>1. Quiet
  BY QuietWhenUnchanged DEF ReadApproved, rows
<1>2. "put_released" \in Pcs /\ "put_released" \notin Publishing \cup {"answered"}
      /\ call[c].pc \in Untried
  BY DEF ReadApproved, At, Pcs, Publishing, Untried
<1>3. Holding(c, "put_released", draft)
  BY DEF ReadApproved
<1> QED BY <1>1, <1>2, <1>3, DraftTyped, HoldingKeeps

LEMMA PutReleasedKeeps ==
  ASSUME PInv, NEW c \in Calls, PutReleased(c)
  PROVE  PInv'
<1>1. call[c].row \in DraftRows /\ call[c].pc \in Untried
  BY CallAt DEF PutReleased, At, Placed, HoldingDraft, Untried
<1>2. WithFactsApproved(call[c].row) \in DraftRows
  BY <1>1, ValidatedIsDraft
<1>3. draft' \in DraftRows
  BY <1>2 DEF PutReleased, DraftRows, States
<1>4. Quiet
  BY <1>3, QuietWhenUnchanged DEF PutReleased
<1>5. "create" \in Pcs /\ "create" \notin Publishing \cup {"answered"} \cup HoldingDraft
  BY DEF Pcs, Publishing, Untried, HoldingDraft
<1> QED BY <1>1, <1>4, <1>5, ForgetKeeps DEF PutReleased

-----------------------------------------------------------------------------
(* The publication, where nothing but the call moves.                      *)

LEMMA ClaimKeeps ==
  ASSUME PInv, NEW c \in Calls, Quiet, NEW claim \in {"published", "live"}, Claim(c, claim),
         ~ call[c].lost => Listed,
         ~ overlapped /\ claim = "live" /\ ~ call[c].lost => DOMAIN listing \cap shown # {}
  PROVE  PInv'
<1> DEFINE r == Claimed(call[c], claim)
<1>1. call' = [call EXCEPT ![c] = r]
  BY DEF Claim, Claimed
<1>2. Rowed(r) /\ r.pc = "answered" /\ r.pub = None /\ r.claim = claim
      /\ r.lost = call[c].lost
  BY CallAt DEF Rowed, Claimed, Idle, Pcs
<1> HIDE DEF r
<1>3. "answered" \notin Publishing \cup HoldingDraft \cup Untried \cup Sending
  BY DEF Publishing, HoldingDraft, Untried, Sending
<1>4. Placed(r) /\ Right(r) /\ Alone(r) /\ ~ Makes(r)
  BY <1>2, <1>3 DEF Placed, Right, Alone, Makes
<1>5. ~ overlapped => LiveIsShown(r)
  BY <1>2 DEF LiveIsShown
<1> QED BY <1>1, <1>2, <1>3, <1>4, <1>5, QuietKeeps DEF Quiet

LEMMA KeysOf ==
  /\ \A p \in 0..MaxBegun : /\ OnlineKey(p) \in Keys /\ AttemptKey(p) \in Keys
                            /\ OnlineKey(p)[1] = "online" /\ OnlineKey(p)[2] = p
                            /\ AttemptKey(p)[1] = "a" /\ AttemptKey(p)[2] = p
  /\ \A k \in Keys : /\ k[1] \in {"a", "online"} /\ k[2] \in 0..MaxBegun
                     /\ k[1] = "online" => k = OnlineKey(k[2])
                     /\ k[1] = "a" => k = AttemptKey(k[2])
BY DEF Keys, OnlineKey, AttemptKey

LEMMA AfterPublicationKeeps ==
  ASSUME PInv, NEW c \in Calls, Quiet, NEW p \in 0..made, AfterPublication(c, p),
         call[c].pc \in Publishing, publication # None,
         ~ call[c].lost => Listed,
         ~ overlapped => DOMAIN listing \subseteq {p}
  PROVE  PInv'
<1>1. CASE Claim(c, "published")
  BY <1>1, ClaimKeeps
<1>2. CASE call' = [call EXCEPT ![c].pc = "reserve", ![c].key = OnlineKey(p),
                                ![c].row = None, ![c].pub = None, ![c].product = None]
  <2> DEFINE r == [call[c] EXCEPT !.pc = "reserve", !.key = OnlineKey(p),
                                  !.row = None, !.pub = None, !.product = None]
  <2>1. call' = [call EXCEPT ![c] = r]
    BY <1>2
  <2>2. p \in 0..MaxBegun
    BY PublicationAssumption DEF PInv, TypeOK
  <2>3. OnlineKey(p) \in Keys /\ OnlineKey(p)[1] = "online" /\ OnlineKey(p)[2] = p
    BY <2>2, KeysOf
  <2>4. Rowed(r) /\ r.pc = "reserve" /\ r.pub = None /\ r.key = OnlineKey(p)
        /\ r.lost = call[c].lost /\ r.row = None
    BY <2>3, CallAt, ZenonT(30) DEF Rowed, Pcs, Publishing
  <2> HIDE DEF r
  <2>5. Placed(r)
    BY <2>3, <2>4 DEF Placed, HoldingDraft
  <2>6. Right(r) /\ ~ Makes(r)
    BY <2>3, <2>4 DEF Right, Makes, Sending
  <2>7. ~ overlapped => Alone(r) /\ LiveIsShown(r)
    BY <2>3, <2>4 DEF Alone, LiveIsShown, Sending
  <2>8. "reserve" \notin Untried /\ "reserve" \in Publishing
    BY DEF Untried, Publishing
  <2> QED BY <2>1, <2>4, <2>5, <2>6, <2>7, <2>8, QuietKeeps DEF Quiet
<1> QED BY <1>1, <1>2 DEF AfterPublication

LEMMA PublicationTyped ==
  ASSUME PInv, publication # None
  PROVE  publication \in Publications /\ publication.product \in 0..made
BY DEF PInv, TypeOK, Publications

LEMMA ReverifyKeeps ==
  ASSUME PInv, NEW c \in Calls, Reverify(c)
  PROVE  PInv'
<1>1. Quiet
  BY QuietWhenUnchanged, DraftTyped DEF Reverify, rows
<1>2. call[c].pc = "reverify" /\ "reverify" \in Publishing
  BY DEF Reverify, At, Publishing
<1>3. publication # None
  BY <1>2, CallAt DEF Placed
<1>4. CASE Verified(publication.product) /\ AfterPublication(c, publication.product)
  <2>1. publication.product \in DOMAIN listing
    BY <1>4 DEF Verified
  <2>2. ~ overlapped => DOMAIN listing \subseteq {publication.product}
    BY <2>1 DEF PInv, Undisturbed
  <2> QED BY <1>1, <1>2, <1>3, <1>4, <2>1, <2>2, PublicationTyped, AfterPublicationKeeps
      DEF Listed
<1>5. CASE Goto(c, "reopen")
  <2> DEFINE r == [call[c] EXCEPT !.pc = "reopen"]
  <2>1. call' = [call EXCEPT ![c] = r]
    BY <1>5 DEF Goto
  <2>2. "reopen" \in Pcs /\ "reopen" \in Publishing /\ call[c].pc \in Untried
        /\ "reopen" \notin HoldingDraft \cup Sending
    BY <1>2 DEF Pcs, Publishing, Untried, HoldingDraft, Sending
  <2>3. Rowed(r) /\ r.pc = "reopen" /\ r.pub = call[c].pub
    BY <2>2, CallAt, Edits
  <2> HIDE DEF r
  <2>4. Placed(r) /\ Right(r) /\ Alone(r) /\ LiveIsShown(r) /\ ~ Makes(r)
    BY <1>2, <1>3, <2>2, <2>3, CallAt DEF Placed, Right, Alone, LiveIsShown, Makes
  <2> QED BY <1>1, <1>2, <2>1, <2>2, <2>3, <2>4, QuietKeeps DEF Quiet
<1> QED BY <1>4, <1>5 DEF Reverify

LEMMA GetPublicationKeeps ==
  ASSUME PInv, NEW c \in Calls, GetPublication(c)
  PROVE  PInv'
<1>1. Quiet
  BY QuietWhenUnchanged, DraftTyped DEF GetPublication, rows
<1>2. call[c].pc = "get_publication" /\ "get_publication" \in Publishing
  BY DEF GetPublication, At, Publishing
<1>3. publication # None
  BY <1>2, CallAt DEF Placed
<1> DEFINE r == [call[c] EXCEPT !.pc = "get_draft", !.pub = publication]
<1>4. call' = [call EXCEPT ![c] = r]
  BY DEF GetPublication
<1>5. "get_draft" \in Pcs /\ "get_draft" \in Publishing /\ call[c].pc \in Untried
      /\ "get_draft" \notin HoldingDraft \cup Sending
  BY <1>2 DEF Pcs, Publishing, Untried, HoldingDraft, Sending
<1>6. publication \in Publications /\ publication.product <= made
  BY <1>3, PublicationTyped
<1>7. Rowed(r) /\ r.pc = "get_draft" /\ r.pub = publication
  BY <1>5, <1>6, CallAt DEF Rowed
<1> HIDE DEF r
<1>8. Placed(r) /\ Right(r) /\ Alone(r) /\ LiveIsShown(r) /\ ~ Makes(r)
  BY <1>3, <1>5, <1>6, <1>7 DEF Placed, Right, Alone, LiveIsShown, Makes
<1> QED BY <1>1, <1>2, <1>4, <1>5, <1>7, <1>8, QuietKeeps DEF Quiet

\* The key of an attempt that is still to be made is not in use.
LEMMA NextKeyUnused ==
  ASSUME PInv
  PROVE  /\ attempts \in 0..MaxBegun /\ AttemptKey(attempts) \in Keys
         /\ key[AttemptKey(attempts)].status # "completed" /\ ~ Sent(AttemptKey(attempts))
<1>1. attempts \in 0..MaxBegun /\ attempts \in Nat
  BY PublicationAssumption DEF PInv, TypeOK
<1>2. AttemptKey(attempts) \in Keys /\ AttemptKey(attempts)[1] = "a"
      /\ AttemptKey(attempts)[2] = attempts
  BY <1>1, KeysOf
<1>3. key[AttemptKey(attempts)].status # "completed"
  BY <1>1, <1>2 DEF PInv, KeysGood
<1>4. ASSUME NEW x \in Calls, call[x].pc = "complete", call[x].key = AttemptKey(attempts)
      PROVE  FALSE
  BY <1>1, <1>2, <1>4, CallAt DEF Placed, Sending
<1> QED BY <1>1, <1>2, <1>3, <1>4 DEF Sent

LEMMA GetDraftKeeps ==
  ASSUME PInv, NEW c \in Calls, GetDraft(c)
  PROVE  PInv'
<1>1. Quiet
  BY QuietWhenUnchanged, DraftTyped DEF GetDraft, rows
<1>2. call[c].pc = "get_draft" /\ "get_draft" \in Publishing
  BY DEF GetDraft, At, Publishing
<1>3. publication # None /\ call[c].pub # None
  BY <1>2, CallAt DEF Placed
<1>4. CASE Raise(c)
  BY <1>1, <1>4, RaiseKeeps
<1>5. CASE call' = [call EXCEPT ![c].pc = "put_publishing", ![c].row = draft,
                                ![c].key = AttemptKey(attempts)]
  <2> DEFINE r == [call[c] EXCEPT !.pc = "put_publishing", !.row = draft,
                                  !.key = AttemptKey(attempts)]
  <2>1. call' = [call EXCEPT ![c] = r]
    BY <1>5
  <2>2. /\ "put_publishing" \in Pcs /\ "put_publishing" \in Publishing
        /\ call[c].pc \in Untried /\ "put_publishing" \notin Sending
    BY <1>2 DEF Pcs, Publishing, Untried, Sending
  <2>3. AttemptKey(attempts)[1] = "a" /\ AttemptKey(attempts)[2] = attempts
        /\ AttemptKey(attempts) \in Keys /\ attempts <= attempts
    BY NextKeyUnused, KeysOf
  <2>4. Rowed(r) /\ r.pc = "put_publishing" /\ r.pub = call[c].pub /\ r.row = draft
        /\ r.key = AttemptKey(attempts)
    BY <2>2, <2>3, DraftTyped, CallAt DEF Rowed
  <2> HIDE DEF r
  <2>5. Placed(r)
    BY <1>3, <2>2, <2>3, <2>4, DraftTyped, CallAt DEF Placed
  <2>6. Right(r) /\ Alone(r) /\ LiveIsShown(r) /\ ~ Makes(r)
    BY <2>2, <2>3, <2>4, NextKeyUnused DEF Right, Alone, LiveIsShown, Makes
  <2> QED BY <1>1, <1>2, <2>1, <2>2, <2>4, <2>5, <2>6, QuietKeeps DEF Quiet
<1> QED BY <1>4, <1>5 DEF GetDraft

LEMMA VerifyKeeps ==
  ASSUME PInv, NEW c \in Calls, Verify(c)
  PROVE  PInv'
<1>1. Quiet
  BY QuietWhenUnchanged, DraftTyped DEF Verify, rows
<1>2. call[c].pc = "verify" /\ "verify" \in Publishing \ {"insert"}
  BY DEF Verify, At, Publishing
<1>3. publication # None /\ (~ call[c].lost => Listed)
  BY <1>2, CallAt DEF Placed, Right
<1>4. ~ overlapped => DOMAIN listing \subseteq {publication.product}
  BY <1>2 DEF PInv, Undisturbed, Alone
<1> QED BY <1>1, <1>2, <1>3, <1>4, PublicationTyped, AfterPublicationKeeps DEF Verify

LEMMA WaitForResultKeeps ==
  ASSUME PInv, NEW c \in Calls, WaitForResult(c)
  PROVE  PInv'
<1>1. Quiet
  BY QuietWhenUnchanged, DraftTyped DEF WaitForResult, rows
<1>2. call[c].pc = "wait" /\ "wait" \in Publishing \ {"insert"} /\ "wait" \in Sending
  BY DEF WaitForResult, At, Publishing, Sending
<1>3. call[c].key \in Keys /\ publication # None
  BY <1>2, CallAt DEF Placed
<1> DEFINE k == call[c].key
           result == key[k].result
<1>4. CASE Raise(c)
  BY <1>1, <1>4, RaiseKeeps
<1>5. CASE key[k].status = "completed" /\ AfterMutation(c, result) /\ k[1] = "online"
  <2>1. ~ call[c].lost => Listed
    BY <1>2, <1>5, CallAt DEF Right
  <2>2. result \in BOOLEAN
    BY <1>3, <1>5 DEF PInv, KeysGood
  <2>3. ASSUME ~ overlapped, result = TRUE, ~ call[c].lost
        PROVE  DOMAIN listing \cap shown # {}
    <3>1. DOMAIN listing \subseteq {k[2]}
      BY <1>2, <1>5, <2>3 DEF PInv, Undisturbed, Alone
    <3>2. k = OnlineKey(k[2]) /\ k[2] \in 0..MaxBegun
      BY <1>3, <1>5, KeysOf
    <3>3. k[2] \in shown
      BY <1>5, <2>3, <3>2 DEF PInv, Undisturbed
    <3> QED BY <2>1, <2>3, <3>1, <3>3 DEF Listed
  <2>4. Claim(c, IF result THEN "live" ELSE "published")
    BY <1>5 DEF AfterMutation, Showing
  <2>5. CASE result = TRUE
    BY <1>1, <2>1, <2>3, <2>4, <2>5, ClaimKeeps
  <2>6. CASE result = FALSE
    BY <1>1, <2>1, <2>4, <2>6, ClaimKeeps
  <2> QED BY <2>2, <2>5, <2>6
<1>6. CASE key[k].status = "completed" /\ AfterMutation(c, result) /\ k[1] # "online"
  <2> DEFINE r == [call[c] EXCEPT !.pc = "put_published", !.key = None, !.row = None,
                                  !.product = result]
  <2>1. call' = [call EXCEPT ![c] = r]
    BY <1>6 DEF AfterMutation, Showing
  <2>2. k[1] = "a" /\ result \in 1..made
    BY <1>3, <1>6, KeysOf DEF PInv, KeysGood
  <2>3. overlapped
    BY <1>2, <1>6, <2>2 DEF PInv, Undisturbed, Alone
  <2>4. ~ call[c].lost => Listed
    BY <1>2, <1>6, <2>2, CallAt DEF Right, Sent
  <2>5. /\ "put_published" \in Pcs /\ "put_published" \in Publishing
        /\ "put_published" \notin Untried \cup HoldingDraft \cup Sending
    BY DEF Pcs, Publishing, Untried, HoldingDraft, Sending
  <2>6. Rowed(r) /\ r.pc = "put_published" /\ r.pub = call[c].pub /\ r.product = result
        /\ r.lost = call[c].lost
    BY <2>5, CallAt DEF Rowed
  <2> HIDE DEF r, result
  <2>7. Placed(r)
    BY <1>3, <2>2, <2>5, <2>6, CallAt DEF Placed
  <2>8. Right(r) /\ ~ Makes(r)
    BY <2>4, <2>5, <2>6 DEF Right, Makes
  <2> QED BY <1>1, <1>2, <2>1, <2>3, <2>5, <2>6, <2>7, <2>8, QuietKeeps DEF Quiet
<1> QED BY <1>4, <1>5, <1>6 DEF WaitForResult

LEMMA FindBySkuKeeps ==
  ASSUME PInv, NEW c \in Calls, FindBySku(c)
  PROVE  PInv'
<1>1. Quiet
  BY QuietWhenUnchanged, DraftTyped DEF FindBySku, rows
<1>2. call[c].pc = "find"
  BY DEF FindBySku, At
<1>3. /\ "set" \in Pcs /\ "set" \in Publishing \ {"insert"} /\ call[c].pc \in Publishing \ {"insert"}
      /\ "set" \notin Untried \cup HoldingDraft /\ "set" \in Sending
      /\ call[c].pc \in Sending
  BY <1>2 DEF Pcs, Publishing, Untried, HoldingDraft, Sending
<1>4. PICK p : /\ call' = [call EXCEPT ![c].pc = "set", ![c].product = p]
               /\ \/ p \in 1..made
                  \/ p = None /\ {x \in 1..made : Existing(x)} = {} /\ ~ Showing(c)
  BY DEF FindBySku
<1> DEFINE r == [call[c] EXCEPT !.pc = "set", !.product = p]
<1>5. call' = [call EXCEPT ![c] = r]
  BY <1>4
<1>6. Rowed(r) /\ r.pc = "set" /\ r.pub = call[c].pub /\ r.product = p
      /\ r.key = call[c].key /\ r.row = call[c].row /\ r.lost = call[c].lost
  BY <1>3, CallAt DEF Rowed
<1> HIDE DEF r
<1>7. r.key \in Keys /\ (r.key[1] = "online" => p \in 1..made)
  BY <1>3, <1>4, <1>6, CallAt DEF Placed, Showing
<1>8. p = None => ~ Listed
  <2>1. None \notin 1..made
    BY PublicationAssumption DEF PInv, TypeOK
  <2>2. DOMAIN listing \subseteq 1..made
    BY DEF PInv, TypeOK
  <2> QED BY <1>4, <2>1, <2>2 DEF Existing, Listed
<1>9. Placed(r)
  BY <1>2, <1>3, <1>4, <1>6, <1>7, CallAt DEF Placed
<1>10. Right(r)
  BY <1>2, <1>3, <1>6, CallAt DEF Right
<1>11. ~ overlapped => Alone(r) /\ LiveIsShown(r)
  BY <1>2, <1>3, <1>6, <1>8 DEF PInv, Undisturbed, Alone, LiveIsShown
<1>12. Makes(r) => Makes(call[c])
  BY <1>2, <1>3, <1>6 DEF Makes
<1> QED BY <1>1, <1>3, <1>5, <1>6, <1>9, <1>10, <1>11, <1>12, QuietKeeps DEF Quiet

LEMMA AnswerKeeps ==
  ASSUME PInv, NEW c \in Calls, Answer(c)
  PROVE  PInv'
<1>1. Quiet
  BY QuietWhenUnchanged, DraftTyped DEF Answer, rows
<1> QED BY <1>1, ReturnKeeps DEF Answer

LEMMA DieKeeps ==
  ASSUME PInv, NEW c \in Calls, Die(c)
  PROVE  PInv'
<1>1. faults' \in 0..MaxFaults
  BY PublicationAssumption, DraftTyped DEF Die
<1>2. Quiet
  BY <1>1, QuietWhenUnchanged, DraftTyped DEF Die, rows
<1> QED BY <1>2, ReturnKeeps DEF Die

-----------------------------------------------------------------------------
(* The publication, where its row, its attempts or its keys change.        *)

LEMMA SentKept ==
  ASSUME PInv, NEW c \in Calls, NEW r, call' = [call EXCEPT ![c] = r], r.pc # "complete",
         NEW k, key'[k].status = "completed" => key[k].status = "completed", Sent(k)'
  PROVE  Sent(k)
<1>1. ASSUME NEW x \in Calls, call'[x].pc = "complete"
      PROVE  call'[x] = call[x]
  BY <1>1, Moved DEF PInv
<1> QED BY <1>1 DEF Sent

LEMMA EnterKeeps ==
  ASSUME PInv, NEW c \in Calls, NEW r, call' = [call EXCEPT ![c] = r],
         UNCHANGED <<policy, rows, key, store, begun, faults>>,
         overlapped' = (overlapped \/ \E x \in Calls : call[x].pc \in Publishing),
         Placed(r), Right(r), Alone(r), LiveIsShown(r),
         r.pc # "complete", ~ Makes(r), r.pc \in Untried => call[c].pc \in Untried
  PROVE  PInv'
<1>1. TypeOK'
  BY DEF PInv, TypeOK, rows, store
<1>2. KeysGood'
  BY DEF PInv, KeysGood, rows, store
<1>3. Tallied'
  BY Typed, TallyKept DEF PInv, rows, store
<1>4. Grows
  <2>1. \A k : Sent(k)' => Sent(k)
    BY SentKept DEF rows, store
  <2> QED BY <2>1, Typed DEF PInv, Grows, rows, store
<1>5. Placed(r)'
  BY DEF Placed, Rowed, rows, store
<1>6. Right(r)'
  BY SentKept DEF Right, Listed, store, rows
<1>7. ASSUME ~ overlapped'
      PROVE  Undisturbed'
  <2>1. CallsGood /\ Undisturbed /\ \A d \in Calls : call[d].pc \notin Publishing
    BY <1>7 DEF PInv
  <2>2. Alone(r)' /\ LiveIsShown(r)'
    BY DEF Alone, LiveIsShown, Listed, rows, store
  <2>3. /\ listing' = listing /\ publication' = publication /\ shown' = shown /\ key' = key
    BY DEF rows, store
  <2>4. /\ \A p, q \in DOMAIN listing' : p = q
        /\ \A p \in 0..MaxBegun :
             LET k == OnlineKey(p) IN
             key'[k].status = "completed" /\ key'[k].result = TRUE => p \in shown'
    BY <2>1, <2>3 DEF Undisturbed
  <2> HIDE DEF OnlineKey
  <2> QED BY <2>1, <2>2, <2>3, <2>4, UndisturbedKept
<1> QED BY <1>1, <1>2, <1>3, <1>4, <1>5, <1>6, <1>7, StepKeeps

LEMMA SimpleIsGood ==
  ASSUME NEW r, Rowed(r), r.pc \notin Publishing \cup {"answered"} \cup HoldingDraft,
         r.pub = None
  PROVE  Placed(r) /\ Right(r) /\ Alone(r) /\ LiveIsShown(r) /\ ~ Makes(r) /\ r.pc # "complete"
<1>1. r.pc \notin Sending \cup {"put_publishing", "put_attempt", "put_published", "verify",
                                "reverify", "reopen", "get_draft"}
  BY DEF Publishing, Sending
<1> QED BY <1>1 DEF Placed, Right, Makes, Alone, LiveIsShown, Sending

LEMMA Raised ==
  ASSUME PInv, NEW c \in Calls, Raise(c)
  PROVE  \E r : /\ call' = [call EXCEPT ![c] = r]
                /\ Placed(r) /\ Right(r) /\ Alone(r) /\ LiveIsShown(r) /\ ~ Makes(r)
                /\ r.pc \notin Publishing \cup Untried \cup {"complete"} /\ Rowed(r)
                /\ r.pub = None
<1>1. /\ {"find_facts", "idle"} \subseteq Pcs
      /\ {"find_facts", "idle"} \cap (Publishing \cup {"answered"} \cup HoldingDraft \cup Untried)
           = {}
  BY DEF Pcs, Publishing, HoldingDraft, Untried
<1>2. CASE Forget(c, "find_facts")
  <2> DEFINE r == Forgot(call[c], "find_facts")
  <2>1. call' = [call EXCEPT ![c] = r]
    BY <1>2 DEF Forget, Forgot
  <2>2. Rowed(r) /\ r.pc = "find_facts" /\ r.pub = None
    <3>1. "find_facts" \in Pcs /\ Rowed(call[c])
      BY <1>1, CallAt
    <3> QED BY <3>1, Edits, ZenonT(30)
  <2> HIDE DEF r
  <2> QED BY <1>1, <2>1, <2>2, SimpleIsGood
<1>3. CASE Return(c)
  <2>1. call' = [call EXCEPT ![c] = Idle]
    BY <1>3 DEF Return
  <2>2. Rowed(Idle) /\ Idle.pc = "idle" /\ Idle.pub = None
    BY <1>1, CallAt, Edits
  <2> QED BY <1>1, <2>1, <2>2, SimpleIsGood
<1> QED BY <1>2, <1>3 DEF Raise

LEMMA CreatePublicationKeeps ==
  ASSUME PInv, NEW c \in Calls, CreatePublication(c)
  PROVE  PInv'
<1>1. call[c].pc = "create" /\ call[c].pc \in Untried
  BY DEF CreatePublication, At, Untried
<1>2. /\ UNCHANGED <<policy, rows, key, store, begun, faults>>
      /\ overlapped' = (overlapped \/ \E x \in Calls : call[x].pc \in Publishing)
  BY DEF CreatePublication, bounds
<1>3. /\ {"reverify", "get_publication", "insert"} \subseteq Pcs
      /\ {"reverify", "get_publication", "insert"} \cap (HoldingDraft \cup Sending) = {}
  BY DEF Pcs, Publishing, Untried, HoldingDraft, Sending
<1>4. CASE Raise(c)
  BY <1>2, <1>4, Raised, EnterKeeps
<1>5. CASE Goto(c, "insert")
  <2> DEFINE r == [call[c] EXCEPT !.pc = "insert"]
  <2>1. call' = [call EXCEPT ![c] = r]
    BY <1>5 DEF Goto
  <2>2. Rowed(r) /\ r.pc = "insert" /\ r.pub = call[c].pub
    BY <1>3, CallAt, Edits
  <2> HIDE DEF r
  <2>3. Placed(r) /\ Right(r) /\ Alone(r) /\ LiveIsShown(r) /\ ~ Makes(r)
    BY <1>3, <2>2, CallAt DEF Placed, Right, Alone, LiveIsShown, Makes
  <2> QED BY <1>1, <1>2, <2>1, <2>2, <2>3, EnterKeeps
<1>6. ASSUME publication # None, NEW pc \in {"reverify", "get_publication"},
             call' = [call EXCEPT ![c].pub = publication, ![c].pc = pc]
      PROVE  PInv'
  <2> DEFINE r == [call[c] EXCEPT !.pub = publication, !.pc = pc]
  <2>1. call' = [call EXCEPT ![c] = r]
    BY <1>6
  <2>2. publication \in Publications /\ publication.product <= made
    BY <1>6, PublicationTyped
  <2>3. Rowed(r) /\ r.pc = pc /\ r.pub = publication
    BY <1>3, <2>2, CallAt DEF Rowed
  <2> HIDE DEF r
  <2>4. Placed(r) /\ Right(r) /\ Alone(r) /\ LiveIsShown(r) /\ ~ Makes(r) /\ r.pc # "complete"
    BY <1>3, <1>6, <2>2, <2>3, CallAt DEF Placed, Right, Alone, LiveIsShown, Makes
  <2> QED BY <1>1, <1>2, <2>1, <2>3, <2>4, EnterKeeps
<1> QED BY <1>4, <1>5, <1>6 DEF CreatePublication

LEMMA PutPublicationKeeps ==
  ASSUME PInv, NEW c \in Calls, NEW r, call' = [call EXCEPT ![c] = r],
         UNCHANGED <<bounds, draft, approval, attempts, key, store, overlapped, faults>>,
         publication' \in Publications, publication'.product <= made,
         call[c].pc \in Publishing,
         Placed(r)', Right(r), ~ overlapped => Alone(r)' /\ LiveIsShown(r),
         r.pc # "complete", ~ Makes(r), r.pc \in Untried => call[c].pc \in Untried
  PROVE  PInv'
<1>1. publication' # None
  BY PublicationAssumption
<1>2. TypeOK'
  <2>1. publication' \in [status : {"approved", "publishing", "published"}, product : 0..made]
    BY Typed DEF PInv, Publications
  <2> QED BY <2>1 DEF PInv, TypeOK, bounds, store
<1>3. KeysGood'
  BY DEF PInv, KeysGood, store
<1>4. Tallied'
  BY Typed, TallyKept DEF PInv, bounds, store
<1>5. Grows
  <2>1. \A k : Sent(k)' => Sent(k)
    BY SentKept DEF store
  <2> QED BY <1>1, <2>1, Typed DEF PInv, Grows, store
<1>6. Right(r)'
  BY SentKept DEF Right, Listed, store
<1>7. ASSUME ~ overlapped'
      PROVE  Undisturbed'
  <2>1. CallsGood /\ Undisturbed /\ Alone(r)'
    BY <1>7 DEF PInv
  <2>2. LiveIsShown(r)'
    BY <1>7 DEF LiveIsShown, store
  <2>3. listing' = listing /\ shown' = shown /\ key' = key
    BY DEF store
  <2>4. /\ \A p, q \in DOMAIN listing' : p = q
        /\ \A p \in 0..MaxBegun :
             LET k == OnlineKey(p) IN
             key'[k].status = "completed" /\ key'[k].result = TRUE => p \in shown'
    BY <2>1, <2>3 DEF Undisturbed
  <2> HIDE DEF OnlineKey
  <2> QED BY <2>1, <2>2, <2>3, <2>4, UndisturbedKept
<1> QED BY <1>2, <1>3, <1>4, <1>5, <1>6, <1>7, StepKeeps

LEMMA InsertPublicationKeeps ==
  ASSUME PInv, NEW c \in Calls, InsertPublication(c)
  PROVE  PInv'
<1>1. call[c].pc = "insert" /\ call[c].pc \in Untried /\ call[c].pc \in Publishing
  BY DEF InsertPublication, At, Untried, Publishing
<1>2. CASE publication # None
  <2>1. Quiet
    BY <1>2, QuietWhenUnchanged, DraftTyped DEF InsertPublication
  <2> QED BY <1>2, <2>1, RaiseKeeps DEF InsertPublication
<1>3. CASE publication = None
  <2> PICK r : r = [call[c] EXCEPT !.pc = "get_publication"]
    OBVIOUS
  <2>1. call' = [call EXCEPT ![c] = r]
    BY <1>3 DEF InsertPublication, Goto
  <2>2. "get_publication" \in Pcs /\ "get_publication" \notin HoldingDraft \cup Sending
    BY DEF Pcs, Untried, HoldingDraft, Sending
  <2>3. Rowed(r) /\ r.pc = "get_publication" /\ r.pub = call[c].pub
    BY <2>2, CallAt, Edits
  <2>4. publication' = [status |-> "approved", product |-> 0]
    BY <1>3 DEF InsertPublication
  <2>5. publication' \in Publications /\ publication'.product <= made
    BY <2>4, Typed DEF PInv, Publications
  <2>6. made' = made /\ attempts' = attempts
    BY DEF InsertPublication, store
  <2>7. publication' # None
    BY <2>5, PublicationAssumption
  <2>8. Placed(r)'
    BY <2>2, <2>3, <2>6, <2>7, CallAt DEF Placed, Rowed
  <2>9. Right(r) /\ ~ Makes(r) /\ Alone(r)' /\ LiveIsShown(r) /\ r.pc # "complete"
    BY <2>2, <2>3 DEF Right, Makes, Alone, LiveIsShown
  <2> QED BY <1>1, <1>3, <2>1, <2>3, <2>5, <2>8, <2>9, PutPublicationKeeps
      DEF InsertPublication
<1> QED BY <1>2, <1>3

LEMMA ReopenKeeps ==
  ASSUME PInv, NEW c \in Calls, Reopen(c)
  PROVE  PInv'
<1>1. /\ call[c].pc = "reopen" /\ call[c].pc \in Untried
      /\ call[c].pc \in Publishing \ {"insert"}
  BY DEF Reopen, At, Untried, Publishing
<1>2. call[c].pub \in Publications /\ call[c].pub.product <= made
  BY <1>1, CallAt DEF Placed, Rowed
<1>3. publication' \in Publications /\ publication'.product <= made
  BY <1>2 DEF Reopen, Publications
<1> PICK r : r = Forgot(call[c], "get_publication")
  OBVIOUS
<1>4. call' = [call EXCEPT ![c] = r]
  BY DEF Reopen, Forget, Forgot
<1>5. "get_publication" \in Pcs /\ "get_publication" \notin HoldingDraft \cup Sending
  BY DEF Pcs, Untried, HoldingDraft, Sending
<1>6. Rowed(r) /\ r.pc = "get_publication" /\ r.pub = None
  <2>1. Rowed(call[c])
    BY CallAt
  <2>2. "get_publication" \in Pcs
    BY <1>5
  <2>3. /\ Rowed(Forgot(call[c], "get_publication"))
        /\ Forgot(call[c], "get_publication").pc = "get_publication"
        /\ Forgot(call[c], "get_publication").pub = None
    BY <2>1, <2>2, Edits, ZenonT(30)
  <2> QED BY <2>3
<1>7. publication' # None
  BY <1>3, PublicationAssumption
<1>8. Placed(r)'
  BY <1>5, <1>6, <1>7 DEF Placed, Rowed
<1>9. Right(r) /\ ~ Makes(r) /\ Alone(r)' /\ LiveIsShown(r) /\ r.pc # "complete"
  BY <1>5, <1>6 DEF Right, Makes, Alone, LiveIsShown
<1> QED BY <1>1, <1>3, <1>4, <1>6, <1>8, <1>9, PutPublicationKeeps DEF Reopen

LEMMA PutPublishingKeeps ==
  ASSUME PInv, NEW c \in Calls, PutPublishing(c)
  PROVE  PInv'
<1>1. /\ call[c].pc = "put_publishing" /\ call[c].pc \in Untried
      /\ call[c].pc \in Publishing \ {"insert"}
  BY DEF PutPublishing, At, Untried, Publishing
<1>2. call[c].pub \in Publications /\ call[c].pub.product <= made
  BY <1>1, CallAt DEF Placed, Rowed
<1>3. publication' \in Publications /\ publication'.product <= made
  BY <1>2 DEF PutPublishing, Publications
<1> PICK r : r = [call[c] EXCEPT !.pc = "put_attempt", !.pub = None]
  OBVIOUS
<1>4. call' = [call EXCEPT ![c] = r]
  BY DEF PutPublishing
<1>5. "put_attempt" \in Pcs /\ "put_attempt" \notin Sending
  BY DEF Pcs, Untried, Sending
<1>6. Rowed(r) /\ r.pc = "put_attempt" /\ r.pub = None /\ r.key = call[c].key
      /\ r.row = call[c].row /\ r.lost = call[c].lost
  BY <1>5, CallAt DEF Rowed
<1>7. publication' # None /\ attempts' = attempts /\ key' = key
  BY <1>3, PublicationAssumption DEF PutPublishing
<1>8. Placed(r)'
  BY <1>1, <1>5, <1>6, <1>7, CallAt DEF Placed, Rowed, HoldingDraft
<1>9. Right(r) /\ ~ Makes(r) /\ LiveIsShown(r) /\ r.pc # "complete"
  BY <1>1, <1>5, <1>6, CallAt DEF Right, Makes, LiveIsShown
<1>10. ~ overlapped => Alone(r)'
  BY <1>1, <1>5, <1>6, <1>7 DEF PInv, Undisturbed, Alone
<1> QED BY <1>1, <1>3, <1>4, <1>6, <1>8, <1>9, <1>10, PutPublicationKeeps
    DEF PutPublishing

LEMMA PutPublishedKeeps ==
  ASSUME PInv, NEW c \in Calls, PutPublished(c)
  PROVE  PInv'
<1>1. call[c].pc = "put_published" /\ call[c].pc \in Publishing \ {"insert"}
  BY DEF PutPublished, At, Publishing
<1>2. call[c].product \in 1..made
  BY <1>1, CallAt DEF Placed
<1>3. publication' = [status |-> "published", product |-> call[c].product]
  BY DEF PutPublished
<1>4. publication' \in Publications /\ publication'.product <= made
  <2>1. made \in Nat /\ call[c].product \in Nat /\ call[c].product <= made
    BY <1>2, Typed DEF PInv
  <2> QED BY <1>3, <2>1 DEF Publications
<1> PICK r : r = Forgot(call[c], "verify")
  OBVIOUS
<1>5. call' = [call EXCEPT ![c] = r]
  BY DEF PutPublished, Forget, Forgot
<1>6. "verify" \in Pcs /\ "verify" \notin HoldingDraft \cup Sending \cup Untried
  BY DEF Pcs, Publishing, Untried, HoldingDraft, Sending
<1>7. Rowed(r) /\ r.pc = "verify" /\ r.pub = None /\ r.lost = call[c].lost
  <2>1. Rowed(call[c]) /\ "verify" \in Pcs
    BY <1>6, CallAt
  <2> QED BY <2>1, Edits
<1>8. publication' # None
  BY <1>4, PublicationAssumption
<1>9. Placed(r)'
  BY <1>6, <1>7, <1>8 DEF Placed, Rowed
<1>10. Right(r) /\ ~ Makes(r) /\ LiveIsShown(r) /\ r.pc # "complete"
  BY <1>1, <1>6, <1>7, CallAt DEF Right, Makes, LiveIsShown
<1>11. ~ overlapped => Alone(r)'
  <2>1. ~ overlapped => DOMAIN listing \subseteq {call[c].product}
    BY <1>1 DEF PInv, Undisturbed, Alone
  <2>2. listing' = listing
    BY DEF PutPublished, store
  <2> QED BY <1>3, <1>6, <1>7, <2>1, <2>2 DEF Alone
<1> QED BY <1>1, <1>4, <1>5, <1>6, <1>7, <1>9, <1>10, <1>11, PutPublicationKeeps
    DEF PutPublished

LEMMA PutAttemptKeeps ==
  ASSUME PInv, NEW c \in Calls, PutAttempt(c)
  PROVE  PInv'
<1>1. /\ call[c].pc = "put_attempt" /\ call[c].pc \in Untried
      /\ call[c].pc \in Publishing \ {"insert"} /\ call[c].pc \notin Sending
  BY DEF PutAttempt, At, Untried, Publishing, Sending
<1>2. /\ publication' = publication /\ key' = key /\ listing' = listing /\ shown' = shown
      /\ made' = made /\ overlapped' = overlapped /\ begun' = begun
      /\ policy' = policy /\ draft' = draft /\ approval' = approval /\ faults' = faults
      /\ attempts' = attempts + 1
  BY DEF PutAttempt, bounds, store
<1> PICK r : r = [call[c] EXCEPT !.pc = "reserve"]
  OBVIOUS
<1>3. call' = [call EXCEPT ![c] = r]
  BY DEF PutAttempt, Goto
<1>4. /\ "reserve" \in Pcs /\ "reserve" \in Sending
      /\ "reserve" \notin Untried \cup HoldingDraft
  BY DEF Pcs, Publishing, Untried, HoldingDraft, Sending
<1>5. Rowed(r) /\ r.pc = "reserve" /\ r.pub = call[c].pub /\ r.key = call[c].key
      /\ r.row = call[c].row /\ r.lost = call[c].lost
  BY <1>4, CallAt, Edits
<1>6. Makes(r) /\ ~ Makes(call[c])
  BY <1>1, <1>4, <1>5, CallAt DEF Makes, Placed
<1>7. made \in Nat /\ attempts \in Nat /\ begun \in Nat /\ begun <= MaxBegun
      /\ MaxBegun \in Nat
  BY PublicationAssumption DEF PInv, TypeOK
<1>8. attempts + 1 <= begun /\ Tallied'
  <2>1. MayTry(call') \subseteq MayTry(call) \ {c} /\ c \in MayTry(call)
    BY <1>1, <1>3, <1>4, <1>5, Moved DEF PInv, MayTry
  <2>2. MayMake(call') \subseteq MayMake(call) \cup {c}
    BY <1>3, Moved DEF PInv, MayMake
  <2>3. IsFiniteSet(MayTry(call)) /\ IsFiniteSet(MayMake(call))
    BY DEF PInv, Tallied
  <2>4. /\ IsFiniteSet(MayTry(call')) /\ Cardinality(MayTry(call')) \in Nat
        /\ Cardinality(MayTry(call)) \in Nat
        /\ Cardinality(MayTry(call')) + 1 <= Cardinality(MayTry(call))
    BY <2>1, <2>3, Fewer
  <2>5. /\ IsFiniteSet(MayMake(call')) /\ Cardinality(MayMake(call')) \in Nat
        /\ Cardinality(MayMake(call)) \in Nat
        /\ Cardinality(MayMake(call')) <= Cardinality(MayMake(call)) + 1
    BY <2>2, <2>3, OneMore
  <2> QED BY <1>2, <1>7, <2>4, <2>5 DEF PInv, Tallied
<1>9. TypeOK'
  BY <1>2, <1>7, <1>8 DEF PInv, TypeOK
<1>10. KeysGood'
  <2>1. \A k \in Keys : k[2] \in Nat
    BY PublicationAssumption DEF Keys
  <2> QED BY <1>2, <1>7, <2>1 DEF PInv, KeysGood
<1>11. \A k : Sent(k)' => Sent(k)
  BY <1>2, <1>3, <1>5, SentKept
<1>12. Grows
  BY <1>2, <1>7, <1>11 DEF Grows
<1>13. Placed(r)'
  <2>1. r.key \in Keys /\ r.key[1] = "a" /\ r.key[2] <= attempts
    BY <1>1, <1>5, CallAt DEF Placed
  <2>2. r.key[2] < attempts'
    <3>1. r.key[2] \in Nat
      BY <2>1, PublicationAssumption DEF Keys
    <3> QED BY <1>2, <1>7, <2>1, <3>1
  <2>3. r.row \in DraftRows
    BY <1>1, <1>5, CallAt DEF Placed, HoldingDraft
  <2> QED BY <1>1, <1>2, <1>4, <1>5, <2>1, <2>2, <2>3, CallAt DEF Placed, Rowed
<1>14. Right(r)'
  BY <1>1, <1>2, <1>4, <1>5, <1>6, <1>11, CallAt DEF Right, Makes, Listed
<1>15. ASSUME ~ overlapped'
       PROVE  Undisturbed'
  <2>1. CallsGood /\ Undisturbed
    BY <1>2, <1>15 DEF PInv
  <2>2. Alone(r)' /\ LiveIsShown(r)'
    BY <1>1, <1>2, <1>4, <1>5, <1>6, <2>1 DEF Alone, LiveIsShown, Undisturbed, Makes
  <2>3. /\ \A p, q \in DOMAIN listing' : p = q
        /\ \A p \in 0..MaxBegun :
             LET k == OnlineKey(p) IN
             key'[k].status = "completed" /\ key'[k].result = TRUE => p \in shown'
    BY <1>2, <2>1 DEF Undisturbed
  <2> HIDE DEF OnlineKey
  <2> QED BY <1>1, <1>2, <1>3, <2>1, <2>2, <2>3, UndisturbedKept
<1> QED BY <1>3, <1>9, <1>8, <1>10, <1>12, <1>13, <1>14, <1>15, StepKeeps

\* A key is reserved or freed: none is completed.
LEMMA KeyKeeps ==
  ASSUME PInv, NEW c \in Calls, NEW r, call' = [call EXCEPT ![c] = r],
         UNCHANGED <<bounds, rows, store, overlapped>>, faults' \in 0..MaxFaults,
         NEW k \in Keys, NEW status \in {"free", "reserved"},
         key' = [key EXCEPT ![k] = [status |-> status, result |-> None]],
         call[c].pc \in Publishing,
         Placed(r), Right(r), ~ overlapped => Alone(r)' /\ LiveIsShown(r),
         r.pc # "complete", Makes(r) => Makes(call[c]),
         r.pc \in Untried => call[c].pc \in Untried
  PROVE  PInv'
<1>1. DOMAIN key = Keys
  BY DEF PInv, KeysGood
<1>2. \A j : key'[j].status = "completed" => key[j].status = "completed"
  BY <1>1
<1>3. TypeOK'
  BY <1>1 DEF PInv, TypeOK, bounds, rows, store
<1>4. KeysGood'
  <2>1. ASSUME NEW j \in Keys
        PROVE  /\ key'[j] \in [status : {"free", "reserved", "completed"},
                                result : {key'[j].result}]
               /\ key'[j].status = "completed" => key'[j] = key[j]
    BY <1>1 DEF PInv, KeysGood
  <2>2. attempts' = attempts /\ made' = made /\ DOMAIN key' = Keys
        /\ key' = [j \in Keys |-> key'[j]]
    BY <1>1 DEF rows, store, PInv, KeysGood
  <2> QED BY <2>1, <2>2 DEF PInv, KeysGood
<1>5. Tallied'
  BY Typed, TallyKept DEF PInv, bounds, rows, store
<1>6. \A j : Sent(j)' => Sent(j)
  BY <1>2, SentKept
<1>7. Grows
  BY <1>6, Typed DEF PInv, Grows, rows, store
<1>8. Placed(r)'
  BY DEF Placed, Rowed, rows, store
<1>9. Right(r)'
  BY <1>6 DEF Right, Listed, store
<1>10. ASSUME ~ overlapped'
       PROVE  Undisturbed'
  <2>1. CallsGood /\ Undisturbed /\ Alone(r)'
    BY <1>10 DEF PInv
  <2>2. LiveIsShown(r)'
    BY <1>10 DEF LiveIsShown, store
  <2>3. listing' = listing /\ shown' = shown
    BY DEF store
  <2>4. \A p, q \in DOMAIN listing' : p = q
    BY <2>1, <2>3 DEF Undisturbed
  <2>5. ASSUME NEW p \in 0..MaxBegun, key'[OnlineKey(p)].status = "completed",
               key'[OnlineKey(p)].result = TRUE
        PROVE  p \in shown'
    <3>1. key'[OnlineKey(p)] = key[OnlineKey(p)]
      BY <1>1, <2>5, KeysOf
    <3> QED BY <2>1, <2>3, <2>5, <3>1 DEF Undisturbed
  <2> HIDE DEF OnlineKey
  <2> QED BY <2>1, <2>2, <2>3, <2>4, <2>5, UndisturbedKept
<1> QED BY <1>3, <1>4, <1>5, <1>7, <1>8, <1>9, <1>10, StepKeeps

LEMMA Reserved ==
  ASSUME PInv, NEW c \in Calls, call[c].pc = "reserve", NEW r, NEW pc \in {"find", "wait"},
         r = [call[c] EXCEPT !.pc = pc]
  PROVE  /\ Placed(r) /\ Right(r) /\ (Makes(r) => Makes(call[c]))
         /\ r.pc = pc /\ r.key = call[c].key /\ LiveIsShown(r)
         /\ r.pc \notin Untried \cup {"complete"}
         /\ call[c].pc \in Publishing
<1>1. /\ call[c].pc \in Sending /\ call[c].pc \in Publishing \ {"insert"}
      /\ pc \in Pcs /\ pc \in Publishing \ {"insert"} /\ pc \in Sending
      /\ pc \notin Untried \cup HoldingDraft \cup {"complete"}
  BY DEF Pcs, Publishing, Untried, HoldingDraft, Sending
<1>2. Rowed(r) /\ r.pc = pc /\ r.pub = call[c].pub /\ r.key = call[c].key
      /\ r.row = call[c].row /\ r.lost = call[c].lost
  <2>1. Rowed(call[c])
    BY CallAt
  <2> QED BY <1>1, <2>1, Edits
<1>3. Placed(r)
  BY <1>1, <1>2, CallAt DEF Placed
<1>4. Right(r)
  BY <1>1, <1>2, CallAt DEF Right
<1>5. Makes(r) => Makes(call[c])
  BY <1>1, <1>2 DEF Makes
<1> QED BY <1>1, <1>2, <1>3, <1>4, <1>5 DEF LiveIsShown

LEMMA ReserveKeeps ==
  ASSUME PInv, NEW c \in Calls, Reserve(c)
  PROVE  PInv'
<1> DEFINE k == call[c].key
<1>1. call[c].pc = "reserve" /\ call[c].pc \in Sending
  BY DEF Reserve, At, Sending
<1>2. k \in Keys
  BY <1>1, CallAt DEF Placed
<1>3. UNCHANGED <<bounds, rows, store, overlapped, faults>> /\ faults' \in 0..MaxFaults
  BY DraftTyped DEF Reserve
<1>4. ASSUME UNCHANGED key, NEW pc \in {"find", "wait"}, Goto(c, pc)
      PROVE  PInv'
  <2>1. Quiet
    BY <1>3, <1>4, QuietWhenUnchanged, DraftTyped DEF rows
  <2> PICK r : r = [call[c] EXCEPT !.pc = pc]
    OBVIOUS
  <2>2. call' = [call EXCEPT ![c] = r]
    BY <1>4 DEF Goto
  <2>3. /\ Placed(r) /\ Right(r) /\ (Makes(r) => Makes(call[c]))
        /\ r.pc = pc /\ r.key = call[c].key /\ LiveIsShown(r)
        /\ r.pc \notin Untried \cup {"complete"} /\ call[c].pc \in Publishing
    BY <1>1, Reserved
  <2>4. ~ overlapped => Alone(r)
    BY <1>1, <2>3 DEF PInv, Undisturbed, Alone, Sending
  <2> QED BY <2>1, <2>2, <2>3, <2>4, QuietKeeps DEF Quiet
<1>5. CASE key' = [key EXCEPT ![k].status = "reserved"] /\ Goto(c, "find") /\ key[k] = Free
  <2> PICK r : r = [call[c] EXCEPT !.pc = "find"]
    OBVIOUS
  <2>1. call' = [call EXCEPT ![c] = r]
    BY <1>5 DEF Goto
  <2>2. /\ Placed(r) /\ Right(r) /\ (Makes(r) => Makes(call[c]))
        /\ r.pc = "find" /\ r.key = k /\ LiveIsShown(r)
        /\ r.pc \notin Untried \cup {"complete"} /\ call[c].pc \in Publishing
    BY <1>1, Reserved
  <2>3. key' = [key EXCEPT ![k] = [status |-> "reserved", result |-> None]]
    <3>1. [key[k] EXCEPT !.status = "reserved"] = [status |-> "reserved", result |-> None]
      BY <1>5 DEF Free
    <3> QED BY <1>5, <3>1
  <2>4. key'[k].status # "completed"
    <3>1. k \in DOMAIN key
      BY <1>2 DEF PInv, KeysGood
    <3> HIDE DEF k
    <3> QED BY <2>3, <3>1
  <2>5. ~ overlapped => Alone(r)'
    <3>1. ~ overlapped => Alone(call[c])
      BY DEF PInv, Undisturbed
    <3>2. listing' = listing
      BY <1>3 DEF store
    <3> HIDE DEF k
    <3>3. k = call[c].key
      BY DEF k
    <3> QED BY <1>1, <2>2, <2>4, <3>1, <3>2, <3>3 DEF Alone
  <2> HIDE DEF k
  <2> QED BY <1>2, <1>3, <2>1, <2>2, <2>3, <2>5, KeyKeeps
<1> QED BY <1>4, <1>5 DEF Reserve

LEMMA MutationFailsKeeps ==
  ASSUME PInv, NEW c \in Calls, MutationFails(c)
  PROVE  PInv'
<1> DEFINE k == call[c].key
<1>1. call[c].pc \in Sending /\ call[c].pc \in Publishing
  BY DEF MutationFails, At, Sending, Publishing
<1>2. k \in Keys
  BY <1>1, CallAt DEF Placed
<1>3. UNCHANGED <<bounds, rows, store, overlapped>> /\ faults' \in 0..MaxFaults /\ Raise(c)
  BY PublicationAssumption, DraftTyped DEF MutationFails
<1>4. CASE key' = key
  <2>1. Quiet
    BY <1>3, <1>4, QuietWhenUnchanged DEF rows
  <2> QED BY <1>3, <2>1, RaiseKeeps
<1>5. CASE key' = [key EXCEPT ![k] = Free]
  <2>1. PICK r :
          /\ call' = [call EXCEPT ![c] = r]
          /\ Placed(r) /\ Right(r) /\ Alone(r) /\ LiveIsShown(r) /\ ~ Makes(r)
          /\ r.pc \notin Publishing \cup Untried \cup {"complete"} /\ Rowed(r)
          /\ r.pub = None
    BY <1>3, Raised
  <2>2. r.pc \notin Sending \cup {"put_publishing", "put_attempt", "put_published", "verify"}
    BY <2>1 DEF Publishing, Sending
  <2>3. Alone(r)'
    BY <2>2 DEF Alone, Sending
  <2>4. key' = [key EXCEPT ![k] = [status |-> "free", result |-> None]]
    BY <1>5 DEF Free
  <2> HIDE DEF k
  <2> QED BY <1>1, <1>2, <1>3, <2>1, <2>3, <2>4, KeyKeeps
<1> QED BY <1>4, <1>5 DEF MutationFails

-----------------------------------------------------------------------------
(* The storefront.                                                         *)

LEMMA SetProductKeeps ==
  ASSUME PInv, NEW c \in Calls, SetProduct(c)
  PROVE  PInv'
<1>1. /\ call[c].pc = "set" /\ call[c].pc \in Sending /\ call[c].pc \in Publishing \ {"insert"}
  BY DEF SetProduct, At, Sending, Publishing
<1>2. call[c].key \in Keys /\ publication # None
  BY <1>1, CallAt DEF Placed
<1>3. call[c].key[1] = "a"
  BY <1>2, KeysOf DEF SetProduct, Showing
<1>4. call[c].key[2] < attempts /\ call[c].product \in 1..made \cup {None}
  BY <1>1, <1>3, CallAt DEF Placed
<1>5. made \in Nat /\ attempts \in Nat /\ begun \in Nat /\ attempts <= MaxBegun
      /\ MaxBegun \in Nat /\ DOMAIN listing \subseteq 1..made /\ shown \subseteq 1..made
      /\ None \notin Nat
  BY PublicationAssumption DEF PInv, TypeOK
<1> DEFINE q == IF call[c].product = None THEN made + 1 ELSE call[c].product
<1> PICK p : p = q
  OBVIOUS
<1>6. /\ UNCHANGED <<bounds, rows, key, shown, overlapped, faults>>
      /\ made' = IF p > made THEN p ELSE made
      /\ call[c].product = None \/ call[c].product \in DOMAIN listing
      /\ listing' = [x \in DOMAIN listing \cup {p} |-> IF x = p THEN call[c].row.price ELSE listing[x]]
      /\ call' = [call EXCEPT ![c].pc = "complete", ![c].row = None, ![c].product = p]
  BY DEF SetProduct, Put
<1>7. p \in Nat \ {0} /\ p <= made + 1 /\ (call[c].product # None => p \in 1..made)
      /\ (call[c].product = None => p = made + 1)
  BY <1>4, <1>5
<1> HIDE DEF q
<1>8. made' \in Nat /\ made <= made' /\ made' <= made + 1 /\ p \in 1..made'
      /\ 1..made \subseteq 1..made' /\ (call[c].product # None => made' = made)
  BY <1>5, <1>6, <1>7
<1>9. DOMAIN listing' = DOMAIN listing \cup {p}
  BY <1>6
<1> PICK r : r = [call[c] EXCEPT !.pc = "complete", !.row = None, !.product = p]
  OBVIOUS
<1>10. call' = [call EXCEPT ![c] = r]
  BY <1>6
<1>11. /\ "complete" \in Pcs /\ "complete" \in Sending
       /\ "complete" \notin Untried \cup HoldingDraft
  BY DEF Pcs, Publishing, Untried, HoldingDraft, Sending
<1>12. Rowed(r) /\ r.pc = "complete" /\ r.pub = call[c].pub /\ r.key = call[c].key
       /\ r.product = p /\ r.lost = call[c].lost
  BY <1>11, CallAt DEF Rowed
<1>13. Makes(call[c]) /\ ~ Makes(r)
  BY <1>1, <1>3, <1>12 DEF Makes
<1>14. made + 1 <= attempts /\ Tallied'
  <2>1. MayTry(call') \subseteq MayTry(call)
    BY <1>10, <1>11, <1>12, Moved DEF PInv, MayTry
  <2>2. MayMake(call') \subseteq MayMake(call) \ {c} /\ c \in MayMake(call)
    BY <1>10, <1>13, Moved DEF PInv, MayMake
  <2>3. IsFiniteSet(MayTry(call)) /\ IsFiniteSet(MayMake(call))
    BY DEF PInv, Tallied
  <2>4. /\ IsFiniteSet(MayTry(call')) /\ Cardinality(MayTry(call')) \in Nat
        /\ Cardinality(MayTry(call)) \in Nat
        /\ Cardinality(MayTry(call')) <= Cardinality(MayTry(call))
    BY <2>1, <2>3, FS_Subset, FS_CardinalityType
  <2>5. /\ IsFiniteSet(MayMake(call')) /\ Cardinality(MayMake(call')) \in Nat
        /\ Cardinality(MayMake(call)) \in Nat
        /\ Cardinality(MayMake(call')) + 1 <= Cardinality(MayMake(call))
    BY <2>2, <2>3, Fewer
  <2>6. attempts' = attempts /\ begun' = begun
    BY <1>6 DEF bounds, rows
  <2> QED BY <1>5, <1>8, <2>4, <2>5, <2>6 DEF PInv, Tallied
<1>15. TypeOK'
  <2>1. made' \in 0..MaxBegun
    BY <1>5, <1>8, <1>14
  <2>2. DOMAIN listing' \subseteq 1..made' /\ shown' \subseteq 1..made'
    BY <1>5, <1>6, <1>8, <1>9
  <2>3. publication' \in [status : {"approved", "publishing", "published"},
                          product : 0..made'] \cup {None}
    <3>1. 0..made \subseteq 0..made'
      BY <1>5, <1>8
    <3> QED BY <1>6, <3>1 DEF PInv, TypeOK, rows
  <2> QED BY <1>6, <2>1, <2>2, <2>3 DEF PInv, TypeOK, bounds, rows
<1>16. KeysGood'
  <2>1. key' = key /\ attempts' = attempts
    BY <1>6 DEF rows
  <2> QED BY <1>8, <2>1 DEF PInv, KeysGood
<1>17. Listed'
  BY <1>9 DEF Listed
<1>18. Grows
  BY <1>5, <1>6, <1>8, <1>9, <1>17 DEF Grows, rows
<1>19. Placed(r)'
  <2>1. attempts' = attempts /\ publication' = publication
    BY <1>6 DEF rows
  <2>2. r.pub # None => r.pub.product <= made'
    <3>1. r.pub # None => r.pub.product \in Nat /\ r.pub.product <= made
      BY <1>12, CallAt DEF Placed, Rowed, Publications
    <3> QED BY <1>5, <1>8, <3>1
  <2> QED BY <1>2, <1>3, <1>4, <1>8, <1>11, <1>12, <2>1, <2>2 DEF Placed, Rowed
<1>20. Right(r)'
  BY <1>17 DEF Right
<1>21. ASSUME ~ overlapped'
       PROVE  Undisturbed'
  <2>1. CallsGood /\ Undisturbed
    BY <1>6, <1>21 DEF PInv
  <2>2. DOMAIN listing' = {p}
    <3>1. CASE call[c].product = None
      BY <1>1, <1>3, <1>9, <2>1, <3>1 DEF Undisturbed, Alone, Listed
    <3>2. CASE call[c].product # None
      <4>1. p \in DOMAIN listing
        BY <1>6, <3>2 DEF q
      <4> QED BY <1>9, <2>1, <4>1 DEF Undisturbed
    <3> QED BY <3>1, <3>2
  <2>3. key' = key /\ shown' = shown /\ publication' = publication
    BY <1>6 DEF rows
  <2>4. Alone(r)' /\ LiveIsShown(r)'
    BY <1>1, <1>3, <1>11, <1>12, <2>1, <2>2, <2>3 DEF Alone, LiveIsShown, Undisturbed
  <2>5. \A x, y \in DOMAIN listing' : x = y
    BY <2>2
  <2>6. \A x \in 0..MaxBegun :
          LET k == OnlineKey(x) IN
          key'[k].status = "completed" /\ key'[k].result = TRUE => x \in shown'
    BY <2>1, <2>3 DEF Undisturbed
  <2> HIDE DEF OnlineKey
  <2> QED BY <1>1, <1>9, <1>10, <2>1, <2>3, <2>4, <2>5, <2>6, UndisturbedKept
<1> QED BY <1>10, <1>14, <1>15, <1>16, <1>18, <1>19, <1>20, <1>21, StepKeeps

LEMMA ShowProductKeeps ==
  ASSUME PInv, NEW c \in Calls, ShowProduct(c)
  PROVE  PInv'
<1>1. /\ call[c].pc = "set" /\ call[c].pc \in Sending /\ call[c].pc \in Publishing \ {"insert"}
      /\ call[c].key[1] = "online"
  BY DEF ShowProduct, At, Sending, Publishing, Showing
<1>2. call[c].key \in Keys /\ publication # None
  BY <1>1, CallAt DEF Placed
<1>3. PICK seen \in BOOLEAN : call' = [call EXCEPT ![c].pc = "complete", ![c].product = seen]
  BY DEF ShowProduct
<1>4. /\ UNCHANGED <<bounds, rows, key, listing, made, overlapped, faults>>
      /\ shown' = shown \cup {call[c].product} /\ call[c].product \in DOMAIN listing
  BY DEF ShowProduct
<1> PICK r : r = [call[c] EXCEPT !.pc = "complete", !.product = seen]
  OBVIOUS
<1>5. call' = [call EXCEPT ![c] = r]
  BY <1>3
<1>6. /\ "complete" \in Pcs /\ "complete" \in Sending
      /\ "complete" \notin Untried \cup HoldingDraft
  BY DEF Pcs, Publishing, Untried, HoldingDraft, Sending
<1>7. Rowed(r) /\ r.pc = "complete" /\ r.pub = call[c].pub /\ r.key = call[c].key
      /\ r.product = seen /\ r.lost = call[c].lost
  BY <1>6, CallAt DEF Rowed
<1>8. TypeOK'
  BY <1>4 DEF PInv, TypeOK, bounds, rows
<1>9. KeysGood'
  BY <1>4 DEF PInv, KeysGood, rows
<1>10. Tallied'
  BY <1>4, <1>5, <1>6, <1>7, Typed, TallyKept DEF PInv, Makes, bounds, rows
<1>11. ASSUME NEW k \in Keys, k[1] = "a", Sent(k)'
       PROVE  Sent(k)
  <2>1. ASSUME NEW x \in Calls, call'[x].pc = "complete", call'[x].key = k
        PROVE  call'[x] = call[x]
    BY <1>1, <1>5, <1>7, <1>11, <2>1, Moved DEF PInv
  <2> QED BY <1>4, <1>11, <2>1 DEF Sent
<1>12. Grows
  BY <1>4, <1>11, Typed DEF PInv, Grows, rows
<1>13. Placed(r)'
  BY <1>1, <1>2, <1>4, <1>6, <1>7, CallAt DEF Placed, Rowed, rows
<1>14. Right(r)'
  BY <1>1, <1>4, <1>6, <1>7, CallAt DEF Right, Listed
<1>15. ASSUME ~ overlapped'
       PROVE  Undisturbed'
  <2>1. CallsGood /\ Undisturbed
    BY <1>4, <1>15 DEF PInv
  <2>2. key' = key /\ publication' = publication /\ listing' = listing
    BY <1>4 DEF rows
  <2>3. DOMAIN listing \subseteq {call[c].key[2]}
    BY <1>1, <2>1 DEF Undisturbed, Alone
  <2>4. call[c].key[2] \in shown'
    BY <1>4, <2>3
  <2>5. Alone(r)' /\ LiveIsShown(r)'
    BY <1>1, <1>7, <2>2, <2>3, <2>4 DEF Alone, LiveIsShown
  <2>6. \A x, y \in DOMAIN listing' : x = y
    BY <2>1, <2>2 DEF Undisturbed
  <2>7. \A x \in 0..MaxBegun :
          LET k == OnlineKey(x) IN
          key'[k].status = "completed" /\ key'[k].result = TRUE => x \in shown'
    BY <1>4, <2>1, <2>2 DEF Undisturbed
  <2> HIDE DEF OnlineKey
  <2> QED BY <1>1, <1>4, <1>5, <2>1, <2>2, <2>5, <2>6, <2>7, UndisturbedKept
<1> QED BY <1>5, <1>8, <1>9, <1>10, <1>12, <1>13, <1>14, <1>15, StepKeeps

LEMMA CompleteKeeps ==
  ASSUME PInv, NEW c \in Calls, Complete(c)
  PROVE  PInv'
<1> PICK k : k = call[c].key
  OBVIOUS
<1> PICK p : p = call[c].product
  OBVIOUS
<1>1. /\ call[c].pc = "complete" /\ call[c].pc \in Sending
      /\ call[c].pc \in Publishing \ {"insert"}
  BY DEF Complete, At, Sending, Publishing
<1>2. k \in Keys /\ publication # None /\ k[1] \in {"a", "online"}
  BY <1>1, CallAt, KeysOf DEF Placed
<1>3. /\ k[1] = "a" => k[2] < attempts /\ p \in 1..made
      /\ k[1] = "online" => p \in BOOLEAN
  BY <1>1, CallAt DEF Placed
<1>4. /\ UNCHANGED <<bounds, rows, store, overlapped, faults>>
      /\ key' = IF Unshared(c) THEN key
                ELSE [key EXCEPT ![k] = [status |-> "completed", result |-> p]]
      /\ AfterMutation(c, p)
  BY DEF Complete
<1>5. DOMAIN key = Keys
  BY DEF PInv, KeysGood
<1>6. ~ call[c].lost => Listed
  BY <1>1, <1>2, CallAt DEF Right, Sent
<1> PICK r : r = IF k[1] = "online"
                THEN Claimed(call[c], IF p THEN "live" ELSE "published")
                ELSE [call[c] EXCEPT !.pc = "put_published", !.key = None, !.row = None,
                                     !.product = p]
  OBVIOUS
<1>7. call' = [call EXCEPT ![c] = r]
  <2>1. CASE k[1] = "online"
    BY <1>4, <2>1 DEF AfterMutation, Showing, Claim, Claimed
  <2>2. CASE k[1] # "online"
    BY <1>4, <2>2 DEF AfterMutation, Showing
  <2> QED BY <2>1, <2>2
<1>8. /\ {"answered", "put_published"} \subseteq Pcs /\ "put_published" \in Publishing
      /\ {"answered", "put_published"} \cap (Untried \cup HoldingDraft \cup Sending) = {}
      /\ "answered" \notin Publishing
  BY DEF Pcs, Publishing, Untried, HoldingDraft, Sending
<1>9. /\ Rowed(r) /\ r.lost = call[c].lost
      /\ k[1] = "online" => /\ r.pc = "answered" /\ r.pub = None
                            /\ r.claim = "live" => p = TRUE
      /\ k[1] = "a" => r.pc = "put_published" /\ r.pub = call[c].pub /\ r.product = p
  <2>1. CASE k[1] = "online"
    <3>1. PICK claim \in {"published", "live"} :
            r = Claimed(call[c], claim) /\ (claim = "live" => p = TRUE)
      BY <1>3, <1>7, <2>1
    <3>2. call[c].lost \in BOOLEAN /\ "answered" \in Pcs
      BY <1>8, CallAt DEF Rowed
    <3>3. r = [pc |-> "answered", kind |-> None, row |-> None, approval |-> None,
               pub |-> None, key |-> None, product |-> None, claim |-> claim,
               lost |-> call[c].lost]
      BY <3>1 DEF Claimed, Idle
    <3> QED BY <2>1, <3>1, <3>2, <3>3 DEF Rowed
  <2>2. CASE k[1] = "a"
    BY <1>7, <1>8, <2>2, CallAt, ZenonT(30) DEF Rowed
  <2> QED BY <1>2, <2>1, <2>2
<1>10. /\ listing' = listing /\ shown' = shown /\ made' = made /\ attempts' = attempts
       /\ publication' = publication /\ begun' = begun /\ overlapped' = overlapped
  BY <1>4 DEF bounds, rows, store
<1>11. \A j \in Keys : key'[j] = key[j] \/ (j = k /\ key'[j] = [status |-> "completed", result |-> p])
  BY <1>4, <1>5
<1>12. TypeOK'
  BY <1>4, <1>10, <1>11 DEF PInv, TypeOK, bounds, rows
<1>13. KeysGood'
  <2>1. DOMAIN key' = Keys /\ key' = [j \in Keys |-> key'[j]]
    BY <1>4, <1>5 DEF PInv, KeysGood
  <2>2. ASSUME NEW j \in Keys
        PROVE  /\ key'[j] \in [status : {"free", "reserved", "completed"}, result : {key'[j].result}]
               /\ key'[j].status = "completed" =>
                    /\ j[1] = "a" => j[2] < attempts /\ key'[j].result \in 1..made
                    /\ j[1] = "online" => key'[j].result \in BOOLEAN
    <3>1. CASE key'[j] = key[j]
      BY <3>1 DEF PInv, KeysGood
    <3>2. CASE j = k /\ key'[j] = [status |-> "completed", result |-> p]
      BY <1>3, <3>2
    <3> QED BY <1>11, <3>1, <3>2
  <2> QED BY <1>10, <2>1, <2>2 DEF KeysGood
<1>14. r.pc \notin Untried \cup {"complete"} /\ ~ Makes(r)
  BY <1>2, <1>8, <1>9 DEF Makes, Sending
<1>15. Tallied'
  BY <1>7, <1>10, <1>14, Typed, TallyKept DEF PInv
<1>16. ASSUME NEW j \in Keys, Sent(j)'
       PROVE  Sent(j)
  <2>1. ASSUME NEW x \in Calls, call'[x].pc = "complete"
        PROVE  call'[x] = call[x]
    BY <1>7, <1>14, <2>1, Moved DEF PInv
  <2>2. CASE key'[j] = key[j]
    BY <1>16, <2>1, <2>2 DEF Sent
  <2>3. CASE j = k
    BY <1>1, <2>3 DEF Sent
  <2> QED BY <1>11, <2>2, <2>3
<1>17. Grows
  BY <1>10, <1>16, Typed DEF PInv, Grows
<1>18. Placed(r)'
  <2>1. Placed(r)
    BY <1>2, <1>3, <1>8, <1>9, CallAt DEF Placed
  <2> QED BY <1>10, <2>1 DEF Placed, Rowed
<1>19. Right(r)'
  BY <1>2, <1>6, <1>8, <1>9, <1>10 DEF Right, Listed
<1>20. ASSUME ~ overlapped'
       PROVE  Undisturbed'
  <2>1. CallsGood /\ Undisturbed /\ Alone(call[c])
    BY <1>10, <1>20 DEF PInv, Undisturbed
  <2>2. k[1] = "online" /\ p = TRUE => k[2] \in shown
    BY <1>1, <2>1 DEF Alone
  <2>3. ASSUME NEW x \in 0..MaxBegun, key'[OnlineKey(x)].status = "completed",
               key'[OnlineKey(x)].result = TRUE
        PROVE  x \in shown'
    <3>1. OnlineKey(x) \in Keys /\ OnlineKey(x)[1] = "online" /\ OnlineKey(x)[2] = x
      BY KeysOf
    <3>2. CASE key'[OnlineKey(x)] = key[OnlineKey(x)]
      BY <1>10, <2>1, <2>3, <3>2 DEF Undisturbed
    <3>3. CASE OnlineKey(x) = k /\ key'[OnlineKey(x)] = [status |-> "completed", result |-> p]
      BY <1>10, <2>2, <2>3, <3>1, <3>3
    <3> QED BY <1>11, <3>1, <3>2, <3>3
  <2>4. Alone(r)'
    <3>1. k[1] = "a" => DOMAIN listing \subseteq {p}
      BY <1>1, <2>1 DEF Alone
    <3> QED BY <1>2, <1>8, <1>9, <1>10, <3>1 DEF Alone
  <2>5. LiveIsShown(r)'
    <3>1. k[1] = "online" => DOMAIN listing \subseteq {k[2]}
      BY <1>1, <2>1 DEF Alone
    <3> QED BY <1>2, <1>6, <1>8, <1>9, <1>10, <2>2, <3>1 DEF LiveIsShown, Listed
  <2>6. \A x, y \in DOMAIN listing' : x = y
    BY <1>10, <2>1 DEF Undisturbed
  <2> HIDE DEF OnlineKey
  <2> QED BY <1>1, <1>7, <1>10, <2>1, <2>3, <2>4, <2>5, <2>6, UndisturbedKept
<1> QED BY <1>7, <1>12, <1>13, <1>15, <1>17, <1>18, <1>19, <1>20, StepKeeps

LEMMA DeleteProductKeeps ==
  ASSUME PInv, DeleteProduct
  PROVE  PInv'
<1>1. /\ UNCHANGED <<bounds, rows, key, shown, made, overlapped>>
      /\ call' = [c \in Calls |-> IF At(c, "idle") THEN call[c] ELSE [call[c] EXCEPT !.lost = TRUE]]
  BY DEF DeleteProduct
<1>2. PICK p \in DOMAIN listing : listing' = [x \in DOMAIN listing \ {p} |-> listing[x]]
  BY DEF DeleteProduct
<1>3. DOMAIN listing' \subseteq DOMAIN listing
  BY <1>2
<1>4. ASSUME NEW c \in Calls
      PROVE  /\ Rowed(call'[c]) /\ call'[c].pc = call[c].pc /\ call'[c].row = call[c].row
             /\ call'[c].pub = call[c].pub /\ call'[c].key = call[c].key
             /\ call'[c].product = call[c].product /\ call'[c].claim = call[c].claim
             /\ call[c].pc # "idle" => call'[c].lost = TRUE
  <2>1. Rowed(call[c])
    BY CallAt
  <2>2. CASE At(c, "idle")
    BY <1>1, <2>1, <2>2 DEF At
  <2>3. CASE ~ At(c, "idle")
    <3>1. call'[c] = [call[c] EXCEPT !.lost = TRUE]
      BY <1>1, <2>3
    <3> QED BY <2>1, <2>3, <3>1 DEF Rowed, At
  <2> QED BY <2>2, <2>3
<1>5. faults' \in 0..MaxFaults
  BY PublicationAssumption, DraftTyped DEF DeleteProduct
<1>6. TypeOK'
  BY <1>1, <1>3, <1>5 DEF PInv, TypeOK, bounds, rows
<1>7. KeysGood'
  BY <1>1 DEF PInv, KeysGood, rows
<1>8. MayTry(call') = MayTry(call) /\ MayMake(call') = MayMake(call)
  BY <1>4 DEF MayTry, MayMake, Makes
<1>9. Tallied'
  BY <1>1, <1>8 DEF PInv, Tallied, bounds, rows
<1>10. /\ publication' = publication /\ made' = made /\ attempts' = attempts
       /\ key' = key /\ shown' = shown /\ overlapped' = overlapped
  BY <1>1 DEF rows
<1>11. CallsGood'
  <2>1. ASSUME NEW c \in Calls
        PROVE  Placed(call[c])' /\ Right(call[c])'
    <3>1. Placed(call[c])'
      <4>1. Placed(call[c]) /\ Rowed(call'[c])
        BY <1>4, CallAt
      <4> QED BY <1>4, <1>10, <4>1, ZenonT(30) DEF Placed, Rowed
    <3>2. Right(call[c])'
      BY <1>4 DEF Right, Sending
    <3> QED BY <3>1, <3>2
  <2> QED BY <1>1, <2>1 DEF CallsGood
<1>12. ASSUME ~ overlapped'
       PROVE  Undisturbed'
  <2>1. Undisturbed
    BY <1>10, <1>12 DEF PInv
  <2>2. ASSUME NEW c \in Calls
        PROVE  Alone(call[c])' /\ LiveIsShown(call[c])'
    <3>1. Alone(call[c])
      BY <2>1 DEF Undisturbed
    <3>2. Alone(call[c])'
      BY <1>3, <1>4, <1>10, <3>1 DEF Alone, Listed
    <3>3. LiveIsShown(call[c])'
      BY <1>4 DEF LiveIsShown
    <3> QED BY <3>2, <3>3
  <2>3. \A c, d \in Calls :
          call'[c].pc \in Publishing /\ call'[d].pc \in Publishing => c = d
    BY <1>4, <2>1 DEF Undisturbed
  <2> QED BY <1>3, <1>10, <2>1, <2>2, <2>3 DEF Undisturbed
<1> QED BY <1>6, <1>7, <1>9, <1>11, <1>12 DEF PInv

-----------------------------------------------------------------------------
(* A call begins.                                                          *)

LEMMA BeginsKeeps ==
  ASSUME PInv, NEW c \in Calls, NEW r, call' = [call EXCEPT ![c] = r],
         UNCHANGED <<policy, rows, key, store, overlapped, faults>>,
         begun < MaxBegun, begun' = begun + 1,
         Rowed(r), r.pc \notin Publishing \cup {"answered"}, r.pub = None,
         r.pc \in HoldingDraft => r.row \in DraftRows
  PROVE  PInv'
<1>1. r.pc \notin Sending \cup {"put_publishing", "put_attempt", "put_published", "verify",
                                "reverify", "reopen", "get_draft"}
  BY DEF Publishing, Sending
<1>2. Placed(r) /\ Right(r) /\ ~ Makes(r) /\ Alone(r) /\ LiveIsShown(r)
  BY <1>1 DEF Placed, Right, Makes, Alone, LiveIsShown, Sending
<1>3. /\ publication' = publication /\ listing' = listing /\ shown' = shown /\ made' = made
      /\ key' = key /\ attempts' = attempts /\ overlapped' = overlapped
  BY DEF rows, store
<1>4. TypeOK'
  BY PublicationAssumption DEF PInv, TypeOK, rows, store
<1>5. KeysGood'
  BY <1>3 DEF PInv, KeysGood
<1>6. Tallied'
  <2>1. MayTry(call') \subseteq MayTry(call) \cup {c} /\ MayMake(call') \subseteq MayMake(call)
    BY <1>2, Moved DEF PInv, MayTry, MayMake
  <2>2. IsFiniteSet(MayTry(call)) /\ IsFiniteSet(MayMake(call))
    BY DEF PInv, Tallied
  <2>3. /\ IsFiniteSet(MayTry(call')) /\ Cardinality(MayTry(call')) \in Nat
        /\ Cardinality(MayTry(call)) \in Nat
        /\ Cardinality(MayTry(call')) <= Cardinality(MayTry(call)) + 1
    BY <2>1, <2>2, OneMore
  <2>4. /\ IsFiniteSet(MayMake(call'))
        /\ Cardinality(MayMake(call')) <= Cardinality(MayMake(call))
        /\ Cardinality(MayMake(call)) \in Nat /\ Cardinality(MayMake(call')) \in Nat
    BY <2>1, <2>2, FS_Subset, FS_CardinalityType
  <2> QED BY <1>3, <2>3, <2>4, Typed DEF PInv, Tallied
<1>7. Grows
  <2>1. \A k : Sent(k)' => Sent(k)
    BY <1>1, <1>3, SentKept DEF Sending
  <2> QED BY <1>3, <2>1, Typed DEF PInv, Grows
<1>8. Placed(r)'
  BY <1>2, <1>3 DEF Placed, Rowed
<1>9. Right(r)'
  BY <1>1 DEF Right, Sending
<1>10. ASSUME ~ overlapped'
       PROVE  Undisturbed'
  <2>1. CallsGood /\ Undisturbed
    BY <1>3, <1>10 DEF PInv
  <2>2. Alone(r)' /\ LiveIsShown(r)'
    BY <1>1 DEF Alone, LiveIsShown, Sending
  <2>3. /\ \A p, q \in DOMAIN listing' : p = q
        /\ \A p \in 0..MaxBegun :
             LET k == OnlineKey(p) IN
             key'[k].status = "completed" /\ key'[k].result = TRUE => p \in shown'
    BY <1>3, <2>1 DEF Undisturbed
  <2> HIDE DEF OnlineKey
  <2> QED BY <1>3, <2>1, <2>2, <2>3, UndisturbedKept
<1> QED BY <1>4, <1>5, <1>6, <1>7, <1>8, <1>9, <1>10, StepKeeps

LEMMA BeginKeeps ==
  ASSUME PInv, NEW c \in Calls,
         NEW kind \in {"facts", "request", "approve", "auto"},
         NEW pc \in {"read_facts", "request", "approve"}, Begin(c, kind, pc)
  PROVE  PInv'
<1> PICK r : r = [Idle EXCEPT !.pc = pc, !.kind = kind]
  OBVIOUS
<1>1. /\ call' = [call EXCEPT ![c] = r]
      /\ UNCHANGED <<policy, rows, key, store, overlapped, faults>>
      /\ begun < MaxBegun /\ begun' = begun + 1
  BY DEF Begin
<1>2. pc \in Pcs /\ pc \notin Publishing \cup {"answered"} \cup HoldingDraft
  BY DEF Pcs, Untried, Publishing, HoldingDraft
<1>3. Rowed(r) /\ r.pc = pc /\ r.pub = None
  BY <1>2 DEF Rowed, Idle, Kinds
<1> QED BY <1>1, <1>2, <1>3, BeginsKeeps

LEMMA SupplyFactKeeps ==
  ASSUME PInv, NEW c \in Calls, SupplyFact(c)
  PROVE  PInv'
<1>1. PICK p \in Prices :
        call' = [call EXCEPT ![c] = [Idle EXCEPT !.pc = "put_validated", !.kind = "supply",
          !.row = Validated([draft EXCEPT !.price = p, !.conflicted = FALSE, !.approved = TRUE])]]
  BY DEF SupplyFact
<1> PICK d : d = Validated([draft EXCEPT !.price = p, !.conflicted = FALSE, !.approved = TRUE])
  OBVIOUS
<1>2. d \in DraftRows
  <2>1. [draft EXCEPT !.price = p, !.conflicted = FALSE, !.approved = TRUE] \in DraftRows
    BY DraftTyped DEF DraftRows
  <2> QED BY <2>1, ValidatedIsDraft
<1> PICK r : r = [Idle EXCEPT !.pc = "put_validated", !.kind = "supply", !.row = d]
  OBVIOUS
<1>3. /\ call' = [call EXCEPT ![c] = r]
      /\ UNCHANGED <<policy, rows, key, store, overlapped, faults>>
      /\ begun < MaxBegun /\ begun' = begun + 1
  BY <1>1 DEF SupplyFact
<1>4. "put_validated" \in Pcs /\ "put_validated" \notin Publishing \cup {"answered"}
  BY DEF Pcs, Publishing
<1>5. Rowed(r) /\ r.pc = "put_validated" /\ r.pub = None /\ r.row = d
  BY <1>2, <1>4 DEF Rowed, Idle, Kinds
<1> QED BY <1>2, <1>3, <1>4, <1>5, BeginsKeeps

-----------------------------------------------------------------------------
(* The theorems.                                                           *)

LEMMA InitiallyGood == Init => PInv
<1> SUFFICES ASSUME Init
             PROVE  PInv
  OBVIOUS
<1>1. draft \in DraftRows
  <2>1. PICK d : d \in [price : Prices \cup {0}, conflicted : BOOLEAN, approved : {FALSE},
                        released : {FALSE}, state : {"READY"}] /\ draft = Validated(d)
    BY DEF Init, Ingested
  <2>2. d \in DraftRows
    BY <2>1 DEF DraftRows, States
  <2> QED BY <2>1, <2>2, ValidatedIsDraft
<1>2. /\ policy \in Policies /\ approval = <<>> /\ publication = None /\ attempts = 0
      /\ key = [k \in Keys |-> Free] /\ listing = <<>> /\ shown = {} /\ made = 0
      /\ overlapped = FALSE /\ begun = 1 /\ faults = 0
  BY DEF Init
<1>3. DOMAIN listing = {}
  BY <1>2
<1>4. TypeOK
  <2>1. /\ publication \in {None} /\ approval \in Approvals
        /\ \A k \in Keys : key[k].status \in {"free", "reserved", "completed"}
    <3>1. approval \in Approvals
      BY <1>2 DEF Approvals
    <3>2. \A k \in Keys : key[k] = Free
      BY <1>2
    <3> QED BY <1>2, <3>1, <3>2 DEF Free
  <2>2. attempts \in 0..MaxBegun /\ made \in 0..MaxBegun /\ begun \in 0..MaxBegun
        /\ faults \in 0..MaxFaults
    BY <1>2, PublicationAssumption
  <2>3. DOMAIN listing \subseteq 1..made /\ shown \subseteq 1..made
    BY <1>2, <1>3
  <2> QED BY <1>1, <1>2, <2>1, <2>2, <2>3 DEF TypeOK, Approvals
<1>5. PICK first : call = [c \in Calls |->
        IF c = first THEN [Idle EXCEPT !.pc = "handle", !.kind = "ingest", !.row = draft] ELSE Idle]
  BY DEF Init
<1>6. ASSUME NEW c \in Calls
      PROVE  /\ Rowed(call[c]) /\ call[c].pub = None
             /\ \/ call[c].pc = "idle"
                \/ call[c].pc = "handle" /\ c = first /\ call[c].row = draft
  <2>1. {"idle", "handle"} \subseteq Pcs
    BY DEF Pcs, Untried
  <2>2. CASE c = first
    BY <1>1, <1>5, <2>1, <2>2 DEF Rowed, Idle, Kinds
  <2>3. CASE c # first
    <3>1. call[c] = Idle
      BY <1>5, <2>3
    <3>2. Rowed(Idle) /\ Idle.pub = None /\ Idle.pc = "idle"
      BY <2>1 DEF Rowed, Idle
    <3> QED BY <3>1, <3>2
  <2> QED BY <2>2, <2>3
<1>7. /\ {"idle", "handle"} \cap (Publishing \cup Sending \cup {"answered"}) = {}
      /\ "idle" \notin HoldingDraft \cup Untried
  BY DEF Publishing, Sending, HoldingDraft, Untried
<1>8. ASSUME NEW c \in Calls
      PROVE  /\ Placed(call[c]) /\ Right(call[c]) /\ ~ Makes(call[c])
             /\ Alone(call[c]) /\ LiveIsShown(call[c]) /\ call[c].pc \notin Publishing
  <2>1. call[c].pc \notin Sending \cup Publishing
          \cup {"put_publishing", "put_attempt", "put_published", "verify", "reverify",
                "reopen", "get_draft", "answered"}
    BY <1>6, <1>7 DEF Publishing
  <2>2. call[c].pc \in HoldingDraft => call[c].row \in DraftRows
    BY <1>1, <1>6, <1>7
  <2> QED BY <1>6, <2>1, <2>2 DEF Placed, Right, Makes, Alone, LiveIsShown, Sending
<1>9. CallsGood
  BY <1>5, <1>8 DEF CallsGood
<1>10. \A k \in Keys : key[k].status = "free"
  BY <1>2 DEF Free
<1>11. KeysGood
  BY <1>2, <1>10 DEF KeysGood, Free
<1>12. Tallied
  <2>1. MayTry(call) \subseteq {} \cup {first}
    BY <1>6, <1>7 DEF MayTry
  <2>2. IsFiniteSet(MayTry(call)) /\ Cardinality(MayTry(call)) \in Nat
        /\ Cardinality(MayTry(call)) <= 1
    BY <2>1, OneMore, FS_EmptySet
  <2>3. MayMake(call) = {}
    BY <1>8 DEF MayMake
  <2> QED BY <1>2, <2>2, <2>3, FS_EmptySet DEF Tallied
<1>13. Undisturbed
  BY <1>3, <1>8, <1>10, KeysOf DEF Undisturbed
<1> QED BY <1>4, <1>9, <1>11, <1>12, <1>13 DEF PInv

LEMMA NextKeeps ==
  ASSUME PInv, [Next]_vars
  PROVE  PInv'
<1>1. ASSUME NEW c \in Calls, Step(c)
      PROVE  PInv'
  <2>1. CASE \/ HandleValidatedDraft(c) \/ FindFactsApproval(c) \/ PutFactsApproval(c)
             \/ PutSupplied(c)
             \/ ReadForFacts(c) \/ ResolveFactsApproval(c) \/ ApproveFacts(c)
             \/ ReadForRequest(c) \/ Evaluate(c) \/ AutoPublish(c)
    BY <2>1, HandleValidatedDraftKeeps, FindFactsApprovalKeeps, PutFactsApprovalKeeps,
       PutSuppliedKeeps, ReadForFactsKeeps, ResolveFactsApprovalKeeps, ApproveFactsKeeps,
       ReadForRequestKeeps, EvaluateKeeps, AutoPublishKeeps
  <2>2. CASE \/ FindPublicationApproval(c) \/ PutPublicationApproval(c)
             \/ FindPending(c) \/ ResolveApproval(c) \/ ReadApproved(c) \/ PutReleased(c)
             \/ CreatePublication(c) \/ InsertPublication(c) \/ Reverify(c) \/ Reopen(c)
    BY <2>2, FindPublicationApprovalKeeps, PutPublicationApprovalKeeps, FindPendingKeeps,
       ResolveApprovalKeeps, ReadApprovedKeeps, PutReleasedKeeps, CreatePublicationKeeps,
       InsertPublicationKeeps, ReverifyKeeps, ReopenKeeps
  <2>3. CASE \/ GetPublication(c) \/ GetDraft(c) \/ PutPublishing(c) \/ PutAttempt(c)
             \/ Reserve(c) \/ WaitForResult(c) \/ FindBySku(c) \/ SetProduct(c) \/ ShowProduct(c)
             \/ Complete(c) \/ PutPublished(c) \/ Verify(c) \/ Answer(c)
    BY <2>3, GetPublicationKeeps, GetDraftKeeps, PutPublishingKeeps, PutAttemptKeeps,
       ReserveKeeps, WaitForResultKeeps, FindBySkuKeeps, SetProductKeeps, ShowProductKeeps,
       CompleteKeeps, PutPublishedKeeps, VerifyKeeps, AnswerKeeps
  <2> QED BY <1>1, <2>1, <2>2, <2>3 DEF Step
<1>2. ASSUME NEW c \in Calls,
             \/ Begin(c, "facts", "read_facts") \/ Begin(c, "request", "request")
             \/ Begin(c, "approve", "approve") \/ Begin(c, "auto", "read_facts")
      PROVE  PInv'
  BY <1>2, BeginKeeps
<1>3. CASE UNCHANGED vars
  <2>1. /\ policy' = policy /\ draft' = draft /\ approval' = approval
        /\ publication' = publication /\ attempts' = attempts /\ key' = key
        /\ listing' = listing /\ shown' = shown /\ made' = made /\ call' = call
        /\ overlapped' = overlapped /\ begun' = begun /\ faults' = faults
    BY <1>3 DEF vars, rows, store
  <2>2. TypeOK' /\ KeysGood' /\ Tallied'
    BY <2>1 DEF PInv, TypeOK, KeysGood, Tallied
  <2>3. CallsGood'
    BY <2>1 DEF PInv, CallsGood, Placed, Rowed, Right, Listed, Sent
  <2>4. Undisturbed => Undisturbed'
    BY <2>1 DEF Undisturbed, Alone, LiveIsShown, Listed
  <2> QED BY <2>1, <2>2, <2>3, <2>4 DEF PInv
<1> QED
  BY <1>1, <1>2, <1>3, SupplyFactKeeps, MutationFailsKeeps, DieKeeps, DeleteProductKeeps
  DEF Next

\* The strengthening that the safety properties of a publication rest on.
THEOREM PublicationInvariant == Spec => []PInv
<1>1. PInv /\ [Next]_vars => PInv'
  BY NextKeeps
<1> QED BY <1>1, InitiallyGood, PTL DEF Spec

\* What a call answers is true (AnswerIsTrue), whatever runs beside it.
THEOREM AnswersAreTrue == Spec => []AnswerIsTrue
<1>1. PInv => AnswerIsTrue
  <2> SUFFICES ASSUME PInv, NEW c \in Calls, At(c, "answered"), ~ call[c].lost
               PROVE  /\ DOMAIN listing # {}
                      /\ call[c].claim = "live" /\ ~ overlapped => DOMAIN listing \cap shown # {}
    BY DEF AnswerIsTrue, PInv
  <2>1. DOMAIN listing # {}
    BY CallAt DEF Right, Listed, At
  <2>2. call[c].claim = "live" /\ ~ overlapped => DOMAIN listing \cap shown # {}
    BY DEF PInv, Undisturbed, LiveIsShown, At
  <2> QED BY <2>1, <2>2
<1> QED BY <1>1, PublicationInvariant, PTL

\* Publications that do not overlap list the draft once (ListedOnce).
THEOREM DraftsAreListedOnce == Spec => []ListedOnce
<1>1. PInv => ListedOnce
  <2> SUFFICES ASSUME PInv, ~ overlapped
               PROVE  ~ Cardinality(DOMAIN listing) > 1
    BY DEF ListedOnce
  <2>1. \A p, q \in DOMAIN listing : p = q
    BY DEF PInv, Undisturbed
  <2>2. CASE DOMAIN listing = {}
    BY <2>2, FS_EmptySet
  <2>3. CASE DOMAIN listing # {}
    <3>1. PICK p : DOMAIN listing = {p}
      BY <2>1, <2>3
    <3> QED BY <3>1, FS_Singleton
  <2> QED BY <2>2, <2>3
<1> QED BY <1>1, PublicationInvariant, PTL

-----------------------------------------------------------------------------
(* The inductive invariants.                                               *)

IsSeq(s) == s \in Seq({s[k] : k \in DOMAIN s})
IsFun(f) == f = [k \in DOMAIN f |-> f[k]]
Various(S) == \E u, w \in S : u # w

FactOK(n, f) ==
  /\ f \in [value : {f.value}, by : {"missing", "source", "human", "ai"}, disputed : BOOLEAN,
            approved : BOOLEAN]
  /\ f.by = "missing" <=> f.value = None
  /\ f.by = "missing" => ~ f.disputed
  /\ n \in Protected => f.by # "ai"
FactsOK(facts) ==
  IsFun(facts) /\ DOMAIN facts \subseteq Names /\ \A n \in DOMAIN facts : FactOK(n, facts[n])

VariantsOK(variants) ==
  /\ IsSeq(variants)
  /\ \A k \in DOMAIN variants :
       variants[k] \in [sku : {variants[k].sku}, option : {variants[k].option}, status : {"ACTIVE", "STALE"}]

RowOK(d) ==
  /\ d \in [sku : {d.sku}, price : {d.price}, text : {d.text}, facts : {d.facts},
            variants : {d.variants}, tangled : {d.tangled},
            status : {"UNRESOLVED", "AMBIGUOUS", "RESOLVED", "CONFLICT"}, key : {d.key},
            missing : SUBSET Cores, state : {"INCOMPLETE", "CONFLICTED", "NEEDS_APPROVAL", "READY"}]
  /\ FactsOK(d.facts) /\ VariantsOK(d.variants)

\* A draft of a file: its facts are as they were read, its variants are active.
NewOK(d) ==
  /\ RowOK(d)
  /\ d.state \in {"READY", "INCOMPLETE"}
  /\ \A n \in DOMAIN d.facts : d.facts[n] = SourceFact(d.facts[n].value)
  /\ \A k \in DOMAIN d.variants : d.variants[k].status = "ACTIVE"

\* What a validation leaves: what is missing has a fact that says so.
Checked(d) ==
  /\ d.missing \subseteq DOMAIN d.facts
  /\ \A n \in d.missing : d.facts[n].by = "missing"
  /\ d.state = "INCOMPLETE" => d.missing # {}

\* What two facts say is the same, whoever approved it.
SameFact(f, g) == f.value = g.value /\ f.by = g.by /\ f.disputed = g.disputed

\* d has the facts of b but for those in S, and otherwise says that there are none.
FactsAs(b, d, S) ==
  /\ DOMAIN b.facts \subseteq DOMAIN d.facts
  /\ \A n \in DOMAIN d.facts \ S :
       SameFact(d.facts[n], IF n \in DOMAIN b.facts THEN b.facts[n] ELSE NoFact)

\* A dispute is shown.
Shows(d) == Disputed(d) # {} => d.state = "CONFLICTED"

\* d is b, but for the fact n, about which v was said.
Settles(b, d, n, v) ==
  /\ FactsAs(b, d, {n}) /\ Shows(d) /\ d.variants = b.variants
  /\ n \in DOMAIN d.facts
  /\ d.facts[n].by = "human" /\ d.facts[n].value = v /\ ~ d.facts[n].disputed

Ingesting == {"merge", "put", "validate", "handle", "ask"}
Answering == {"read", "provide", "provided", "put_answered", "next"}
Approving == {"approve", "put_approved"}
Resolving == {"resolve", "resolved"}
Places == {"idle", "send"} \cup Ingesting \cup Answering \cup Approving \cup Resolving

CallTyped(r) ==
  r \in [pc : Places, kind : {None, "ingest", "answer", "approval", "resolution"}, base : {r.base},
         mine : {r.mine}, incoming : {r.incoming}, todo : Seq(DOMAIN r.mine), at : Nat,
         given : {r.given}]

\* The rows a call holds, and what it makes of them.
CallHolds(r, ids) ==
  /\ IsFun(r.base) /\ IsFun(r.mine)
  /\ DOMAIN r.base \subseteq ids /\ DOMAIN r.mine = DOMAIN r.base
  /\ \A k \in DOMAIN r.base : RowOK(r.base[k]) /\ RowOK(r.mine[k])
  /\ r.pc # "resolve" => r.mine = r.base

\* What a call does belongs to the place it is at.
CallKind(r) ==
  /\ r.pc \in Ingesting => r.kind = "ingest"
  /\ r.pc \in Answering => r.kind = "answer"
  /\ r.pc = "send" => r.kind \in {"ingest", "answer"}
  /\ r.pc \in Approving => r.kind \in {"answer", "approval"}
  /\ r.pc \in Resolving => r.kind = "resolution"
  /\ r.pc = "idle" => r = NoCall
CallTodo(r) ==
  /\ r.pc # "idle" /\ r.kind # "ingest" => Len(r.todo) = 1 /\ DOMAIN r.base = {r.todo[1]}
  /\ r.pc = "merge" => /\ r.at = 1 /\ r.incoming # <<>> /\ IsSeq(r.incoming)
                       /\ \A k \in DOMAIN r.incoming : NewOK(r.incoming[k])
  /\ r.pc \notin {"idle", "merge"} => r.at \in 1..Len(r.todo)
CallPlaced(r) ==
  /\ r.pc = "validate" => \A l \in 1..(r.at - 1) : Checked(r.mine[r.todo[l]])
  /\ r.kind = "ingest" /\ r.pc \in {"handle", "ask", "send"} =>
       \A l \in 1..Len(r.todo) : Checked(r.mine[r.todo[l]])
  /\ r.pc \in {"read", "provide", "provided"} => r.given \subseteq Cores
  /\ r.pc = "resolve" =>
       \E n \in Cores : \E v \in Answers[n] :
         /\ r.given = {<<n, Normal(n, v)>>}
         /\ Settles(r.base[r.todo[1]], r.mine[r.todo[1]], n, v)
CallOK(r, ids) ==
  CallTyped(r) /\ CallHolds(r, ids) /\ CallKind(r) /\ CallTodo(r) /\ CallPlaced(r)

StoreShape ==
  /\ files \in Batches
  /\ required \subseteq Cores
  /\ IsSeq(drafts) /\ \A i \in DOMAIN drafts : RowOK(drafts[i])
  /\ IsSeq(heard) /\ Len(heard) = Len(drafts)
  /\ \A i \in DOMAIN heard : IsFun(heard[i]) /\ DOMAIN heard[i] = Names
                             /\ \A n \in Names : IsFiniteSet(heard[i][n])
  /\ IsSeq(current) /\ Len(current) = Len(drafts)
  /\ asks \in Seq(DOMAIN drafts) /\ open \subseteq DOMAIN drafts
  /\ begun \in 0..MaxBegun /\ losses \in 0..MaxLosses
CallShape ==
  IsFun(call) /\ DOMAIN call = Calls /\ \A c \in Calls : CallOK(call[c], DOMAIN drafts)
Shape == StoreShape /\ CallShape

Backed(d, h) ==
  /\ \A n \in Names \ DOMAIN d.facts : h[n] = {}
  /\ \A n \in DOMAIN d.facts :
       /\ d.facts[n].by = "missing" <=> h[n] = {}
       /\ d.facts[n].by # "missing" => Normal(n, d.facts[n].value) \in h[n]
       /\ d.facts[n].disputed <=> Various(h[n])
  /\ Shows(d)
Evidence == \A i \in DOMAIN drafts \ overwritten : Backed(drafts[i], heard[i])

Revised(variants, revision) ==
  revision # {} =>
    /\ \A g \in revision : \E j \in Active(variants) : Fits(variants[j], g)
    /\ \A j \in Active(variants) : \E g \in revision : Fits(variants[j], g)
Lineups == \A i \in DOMAIN drafts \ (overwritten \cup crossed) : Revised(drafts[i].variants, current[i])

\* A call will still validate the draft k, or still ask about it.
ToValidate(r, k) ==
  \/ r.pc \in {"merge", "put"} /\ \E l \in 1..Len(r.todo) : r.todo[l] = k
  \/ r.pc = "validate" /\ \E l \in r.at..Len(r.todo) : r.todo[l] = k
ToAsk(r, k) ==
  /\ r.kind = "ingest" /\ k \in DOMAIN r.mine /\ r.mine[k].state = "INCOMPLETE"
  /\ \/ r.pc = "validate" /\ \E l \in 1..(r.at - 1) : r.todo[l] = k
     \/ r.pc \in {"handle", "ask", "send"} /\ \E l \in r.at..Len(r.todo) : r.todo[l] = k
Asking == \E j \in open : Waits(drafts[j])
\* A call gives an answer, or passes the turn on.
Turns(r) == r.pc # "idle" /\ r.kind = "answer"
Turning == \E c \in Calls : Turns(call[c])
\* What a call holds was put: nothing that is known of a draft is forgotten.
Grown ==
  \A c \in Calls : \A k \in DOMAIN call[c].base :
    DOMAIN call[c].base[k].facts \subseteq DOMAIN drafts[k].facts
Sendable ==
  \A c \in Calls : call[c].pc \in {"ask", "send"} => Askable(drafts[call[c].todo[call[c].at]])
\* Somebody sees to each incomplete draft, and it can be asked about.
Covered(k) == Asking \/ Turning \/ \E c \in Calls : ToValidate(call[c], k) \/ ToAsk(call[c], k)
Known(k) == Askable(drafts[k]) \/ \E c \in Calls : ToValidate(call[c], k)
Attended == \A k \in DOMAIN drafts : drafts[k].state = "INCOMPLETE" => Covered(k) /\ Known(k)
Queue == overwritten = {} => Grown /\ Sendable /\ (~ diverted => Attended)

-----------------------------------------------------------------------------
(* Sequences of any elements, and orders of sets of numbers.               *)

\* A function on 1..n is a sequence.
LEMMA SeqOf ==
  ASSUME NEW n \in Nat, NEW s, s = [k \in 1..n |-> s[k]]
  PROVE  IsSeq(s) /\ Len(s) = n /\ DOMAIN s = 1..n
<1>1. DOMAIN s = 1..n
  OBVIOUS
<1>2. s \in [1..n -> {s[k] : k \in DOMAIN s}]
  BY <1>1
<1>3. s \in Seq({s[k] : k \in DOMAIN s})
  BY <1>2, SeqDef
<1> QED BY <1>1, <1>3, LenProperties DEF IsSeq

LEMMA SeqIs ==
  ASSUME NEW s, IsSeq(s)
  PROVE  Len(s) \in Nat /\ DOMAIN s = 1..Len(s) /\ s = [k \in 1..Len(s) |-> s[k]]
BY LenProperties DEF IsSeq

LEMMA SeqAny ==
  ASSUME NEW S, NEW s \in Seq(S)
  PROVE  IsSeq(s)
BY LenProperties, SeqOf

LEMMA SeqAppend ==
  ASSUME NEW s, IsSeq(s), NEW e
  PROVE  /\ IsSeq(Append(s, e)) /\ Len(Append(s, e)) = Len(s) + 1
         /\ Append(s, e)[Len(s) + 1] = e
         /\ \A k \in 1..Len(s) : Append(s, e)[k] = s[k]
<1> DEFINE S == {s[k] : k \in DOMAIN s} \cup {e}
<1>1. s \in Seq(S)
  BY SeqMonotonic DEF IsSeq
<1>2. e \in S
  OBVIOUS
<1>3. Append(s, e) \in Seq(S)
  BY <1>1, <1>2, AppendProperties
<1>4. /\ Len(Append(s, e)) = Len(s) + 1 /\ Append(s, e)[Len(s) + 1] = e
      /\ \A k \in 1..Len(s) : Append(s, e)[k] = s[k]
  <2> HIDE DEF S
  <2> QED BY <1>1, <1>2, AppendProperties
<1>5. IsSeq(Append(s, e))
  BY <1>3, SeqAny
<1> QED BY <1>4, <1>5

LEMMA SeqReplace ==
  ASSUME NEW s, IsSeq(s), NEW i \in DOMAIN s, NEW e
  PROVE  /\ IsSeq([s EXCEPT ![i] = e]) /\ Len([s EXCEPT ![i] = e]) = Len(s)
         /\ DOMAIN [s EXCEPT ![i] = e] = DOMAIN s
<1> PICK t : t = [s EXCEPT ![i] = e]
  OBVIOUS
<1>1. Len(s) \in Nat /\ DOMAIN s = 1..Len(s)
  BY SeqIs
<1>2. t = [k \in 1..Len(s) |-> t[k]]
  BY <1>1
<1> QED BY <1>1, <1>2, SeqOf

LEMMA SeqTail ==
  ASSUME NEW s, IsSeq(s), s # <<>>
  PROVE  /\ IsSeq(Tail(s)) /\ Len(Tail(s)) = Len(s) - 1
         /\ Head(s) = s[1] /\ 1 \in DOMAIN s
         /\ \A k \in DOMAIN Tail(s) : k + 1 \in DOMAIN s /\ Tail(s)[k] = s[k + 1]
<1>1. s \in Seq({s[k] : k \in DOMAIN s})
  BY DEF IsSeq
<1>2. Len(s) \in Nat /\ DOMAIN s = 1..Len(s)
  BY SeqIs
<1>3. Len(s) # 0
  BY <1>1, EmptySeq
<1>4. IsSeq(Tail(s)) /\ Len(Tail(s)) = Len(s) - 1
      /\ \A k \in 1..Len(Tail(s)) : Tail(s)[k] = s[k + 1]
  BY <1>1, HeadTailProperties, SeqAny
<1>5. DOMAIN Tail(s) = 1..Len(Tail(s))
  BY <1>4, SeqIs
<1>6. Head(s) = s[1]
  BY <1>1, <1>3 
<1> QED BY <1>2, <1>3, <1>4, <1>5, <1>6

LEMMA SeqConcat ==
  ASSUME NEW s, NEW t, IsSeq(s), IsSeq(t)
  PROVE  /\ IsSeq(s \o t) /\ Len(s \o t) = Len(s) + Len(t)
         /\ \A k \in DOMAIN s : k \in DOMAIN (s \o t) /\ (s \o t)[k] = s[k]
         /\ \A k \in DOMAIN t : Len(s) + k \in DOMAIN (s \o t) /\ (s \o t)[Len(s) + k] = t[k]
         /\ \A k \in DOMAIN (s \o t) :
              \/ k \in DOMAIN s /\ (s \o t)[k] = s[k]
              \/ k - Len(s) \in DOMAIN t /\ (s \o t)[k] = t[k - Len(s)]
<1> DEFINE S == {s[k] : k \in DOMAIN s} \cup {t[k] : k \in DOMAIN t}
<1>1. s \in Seq(S) /\ t \in Seq(S)
  BY SeqMonotonic DEF IsSeq
<1>2. /\ s \o t \in Seq(S) /\ Len(s \o t) = Len(s) + Len(t)
      /\ \A i \in 1..(Len(s) + Len(t)) : (s \o t)[i] = IF i <= Len(s) THEN s[i] ELSE t[i - Len(s)]
  BY <1>1, ConcatProperties
<1>3. IsSeq(s \o t)
  BY <1>2, SeqAny
<1>4. /\ Len(s) \in Nat /\ DOMAIN s = 1..Len(s) /\ Len(t) \in Nat /\ DOMAIN t = 1..Len(t)
      /\ DOMAIN (s \o t) = 1..Len(s \o t)
  BY <1>3, SeqIs
<1> HIDE DEF S
<1> QED BY <1>2, <1>3, <1>4

\* A set of numbers has a least one, and a greatest one if it is bounded.
LEMMA FirstIs ==
  ASSUME NEW S, S \subseteq Nat, S # {}
  PROVE  First(S) \in S /\ \A y \in S : First(S) <= y
<1>1. PICK x \in S : \A y \in S : <<y, x>> \notin OpToRel(<, Nat)
  BY NatLessThanWellFounded, WFMin
<1>2. \A m, n \in Nat : m < n => <<m, n>> \in OpToRel(<, Nat)
  BY DEF OpToRel
<1>3. \A y \in S : x <= y
  <2> TAKE y \in S
  <2>1. x \in Nat /\ y \in Nat
    OBVIOUS
  <2>2. ~ y < x
    BY <1>1, <1>2, <2>1
  <2> QED BY <2>1, <2>2
<1> QED BY <1>3 DEF First

LEMMA LastIs ==
  ASSUME NEW n \in Nat, NEW S, S \subseteq 1..n, S # {}
  PROVE  Last1(S) \in S /\ \A y \in S : Last1(S) >= y
<1> DEFINE T == {n - x : x \in S}
<1>1. T \subseteq Nat /\ T # {}
  <2>1. \A x \in S : x \in 1..n
    OBVIOUS
  <2>2. \A x \in S : n - x \in Nat
    BY <2>1
  <2> QED BY <2>2
<1>2. First(T) \in T /\ \A y \in T : First(T) <= y
  <2> HIDE DEF T
  <2> QED BY <1>1, FirstIs
<1>3. PICK x \in S : First(T) = n - x
  BY <1>2
<1>4. \A y \in S : n - y \in T
  OBVIOUS
<1>5. \A y \in S : x >= y
  <2> HIDE DEF T
  <2> TAKE y \in S
  <2>1. x \in Nat /\ y \in Nat
    OBVIOUS
  <2>2. n - x <= n - y
    BY <1>2, <1>3, <1>4
  <2> QED BY <2>1, <2>2
<1> QED BY <1>5 DEF Last1

\* InOrder lists a finite set of numbers, each once.
LEMMA InOrderIs ==
  ASSUME NEW S, S \subseteq Nat, IsFiniteSet(S)
  PROVE  /\ IsSeq(InOrder(S)) /\ Len(InOrder(S)) = Cardinality(S)
         /\ \A k \in DOMAIN InOrder(S) : InOrder(S)[k] \in S
         /\ \A x \in S : \E k \in DOMAIN InOrder(S) : InOrder(S)[k] = x
<1> DEFINE n == Cardinality(S)
           Up(x) == {y \in S : y <= x}
           rank == [x \in S |-> Cardinality(Up(x))]
<1>1. n \in Nat /\ IsFiniteSet(1..n) /\ Cardinality(1..n) = n
  BY FS_CardinalityType, FS_Interval
<1>2. \A x \in S : Up(x) \in SUBSET S /\ x \in Up(x)
  OBVIOUS
<1>3. \A x \in S : IsFiniteSet(Up(x)) /\ Cardinality(Up(x)) \in 1..n
  <2> TAKE x \in S
  <2>1. IsFiniteSet(Up(x)) /\ Cardinality(Up(x)) <= n
    BY <1>2, FS_Subset
  <2>2. Cardinality(Up(x)) \in Nat /\ Cardinality(Up(x)) # 0
    <3> HIDE DEF Up
    <3> QED BY <1>2, <2>1, FS_CardinalityType, FS_EmptySet
  <2> QED BY <1>1, <2>1, <2>2
<1>4. ASSUME NEW x \in S, NEW y \in S, x < y
      PROVE  Cardinality(Up(x)) # Cardinality(Up(y))
  <2>1. Up(x) \in SUBSET Up(y)
    <3>1. x \in Nat /\ y \in Nat /\ \A z \in S : z \in Nat
      OBVIOUS
    <3>2. \A z \in S : z <= x => z <= y
      BY <1>4, <3>1
    <3> QED BY <3>2
  <2>2. y \in Up(y) /\ y \notin Up(x)
    BY <1>4
  <2> HIDE DEF Up
  <2> QED BY <1>3, <2>1, <2>2, FS_Subset
<1> HIDE DEF Up
<1>5. \A x, y \in S : Cardinality(Up(x)) = Cardinality(Up(y)) => x = y
  <2> SUFFICES ASSUME NEW x \in S, NEW y \in S, Cardinality(Up(x)) = Cardinality(Up(y)), x # y
               PROVE  FALSE
    OBVIOUS
  <2>1. x < y \/ y < x
    OBVIOUS
  <2> QED BY <1>4, <2>1
<1>6. rank \in Injection(S, 1..n)
  BY <1>3, <1>5 DEF Injection, IsInjective
<1>7. rank \in Surjection(S, 1..n)
  <2> HIDE DEF rank, n
  <2> QED BY <1>1, <1>6, FS_Injection DEF n
<1>8. \A j \in 1..n : \E x \in S : Cardinality(Up(x)) = j
  BY <1>7 DEF Surjection
<1>9. InOrder(S) = [j \in 1..n |-> CHOOSE x \in S : Cardinality(Up(x)) = j]
  BY DEF InOrder, Up
<1>10. \A j \in 1..n : InOrder(S)[j] \in S /\ Cardinality(Up(InOrder(S)[j])) = j
  BY <1>8, <1>9
<1>11. IsSeq(InOrder(S)) /\ Len(InOrder(S)) = n /\ DOMAIN InOrder(S) = 1..n
  BY <1>1, <1>9, SeqOf
<1>12. \A x \in S : InOrder(S)[Cardinality(Up(x))] = x
  BY <1>3, <1>5, <1>10
<1> QED BY <1>3, <1>10, <1>11, <1>12

-----------------------------------------------------------------------------
(* Variants: what a revision leaves.                                       *)

LEMMA MatchIs ==
  ASSUME NEW variants, IsSeq(variants), NEW in
  PROVE  Match(variants, in) \in 0..Len(variants)
<1> DEFINE options == {i \in DOMAIN variants : variants[i].option = in.option /\ in.option # None}
           skus == {i \in DOMAIN variants : variants[i].sku = in.sku /\ in.sku # None}
<1>1. Len(variants) \in Nat /\ DOMAIN variants = 1..Len(variants)
  BY SeqIs
<1>2. options \subseteq 1..Len(variants) /\ skus \subseteq 1..Len(variants)
  BY <1>1
<1>3. Match(variants, in) = IF options # {} THEN Last1(options) ELSE IF skus # {} THEN Last1(skus) ELSE 0
  BY DEF Match
<1> HIDE DEF options, skus
<1>4. options # {} => Last1(options) \in 1..Len(variants)
  BY <1>1, <1>2, LastIs
<1>5. skus # {} => Last1(skus) \in 1..Len(variants)
  BY <1>1, <1>2, LastIs
<1> QED BY <1>1, <1>3, <1>4, <1>5

Activated(v) == [v EXCEPT !.status = "ACTIVE"]

LEMMA AddedIs ==
  ASSUME NEW variants, NEW revision, IsSeq(revision)
  PROVE  /\ IsSeq(Added(variants, revision))
         /\ \A j \in DOMAIN Added(variants, revision) : \E k \in Matching(variants, revision, 0) :
              Added(variants, revision)[j] = Activated(revision[k])
         /\ \A k \in Matching(variants, revision, 0) : \E j \in DOMAIN Added(variants, revision) :
              Added(variants, revision)[j] = Activated(revision[k])
<1> DEFINE S == Matching(variants, revision, 0)
<1>1. Len(revision) \in Nat /\ DOMAIN revision = 1..Len(revision)
  BY SeqIs
<1>2. S \in SUBSET (1..Len(revision))
  BY <1>1 DEF Matching
<1>3. S \subseteq Nat /\ IsFiniteSet(S)
  <2>1. IsFiniteSet(1..Len(revision))
    BY <1>1, FS_Interval
  <2>2. \A x \in 1..Len(revision) : x \in Nat
    BY <1>1
  <2> HIDE DEF S
  <2>3. IsFiniteSet(S)
    BY <1>2, <2>1, FS_Subset
  <2> QED BY <1>2, <2>2, <2>3
<1> PICK s : s = InOrder(S)
  OBVIOUS
<1> PICK a : a = Added(variants, revision)
  OBVIOUS
<1>4. /\ IsSeq(s) /\ \A k \in DOMAIN s : s[k] \in S
      /\ \A x \in S : \E k \in DOMAIN s : s[k] = x
  <2> HIDE DEF S
  <2> QED BY <1>3, InOrderIs
<1>5. Len(s) \in Nat /\ DOMAIN s = 1..Len(s)
  BY <1>4, SeqIs
<1>6. a = [j \in 1..Len(s) |-> Activated(revision[s[j]])]
  BY <1>5 DEF Added, Activated
<1>7. IsSeq(a) /\ DOMAIN a = 1..Len(s)
  BY <1>5, <1>6, SeqOf
<1>8. \A j \in DOMAIN a : a[j] = Activated(revision[s[j]])
  BY <1>6, <1>7
<1> HIDE DEF S
<1>9. \A k \in S : \E j \in DOMAIN a : a[j] = Activated(revision[k])
  <2> TAKE k \in S
  <2>1. PICK j \in DOMAIN s : s[j] = k
    BY <1>4
  <2> QED BY <1>5, <1>7, <1>8, <2>1
<1>10. \A j \in DOMAIN a : \E k \in S : a[j] = Activated(revision[k])
  BY <1>4, <1>5, <1>7, <1>8
<1> QED BY <1>7, <1>9, <1>10 DEF S

\* What becomes of the variants that were there.
Kept(variants, revision) ==
  [i \in DOMAIN variants |->
     IF Matching(variants, revision, i) = {} THEN [variants[i] EXCEPT !.status = "STALE"]
     ELSE [sku |-> Latest(variants, revision, i, "sku"),
           option |-> Latest(variants, revision, i, "option"), status |-> "ACTIVE"]]

LEMMA ReconciledIs ==
  ASSUME NEW variants, NEW revision, VariantsOK(variants), VariantsOK(revision)
  PROVE  /\ Reconciled(variants, revision) = Kept(variants, revision) \o Added(variants, revision)
         /\ IsSeq(Kept(variants, revision)) /\ IsSeq(Added(variants, revision))
         /\ DOMAIN Kept(variants, revision) = DOMAIN variants
         /\ VariantsOK(Reconciled(variants, revision))
<1> PICK kept : kept = Kept(variants, revision)
  OBVIOUS
<1> PICK added : added = Added(variants, revision)
  OBVIOUS
<1>1. Len(variants) \in Nat /\ DOMAIN variants = 1..Len(variants)
  BY SeqIs DEF VariantsOK
<1>2. kept = [i \in 1..Len(variants) |-> kept[i]] /\ DOMAIN kept = DOMAIN variants
  BY <1>1 DEF Kept
<1>3. IsSeq(kept)
  BY <1>1, <1>2, SeqOf
<1>4. /\ IsSeq(added)
      /\ \A j \in DOMAIN added : \E k \in Matching(variants, revision, 0) :
           added[j] = Activated(revision[k])
  BY AddedIs DEF VariantsOK
<1>5. Reconciled(variants, revision) = kept \o added
  BY DEF Reconciled, Kept
<1> PICK all : all = kept \o added
  OBVIOUS
<1>6. /\ IsSeq(all)
      /\ \A k \in DOMAIN all : \/ k \in DOMAIN kept /\ all[k] = kept[k]
                               \/ k - Len(kept) \in DOMAIN added /\ all[k] = added[k - Len(kept)]
  BY <1>3, <1>4, SeqConcat
<1> DEFINE Item(v) == v \in [sku : {v.sku}, option : {v.option}, status : {"ACTIVE", "STALE"}]
<1>7. \A k \in DOMAIN kept : Item(kept[k])
  <2> TAKE k \in DOMAIN kept
  <2>1. Item(variants[k])
    BY <1>2 DEF VariantsOK
  <2>2. CASE Matching(variants, revision, k) = {}
    <3>1. kept[k] = [variants[k] EXCEPT !.status = "STALE"]
      BY <1>2, <2>2 DEF Kept
    <3> QED BY <2>1, <3>1
  <2>3. CASE Matching(variants, revision, k) # {}
    <3>1. kept[k] = [sku |-> Latest(variants, revision, k, "sku"),
                     option |-> Latest(variants, revision, k, "option"), status |-> "ACTIVE"]
      BY <1>2, <2>3 DEF Kept
    <3> QED BY <3>1
  <2> QED BY <2>2, <2>3
<1>8. \A j \in DOMAIN added : Item(added[j])
  <2> TAKE j \in DOMAIN added
  <2>1. PICK k \in Matching(variants, revision, 0) : added[j] = Activated(revision[k])
    BY <1>4
  <2>2. Item(revision[k])
    BY <2>1 DEF Matching, VariantsOK
  <2> QED BY <2>1, <2>2 DEF Activated
<1>9. \A k \in DOMAIN all : Item(all[k])
  <2> HIDE DEF Item
  <2> QED BY <1>6, <1>7, <1>8
<1>10. VariantsOK(all)
  BY <1>6, <1>9 DEF VariantsOK
<1> QED BY <1>2, <1>3, <1>4, <1>5, <1>10

\* When no two of its rows match one variant, the revision is what is active.
LEMMA ReconciledRevised ==
  ASSUME NEW variants, NEW revision, VariantsOK(variants), VariantsOK(revision),
         ~ Crossed(variants, revision)
  PROVE  Revised(Reconciled(variants, revision), Named(revision))
<1> PICK kept : kept = Kept(variants, revision)
  OBVIOUS
<1> PICK added : added = Added(variants, revision)
  OBVIOUS
<1> PICK all : all = kept \o added
  OBVIOUS
<1> DEFINE G(k) == [sku |-> revision[k].sku, option |-> revision[k].option]
<1>1. /\ Reconciled(variants, revision) = all /\ IsSeq(kept) /\ IsSeq(added)
      /\ DOMAIN kept = DOMAIN variants
  BY ReconciledIs
<1>2. /\ \A k \in DOMAIN kept : k \in DOMAIN all /\ all[k] = kept[k]
      /\ \A k \in DOMAIN added : Len(kept) + k \in DOMAIN all /\ all[Len(kept) + k] = added[k]
      /\ \A k \in DOMAIN all : \/ k \in DOMAIN kept /\ all[k] = kept[k]
                               \/ k - Len(kept) \in DOMAIN added /\ all[k] = added[k - Len(kept)]
  BY <1>1, SeqConcat
<1>3. /\ \A j \in DOMAIN added : \E k \in Matching(variants, revision, 0) :
           added[j] = Activated(revision[k])
      /\ \A k \in Matching(variants, revision, 0) : \E j \in DOMAIN added :
           added[j] = Activated(revision[k])
  BY AddedIs DEF VariantsOK
<1>4. Len(variants) \in Nat /\ DOMAIN variants = 1..Len(variants)
      /\ Len(revision) \in Nat /\ DOMAIN revision = 1..Len(revision)
  BY SeqIs DEF VariantsOK
<1>5. \A k \in DOMAIN revision :
        revision[k] \in [sku : {revision[k].sku}, option : {revision[k].option}, status : {"ACTIVE", "STALE"}]
  BY DEF VariantsOK
<1>6. ASSUME NEW i \in DOMAIN variants, NEW k \in Matching(variants, revision, i)
      PROVE  kept[i].status = "ACTIVE" /\ Fits(kept[i], G(k))
  <2>1. Matching(variants, revision, i) = {k}
    BY <1>6 DEF Crossed
  <2>2. kept[i] = [sku |-> Latest(variants, revision, i, "sku"),
                   option |-> Latest(variants, revision, i, "option"), status |-> "ACTIVE"]
    BY <2>1 DEF Kept
  <2>3. k \in DOMAIN revision
    BY DEF Matching
  <2>4. ASSUME NEW n, revision[k][n] # None
        PROVE  Latest(variants, revision, i, n) = revision[k][n]
    <3>1. {l \in Matching(variants, revision, i) : revision[l][n] # None} = {k}
      BY <2>1, <2>4
    <3>2. Last1({k}) = k
      <4>1. {k} \subseteq 1..Len(revision) /\ {k} # {}
        BY <1>4, <2>3
      <4>2. Last1({k}) \in {k}
        BY <1>4, <4>1, LastIs
      <4> QED BY <4>2
    <3> QED BY <3>1, <3>2 DEF Latest
  <2>5. G(k).sku \in {None, kept[i].sku}
    <3>1. CASE revision[k].sku = None
      BY <3>1
    <3>2. CASE revision[k].sku # None
      <4>1. Latest(variants, revision, i, "sku") = revision[k].sku
        BY <2>4, <3>2
      <4> QED BY <4>1, <2>2
    <3> QED BY <3>1, <3>2
  <2>6. G(k).option \in {None, kept[i].option}
    <3>1. CASE revision[k].option = None
      BY <3>1
    <3>2. CASE revision[k].option # None
      <4>1. Latest(variants, revision, i, "option") = revision[k].option
        BY <2>4, <3>2
      <4> QED BY <4>1, <2>2
    <3> QED BY <3>1, <3>2
  <2> QED BY <2>2, <2>5, <2>6 DEF Fits
<1>7. ASSUME NEW k \in Matching(variants, revision, 0), NEW v,
             v = Activated(revision[k])
      PROVE  v.status = "ACTIVE" /\ Fits(v, G(k))
  <2>1. k \in DOMAIN revision
    BY DEF Matching
  <2>2. v.status = "ACTIVE" /\ v.sku = revision[k].sku /\ v.option = revision[k].option
    BY <1>5, <1>7, <2>1 DEF Activated
  <2> QED BY <2>2 DEF Fits
<1>8. \A k \in DOMAIN revision : \E j \in Active(all) : Fits(all[j], G(k))
  <2> TAKE k \in DOMAIN revision
  <2> DEFINE i == Match(variants, revision[k])
  <2>1. i \in 0..Len(variants) /\ k \in Matching(variants, revision, i)
    BY MatchIs DEF VariantsOK, Matching
  <2> HIDE DEF i, G
  <2>2. CASE i \in DOMAIN variants
    BY <1>1, <1>2, <1>6, <2>1, <2>2 DEF Active
  <2>3. CASE i = 0
    <3>1. PICK j \in DOMAIN added : added[j] = Activated(revision[k])
      BY <1>3, <2>1, <2>3
    <3>2. added[j].status = "ACTIVE" /\ Fits(added[j], G(k))
      BY <1>7, <2>1, <2>3, <3>1
    <3>3. Len(kept) + j \in Active(all) /\ Fits(all[Len(kept) + j], G(k))
      BY <1>2, <3>2 DEF Active
    <3> QED BY <3>3
  <2>4. i = 0 \/ i \in DOMAIN variants
    BY <1>4, <2>1
  <2> QED BY <2>2, <2>3, <2>4
<1>9. \A j \in Active(all) : \E k \in DOMAIN revision : Fits(all[j], G(k))
  <2> TAKE j \in Active(all)
  <2>1. j \in DOMAIN all /\ all[j].status = "ACTIVE"
    BY DEF Active
  <2> HIDE DEF G
  <2>2. CASE j \in DOMAIN kept /\ all[j] = kept[j]
    <3>1. Matching(variants, revision, j) # {}
      <4>1. ASSUME Matching(variants, revision, j) = {}
            PROVE  FALSE
        <5>1. kept[j] = [variants[j] EXCEPT !.status = "STALE"] /\ j \in DOMAIN variants
          BY <1>1, <2>2, <4>1 DEF Kept
        <5>2. variants[j] \in [sku : {variants[j].sku}, option : {variants[j].option},
                               status : {"ACTIVE", "STALE"}]
          BY <5>1 DEF VariantsOK
        <5>3. kept[j].status = "STALE"
          BY <5>1, <5>2
        <5> QED BY <2>1, <2>2, <5>3
      <4> QED BY <4>1
    <3>2. PICK k : k \in Matching(variants, revision, j)
      BY <3>1
    <3>3. k \in DOMAIN revision
      BY <3>2 DEF Matching
    <3>4. Fits(all[j], G(k))
      BY <1>1, <1>6, <2>2, <3>2
    <3> QED BY <3>3, <3>4
  <2>3. CASE j - Len(kept) \in DOMAIN added /\ all[j] = added[j - Len(kept)]
    <3>1. PICK k \in Matching(variants, revision, 0) :
            added[j - Len(kept)] = Activated(revision[k])
      BY <1>3, <2>3
    <3>2. k \in DOMAIN revision
      BY <3>1 DEF Matching
    <3>3. Fits(all[j], G(k))
      BY <1>7, <2>3, <3>1
    <3> QED BY <3>2, <3>3
  <2> QED BY <1>2, <2>1, <2>2, <2>3
<1>10. Named(revision) = {G(k) : k \in DOMAIN revision}
  BY DEF Named
<1> HIDE DEF G
<1>11. \A g \in Named(revision) : \E j \in Active(all) : Fits(all[j], g)
  BY <1>8, <1>10
<1>12. \A j \in Active(all) : \E g \in Named(revision) : Fits(all[j], g)
  BY <1>9, <1>10
<1> QED BY <1>1, <1>11, <1>12 DEF Revised

-----------------------------------------------------------------------------
(* The drafts of a file.                                                   *)

LEMMA DraftIsNew ==
  ASSUME NEW sku, NEW price, NEW row, NEW variants, VariantsOK(variants),
         \A k \in DOMAIN variants : variants[k].status = "ACTIVE"
  PROVE  NewOK(Draft(sku, price, row, variants))
<1> PICK d : d = Draft(sku, price, row, variants)
  OBVIOUS
<1>1. /\ d.sku = sku /\ d.price = price /\ d.facts = FactsOf(row) /\ d.variants = variants
      /\ d.state \in {"READY", "INCOMPLETE"}
      /\ d \in [sku : {d.sku}, price : {d.price}, text : {d.text}, facts : {d.facts},
                variants : {d.variants}, tangled : {d.tangled}, status : {"UNRESOLVED"}, key : {d.key},
                missing : {{}}, state : {"READY", "INCOMPLETE"}]
  BY DEF Draft
<1>2. d \in [sku : {d.sku}, price : {d.price}, text : {d.text}, facts : {d.facts},
             variants : {d.variants}, tangled : {d.tangled},
             status : {"UNRESOLVED", "AMBIGUOUS", "RESOLVED", "CONFLICT"}, key : {d.key},
             missing : SUBSET Cores, state : {"INCOMPLETE", "CONFLICTED", "NEEDS_APPROVAL", "READY"}]
  BY <1>1
<1>3. IsFun(d.facts) /\ DOMAIN d.facts \subseteq Names
      /\ \A n \in DOMAIN d.facts : d.facts[n] = SourceFact(row[n])
  BY <1>1 DEF FactsOf, IsFun
<1>4. \A v : SourceFact(v).value = v /\ SourceFact(v) = SourceFact(SourceFact(v).value)
  BY DEF SourceFact, NoFact
<1>5. \A n, v : FactOK(n, SourceFact(v))
  <2> TAKE n, v
  <2>1. CASE v = None
    BY <2>1 DEF SourceFact, NoFact, FactOK
  <2>2. CASE v # None
    BY <2>2 DEF SourceFact, NoFact, FactOK
  <2> QED BY <2>1, <2>2
<1>6. FactsOK(d.facts)
  BY <1>3, <1>5 DEF FactsOK
<1>7. \A n \in DOMAIN d.facts : d.facts[n] = SourceFact(d.facts[n].value)
  BY <1>3, <1>4
<1> QED BY <1>1, <1>2, <1>6, <1>7 DEF NewOK, RowOK

LEMMA VariantOfRow ==
  ASSUME NEW row
  PROVE  VariantOf(row).status = "ACTIVE"
         /\ VariantOf(row) \in [sku : {VariantOf(row).sku}, option : {VariantOf(row).option},
                                status : {"ACTIVE", "STALE"}]
BY DEF VariantOf

LEMMA StyleDraftIsNew ==
  ASSUME NEW style, NEW chosen, IsSeq(chosen)
  PROVE  NewOK(StyleDraft(style, chosen))
<1> PICK variants : variants = [i \in DOMAIN chosen |-> VariantOf(chosen[i])]
  OBVIOUS
<1>1. Len(chosen) \in Nat /\ DOMAIN chosen = 1..Len(chosen)
  BY SeqIs
<1>2. IsSeq(variants)
  BY <1>1, SeqOf
<1>3. VariantsOK(variants) /\ \A k \in DOMAIN variants : variants[k].status = "ACTIVE"
  BY <1>2, VariantOfRow DEF VariantsOK
<1>4. StyleDraft(style, chosen) = Draft(style, Lowest(chosen), chosen[1], variants)
  BY DEF StyleDraft
<1> QED BY <1>3, <1>4, DraftIsNew

LEMMA RowDraftIsNew ==
  ASSUME NEW row
  PROVE  NewOK(RowDraft(row))
<1>1. VariantsOK(<<>>) /\ \A k \in DOMAIN <<>> : <<>>[k].status = "ACTIVE"
  <2>1. <<>> = [k \in 1..0 |-> <<>>[k]]
    OBVIOUS
  <2>2. IsSeq(<<>>)
    BY EmptySeq, SeqAny
  <2>3. DOMAIN <<>> = {}
    BY <2>1
  <2> QED BY <2>2, <2>3 DEF VariantsOK
<1> PICK one : one = <<VariantOf(row)>>
  OBVIOUS
<1>2. VariantsOK(one) /\ \A k \in DOMAIN one : one[k].status = "ACTIVE"
  <2>1. DOMAIN one = 1..1 /\ one = [k \in 1..1 |-> one[k]] /\ \A k \in DOMAIN one : one[k] = VariantOf(row)
    OBVIOUS
  <2>2. IsSeq(one)
    BY <2>1, SeqOf
  <2> QED BY <2>1, <2>2, VariantOfRow DEF VariantsOK
<1>3. CASE "photo" \in DOMAIN row
  BY <1>1, <1>3, DraftIsNew DEF RowDraft
<1>4. CASE "photo" \notin DOMAIN row
  <2>1. RowDraft(row) = Draft(Get(row, "sku"), PriceOf(row), row,
                              IF Get(row, "option") = None THEN <<>> ELSE one)
    BY <1>4 DEF RowDraft
  <2>2. CASE Get(row, "option") = None
    BY <1>1, <2>1, <2>2, DraftIsNew
  <2>3. CASE Get(row, "option") # None
    BY <1>2, <2>1, <2>3, DraftIsNew
  <2> QED BY <2>2, <2>3
<1> QED BY <1>3, <1>4

LEMMA PickedRows ==
  ASSUME NEW n \in Nat, NEW S, S \subseteq 1..n
  PROVE  S \subseteq Nat /\ IsFiniteSet(S)
<1>1. IsFiniteSet(1..n)
  BY FS_Interval
<1>2. IsFiniteSet(S)
  BY <1>1, FS_Subset
<1> QED BY <1>2

LEMMA BothAreNew ==
  ASSUME NEW s, NEW t, IsSeq(s), IsSeq(t), DOMAIN s # {} \/ DOMAIN t # {},
         \A k \in DOMAIN s : NewOK(s[k]), \A k \in DOMAIN t : NewOK(t[k])
  PROVE  IsSeq(s \o t) /\ s \o t # <<>> /\ \A k \in DOMAIN (s \o t) : NewOK((s \o t)[k])
<1> PICK all : all = s \o t
  OBVIOUS
<1>1. /\ IsSeq(all)
      /\ \A k \in DOMAIN s : k \in DOMAIN all
      /\ \A k \in DOMAIN t : Len(s) + k \in DOMAIN all
      /\ \A k \in DOMAIN all : \/ k \in DOMAIN s /\ all[k] = s[k]
                               \/ k - Len(s) \in DOMAIN t /\ all[k] = t[k - Len(s)]
  BY SeqConcat
<1>2. DOMAIN all # {}
  BY <1>1
<1>3. all # <<>>
  BY <1>2
<1>4. \A k \in DOMAIN all : NewOK(all[k])
  BY <1>1
<1> QED BY <1>1, <1>3, <1>4

\* A file is a number of new drafts, at least one.
LEMMA DraftsAreNew ==
  ASSUME NEW file, file # <<>>, IsSeq(file)
  PROVE  /\ IsSeq(DraftsOf(file)) /\ DraftsOf(file) # <<>>
         /\ \A k \in DOMAIN DraftsOf(file) : NewOK(DraftsOf(file)[k])
<1> DEFINE StyleAt(i) == Get(file[i], "style")
           Is(style) == {i \in DOMAIN file : StyleAt(i) = style}
           Of(style) == InOrder(Is(style))
           RowsOf(style) == [k \in DOMAIN Of(style) |-> file[Of(style)[k]]]
           Starts == {i \in DOMAIN file :
                        StyleAt(i) # None /\ \A j \in 1..(i - 1) : StyleAt(j) # StyleAt(i)}
<1> PICK starts : starts = InOrder(Starts)
  OBVIOUS
<1> PICK alone : alone = Of(None)
  OBVIOUS
<1> PICK styled : styled = [k \in DOMAIN starts |-> StyleDraft(StyleAt(starts[k]), RowsOf(StyleAt(starts[k])))]
  OBVIOUS
<1> PICK single : single = [k \in DOMAIN alone |-> RowDraft(RowsOf(None)[k])]
  OBVIOUS
<1>1. Len(file) \in Nat /\ DOMAIN file = 1..Len(file) /\ Len(file) # 0
  BY SeqIs, EmptySeq DEF IsSeq
<1>2. DraftsOf(file) = styled \o single
  BY DEF DraftsOf
<1>3. \A style : IsSeq(Of(style))
  <2> TAKE style
  <2>1. Is(style) \subseteq 1..Len(file)
    BY <1>1
  <2> HIDE DEF Is
  <2> QED BY <1>1, <2>1, PickedRows, InOrderIs
<1>4. \A style : IsSeq(RowsOf(style))
  <2> TAKE style
  <2> PICK of : of = Of(style)
    OBVIOUS
  <2>1. Len(of) \in Nat /\ DOMAIN of = 1..Len(of)
    BY <1>3, SeqIs
  <2> PICK rowsOf : rowsOf = RowsOf(style)
    OBVIOUS
  <2>2. rowsOf = [k \in 1..Len(of) |-> file[of[k]]]
    BY <2>1
  <2>3. IsSeq(rowsOf)
    BY <2>1, <2>2, SeqOf
  <2> QED BY <2>3
<1>5. /\ IsSeq(starts) /\ \A x \in Starts : \E k \in DOMAIN starts : starts[k] = x
  <2>1. Starts \subseteq 1..Len(file)
    BY <1>1
  <2> HIDE DEF Starts
  <2> QED BY <1>1, <2>1, PickedRows, InOrderIs
<1>6. /\ IsSeq(alone) /\ \A x \in Is(None) : \E k \in DOMAIN alone : alone[k] = x
  <2>1. Is(None) \subseteq 1..Len(file)
    BY <1>1
  <2> HIDE DEF Is
  <2> QED BY <1>1, <2>1, PickedRows, InOrderIs
<1>7. IsSeq(styled) /\ DOMAIN styled = DOMAIN starts
  <2> HIDE DEF StyleAt, RowsOf
  <2>1. Len(starts) \in Nat /\ DOMAIN starts = 1..Len(starts)
    BY <1>5, SeqIs
  <2> QED BY <2>1, SeqOf
<1>8. IsSeq(single) /\ DOMAIN single = DOMAIN alone
  <2> HIDE DEF RowsOf
  <2>1. Len(alone) \in Nat /\ DOMAIN alone = 1..Len(alone)
    BY <1>6, SeqIs
  <2> QED BY <2>1, SeqOf
<1>9. \A k \in DOMAIN styled : NewOK(styled[k])
  <2> HIDE DEF StyleAt, RowsOf
  <2> QED BY <1>4, <1>7, StyleDraftIsNew
<1>10. \A k \in DOMAIN single : NewOK(single[k])
  <2> HIDE DEF RowsOf
  <2> QED BY <1>8, RowDraftIsNew
<1>11. DOMAIN styled # {} \/ DOMAIN single # {}
  <2>1. 1 \in DOMAIN file
    <3> HIDE DEF StyleAt, Is, RowsOf
    <3> QED BY <1>1
  <2>2. CASE StyleAt(1) = None
    <3>1. 1 \in Is(None)
      BY <2>1, <2>2
    <3> HIDE DEF Is
    <3> QED BY <1>6, <1>8, <3>1
  <2>3. CASE StyleAt(1) # None
    <3>1. 1 \in Starts
      BY <2>1, <2>3
    <3> HIDE DEF Starts
    <3> QED BY <1>5, <1>7, <3>1
  <2> QED BY <2>2, <2>3
<1> HIDE DEF StyleAt, RowsOf, Starts, Of, Is
<1> QED BY <1>2, <1>7, <1>8, <1>9, <1>10, <1>11, BothAreNew

-----------------------------------------------------------------------------
(* Facts and validation.                                                   *)

LEMMA RowFields ==
  ASSUME NEW d, RowOK(d)
  PROVE  /\ IsFun(d.facts) /\ DOMAIN d.facts \subseteq Names /\ VariantsOK(d.variants)
         /\ \A n \in DOMAIN d.facts : FactOK(n, d.facts[n])
         /\ d.missing \subseteq Cores
         /\ d.state \in {"INCOMPLETE", "CONFLICTED", "NEEDS_APPROVAL", "READY"}
<1>1. d.missing \in SUBSET Cores /\ d.state \in {"INCOMPLETE", "CONFLICTED", "NEEDS_APPROVAL", "READY"}
  BY DEF RowOK
<1> QED BY <1>1 DEF RowOK, FactsOK

\* The value of a fact is None when it is missing.
LEMMA ValueIs ==
  ASSUME NEW d, RowOK(d), NEW n \in DOMAIN d.facts
  PROVE  /\ ValueOf(d, n) = d.facts[n].value
         /\ d.facts[n].value = None <=> d.facts[n].by = "missing"
         /\ d.facts[n].by = "missing" => ~ d.facts[n].disputed
BY DEF RowOK, FactsOK, FactOK, ValueOf

LEMMA CompletedIs ==
  ASSUME NEW d, RowOK(d)
  PROVE  /\ RowOK(Completed(d)) /\ FactsAs(d, Completed(d), {})
         /\ Completed(d).missing \subseteq DOMAIN Completed(d).facts
         /\ \A n \in Completed(d).missing : Completed(d).facts[n].by = "missing"
         /\ Completed(d).variants = d.variants
<1> DEFINE Lacking(n) == n \in required /\ d[n] = None
           Field(n) == IF Lacking(n) THEN Normal(n, ValueOf(d, n)) ELSE d[n]
           Absent(n) == n \in Cores /\ Lacking(n) /\ ValueOf(d, n) = None
<1> PICK missing : missing = {n \in Cores : Absent(n)}
  OBVIOUS
<1> PICK facts : facts = [n \in DOMAIN d.facts \cup missing |->
                            IF n \notin DOMAIN d.facts THEN NoFact
                            ELSE IF n \in missing THEN [d.facts[n] EXCEPT !.by = "missing"]
                            ELSE d.facts[n]]
  OBVIOUS
<1> PICK sku : sku = Field("sku")
  OBVIOUS
<1> PICK price : price = Field("price")
  OBVIOUS
<1> PICK text : text = Field("text")
  OBVIOUS
<1>1. Completed(d) = [d EXCEPT !.sku = sku, !.price = price, !.text = text, !.facts = facts,
                               !.missing = missing]
  <2>1. \A n : Absent(n) <=> n \in missing
    OBVIOUS
  <2> QED BY <2>1 DEF Completed
<1> PICK c : c = Completed(d)
  OBVIOUS
<1>2. \A n \in missing : n \in Cores /\ ValueOf(d, n) = None
  OBVIOUS
<1>3. /\ IsFun(d.facts) /\ DOMAIN d.facts \subseteq Names
      /\ \A n \in DOMAIN d.facts : FactOK(n, d.facts[n])
      /\ VariantsOK(d.variants)
  BY RowFields
<1> HIDE DEF Field, Absent
<1>4. \A n \in missing \cap DOMAIN d.facts : [d.facts[n] EXCEPT !.by = "missing"] = d.facts[n]
  <2> TAKE n \in missing \cap DOMAIN d.facts
  <2>1. d.facts[n].by = "missing"
    BY <1>2, ValueIs
  <2>2. FactOK(n, d.facts[n])
    BY <1>3
  <2> QED BY <2>1, <2>2 DEF FactOK
<1>5. /\ DOMAIN facts = DOMAIN d.facts \cup missing
      /\ \A n \in DOMAIN d.facts : facts[n] = d.facts[n]
      /\ \A n \in DOMAIN facts : n \notin DOMAIN d.facts => facts[n] = NoFact
  BY <1>4
<1>6. \A n : FactOK(n, NoFact)
  BY DEF FactOK, NoFact
<1>7. FactsOK(facts)
  <2>1. IsFun(facts)
    BY DEF IsFun
  <2>2. Cores \subseteq Names
    BY DEF Cores, Names
  <2> QED BY <1>2, <1>3, <1>5, <1>6, <2>1, <2>2 DEF FactsOK
<1>8. /\ c.facts = facts /\ c.missing = missing /\ c.variants = d.variants
      /\ c \in [sku : {c.sku}, price : {c.price}, text : {c.text}, facts : {c.facts},
                variants : {c.variants}, tangled : {c.tangled},
                status : {"UNRESOLVED", "AMBIGUOUS", "RESOLVED", "CONFLICT"}, key : {c.key},
                missing : {missing}, state : {"INCOMPLETE", "CONFLICTED", "NEEDS_APPROVAL", "READY"}]
  BY <1>1 DEF RowOK
<1>9. missing \in SUBSET Cores
  BY <1>2
<1>10. RowOK(c)
  <2>1. c \in [sku : {c.sku}, price : {c.price}, text : {c.text}, facts : {c.facts},
               variants : {c.variants}, tangled : {c.tangled},
               status : {"UNRESOLVED", "AMBIGUOUS", "RESOLVED", "CONFLICT"}, key : {c.key},
               missing : SUBSET Cores, state : {"INCOMPLETE", "CONFLICTED", "NEEDS_APPROVAL", "READY"}]
    BY <1>8, <1>9
  <2> QED BY <1>3, <1>7, <1>8, <2>1 DEF RowOK
<1>11. FactsAs(d, c, {})
  <2>1. DOMAIN d.facts \subseteq DOMAIN c.facts
    BY <1>5, <1>8
  <2>2. ASSUME NEW n \in DOMAIN c.facts
        PROVE  c.facts[n] = IF n \in DOMAIN d.facts THEN d.facts[n] ELSE NoFact
    BY <1>5, <1>8
  <2>3. \A f, g : f = g => SameFact(f, g)
    BY DEF SameFact
  <2> QED BY <2>1, <2>2, <2>3 DEF FactsAs
<1>12. \A n \in missing : facts[n].by = "missing"
  <2> TAKE n \in missing
  <2>1. CASE n \in DOMAIN d.facts
    BY <1>2, <1>5, <2>1, ValueIs
  <2>2. CASE n \notin DOMAIN d.facts
    BY <1>5, <2>2 DEF NoFact
  <2> QED BY <2>1, <2>2
<1> QED BY <1>5, <1>8, <1>10, <1>11, <1>12

LEMMA ValidateIs ==
  ASSUME NEW d, RowOK(d)
  PROVE  /\ RowOK(Validate(d)) /\ Checked(Validate(d)) /\ Shows(Validate(d))
         /\ FactsAs(d, Validate(d), {}) /\ Validate(d).variants = d.variants
<1> PICK c : c = Completed(d)
  OBVIOUS
<1>1. /\ RowOK(c) /\ FactsAs(d, c, {}) /\ c.missing \subseteq DOMAIN c.facts
      /\ \A n \in c.missing : c.facts[n].by = "missing"
      /\ c.variants = d.variants
  BY CompletedIs
<1> DEFINE named == c.status = "UNRESOLVED" /\ c.sku # None
<1> PICK tangled : tangled = (c.tangled \/ Tangled(c.variants))
  OBVIOUS
<1>2. ~ Invented(c)
  <2>1. \A n \in DOMAIN c.facts : n \in Protected => c.facts[n].by # "ai"
    BY <1>1, RowFields DEF FactOK
  <2> QED BY <2>1 DEF Invented
<1> PICK state : state = IF tangled \/ Disputed(c) # {} THEN "CONFLICTED"
                         ELSE IF c.missing # {} THEN "INCOMPLETE"
                         ELSE IF \E n \in DOMAIN c.facts : ~ c.facts[n].approved
                         THEN "NEEDS_APPROVAL" ELSE "READY"
  OBVIOUS
<1> PICK status : status = IF named THEN "RESOLVED" ELSE c.status
  OBVIOUS
<1> PICK name : name = IF named THEN <<"sku", c.sku>> ELSE c.key
  OBVIOUS
<1>3. Validate(d) = [c EXCEPT !.status = status, !.key = name, !.tangled = tangled, !.state = state]
  <2>1. state = CASE Invented(c) -> "INVALID"
                  [] ~ Invented(c) /\ (tangled \/ Disputed(c) # {}) -> "CONFLICTED"
                  [] OTHER -> IF c.missing # {} THEN "INCOMPLETE"
                              ELSE IF \E n \in DOMAIN c.facts : ~ c.facts[n].approved
                              THEN "NEEDS_APPROVAL" ELSE "READY"
    BY <1>2
  <2> QED BY <2>1 DEF Validate
<1> PICK v : v = Validate(d)
  OBVIOUS
<1>4. c \in [sku : {c.sku}, price : {c.price}, text : {c.text}, facts : {c.facts},
             variants : {c.variants}, tangled : {c.tangled},
             status : {"UNRESOLVED", "AMBIGUOUS", "RESOLVED", "CONFLICT"}, key : {c.key},
             missing : SUBSET Cores, state : {"INCOMPLETE", "CONFLICTED", "NEEDS_APPROVAL", "READY"}]
  BY <1>1 DEF RowOK
<1>5. state \in {"INCOMPLETE", "CONFLICTED", "NEEDS_APPROVAL", "READY"}
  OBVIOUS
<1>6. status \in {"UNRESOLVED", "AMBIGUOUS", "RESOLVED", "CONFLICT"}
  BY <1>4
<1>7. /\ v.facts = c.facts /\ v.missing = c.missing /\ v.variants = c.variants /\ v.state = state
      /\ v \in [sku : {v.sku}, price : {v.price}, text : {v.text}, facts : {v.facts},
                variants : {v.variants}, tangled : {v.tangled},
                status : {"UNRESOLVED", "AMBIGUOUS", "RESOLVED", "CONFLICT"}, key : {v.key},
                missing : SUBSET Cores, state : {"INCOMPLETE", "CONFLICTED", "NEEDS_APPROVAL", "READY"}]
  BY <1>3, <1>4, <1>5, <1>6
<1>8. RowOK(v)
  BY <1>1, <1>7 DEF RowOK
<1>9. Checked(v)
  BY <1>1, <1>7 DEF Checked
<1>10. Shows(v)
  BY <1>7 DEF Shows, Disputed
<1>11. FactsAs(d, v, {})
  BY <1>1, <1>7 DEF FactsAs
<1> QED BY <1>1, <1>7, <1>8, <1>9, <1>10, <1>11

LEMMA WithFactIs ==
  ASSUME NEW d, RowOK(d), NEW n \in Cores, NEW f, FactOK(n, f), NEW v
  PROVE  LET r == WithCore(WithFact(d, n, f), n, v) IN
         /\ RowOK(r) /\ FactsAs(d, r, {n}) /\ n \in DOMAIN r.facts /\ r.facts[n] = f
         /\ r.variants = d.variants
<1> PICK facts : facts = [m \in DOMAIN d.facts \cup {n} |-> IF m = n THEN f ELSE d.facts[m]]
  OBVIOUS
<1> PICK w : w = Normal(n, v)
  OBVIOUS
<1> PICK r : r = WithCore(WithFact(d, n, f), n, v)
  OBVIOUS
<1>1. r = [[d EXCEPT !.facts = facts] EXCEPT ![n] = w]
  BY DEF WithCore, WithFact
<1>2. /\ IsFun(d.facts) /\ DOMAIN d.facts \subseteq Names
      /\ \A m \in DOMAIN d.facts : FactOK(m, d.facts[m])
      /\ VariantsOK(d.variants)
  BY RowFields
<1>3. d \in [sku : {d.sku}, price : {d.price}, text : {d.text}, facts : {d.facts},
             variants : {d.variants}, tangled : {d.tangled},
             status : {"UNRESOLVED", "AMBIGUOUS", "RESOLVED", "CONFLICT"}, key : {d.key},
             missing : SUBSET Cores, state : {"INCOMPLETE", "CONFLICTED", "NEEDS_APPROVAL", "READY"}]
  BY DEF RowOK
<1>4. /\ r.facts = facts /\ r.variants = d.variants
      /\ r \in [sku : {r.sku}, price : {r.price}, text : {r.text}, facts : {r.facts},
                variants : {r.variants}, tangled : {r.tangled},
                status : {"UNRESOLVED", "AMBIGUOUS", "RESOLVED", "CONFLICT"}, key : {r.key},
                missing : SUBSET Cores, state : {"INCOMPLETE", "CONFLICTED", "NEEDS_APPROVAL", "READY"}]
  <2>1. CASE n = "sku"
    BY <1>1, <1>3, <2>1
  <2>2. CASE n = "price"
    BY <1>1, <1>3, <2>2
  <2>3. CASE n = "text"
    BY <1>1, <1>3, <2>3
  <2> QED BY <2>1, <2>2, <2>3 DEF Cores
<1>5. /\ DOMAIN facts = DOMAIN d.facts \cup {n} /\ facts[n] = f
      /\ \A m \in DOMAIN facts \ {n} : m \in DOMAIN d.facts /\ facts[m] = d.facts[m]
  OBVIOUS
<1>6. FactsOK(facts)
  <2>1. IsFun(facts)
    BY DEF IsFun
  <2>2. n \in Names
    BY DEF Cores, Names
  <2>3. \A m \in DOMAIN facts : FactOK(m, facts[m])
    BY <1>2, <1>5
  <2> QED BY <1>2, <1>5, <2>1, <2>2, <2>3 DEF FactsOK
<1>7. RowOK(r)
  BY <1>2, <1>4, <1>6 DEF RowOK
<1>8. FactsAs(d, r, {n})
  BY <1>4, <1>5 DEF FactsAs, SameFact
<1> QED BY <1>4, <1>5, <1>7, <1>8

\* What the owner answers, and the AI writes, is the normal form of the value it names.
LEMMA StoredIs ==
  ASSUME NEW n \in Cores, NEW v, v # None, n = "price" => v \in PriceRead
  PROVE  Stored(n, v) # None /\ Normal(n, Stored(n, v)) = Normal(n, v)
<1>1. CASE n # "price"
  BY <1>1 DEF Stored, Normal
<1>2. CASE n = "price"
  <2>1. v.form \in {"words", "cell"} /\ v.amount \in Nat
    BY <1>2 DEF PriceRead
  <2>2. Normal("price", v) \in Nat
    BY <2>1 DEF Normal
  <2>3. Stored(n, v) \in PriceRead
    BY <1>2, <2>2 DEF Stored, Cell, PriceRead
  <2>4. Stored(n, v) # None
    BY <2>3, CatalogueAssumption
  <2>5. Normal("price", Stored(n, v)) = Normal("price", v)
    <3>1. Stored(n, v).form = "cell" /\ Stored(n, v).amount = Normal("price", v)
      BY <1>2 DEF Stored, Cell
    <3> QED BY <2>4, <3>1 DEF Normal
  <2> QED BY <1>2, <2>4, <2>5
<1> QED BY <1>1, <1>2

LEMMA AnswerIs ==
  ASSUME NEW n \in Cores, NEW v \in Answers[n]
  PROVE  v # None /\ (n = "price" => v \in PriceRead)
BY CatalogueAssumption

\* r is d, but that by says about n what d had in dispute or not.
Says(d, r, n, value, by) ==
  /\ RowOK(r) /\ FactsAs(d, r, {n}) /\ r.variants = d.variants
  /\ n \in DOMAIN r.facts /\ r.facts[n].by = by /\ r.facts[n].value = value
  /\ r.facts[n].disputed <=> n \in Disputed(d)

LEMMA SuppliedIs ==
  ASSUME NEW d, RowOK(d), NEW n \in Cores, NEW v, v # None, n = "price" => v \in PriceRead,
         NEW by \in {"human", "ai"}, by = "ai" => n = "text",
         NEW r, r = Supplied(d, n, v, by)
  PROVE  Says(d, r, n, Stored(n, v), by)
<1> PICK disputed : disputed = IF n \in DOMAIN d.facts THEN d.facts[n].disputed ELSE FALSE
  OBVIOUS
<1> PICK f : f = [value |-> Stored(n, v), by |-> by, approved |-> TRUE, disputed |-> disputed]
  OBVIOUS
<1>1. disputed \in BOOLEAN
  BY RowFields DEF FactOK
<1>2. Stored(n, v) # None
  BY StoredIs
<1>3. FactOK(n, f)
  <2>1. f \in [value : {f.value}, by : {"missing", "source", "human", "ai"}, disputed : BOOLEAN,
               approved : BOOLEAN]
    BY <1>1
  <2>2. f.by # "missing" /\ f.value # None
    BY <1>2
  <2>3. n \in Protected => f.by # "ai"
    BY DEF Protected
  <2> QED BY <2>1, <2>2, <2>3 DEF FactOK
<1>4. r = WithCore(WithFact(d, n, f), n, v)
  BY DEF Supplied
<1>5. /\ RowOK(r) /\ FactsAs(d, r, {n}) /\ n \in DOMAIN r.facts /\ r.facts[n] = f
      /\ r.variants = d.variants
  BY <1>3, <1>4, WithFactIs
<1>6. disputed <=> n \in Disputed(d)
  BY DEF Disputed
<1> QED BY <1>5, <1>6 DEF Says

LEMMA FactsAsTwice ==
  ASSUME NEW a, NEW b, NEW d, NEW S, FactsAs(a, b, S), FactsAs(b, d, {})
  PROVE  FactsAs(a, d, S)
<1>1. DOMAIN a.facts \subseteq DOMAIN b.facts /\ DOMAIN b.facts \subseteq DOMAIN d.facts
  BY DEF FactsAs
<1>2. ASSUME NEW n \in DOMAIN d.facts \ S
      PROVE  SameFact(d.facts[n], IF n \in DOMAIN a.facts THEN a.facts[n] ELSE NoFact)
  <2>1. SameFact(d.facts[n], IF n \in DOMAIN b.facts THEN b.facts[n] ELSE NoFact)
    BY DEF FactsAs
  <2>2. CASE n \in DOMAIN b.facts
    <3>1. SameFact(b.facts[n], IF n \in DOMAIN a.facts THEN a.facts[n] ELSE NoFact)
      BY <2>2 DEF FactsAs
    <3> QED BY <2>1, <2>2, <3>1 DEF SameFact
  <2>3. CASE n \notin DOMAIN b.facts
    BY <1>1, <2>1, <2>3
  <2> QED BY <2>2, <2>3
<1> QED BY <1>1, <1>2 DEF FactsAs

LEMMA ResolvedIs ==
  ASSUME NEW d, RowOK(d), NEW n \in Cores, NEW v \in Answers[n]
  PROVE  RowOK(Validate(Resolved(d, n, v))) /\ Settles(d, Validate(Resolved(d, n, v)), n, v)
<1> PICK f : f = [value |-> v, by |-> "human", disputed |-> FALSE, approved |-> TRUE]
  OBVIOUS
<1>1. v # None
  BY AnswerIs
<1>2. FactOK(n, f)
  BY <1>1 DEF FactOK
<1> PICK r : r = Resolved(d, n, v)
  OBVIOUS
<1>3. r = WithCore(WithFact(d, n, f), n, v)
  BY DEF Resolved
<1>4. /\ RowOK(r) /\ FactsAs(d, r, {n}) /\ n \in DOMAIN r.facts /\ r.facts[n] = f
      /\ r.variants = d.variants
  BY <1>2, <1>3, WithFactIs
<1> PICK w : w = Validate(r)
  OBVIOUS
<1>5. RowOK(w) /\ Shows(w) /\ FactsAs(r, w, {}) /\ w.variants = d.variants
  BY <1>4, ValidateIs
<1>6. n \in DOMAIN w.facts /\ SameFact(w.facts[n], f)
  BY <1>4, <1>5 DEF FactsAs
<1>7. FactsAs(d, w, {n})
  BY <1>4, <1>5, FactsAsTwice
<1> QED BY <1>5, <1>6, <1>7 DEF Settles, SameFact

LEMMA FactsApprovedIs ==
  ASSUME NEW d, RowOK(d)
  PROVE  /\ RowOK(FactsApproved(d)) /\ FactsAs(d, FactsApproved(d), {})
         /\ FactsApproved(d).variants = d.variants
<1> PICK facts : facts = [n \in DOMAIN d.facts |->
                            [d.facts[n] EXCEPT !.approved = @ \/ ~ d.facts[n].disputed]]
  OBVIOUS
<1> PICK r : r = FactsApproved(d)
  OBVIOUS
<1>1. r = [d EXCEPT !.facts = facts]
  BY DEF FactsApproved
<1>2. /\ IsFun(d.facts) /\ DOMAIN d.facts \subseteq Names
      /\ \A m \in DOMAIN d.facts : FactOK(m, d.facts[m])
      /\ VariantsOK(d.variants)
  BY RowFields
<1>3. d \in [sku : {d.sku}, price : {d.price}, text : {d.text}, facts : {d.facts},
             variants : {d.variants}, tangled : {d.tangled},
             status : {"UNRESOLVED", "AMBIGUOUS", "RESOLVED", "CONFLICT"}, key : {d.key},
             missing : SUBSET Cores, state : {"INCOMPLETE", "CONFLICTED", "NEEDS_APPROVAL", "READY"}]
  BY DEF RowOK
<1>4. /\ r.facts = facts /\ r.variants = d.variants
      /\ r \in [sku : {r.sku}, price : {r.price}, text : {r.text}, facts : {r.facts},
                variants : {r.variants}, tangled : {r.tangled},
                status : {"UNRESOLVED", "AMBIGUOUS", "RESOLVED", "CONFLICT"}, key : {r.key},
                missing : SUBSET Cores, state : {"INCOMPLETE", "CONFLICTED", "NEEDS_APPROVAL", "READY"}]
  BY <1>1, <1>3
<1>5. ASSUME NEW n \in DOMAIN d.facts
      PROVE  FactOK(n, facts[n]) /\ SameFact(facts[n], d.facts[n])
  <2> PICK f : f = d.facts[n]
    OBVIOUS
  <2> PICK approved : approved = (f.approved \/ ~ f.disputed)
    OBVIOUS
  <2>1. FactOK(n, f)
    BY <1>2
  <2>2. facts[n] = [f EXCEPT !.approved = approved]
    OBVIOUS
  <2>3. approved \in BOOLEAN
    BY <2>1 DEF FactOK
  <2> QED BY <2>1, <2>2, <2>3 DEF FactOK, SameFact
<1>6. DOMAIN facts = DOMAIN d.facts /\ IsFun(facts)
  BY DEF IsFun
<1>7. FactsOK(facts)
  BY <1>2, <1>5, <1>6 DEF FactsOK
<1>8. FactsAs(d, r, {})
  BY <1>4, <1>5, <1>6 DEF FactsAs
<1> QED BY <1>2, <1>4, <1>7, <1>8 DEF RowOK

-----------------------------------------------------------------------------
(* Merging.                                                                *)

LEMMA IdentityIs ==
  ASSUME NEW d, NEW known, NEW identity \in Identities(d, known)
  PROVE  identity.status \in {"UNRESOLVED", "AMBIGUOUS", "RESOLVED", "CONFLICT"}
<1> DEFINE style == ValueOf(d, "style")
           barcode == ValueOf(d, "barcode")
           Key(kind, value) == {[status |-> "RESOLVED", key |-> <<kind, value>>]}
           Conflict == {[status |-> "CONFLICT", key |-> None]}
           Unknown == {[status |-> s, key |-> None] :
                         s \in {"UNRESOLVED"} \cup (IF DOMAIN known = {} THEN {} ELSE {"AMBIGUOUS"})}
<1>1. \/ \E kind, value : identity \in Key(kind, value)
      \/ identity \in Conflict
      \/ identity \in Unknown
  <2> HIDE DEF Conflict, Unknown, Key
  <2> QED BY DEF Identities, Conflict, Unknown, Key
<1>2. \A kind, value : identity \in Key(kind, value) => identity.status = "RESOLVED"
  OBVIOUS
<1>3. identity \in Conflict => identity.status = "CONFLICT"
  OBVIOUS
<1>4. identity \in Unknown => identity.status \in {"UNRESOLVED", "AMBIGUOUS"}
  OBVIOUS
<1> QED BY <1>1, <1>2, <1>3, <1>4

\* A new draft with an identity.
Identified(h, status, name) == [h EXCEPT !.status = status, !.key = name]

LEMMA NamedIsNew ==
  ASSUME NEW h, NewOK(h), NEW name,
         NEW status \in {"UNRESOLVED", "AMBIGUOUS", "RESOLVED", "CONFLICT"}
  PROVE  NewOK(Identified(h, status, name))
<1> PICK r : r = Identified(h, status, name)
  OBVIOUS
<1>1. h \in [sku : {h.sku}, price : {h.price}, text : {h.text}, facts : {h.facts},
             variants : {h.variants}, tangled : {h.tangled},
             status : {"UNRESOLVED", "AMBIGUOUS", "RESOLVED", "CONFLICT"}, key : {h.key},
             missing : SUBSET Cores, state : {"INCOMPLETE", "CONFLICTED", "NEEDS_APPROVAL", "READY"}]
  BY DEF NewOK, RowOK
<1>2. /\ r.facts = h.facts /\ r.variants = h.variants /\ r.state = h.state
      /\ r \in [sku : {r.sku}, price : {r.price}, text : {r.text}, facts : {r.facts},
                variants : {r.variants}, tangled : {r.tangled},
                status : {"UNRESOLVED", "AMBIGUOUS", "RESOLVED", "CONFLICT"}, key : {r.key},
                missing : SUBSET Cores, state : {"INCOMPLETE", "CONFLICTED", "NEEDS_APPROVAL", "READY"}]
  BY <1>1 DEF Identified
<1> QED BY <1>2 DEF NewOK, RowOK

LEMMA MergedFactIs ==
  ASSUME NEW n, NEW f, NEW in, FactOK(n, f), FactOK(n, in)
  PROVE  FactOK(n, MergedFact(n, f, in))
<1>1. CASE f.by = "missing" /\ in.value # None
  BY <1>1 DEF MergedFact
<1>2. CASE ~ (f.by = "missing" /\ in.value # None) /\ (in.value = None \/ Normal(n, f.value) = Normal(n, in.value))
  BY <1>2 DEF MergedFact
<1>3. CASE ~ (f.by = "missing" /\ in.value # None) /\ ~ (in.value = None \/ Normal(n, f.value) = Normal(n, in.value))
  <2>1. MergedFact(n, f, in) = [f EXCEPT !.disputed = TRUE] /\ f.by # "missing"
    BY <1>3 DEF MergedFact
  <2> QED BY <2>1 DEF FactOK
<1> QED BY <1>1, <1>2, <1>3

LEMMA MergedIs ==
  ASSUME NEW d, RowOK(d), NEW in, NewOK(in)
  PROVE  LET m == MergedDraft(d, in) IN
         /\ RowOK(m) /\ m.facts = MergedFacts(d.facts, in.facts)
         /\ DOMAIN m.facts = DOMAIN d.facts \cup DOMAIN in.facts
         /\ m.variants = IF in.variants = <<>> THEN d.variants ELSE Reconciled(d.variants, in.variants)
         /\ \/ m.state = "CONFLICTED"
            \/ /\ m.state = d.state
               /\ \A n \in DOMAIN in.facts \cap DOMAIN d.facts :
                    m.facts[n].disputed /\ in.facts[n].value # None =>
                      Normal(n, in.facts[n].value) = Normal(n, d.facts[n].value)
<1> PICK facts : facts = MergedFacts(d.facts, in.facts)
  OBVIOUS
<1> PICK disputes : disputes = {n \in DOMAIN in.facts \cap DOMAIN d.facts :
                                  facts[n].disputed /\ in.facts[n].value # None
                                  /\ Normal(n, in.facts[n].value) # Normal(n, d.facts[n].value)}
  OBVIOUS
<1> PICK variants : variants = IF in.variants = <<>> THEN d.variants ELSE Reconciled(d.variants, in.variants)
  OBVIOUS
<1> PICK name : name = IF in.key = None THEN d.key ELSE in.key
  OBVIOUS
<1> PICK state : state = IF disputes = {} THEN d.state ELSE "CONFLICTED"
  OBVIOUS
<1> PICK m : m = MergedDraft(d, in)
  OBVIOUS
<1>1. m = [d EXCEPT !.facts = facts, !.variants = variants, !.status = in.status, !.key = name,
                    !.state = state]
  BY DEF MergedDraft
<1>2. RowOK(in)
  BY DEF NewOK
<1>3. d \in [sku : {d.sku}, price : {d.price}, text : {d.text}, facts : {d.facts},
             variants : {d.variants}, tangled : {d.tangled},
             status : {"UNRESOLVED", "AMBIGUOUS", "RESOLVED", "CONFLICT"}, key : {d.key},
             missing : SUBSET Cores, state : {"INCOMPLETE", "CONFLICTED", "NEEDS_APPROVAL", "READY"}]
  BY DEF RowOK
<1>4. in.status \in {"UNRESOLVED", "AMBIGUOUS", "RESOLVED", "CONFLICT"}
  BY <1>2 DEF RowOK
<1>5. state \in {"INCOMPLETE", "CONFLICTED", "NEEDS_APPROVAL", "READY"}
  BY <1>3, Zenon
<1>6. /\ m.facts = facts /\ m.variants = variants /\ m.state = state
      /\ m \in [sku : {m.sku}, price : {m.price}, text : {m.text}, facts : {m.facts},
                variants : {m.variants}, tangled : {m.tangled},
                status : {"UNRESOLVED", "AMBIGUOUS", "RESOLVED", "CONFLICT"}, key : {m.key},
                missing : SUBSET Cores, state : {"INCOMPLETE", "CONFLICTED", "NEEDS_APPROVAL", "READY"}]
  BY <1>1, <1>3, <1>4, <1>5, Zenon
<1>7. /\ IsFun(d.facts) /\ DOMAIN d.facts \subseteq Names /\ VariantsOK(d.variants)
      /\ \A n \in DOMAIN d.facts : FactOK(n, d.facts[n])
      /\ IsFun(in.facts) /\ DOMAIN in.facts \subseteq Names /\ VariantsOK(in.variants)
      /\ \A n \in DOMAIN in.facts : FactOK(n, in.facts[n])
  BY <1>2, RowFields
<1>8. /\ DOMAIN facts = DOMAIN d.facts \cup DOMAIN in.facts /\ IsFun(facts)
      /\ \A n \in DOMAIN facts :
           facts[n] = IF n \notin DOMAIN d.facts THEN in.facts[n]
                      ELSE IF n \notin DOMAIN in.facts THEN d.facts[n]
                      ELSE MergedFact(n, d.facts[n], in.facts[n])
  BY DEF MergedFacts, IsFun
<1>9. FactsOK(facts)
  <2>1. \A n \in DOMAIN facts : FactOK(n, facts[n])
    BY <1>7, <1>8, MergedFactIs
  <2> QED BY <1>7, <1>8, <2>1 DEF FactsOK
<1>10. VariantsOK(variants)
  BY <1>7, ReconciledIs
<1>11. RowOK(m)
  BY <1>6, <1>9, <1>10 DEF RowOK
<1>12. m.state = "CONFLICTED" \/ (m.state = d.state /\ disputes = {})
  BY <1>6
<1> QED BY <1>6, <1>8, <1>11, <1>12

-----------------------------------------------------------------------------
(* Evidence.                                                               *)

LEMMA BackedAs ==
  ASSUME NEW b, NEW d, NEW h, Backed(b, h), FactsAs(b, d, {}), Shows(d), RowOK(d)
  PROVE  Backed(d, h)
<1>1. DOMAIN b.facts \subseteq DOMAIN d.facts /\ DOMAIN d.facts \subseteq Names
  BY RowFields DEF FactsAs
<1>2. \A n \in Names \ DOMAIN d.facts : h[n] = {}
  BY <1>1 DEF Backed
<1>3. ASSUME NEW n \in DOMAIN d.facts
      PROVE  /\ d.facts[n].by = "missing" <=> h[n] = {}
             /\ d.facts[n].by # "missing" => Normal(n, d.facts[n].value) \in h[n]
             /\ d.facts[n].disputed <=> Various(h[n])
  <2>1. CASE n \in DOMAIN b.facts
    <3>1. SameFact(d.facts[n], b.facts[n])
      BY <2>1 DEF FactsAs
    <3> QED BY <2>1, <3>1 DEF Backed, SameFact
  <2>2. CASE n \notin DOMAIN b.facts
    <3>1. SameFact(d.facts[n], NoFact)
      BY <2>2 DEF FactsAs
    <3>2. h[n] = {}
      BY <1>1, <2>2 DEF Backed
    <3>3. ~ Various(h[n])
      BY <3>2 DEF Various
    <3> QED BY <3>1, <3>2, <3>3 DEF SameFact, NoFact
  <2> QED BY <2>1, <2>2
<1> QED BY <1>2, <1>3 DEF Backed

\* What is said of one fact, of a row put now or put before.
LEMMA BackedTold ==
  ASSUME NEW b, NEW d, NEW h, DOMAIN h = Names, NEW n \in Names, NEW S, RowOK(d),
         FactsAs(b, d, {n}), Shows(d), n \in DOMAIN d.facts, d.facts[n].by # "missing",
         Normal(n, d.facts[n].value) \in S, d.facts[n].disputed <=> Various(S),
         Backed(b, h) \/ Backed(d, h)
  PROVE  Backed(d, [h EXCEPT ![n] = S])
<1> PICK g : g = [h EXCEPT ![n] = S]
  OBVIOUS
<1>1. g[n] = S /\ \A m \in Names \ {n} : g[m] = h[m]
  OBVIOUS
<1>2. DOMAIN d.facts \subseteq Names
  BY RowFields
<1>3. DOMAIN b.facts \subseteq DOMAIN d.facts
  BY DEF FactsAs
<1>4. \A m \in Names \ DOMAIN d.facts : g[m] = {}
  BY <1>1, <1>3 DEF Backed
<1>5. ASSUME NEW m \in DOMAIN d.facts, m # n
      PROVE  /\ d.facts[m].by = "missing" <=> h[m] = {}
             /\ d.facts[m].by # "missing" => Normal(m, d.facts[m].value) \in h[m]
             /\ d.facts[m].disputed <=> Various(h[m])
  <2>1. CASE Backed(d, h)
    BY <2>1 DEF Backed
  <2>2. CASE Backed(b, h)
    <3>1. CASE m \in DOMAIN b.facts
      <4>1. SameFact(d.facts[m], b.facts[m])
        BY <1>5, <3>1 DEF FactsAs
      <4> QED BY <2>2, <3>1, <4>1 DEF Backed, SameFact
    <3>2. CASE m \notin DOMAIN b.facts
      <4>1. SameFact(d.facts[m], NoFact)
        BY <1>5, <3>2 DEF FactsAs
      <4>2. h[m] = {}
        BY <1>2, <2>2, <3>2 DEF Backed
      <4>3. ~ Various(h[m])
        BY <4>2 DEF Various
      <4> QED BY <4>1, <4>2, <4>3 DEF SameFact, NoFact
    <3> QED BY <3>1, <3>2
  <2> QED BY <2>1, <2>2
<1>6. ASSUME NEW m \in DOMAIN d.facts
      PROVE  /\ d.facts[m].by = "missing" <=> g[m] = {}
             /\ d.facts[m].by # "missing" => Normal(m, d.facts[m].value) \in g[m]
             /\ d.facts[m].disputed <=> Various(g[m])
  <2>1. CASE m = n
    <3>1. S # {}
      OBVIOUS
    <3> QED BY <1>1, <2>1, <3>1
  <2>2. CASE m # n
    <3>1. g[m] = h[m]
      BY <1>1, <1>2, <2>2
    <3> QED BY <1>5, <2>2, <3>1
  <2> QED BY <2>1, <2>2
<1> QED BY <1>4, <1>6 DEF Backed

LEMMA SourceFactIs ==
  ASSUME NEW v
  PROVE  /\ SourceFact(v).value = v /\ ~ SourceFact(v).disputed
         /\ SourceFact(v).by = "missing" <=> v = None
BY DEF SourceFact, NoFact

\* What a new draft says of one name.
LEMMA SaidIs ==
  ASSUME NEW in, NewOK(in)
  PROVE  /\ DOMAIN Said(in) = Names
         /\ \A n \in Names \ DOMAIN in.facts : Said(in)[n] = {}
         /\ \A n \in DOMAIN in.facts :
              Said(in)[n] = IF in.facts[n].value = None THEN {} ELSE {Normal(n, in.facts[n].value)}
         /\ \A n \in Names : IsFiniteSet(Said(in)[n])
<1>1. DOMAIN in.facts \subseteq Names
  BY RowFields DEF NewOK
<1>2. /\ \A n \in Names \ DOMAIN in.facts : Said(in)[n] = {}
      /\ \A n \in DOMAIN in.facts :
           Said(in)[n] = IF in.facts[n].value = None THEN {} ELSE {Normal(n, in.facts[n].value)}
  BY <1>1 DEF Said, ValueOf
<1>3. \A n \in Names : Said(in)[n] = {} \/ \E w : Said(in)[n] = {w}
  BY DEF Said
<1>4. \A w : IsFiniteSet({w})
  BY FS_Singleton
<1>5. \A n \in Names : IsFiniteSet(Said(in)[n])
  BY <1>3, <1>4, FS_EmptySet
<1> QED BY <1>2, <1>5 DEF Said

LEMMA BackedNew ==
  ASSUME NEW in, NewOK(in)
  PROVE  Backed(in, Said(in))
<1>1. \A n \in DOMAIN in.facts : ~ in.facts[n].disputed /\ (in.facts[n].by = "missing" <=> in.facts[n].value = None)
  <2> TAKE n \in DOMAIN in.facts
  <2> PICK v : v = in.facts[n].value
    OBVIOUS
  <2>1. in.facts[n] = SourceFact(v)
    BY DEF NewOK
  <2> QED BY <2>1, SourceFactIs
<1>2. \A n \in DOMAIN in.facts :
        Said(in)[n] = IF in.facts[n].value = None THEN {} ELSE {Normal(n, in.facts[n].value)}
  BY SaidIs
<1>3. \A n \in DOMAIN in.facts : ~ Various(Said(in)[n])
  BY <1>2 DEF Various
<1>4. Shows(in)
  BY <1>1 DEF Shows, Disputed
<1> QED BY <1>1, <1>2, <1>3, <1>4, SaidIs DEF Backed

\* A draft and one of a file, merged: now, or when the row was put before.
LEMMA BackedMerged ==
  ASSUME NEW d, RowOK(d), NEW in, NewOK(in), NEW h, DOMAIN h = Names,
         Backed(d, h) \/ Backed(MergedDraft(d, in), h)
  PROVE  Backed(MergedDraft(d, in), [n \in Names |-> h[n] \cup Said(in)[n]])
<1> PICK g : g = [n \in Names |-> h[n] \cup Said(in)[n]]
  OBVIOUS
<1> PICK m : m = MergedDraft(d, in)
  OBVIOUS
<1>1. \A n \in Names : g[n] = h[n] \cup Said(in)[n]
  OBVIOUS
<1>2. /\ RowOK(m) /\ DOMAIN m.facts = DOMAIN d.facts \cup DOMAIN in.facts
      /\ m.facts = MergedFacts(d.facts, in.facts)
      /\ \/ m.state = "CONFLICTED"
         \/ /\ m.state = d.state
            /\ \A n \in DOMAIN in.facts \cap DOMAIN d.facts :
                 m.facts[n].disputed /\ in.facts[n].value # None =>
                   Normal(n, in.facts[n].value) = Normal(n, d.facts[n].value)
  BY MergedIs
<1>3. DOMAIN m.facts \subseteq Names
  BY <1>2, RowFields
<1>4. /\ \A n \in DOMAIN d.facts : FactOK(n, d.facts[n])
      /\ \A n \in DOMAIN in.facts : FactOK(n, in.facts[n])
  BY RowFields DEF NewOK
<1>5. \A n \in DOMAIN m.facts :
        m.facts[n] = IF n \notin DOMAIN d.facts THEN in.facts[n]
                     ELSE IF n \notin DOMAIN in.facts THEN d.facts[n]
                     ELSE MergedFact(n, d.facts[n], in.facts[n])
  BY <1>2 DEF MergedFacts
<1>6. \A n \in Names \ DOMAIN m.facts : g[n] = {}
  <2> TAKE n \in Names \ DOMAIN m.facts
  <2>1. Said(in)[n] = {}
    BY <1>2, SaidIs
  <2>2. h[n] = {}
    BY <1>2 DEF Backed
  <2> QED BY <1>1, <2>1, <2>2
<1>7. \A n \in DOMAIN in.facts : ~ in.facts[n].disputed /\ (in.facts[n].by = "missing" <=> in.facts[n].value = None)
  <2> TAKE n \in DOMAIN in.facts
  <2> PICK v : v = in.facts[n].value
    OBVIOUS
  <2>1. in.facts[n] = SourceFact(v)
    BY DEF NewOK
  <2> QED BY <2>1, SourceFactIs
<1>8. ASSUME NEW n \in DOMAIN m.facts
      PROVE  /\ m.facts[n].by = "missing" <=> g[n] = {}
             /\ m.facts[n].by # "missing" => Normal(n, m.facts[n].value) \in g[n]
             /\ m.facts[n].disputed <=> Various(g[n])
  <2> PICK f : f = m.facts[n]
    OBVIOUS
  <2> DEFINE Fits1(k, s) == /\ k.by = "missing" <=> s = {}
                            /\ k.by # "missing" => Normal(n, k.value) \in s
                            /\ k.disputed <=> Various(s)
  <2>1. n \in Names
    BY <1>3
  <2>2. CASE n \notin DOMAIN in.facts
    <3>1. g[n] = h[n]
      BY <1>1, <2>1, <2>2, SaidIs
    <3>2. n \in DOMAIN d.facts /\ f = d.facts[n]
      BY <1>2, <1>5, <2>2
    <3>3. Fits1(f, h[n])
      BY <3>2 DEF Backed
    <3> QED BY <3>1, <3>3
  <2>3. CASE n \in DOMAIN in.facts /\ in.facts[n].value = None
    <3>1. g[n] = h[n]
      BY <1>1, <2>1, <2>3, SaidIs
    <3>2. CASE n \notin DOMAIN d.facts
      <4>1. f.by = "missing" /\ ~ f.disputed
        BY <1>5, <1>7, <2>3, <3>2
      <4>2. h[n] = {}
        <5>1. CASE Backed(d, h)
          BY <2>1, <3>2, <5>1 DEF Backed
        <5>2. CASE Backed(m, h)
          BY <4>1, <5>2 DEF Backed
        <5> QED BY <5>1, <5>2
      <4>3. ~ Various(h[n])
        BY <4>2 DEF Various
      <4> QED BY <3>1, <4>1, <4>2, <4>3
    <3>3. CASE n \in DOMAIN d.facts
      <4>1. f = d.facts[n]
        BY <1>5, <2>3, <3>3 DEF MergedFact
      <4>2. Fits1(f, h[n])
        BY <3>3, <4>1 DEF Backed
      <4> QED BY <3>1, <4>2
    <3> QED BY <3>2, <3>3
  <2>4. CASE n \in DOMAIN in.facts /\ in.facts[n].value # None
    <3> PICK w : w = Normal(n, in.facts[n].value)
      OBVIOUS
    <3>1. g[n] = h[n] \cup {w}
      BY <1>1, <2>1, <2>4, SaidIs
    <3>2. CASE n \notin DOMAIN d.facts \/ d.facts[n].by = "missing"
      <4>1. f = in.facts[n] /\ f.by # "missing" /\ ~ f.disputed
        <5>1. f = in.facts[n]
          BY <1>5, <2>4, <3>2 DEF MergedFact
        <5> QED BY <1>7, <2>4, <5>1
      <4>2. h[n] \subseteq {w}
        <5>1. CASE Backed(d, h)
          BY <2>1, <3>2, <5>1 DEF Backed
        <5>2. CASE Backed(m, h)
          <6>1. w \in h[n] /\ ~ Various(h[n])
            BY <4>1, <5>2 DEF Backed
          <6> QED BY <6>1 DEF Various
        <5> QED BY <5>1, <5>2
      <4>3. g[n] = {w}
        BY <3>1, <4>2
      <4>4. ~ Various(g[n])
        BY <4>3 DEF Various
      <4> QED BY <4>1, <4>3, <4>4
    <3>3. CASE n \in DOMAIN d.facts /\ d.facts[n].by # "missing" /\ Normal(n, d.facts[n].value) = w
      <4>1. f = d.facts[n]
        BY <1>5, <2>4, <3>3 DEF MergedFact
      <4>2. Fits1(f, h[n])
        BY <3>3, <4>1 DEF Backed
      <4>3. g[n] = h[n]
        BY <3>1, <3>3, <4>1, <4>2
      <4> QED BY <4>2, <4>3
    <3>4. CASE n \in DOMAIN d.facts /\ d.facts[n].by # "missing" /\ Normal(n, d.facts[n].value) # w
      <4>1. f = [d.facts[n] EXCEPT !.disputed = TRUE]
        BY <1>5, <2>4, <3>4 DEF MergedFact
      <4>2. FactOK(n, d.facts[n])
        BY <1>4, <3>4
      <4>3. f.disputed /\ f.by # "missing" /\ f.value = d.facts[n].value
        BY <3>4, <4>1, <4>2 DEF FactOK
      <4>4. Normal(n, f.value) \in h[n]
        BY <3>4, <4>3 DEF Backed
      <4>5. Various(g[n])
        BY <3>1, <3>4, <4>3, <4>4 DEF Various
      <4> QED BY <3>1, <4>3, <4>4, <4>5
    <3> QED BY <3>2, <3>3, <3>4
  <2> QED BY <2>2, <2>3, <2>4
<1>9. Shows(m)
  <2> SUFFICES ASSUME Disputed(m) # {}, m.state # "CONFLICTED"
               PROVE  FALSE
    BY DEF Shows
  <2>1. PICK n \in DOMAIN m.facts : m.facts[n].disputed
    BY DEF Disputed
  <2>2. ~ Backed(m, h)
    BY DEF Backed, Shows
  <2>3. Backed(d, h) /\ d.state # "CONFLICTED"
    BY <1>2, <2>2
  <2>4. n \in DOMAIN d.facts => ~ d.facts[n].disputed
    BY <2>3 DEF Backed, Shows, Disputed
  <2>5. n \in DOMAIN d.facts /\ n \in DOMAIN in.facts
    BY <1>2, <1>5, <1>7, <2>1, <2>4
  <2>6. /\ in.facts[n].value # None /\ Normal(n, in.facts[n].value) # Normal(n, d.facts[n].value)
    BY <1>5, <1>7, <2>1, <2>4, <2>5 DEF MergedFact
  <2> QED BY <1>2, <2>1, <2>5, <2>6
<1> QED BY <1>6, <1>8, <1>9 DEF Backed

-----------------------------------------------------------------------------
(* What a thread holds.                                                    *)

LEMMA CallFields ==
  ASSUME NEW r, CallTyped(r)
  PROVE  /\ r.pc \in Places /\ r.kind \in {None, "ingest", "answer", "approval", "resolution"}
         /\ r.at \in Nat /\ r.todo \in Seq(DOMAIN r.mine)
         /\ Len(r.todo) \in Nat /\ DOMAIN r.todo = 1..Len(r.todo)
         /\ \A l \in 1..Len(r.todo) : r.todo[l] \in DOMAIN r.mine
<1>1. /\ r.pc \in Places /\ r.kind \in {None, "ingest", "answer", "approval", "resolution"}
      /\ r.at \in Nat /\ r.todo \in Seq(DOMAIN r.mine)
  BY DEF CallTyped
<1> QED BY <1>1, LenProperties, ElementOfSeq

LEMMA CallKept ==
  ASSUME NEW r, NEW D, NEW E, CallOK(r, D), D \subseteq E
  PROVE  CallOK(r, E)
BY DEF CallOK, CallHolds

LEMMA NoCallOK ==
  ASSUME NEW D
  PROVE  CallOK(NoCall, D)
<1>1. /\ NoCall.pc = "idle" /\ NoCall.kind = None /\ NoCall.base = <<>> /\ NoCall.mine = <<>>
      /\ NoCall.todo = <<>> /\ NoCall.at = 1
      /\ NoCall \in [pc : {"idle"}, kind : {None}, base : {NoCall.base}, mine : {NoCall.mine},
                     incoming : {NoCall.incoming}, todo : {<<>>}, at : {1}, given : {NoCall.given}]
  BY DEF NoCall
<1>2. DOMAIN <<>> = {} /\ IsFun(<<>>)
  BY DEF IsFun
<1>3. <<>> \in Seq(DOMAIN NoCall.mine)
  BY EmptySeq
<1>4. "idle" \in Places
  BY DEF Places
<1>5. CallTyped(NoCall)
  <2> PICK r : r = NoCall
    OBVIOUS
  <2>1. /\ r.todo \in Seq(DOMAIN r.mine) /\ r.pc \in Places /\ r.at \in Nat
        /\ r \in [pc : {r.pc}, kind : {None}, base : {r.base}, mine : {r.mine},
                 incoming : {r.incoming}, todo : {r.todo}, at : {r.at}, given : {r.given}]
    BY <1>1, <1>3, <1>4
  <2> QED BY <2>1 DEF CallTyped
<1>6. CallHolds(NoCall, D)
  BY <1>1, <1>2 DEF CallHolds
<1>7. CallKind(NoCall) /\ CallTodo(NoCall)
  BY <1>1 DEF CallKind, CallTodo, Ingesting, Answering, Approving, Resolving
<1>8. CallPlaced(NoCall)
  BY <1>1, CatalogueAssumption DEF CallPlaced
<1> QED BY <1>5, <1>6, <1>7, <1>8 DEF CallOK

\* A call that holds one row.
Single(kind, pc, i, b, d, given) ==
  [pc |-> pc, kind |-> kind, base |-> [k \in {i} |-> b], mine |-> [k \in {i} |-> d],
   incoming |-> <<>>, todo |-> <<i>>, at |-> 1, given |-> given]

LEMMA SingleOK ==
  ASSUME NEW D, NEW i \in D, NEW b, NEW d, NEW given, NEW kind, NEW pc, RowOK(b), RowOK(d),
         \/ kind = "answer" /\ pc \in {"read", "send"} /\ d = b
         \/ kind = "approval" /\ pc = "approve" /\ d = b
         \/ kind = "resolution" /\ pc = "resolve",
         pc = "read" => given \subseteq Cores,
         pc = "resolve" => \E n \in Cores : \E v \in Answers[n] :
                             given = {<<n, Normal(n, v)>>} /\ Settles(b, d, n, v)
  PROVE  CallOK(Single(kind, pc, i, b, d, given), D)
<1> PICK r : r = Single(kind, pc, i, b, d, given)
  OBVIOUS
<1>1. /\ r.pc = pc /\ r.kind = kind /\ r.base = [k \in {i} |-> b] /\ r.mine = [k \in {i} |-> d]
      /\ r.todo = <<i>> /\ r.at = 1 /\ r.given = given
      /\ r \in [pc : {pc}, kind : {kind}, base : {r.base}, mine : {r.mine},
                incoming : {r.incoming}, todo : {<<i>>}, at : {1}, given : {r.given}]
  BY DEF Single
<1>2. /\ DOMAIN r.base = {i} /\ DOMAIN r.mine = {i} /\ r.base[i] = b /\ r.mine[i] = d
      /\ IsFun(r.base) /\ IsFun(r.mine)
  BY <1>1 DEF IsFun
<1>3. /\ <<i>> \in Seq({i}) /\ Len(<<i>>) = 1 /\ <<i>>[1] = i
  OBVIOUS
<1>4. pc \in Places /\ kind \in {"answer", "approval", "resolution"}
  BY DEF Places, Ingesting, Answering, Approving, Resolving
<1>5. CallTyped(r)
  <2>1. <<i>> \in Seq(DOMAIN r.mine)
    BY <1>2, <1>3
  <2>2. r \in [pc : {pc}, kind : {kind}, base : {r.base}, mine : {r.mine},
              incoming : {r.incoming}, todo : {<<i>>}, at : {1}, given : {r.given}]
    BY <1>1
  <2>3. {pc} \subseteq Places /\ {kind} \subseteq {None, "ingest", "answer", "approval", "resolution"}
    BY <1>4
  <2>4. {<<i>>} \subseteq Seq(DOMAIN r.mine) /\ {1} \subseteq Nat
    BY <2>1
  <2>5. r \in [pc : Places, kind : {None, "ingest", "answer", "approval", "resolution"},
              base : {r.base}, mine : {r.mine}, incoming : {r.incoming}, todo : Seq(DOMAIN r.mine),
              at : Nat, given : {r.given}]
    BY <2>2, <2>3, <2>4
  <2> QED BY <2>5 DEF CallTyped
<1>6. CallHolds(r, D)
  BY <1>1, <1>2 DEF CallHolds
<1>7. CallKind(r)
  BY <1>1 DEF CallKind, Ingesting, Answering, Approving, Resolving
<1>8. CallTodo(r)
  BY <1>1, <1>2, <1>3, <1>4 DEF CallTodo
<1>9. CallPlaced(r)
  BY <1>1, <1>2, <1>3, <1>4 DEF CallPlaced
<1> QED BY <1>5, <1>6, <1>7, <1>8, <1>9 DEF CallOK

\* q is r after it put d as row i.
HasPut(q, r, i, d) ==
  /\ q.pc = r.pc /\ q.kind = r.kind /\ q.todo = r.todo /\ q.at = r.at
  /\ q.incoming = r.incoming /\ q.given = r.given
  /\ q.mine = q.base /\ DOMAIN q.base = DOMAIN r.base \cup {i} /\ q.base[i] = d
  /\ \A k \in DOMAIN r.base : k # i => q.base[k] = r.base[k]

LEMMA HasIs ==
  ASSUME NEW r, NEW D, NEW E, CallTyped(r), CallHolds(r, D), D \subseteq E,
         NEW i \in E, NEW d, RowOK(d), r.pc = "resolve" => DOMAIN r.base \subseteq {i},
         NEW q, q = Has(r, i, d)
  PROVE  CallTyped(q) /\ CallHolds(q, E) /\ HasPut(q, r, i, d)
<1> PICK base : base = [k \in DOMAIN r.base \cup {i} |-> IF k = i THEN d ELSE r.base[k]]
  OBVIOUS
<1> PICK mine : mine = [k \in DOMAIN r.mine \cup {i} |-> IF k = i THEN d ELSE r.mine[k]]
  OBVIOUS
<1>1. q = [r EXCEPT !.base = base, !.mine = mine]
  BY DEF Has
<1>2. /\ IsFun(base) /\ IsFun(mine) /\ DOMAIN base = DOMAIN r.base \cup {i}
      /\ DOMAIN mine = DOMAIN r.mine \cup {i} /\ base[i] = d /\ mine[i] = d
      /\ \A k \in DOMAIN r.base : k # i => base[k] = r.base[k]
      /\ \A k \in DOMAIN r.mine : k # i => mine[k] = r.mine[k]
  BY DEF IsFun
<1>3. DOMAIN r.mine = DOMAIN r.base
  BY DEF CallHolds
<1>4. mine = base
  <2>1. ASSUME NEW k \in DOMAIN base
        PROVE  mine[k] = base[k]
    <3>1. CASE k = i
      BY <1>2, <3>1
    <3>2. CASE k # i
      <4>1. r.mine = r.base
        BY <1>2, <3>2 DEF CallHolds
      <4> QED BY <1>2, <1>3, <3>2, <4>1
    <3> QED BY <3>1, <3>2
  <2> QED BY <1>2, <1>3, <2>1 DEF IsFun
<1>5. /\ q.pc = r.pc /\ q.kind = r.kind /\ q.todo = r.todo /\ q.at = r.at
      /\ q.incoming = r.incoming /\ q.given = r.given /\ q.base = base /\ q.mine = mine
      /\ q \in [pc : Places, kind : {None, "ingest", "answer", "approval", "resolution"},
                base : {q.base}, mine : {q.mine}, incoming : {q.incoming}, todo : {q.todo},
                at : Nat, given : {q.given}]
  BY <1>1 DEF CallTyped
<1>6. r.todo \in Seq(DOMAIN mine)
  BY <1>2, CallFields, SeqMonotonic
<1>7. CallTyped(q)
  BY <1>5, <1>6 DEF CallTyped
<1>8. \A k \in DOMAIN base : RowOK(base[k])
  BY <1>2 DEF CallHolds
<1>9. CallHolds(q, E)
  BY <1>2, <1>3, <1>4, <1>5, <1>8 DEF CallHolds
<1> QED BY <1>2, <1>4, <1>5, <1>7, <1>9 DEF HasPut

LEMMA TurnOK ==
  ASSUME NEW q, NEW D, NEW next, CallOK(q, D),
         \/ q.pc = "put" /\ next = "validate"
         \/ q.pc = "validate" /\ next = "handle" /\ Checked(q.mine[q.todo[q.at]])
         \/ q.pc = "handle" /\ next = "idle"
  PROVE  CallOK(Turn(q, next), D)
<1> PICK t : t = Turn(q, next)
  OBVIOUS
<1>1. /\ q.at \in 1..Len(q.todo) /\ Len(q.todo) \in Nat /\ q.kind = "ingest"
      /\ q.todo \in Seq(DOMAIN q.mine)
  BY CallFields DEF CallOK, CallTodo, CallKind, Ingesting
<1>2. CASE q.at < Len(q.todo)
  <2>1. t = [q EXCEPT !.at = q.at + 1]
    BY <1>2 DEF Turn
  <2>2. /\ t.pc = q.pc /\ t.kind = q.kind /\ t.base = q.base /\ t.mine = q.mine
        /\ t.incoming = q.incoming /\ t.todo = q.todo /\ t.given = q.given /\ t.at = q.at + 1
        /\ CallTyped(t)
    BY <1>1, <2>1 DEF CallOK, CallTyped
  <2>3. CallHolds(t, D) /\ CallKind(t)
    BY <1>1, <2>2 DEF CallOK, CallHolds, CallKind, Ingesting, Answering, Approving, Resolving
  <2>4. CallTodo(t)
    BY <1>1, <1>2, <2>2 DEF CallOK, CallTodo
  <2>5. CallPlaced(t)
    <3>1. q.pc = "validate" => \A l \in 1..q.at : Checked(q.mine[q.todo[l]])
      <4> SUFFICES ASSUME q.pc = "validate", NEW l \in 1..q.at
                   PROVE  Checked(q.mine[q.todo[l]])
        OBVIOUS
      <4>1. l = q.at \/ l \in 1..(q.at - 1)
        BY <1>1
      <4> QED BY <4>1 DEF CallOK, CallPlaced
    <3>2. t.at - 1 = q.at
      BY <1>1, <2>2
    <3> QED BY <2>2, <3>1, <3>2 DEF CallOK, CallPlaced
  <2> QED BY <2>2, <2>3, <2>4, <2>5 DEF CallOK
<1>3. CASE ~ q.at < Len(q.todo) /\ next = "idle"
  <2>1. t = NoCall
    BY <1>3 DEF Turn
  <2> QED BY <2>1, NoCallOK
<1>4. CASE ~ q.at < Len(q.todo) /\ next # "idle"
  <2>1. t = [q EXCEPT !.pc = next, !.at = 1]
    BY <1>4 DEF Turn
  <2>2. /\ t.pc = next /\ t.kind = q.kind /\ t.base = q.base /\ t.mine = q.mine
        /\ t.incoming = q.incoming /\ t.todo = q.todo /\ t.given = q.given /\ t.at = 1
        /\ CallTyped(t)
    <3>1. CallTyped(q) /\ next \in Places
      BY <1>4 DEF CallOK, Places, Ingesting
    <3>2. q \in [pc : {q.pc}, kind : {None, "ingest", "answer", "approval", "resolution"}, base : {q.base},
                 mine : {q.mine}, incoming : {q.incoming}, todo : {q.todo}, at : {q.at}, given : {q.given}]
          /\ q.todo \in Seq(DOMAIN q.mine)
      BY <3>1 DEF CallTyped
    <3>3. /\ t.pc = next /\ t.kind = q.kind /\ t.base = q.base /\ t.mine = q.mine
          /\ t.incoming = q.incoming /\ t.todo = q.todo /\ t.given = q.given /\ t.at = 1
          /\ t \in [pc : {next}, kind : {None, "ingest", "answer", "approval", "resolution"}, base : {t.base},
                   mine : {t.mine}, incoming : {t.incoming}, todo : {t.todo}, at : {1}, given : {t.given}]
      BY <2>1, <3>2
    <3> QED BY <3>1, <3>2, <3>3 DEF CallTyped
  <2>3. CallHolds(t, D)
    BY <1>4, <2>2 DEF CallOK, CallHolds
  <2>4. CallKind(t) /\ CallTodo(t)
    BY <1>1, <1>4, <2>2 DEF CallKind, CallTodo, Ingesting, Answering, Approving, Resolving
  <2>5. CallPlaced(t)
    <3>1. CASE next = "validate"
      <4>1. 1..(t.at - 1) = {}
        BY <2>2
      <4> QED BY <2>2, <3>1, <4>1 DEF CallPlaced
    <3>2. CASE next = "handle"
      <4>1. q.at = Len(q.todo) /\ q.pc = "validate"
        BY <1>1, <1>4, <3>2
      <4>2. ASSUME NEW l \in 1..Len(q.todo)
            PROVE  Checked(q.mine[q.todo[l]])
        <5>1. l = q.at \/ l \in 1..(q.at - 1)
          BY <1>1, <4>1
        <5> QED BY <4>1, <5>1 DEF CallOK, CallPlaced
      <4> QED BY <2>2, <3>2, <4>2 DEF CallPlaced
    <3> QED BY <1>4, <3>1, <3>2
  <2> QED BY <2>2, <2>3, <2>4, <2>5 DEF CallOK
<1> QED BY <1>2, <1>3, <1>4

LEMMA IngestOK ==
  ASSUME NEW seen, IsSeq(seen), \A i \in DOMAIN seen : RowOK(seen[i]), NEW file \in files, StoreShape,
         NEW q, q = [NoCall EXCEPT !.pc = "merge", !.kind = "ingest", !.base = seen, !.mine = seen,
                                   !.incoming = DraftsOf(file)]
  PROVE  CallOK(q, DOMAIN seen)
<1>1. file # <<>> /\ IsSeq(file)
  <2>1. files \in Batches
    BY DEF StoreShape
  <2>2. file # <<>> /\ file \in Seq({file[k] : k \in DOMAIN file})
    BY <2>1, CatalogueAssumption
  <2> QED BY <2>2 DEF IsSeq
<1> PICK new : new = DraftsOf(file)
  OBVIOUS
<1>2. IsSeq(new) /\ new # <<>> /\ \A k \in DOMAIN new : NewOK(new[k])
  BY <1>1, DraftsAreNew
<1>3. /\ q.pc = "merge" /\ q.kind = "ingest" /\ q.base = seen /\ q.mine = seen /\ q.incoming = new
      /\ q.todo = <<>> /\ q.at = 1
      /\ q \in [pc : {"merge"}, kind : {"ingest"}, base : {seen}, mine : {seen}, incoming : {new},
                todo : {<<>>}, at : {1}, given : {q.given}]
  BY DEF NoCall
<1>4. IsFun(seen)
  BY SeqIs DEF IsFun
<1>5. <<>> \in Seq(DOMAIN seen) /\ "merge" \in Places
  BY EmptySeq DEF Places, Ingesting
<1>6. CallTyped(q)
  <2>1. /\ q \in [pc : {q.pc}, kind : {"ingest"}, base : {q.base}, mine : {q.mine}, incoming : {q.incoming},
                 todo : {q.todo}, at : {q.at}, given : {q.given}]
        /\ q.pc \in Places /\ q.at \in Nat /\ q.todo \in Seq(DOMAIN q.mine)
    <3>1. q.pc \in Places /\ q.at \in Nat
      BY <1>3, <1>5
    <3>2. q.todo \in Seq(DOMAIN q.mine)
      BY <1>3, <1>5
    <3> QED BY <1>3, <3>1, <3>2
  <2> QED BY <2>1 DEF CallTyped
<1>7. CallHolds(q, DOMAIN seen)
  BY <1>3, <1>4 DEF CallHolds
<1>8. CallKind(q) /\ CallTodo(q)
  BY <1>2, <1>3 DEF CallKind, CallTodo, Ingesting, Answering, Approving, Resolving
<1>9. CallPlaced(q)
  BY <1>3 DEF CallPlaced
<1> QED BY <1>6, <1>7, <1>8, <1>9 DEF CallOK

LEMMA AppendIn ==
  ASSUME NEW S, NEW s \in Seq(S), NEW e \in S
  PROVE  Append(s, e) \in Seq(S) /\ Len(Append(s, e)) = Len(s) + 1
BY AppendProperties

LEMMA TookOK ==
  ASSUME NEW r, NEW D, CallOK(r, D), r.pc = "merge", NEW E, D \subseteq E, NEW i \in E, NEW d, RowOK(d),
         NEW t, t = Took(Has(r, i, d), i)
  PROVE  CallOK(t, E)
<1> PICK q : q = Has(r, i, d)
  OBVIOUS
<1>1. /\ CallTyped(q) /\ CallHolds(q, E) /\ q.pc = "merge" /\ q.kind = r.kind /\ q.todo = r.todo
      /\ q.at = r.at /\ q.incoming = r.incoming /\ DOMAIN q.mine = DOMAIN q.base /\ i \in DOMAIN q.base
      /\ q.mine = q.base
  <2>1. CallTyped(r) /\ CallHolds(r, D) /\ r.pc # "resolve"
    BY DEF CallOK
  <2>2. CallTyped(q) /\ CallHolds(q, E) /\ HasPut(q, r, i, d)
    BY <2>1, HasIs
  <2> QED BY <2>1, <2>2 DEF HasPut
<1>2. /\ r.kind = "ingest" /\ r.at = 1 /\ r.incoming # <<>> /\ IsSeq(r.incoming)
      /\ \A k \in DOMAIN r.incoming : NewOK(r.incoming[k])
  BY DEF CallOK, CallKind, CallTodo, Ingesting
<1> PICK rest : rest = Tail(r.incoming)
  OBVIOUS
<1>3. /\ IsSeq(rest) /\ Len(rest) = Len(r.incoming) - 1 /\ Len(r.incoming) \in Nat
      /\ \A k \in DOMAIN rest : NewOK(rest[k])
  BY <1>2, SeqTail, SeqIs
<1> PICK todo : todo = Append(r.todo, i)
  OBVIOUS
<1>4. todo \in Seq(DOMAIN q.mine) /\ Len(todo) \in Nat /\ Len(todo) >= 1
  <2>1. q.todo \in Seq(DOMAIN q.mine)
    BY <1>1, CallFields
  <2>2. i \in DOMAIN q.mine
    BY <1>1
  <2>3. q.todo = r.todo
    BY <1>1
  <2>4. todo \in Seq(DOMAIN q.mine) /\ Len(todo) = Len(q.todo) + 1
    <3>1. todo = Append(q.todo, i)
      BY <2>3
    <3> PICK S : S = DOMAIN q.mine
      OBVIOUS
    <3>2. q.todo \in Seq(S) /\ i \in S
      BY <2>1, <2>2
    <3>3. Append(q.todo, i) \in Seq(S) /\ Len(Append(q.todo, i)) = Len(q.todo) + 1
      BY <3>2, AppendIn
    <3> QED BY <3>1, <3>3
  <2>5. Len(q.todo) \in Nat
    BY <2>1, LenProperties
  <2> QED BY <2>4, <2>5
<1> PICK p : p = IF Len(r.incoming) = 1 THEN "put" ELSE "merge"
  OBVIOUS
<1>5. t = [q EXCEPT !.incoming = rest, !.todo = todo, !.pc = p]
  BY <1>1 DEF Took
<1>6. p \in Places /\ p \in {"put", "merge"}
  BY DEF Places, Ingesting
<1>7. /\ t.pc = p /\ t.kind = "ingest" /\ t.base = q.base /\ t.mine = q.mine
      /\ t.incoming = rest /\ t.todo = todo /\ t.at = 1 /\ CallTyped(t)
  <2>1. /\ q \in [pc : Places, kind : {None, "ingest", "answer", "approval", "resolution"},
                  base : {q.base}, mine : {q.mine}, incoming : {q.incoming}, todo : Seq(DOMAIN q.mine),
                  at : Nat, given : {q.given}]
        /\ q.kind = "ingest" /\ q.at = 1
    BY <1>1, <1>2 DEF CallTyped
  <2>2. /\ t \in [pc : Places, kind : {None, "ingest", "answer", "approval", "resolution"},
                  base : {q.base}, mine : {q.mine}, incoming : {rest}, todo : Seq(DOMAIN q.mine),
                  at : Nat, given : {q.given}]
        /\ t.pc = p /\ t.kind = "ingest" /\ t.todo = todo /\ t.at = 1
    BY <1>4, <1>5, <1>6, <2>1
  <2>3. t.base = q.base /\ t.mine = q.mine /\ t.incoming = rest /\ t.given = q.given
    BY <2>2
  <2> QED BY <2>2, <2>3 DEF CallTyped
<1>8. CallHolds(t, E)
  BY <1>1, <1>7 DEF CallHolds
<1>9. CallKind(t)
  BY <1>6, <1>7 DEF CallKind, Ingesting, Answering, Approving, Resolving
<1>10. CallTodo(t)
  <2>1. p = "merge" => rest # <<>>
    <3>1. rest = <<>> => Len(rest) = 0
      OBVIOUS
    <3> QED BY <1>3, <3>1
  <2> QED BY <1>3, <1>4, <1>6, <1>7, <2>1 DEF CallTodo
<1>11. CallPlaced(t)
  BY <1>6, <1>7 DEF CallPlaced
<1> QED BY <1>7, <1>8, <1>9, <1>10, <1>11 DEF CallOK

LEMMA HasOK ==
  ASSUME NEW r, NEW D, CallOK(r, D), r.pc \in {"put", "validate", "handle"}, NEW d, RowOK(d),
         NEW i, i = r.todo[r.at], r.pc # "put" => Checked(d)
  PROVE  CallOK(Has(r, i, d), D)
<1> PICK q : q = Has(r, i, d)
  OBVIOUS
<1>1. r.at \in 1..Len(r.todo) /\ r.kind = "ingest" /\ i \in DOMAIN r.base /\ DOMAIN r.mine = DOMAIN r.base
      /\ i \in D
  BY CallFields DEF CallOK, CallTodo, CallKind, Ingesting, CallHolds
<1>2. /\ CallTyped(q) /\ CallHolds(q, D)
      /\ q.pc = r.pc /\ q.kind = r.kind /\ q.todo = r.todo /\ q.at = r.at
      /\ q.mine = q.base /\ q.base[i] = d
      /\ \A k \in DOMAIN r.base : k # i => q.base[k] = r.base[k]
  <2>1. CallTyped(r) /\ CallHolds(r, D) /\ r.pc # "resolve" /\ D \subseteq D
    BY DEF CallOK
  <2>2. CallTyped(q) /\ CallHolds(q, D) /\ HasPut(q, r, i, d)
    BY <1>1, <2>1, HasIs
  <2> QED BY <1>1, <2>1, <2>2 DEF HasPut
<1>3. CallKind(q) /\ CallTodo(q)
  BY <1>1, <1>2 DEF CallKind, CallTodo, Ingesting, Answering, Approving, Resolving
<1>4. ASSUME r.pc # "put", NEW l \in 1..Len(r.todo), Checked(r.mine[r.todo[l]])
      PROVE  Checked(q.mine[r.todo[l]])
  <2>1. r.todo[l] \in DOMAIN r.base /\ r.mine = r.base
    BY <1>1, CallFields DEF CallOK, CallHolds
  <2> QED BY <1>2, <1>4, <2>1
<1>5. CallPlaced(q)
  <2>1. CASE r.pc = "validate"
    <3>1. ASSUME NEW l \in 1..(q.at - 1)
          PROVE  Checked(q.mine[q.todo[l]])
      <4>1. l \in 1..(r.at - 1) /\ l \in 1..Len(r.todo) /\ Checked(r.mine[r.todo[l]])
        <5>1. l \in 1..(r.at - 1)
          BY <1>2
        <5>2. Len(r.todo) \in Nat
          BY CallFields DEF CallOK
        <5> QED BY <1>1, <2>1, <5>1, <5>2 DEF CallOK, CallPlaced
      <4> QED BY <1>2, <1>4, <2>1, <4>1
    <3> QED BY <1>2, <2>1, <3>1 DEF CallPlaced
  <2>2. CASE r.pc = "handle"
    <3>1. ASSUME NEW l \in 1..Len(q.todo)
          PROVE  Checked(q.mine[q.todo[l]])
      <4>1. l \in 1..Len(r.todo) /\ Checked(r.mine[r.todo[l]])
        BY <1>1, <1>2, <2>2 DEF CallOK, CallPlaced
      <4> QED BY <1>2, <1>4, <2>2, <4>1
    <3> QED BY <1>2, <2>2, <3>1 DEF CallPlaced
  <2>3. CASE r.pc = "put"
    BY <1>2, <2>3 DEF CallPlaced
  <2> QED BY <2>1, <2>2, <2>3
<1> QED BY <1>2, <1>3, <1>5 DEF CallOK

LEMMA MovedOK ==
  ASSUME NEW r, NEW D, CallOK(r, D), r.kind = "ingest", r.pc \in {"handle", "ask", "send"},
         NEW p \in {"handle", "ask", "send"}, NEW t, t = [r EXCEPT !.pc = p]
  PROVE  CallOK(t, D) /\ t.pc = p /\ t.mine = r.mine /\ t.todo = r.todo /\ t.at = r.at
<1>1. p \in Places
  BY DEF Places, Ingesting
<1>2. /\ t.pc = p /\ t.kind = r.kind /\ t.base = r.base /\ t.mine = r.mine
      /\ t.incoming = r.incoming /\ t.todo = r.todo /\ t.at = r.at /\ CallTyped(t)
  BY <1>1 DEF CallOK, CallTyped
<1>3. CallHolds(t, D) /\ CallKind(t) /\ CallTodo(t) /\ CallPlaced(t)
  BY <1>2 DEF CallOK, CallHolds, CallKind, CallTodo, CallPlaced, Ingesting, Answering, Approving, Resolving
<1> QED BY <1>2, <1>3 DEF CallOK

\* A call goes to another place, with what it is still to write.
Onward(held, p) == [held EXCEPT !.pc = p]
MovedWith(held, p, given) == [held EXCEPT !.pc = p, !.given = given]

MayMove(r, p, given) ==
  /\ p \in {"read", "provide", "provided"} => given \subseteq Cores
  /\ \/ r.kind = "answer" /\ p \in {"read", "provide", "provided", "put_answered", "next",
                                    "approve", "put_approved"}
     \/ r.kind = "approval" /\ p = "put_approved"
     \/ r.kind = "resolution" /\ p = "resolved"

LEMMA HasMoved ==
  ASSUME NEW r, NEW D, CallOK(r, D), r.pc # "idle", NEW i, i = r.todo[r.at], NEW d, RowOK(d),
         NEW p, NEW given, MayMove(r, p, given),
         NEW t,
         \/ t = MovedWith(Has(r, i, d), p, given)
         \/ t = Onward(Has(r, i, d), p) /\ given = r.given
  PROVE  CallOK(t, D)
<1>1. /\ p \in {"read", "provide", "provided"} => given \subseteq Cores
      /\ \/ r.kind = "answer" /\ p \in {"read", "provide", "provided", "put_answered", "next",
                                        "approve", "put_approved"}
         \/ r.kind = "approval" /\ p = "put_approved"
         \/ r.kind = "resolution" /\ p = "resolved"
  BY DEF MayMove
<1>2. /\ Len(r.todo) = 1 /\ DOMAIN r.base = {r.todo[1]} /\ r.at \in 1..Len(r.todo) /\ r.pc # "merge"
  BY <1>1 DEF CallOK, CallTodo, CallKind, Ingesting
<1>3. r.at = 1 /\ i = r.todo[1] /\ i \in D /\ DOMAIN r.base = {i}
  BY <1>2 DEF CallOK, CallHolds
<1> PICK q : q = Has(r, i, d)
  OBVIOUS
<1>4. /\ CallHolds(q, D)
      /\ q.kind = r.kind /\ q.todo = r.todo /\ q.at = r.at /\ q.given = r.given
      /\ q.mine = q.base /\ DOMAIN q.base = {i} /\ CallTyped(q)
  <2>1. CallTyped(r) /\ CallHolds(r, D) /\ D \subseteq D /\ DOMAIN r.base \subseteq {i}
    BY <1>3 DEF CallOK
  <2>2. CallTyped(q) /\ CallHolds(q, D) /\ HasPut(q, r, i, d)
    BY <1>3, <2>1, HasIs
  <2> QED BY <1>3, <2>1, <2>2 DEF HasPut
<1>5. p \in Places
  BY <1>1 DEF Places, Ingesting, Answering, Approving, Resolving
<1>6. /\ t.pc = p /\ t.kind = r.kind /\ t.base = q.base /\ t.mine = q.mine /\ t.todo = r.todo
      /\ t.at = 1 /\ t.given = given /\ CallTyped(t)
  <2>1. CASE t = MovedWith(q, p, given)
    BY <1>3, <1>4, <1>5, <2>1 DEF CallTyped, MovedWith
  <2>2. CASE t = Onward(q, p) /\ given = r.given
    BY <1>3, <1>4, <1>5, <2>2 DEF CallTyped, Onward
  <2> QED BY <2>1, <2>2
<1>7. CallHolds(t, D)
  BY <1>4, <1>6, Zenon DEF CallHolds
<1>8. CallKind(t)
  BY <1>1, <1>6 DEF CallKind, Ingesting, Answering, Approving, Resolving
<1>9. CallTodo(t)
  BY <1>1, <1>2, <1>3, <1>4, <1>6 DEF CallTodo
<1>10. CallPlaced(t)
  BY <1>1, <1>6 DEF CallPlaced
<1> QED BY <1>6, <1>7, <1>8, <1>9, <1>10 DEF CallOK

LEMMA MovedOnOK ==
  ASSUME NEW r, NEW D, CallOK(r, D), r.pc # "idle", NEW d, RowOK(d), NEW p, MayMove(r, p, r.given)
  PROVE  CallOK(Onward(Has(r, r.todo[r.at], d), p), D)
<1> PICK given : given = r.given
  OBVIOUS
<1> PICK i : i = r.todo[r.at]
  OBVIOUS
<1> PICK t : t = Onward(Has(r, i, d), p)
  OBVIOUS
<1>1. MayMove(r, p, given)
  OBVIOUS
<1>2. CallOK(t, D)
  BY <1>1, HasMoved
<1> QED BY <1>2

LEMMA MovedWithOK ==
  ASSUME NEW r, NEW D, CallOK(r, D), r.pc # "idle", NEW d, RowOK(d), NEW p, NEW given, MayMove(r, p, given)
  PROVE  CallOK(MovedWith(Has(r, r.todo[r.at], d), p, given), D)
<1> PICK i : i = r.todo[r.at]
  OBVIOUS
<1> PICK t : t = MovedWith(Has(r, i, d), p, given)
  OBVIOUS
<1>1. CallOK(t, D)
  BY HasMoved
<1> QED BY <1>1

LEMMA HeldIsSingle ==
  ASSUME NEW kind, NEW pc, NEW i, NEW d
  PROVE  HoldingRow(kind, pc, i, d) = Single(kind, pc, i, drafts[i], d, {})
<1> PICK base : base = [k \in {i} |-> drafts[i]]
  OBVIOUS
<1> PICK mine : mine = [k \in {i} |-> d]
  OBVIOUS
<1> PICK r : r = HoldingRow(kind, pc, i, d)
  OBVIOUS
<1>1. r = [pc |-> pc, kind |-> kind, base |-> base, mine |-> mine, incoming |-> <<>>, todo |-> <<i>>,
           at |-> 1, given |-> {}]
  BY DEF HoldingRow, NoCall
<1> QED BY <1>1 DEF Single

\* A call begins with what it is given.
Gives(held, given) == [held EXCEPT !.given = given]

LEMMA GivenIsSingle ==
  ASSUME NEW kind, NEW pc, NEW i, NEW d, NEW given
  PROVE  Gives(HoldingRow(kind, pc, i, d), given) = Single(kind, pc, i, drafts[i], d, given)
<1> PICK base : base = [k \in {i} |-> drafts[i]]
  OBVIOUS
<1> PICK mine : mine = [k \in {i} |-> d]
  OBVIOUS
<1> PICK r : r = Single(kind, pc, i, drafts[i], d, {})
  OBVIOUS
<1>1. r = [pc |-> pc, kind |-> kind, base |-> base, mine |-> mine, incoming |-> <<>>, todo |-> <<i>>,
           at |-> 1, given |-> {}]
  BY DEF Single
<1>2. [r EXCEPT !.given = given] = [pc |-> pc, kind |-> kind, base |-> base, mine |-> mine,
           incoming |-> <<>>, todo |-> <<i>>, at |-> 1, given |-> given]
  BY <1>1
<1> QED BY <1>2, HeldIsSingle DEF Single, Gives

LEMMA HasPc ==
  ASSUME NEW r, NEW D, CallOK(r, D), NEW i, NEW d
  PROVE  /\ Has(r, i, d).pc = r.pc /\ Has(r, i, d).todo = r.todo /\ Has(r, i, d).at = r.at
         /\ i \in DOMAIN r.mine => Has(r, i, d).mine[i] = d
<1> PICK base : base = [k \in DOMAIN r.base \cup {i} |-> IF k = i THEN d ELSE r.base[k]]
  OBVIOUS
<1> PICK mine : mine = [k \in DOMAIN r.mine \cup {i} |-> IF k = i THEN d ELSE r.mine[k]]
  OBVIOUS
<1> PICK q : q = Has(r, i, d)
  OBVIOUS
<1>1. q = [r EXCEPT !.base = base, !.mine = mine]
  BY DEF Has
<1>2. q.pc = r.pc /\ q.todo = r.todo /\ q.at = r.at /\ q.mine = mine
  BY <1>1 DEF CallOK, CallTyped
<1>3. mine[i] = d
  OBVIOUS
<1> QED BY <1>2, <1>3

LEMMA ShapeStep ==
  ASSUME Shape, NEW c \in Calls, NEW q, call' = [call EXCEPT ![c] = q], StoreShape',
         DOMAIN drafts \subseteq DOMAIN drafts', CallOK(q, DOMAIN drafts')
  PROVE  Shape'
<1>1. IsFun(call') /\ DOMAIN call' = Calls /\ call'[c] = q /\ \A x \in Calls \ {c} : call'[x] = call[x]
  BY DEF Shape, CallShape, IsFun
<1>2. ASSUME NEW x \in Calls
      PROVE  CallOK(call'[x], DOMAIN drafts')
  <2>1. CASE x = c
    BY <1>1, <2>1
  <2>2. CASE x # c
    <3>1. CallOK(call[x], DOMAIN drafts)
      BY DEF Shape, CallShape
    <3>2. CallOK(call[x], DOMAIN drafts')
      BY <3>1, CallKept
    <3> QED BY <1>1, <2>2, <3>2
  <2> QED BY <2>1, <2>2
<1> QED BY <1>1, <1>2 DEF Shape, CallShape

LEMMA CallIs ==
  ASSUME Shape, NEW c \in Calls
  PROVE  CallOK(call[c], DOMAIN drafts)
<1>1. CallShape
  BY DEF Shape
<1> QED BY <1>1 DEF CallShape

\* The row a call is at.
LEMMA RowIs ==
  ASSUME Shape, NEW c \in Calls, ~ At(c, "idle"), ~ At(c, "merge")
  PROVE  /\ call[c].at \in 1..Len(call[c].todo) /\ Id(c) \in DOMAIN drafts
         /\ Id(c) \in DOMAIN call[c].base /\ Id(c) \in DOMAIN call[c].mine
         /\ RowOK(Row(c)) /\ RowOK(call[c].base[Id(c)])
         /\ ~ At(c, "resolve") => Row(c) = call[c].base[Id(c)]
<1> PICK r : r = call[c]
  OBVIOUS
<1>1. CallOK(r, DOMAIN drafts) /\ r.pc \notin {"idle", "merge"}
  BY CallIs DEF At
<1>2. r.at \in 1..Len(r.todo) /\ r.todo[r.at] \in DOMAIN r.mine /\ DOMAIN r.mine = DOMAIN r.base
      /\ DOMAIN r.base \subseteq DOMAIN drafts
  BY <1>1, CallFields DEF CallOK, CallTodo, CallHolds
<1>3. /\ RowOK(r.mine[r.todo[r.at]]) /\ RowOK(r.base[r.todo[r.at]])
      /\ r.pc # "resolve" => r.mine[r.todo[r.at]] = r.base[r.todo[r.at]]
  BY <1>1, <1>2 DEF CallOK, CallHolds
<1> QED BY <1>2, <1>3, Zenon DEF Id, Row, At

LEMMA PutIs ==
  ASSUME Shape, NEW c, NEW i \in DOMAIN drafts, NEW d, RowOK(d), PutRow(c, i, d)
  PROVE  /\ IsSeq(drafts') /\ Len(drafts') = Len(drafts) /\ DOMAIN drafts' = DOMAIN drafts
         /\ drafts'[i] = d /\ \A k \in DOMAIN drafts \ {i} : drafts'[k] = drafts[k]
         /\ \A k \in DOMAIN drafts' : RowOK(drafts'[k])
         /\ i \notin overwritten' => drafts[i] \in {call[c].base[i], d}
         /\ overwritten \subseteq overwritten' /\ overwritten' \subseteq overwritten \cup {i}
<1>1. drafts' = [drafts EXCEPT ![i] = d]
  BY DEF PutRow
<1>2. IsSeq(drafts) /\ \A k \in DOMAIN drafts : RowOK(drafts[k])
  BY DEF Shape, StoreShape
<1>3. /\ IsSeq(drafts') /\ Len(drafts') = Len(drafts) /\ DOMAIN drafts' = DOMAIN drafts
      /\ drafts'[i] = d /\ \A k \in DOMAIN drafts \ {i} : drafts'[k] = drafts[k]
  BY <1>1, <1>2, SeqReplace
<1>4. \A k \in DOMAIN drafts' : RowOK(drafts'[k])
  BY <1>2, <1>3
<1>5. /\ i \notin overwritten' => drafts[i] \in {call[c].base[i], d}
      /\ overwritten \subseteq overwritten' /\ overwritten' \subseteq overwritten \cup {i}
  BY DEF PutRow
<1> QED BY <1>3, <1>4, <1>5

\* Sets of asked drafts.
StoreMore ==
  /\ asks' \in Seq(DOMAIN drafts) /\ open' \subseteq DOMAIN drafts
  /\ begun' \in 0..MaxBegun /\ losses' \in 0..MaxLosses

LEMMA StoreUnread ==
  ASSUME StoreShape, UNCHANGED <<settings, drafts, heard, current>>, StoreMore
  PROVE  StoreShape' /\ DOMAIN drafts' = DOMAIN drafts
BY DEF StoreShape, StoreMore, settings

LEMMA StoreKept ==
  ASSUME StoreShape, UNCHANGED <<asks, begun, losses>>, open' \subseteq open
  PROVE  StoreMore
BY DEF StoreShape, StoreMore

\* The histories of one row change, if any.
HistoriesPut(i) ==
  /\ \/ heard' = heard
     \/ \E g : /\ IsFun(g) /\ DOMAIN g = Names /\ \A n \in Names : IsFiniteSet(g[n])
              /\ heard' = [heard EXCEPT ![i] = g]
  /\ current' = current \/ \E l : current' = [current EXCEPT ![i] = l]

LEMMA StorePut ==
  ASSUME Shape, NEW c, NEW i \in DOMAIN drafts, NEW d, RowOK(d), PutRow(c, i, d),
         UNCHANGED <<settings, asks, begun, losses>>, open' \subseteq open,
         HistoriesPut(i)
  PROVE  StoreShape' /\ DOMAIN drafts' = DOMAIN drafts
<1>1. /\ IsSeq(drafts') /\ Len(drafts') = Len(drafts) /\ DOMAIN drafts' = DOMAIN drafts
      /\ \A k \in DOMAIN drafts' : RowOK(drafts'[k])
  BY PutIs
<1>2. /\ IsSeq(drafts) /\ IsSeq(heard) /\ IsSeq(current) /\ Len(heard) = Len(drafts)
      /\ Len(current) = Len(drafts)
      /\ \A k \in DOMAIN heard : IsFun(heard[k]) /\ DOMAIN heard[k] = Names
                                 /\ \A n \in Names : IsFiniteSet(heard[k][n])
  BY DEF Shape, StoreShape
<1>3. i \in DOMAIN heard /\ i \in DOMAIN current
  BY <1>2, SeqIs
<1>4. /\ IsSeq(heard') /\ Len(heard') = Len(drafts')
      /\ \A k \in DOMAIN heard' : IsFun(heard'[k]) /\ DOMAIN heard'[k] = Names
                                  /\ \A n \in Names : IsFiniteSet(heard'[k][n])
  <2>1. CASE heard' = heard
    BY <1>1, <1>2, <2>1
  <2>2. CASE heard' # heard
    <3> PICK g : /\ IsFun(g) /\ DOMAIN g = Names /\ \A n \in Names : IsFiniteSet(g[n])
                 /\ heard' = [heard EXCEPT ![i] = g]
      BY <2>2 DEF HistoriesPut
    <3>1. /\ IsSeq(heard') /\ Len(heard') = Len(heard) /\ DOMAIN heard' = DOMAIN heard
          /\ heard'[i] = g /\ \A k \in DOMAIN heard \ {i} : heard'[k] = heard[k]
      BY <1>2, <1>3, SeqReplace
    <3>2. ASSUME NEW k \in DOMAIN heard'
          PROVE  IsFun(heard'[k]) /\ DOMAIN heard'[k] = Names /\ \A n \in Names : IsFiniteSet(heard'[k][n])
      <4>1. CASE k = i
        BY <3>1, <4>1
      <4>2. CASE k # i
        BY <1>2, <3>1, <4>2
      <4> QED BY <4>1, <4>2
    <3> QED BY <1>1, <1>2, <3>1, <3>2
  <2> QED BY <2>1, <2>2
<1>5. IsSeq(current') /\ Len(current') = Len(drafts')
  <2>1. CASE current' = current
    BY <1>1, <1>2, <2>1
  <2>2. CASE current' # current
    <3>1. PICK l : current' = [current EXCEPT ![i] = l]
      BY <2>2 DEF HistoriesPut
    <3>2. IsSeq([current EXCEPT ![i] = l]) /\ Len([current EXCEPT ![i] = l]) = Len(current)
      BY <1>2, <1>3, SeqReplace
    <3> QED BY <1>1, <1>2, <3>1, <3>2
  <2> QED BY <2>1, <2>2
<1>6. /\ asks' \in Seq(DOMAIN drafts') /\ open' \subseteq DOMAIN drafts'
      /\ begun' \in 0..MaxBegun /\ losses' \in 0..MaxLosses
      /\ files' \in Batches /\ required' \subseteq Cores
  BY <1>1 DEF Shape, StoreShape, settings
<1> QED BY <1>1, <1>4, <1>5, <1>6 DEF StoreShape

LEMMA StoreBegun ==
  ASSUME StoreShape, begun < MaxBegun, begun' = begun + 1, UNCHANGED <<queue, losses>>
  PROVE  StoreMore
BY CatalogueAssumption DEF StoreShape, StoreMore, queue

LEMMA ShapeBegins ==
  ASSUME Shape, NEW c \in Calls, NEW q, Begins(c, q), CallOK(q, DOMAIN drafts)
  PROVE  Shape'
<1>1. StoreMore
  BY StoreBegun DEF Begins, Shape
<1>2. StoreShape' /\ DOMAIN drafts' = DOMAIN drafts
  BY <1>1, StoreUnread DEF Begins, Shape, histories
<1>3. call' = [call EXCEPT ![c] = q]
  BY DEF Begins
<1> QED BY <1>2, <1>3, ShapeStep

LEMMA ShapeReads ==
  ASSUME Shape, NEW c \in Calls, NEW q, call' = [call EXCEPT ![c] = q], CallOK(q, DOMAIN drafts),
         UNCHANGED <<settings, drafts, heard, current, begun, losses, queue>>
  PROVE  Shape'
<1>1. StoreMore
  BY StoreKept DEF Shape, queue
<1>2. StoreShape' /\ DOMAIN drafts' = DOMAIN drafts
  BY <1>1, StoreUnread DEF Shape
<1> QED BY <1>2, ShapeStep

\* e is what a validation makes of d after by said v about n.
Told(d, e, n, v, by) ==
  /\ RowOK(e) /\ Checked(e) /\ Shows(e) /\ FactsAs(d, e, {n}) /\ e.variants = d.variants
  /\ n \in DOMAIN e.facts /\ e.facts[n].by = by
  /\ Normal(n, e.facts[n].value) = Normal(n, v)
  /\ e.facts[n].disputed <=> n \in Disputed(d)

LEMMA ToldIs ==
  ASSUME NEW d, RowOK(d), NEW n \in Cores, NEW v, v # None, n = "price" => v \in PriceRead,
         NEW by \in {"human", "ai"}, by = "ai" => n = "text",
         NEW e, e = Validate(Supplied(d, n, v, by))
  PROVE  Told(d, e, n, v, by)
<1> PICK s : s = Supplied(d, n, v, by)
  OBVIOUS
<1>1. /\ RowOK(s) /\ FactsAs(d, s, {n}) /\ s.variants = d.variants
      /\ n \in DOMAIN s.facts /\ s.facts[n].by = by /\ s.facts[n].value = Stored(n, v)
      /\ s.facts[n].disputed <=> n \in Disputed(d)
  <2>1. Says(d, s, n, Stored(n, v), by)
    BY SuppliedIs
  <2> QED BY <2>1 DEF Says
<1>2. RowOK(e) /\ Checked(e) /\ Shows(e) /\ FactsAs(s, e, {}) /\ e.variants = s.variants
  BY <1>1, ValidateIs
<1>3. FactsAs(d, e, {n})
  BY <1>1, <1>2, FactsAsTwice
<1>4. n \in DOMAIN e.facts /\ SameFact(e.facts[n], s.facts[n])
  <2>1. n \in DOMAIN e.facts
    BY <1>1, <1>2 DEF FactsAs
  <2> QED BY <1>1, <1>2, <2>1 DEF FactsAs
<1>5. Normal(n, Stored(n, v)) = Normal(n, v)
  BY StoredIs
<1> QED BY <1>1, <1>2, <1>3, <1>4, <1>5 DEF SameFact, Told

\* What a draft of the file becomes once it is identified.
LEMMA IncomingIs ==
  ASSUME Shape, NEW c \in Calls, At(c, "merge"),
         NEW identity \in Identities(Head(call[c].incoming), call[c].mine), NEW in,
         in = [Head(call[c].incoming) EXCEPT !.status = identity.status, !.key = identity.key]
  PROVE  NewOK(in)
<1> PICK r : r = call[c]
  OBVIOUS
<1>1. r.pc = "merge" /\ CallOK(r, DOMAIN drafts)
  BY CallIs DEF At
<1>2. r.incoming # <<>> /\ IsSeq(r.incoming) /\ \A k \in DOMAIN r.incoming : NewOK(r.incoming[k])
  BY <1>1 DEF CallOK, CallTodo
<1>3. NewOK(Head(r.incoming))
  BY <1>2, SeqTail
<1>4. identity.status \in {"UNRESOLVED", "AMBIGUOUS", "RESOLVED", "CONFLICT"}
  BY IdentityIs
<1>5. NewOK(Identified(Head(r.incoming), identity.status, identity.key))
  BY <1>3, <1>4, NamedIsNew
<1> QED BY <1>5 DEF Identified

LEMMA MatchedIs ==
  ASSUME Shape, NEW c \in Calls, At(c, "merge"), NEW in, Matches(in, call[c].mine) # {},
         NEW i, i = First(Matches(in, call[c].mine))
  PROVE  /\ i \in DOMAIN drafts /\ i \in DOMAIN call[c].mine /\ i \in DOMAIN call[c].base
         /\ call[c].mine[i] = call[c].base[i] /\ RowOK(call[c].mine[i])
<1> PICK r : r = call[c]
  OBVIOUS
<1>1. r.pc = "merge" /\ CallHolds(r, DOMAIN drafts)
  BY CallIs DEF At, CallOK
<1>2. DOMAIN r.mine = DOMAIN r.base /\ DOMAIN r.base \subseteq DOMAIN drafts /\ r.mine = r.base
      /\ \A k \in DOMAIN r.base : RowOK(r.mine[k])
  BY <1>1 DEF CallHolds
<1>3. DOMAIN drafts \subseteq Nat
  BY SeqIs DEF Shape, StoreShape
<1>4. Matches(in, r.mine) \subseteq DOMAIN r.mine
  BY DEF Matches, WithSku
<1>5. i \in Matches(in, r.mine)
  BY <1>2, <1>3, <1>4, FirstIs, Zenon
<1> QED BY <1>2, <1>4, <1>5

\* The draft in of a file is merged with the row i, which becomes d.
MergeWith(c, in, i, d) ==
  /\ PutRow(c, i, d)
  /\ call' = [call EXCEPT ![c] = Took(Has(@, i, d), i)]
  /\ diverted' = (diverted \/ Diverts(c, i, d))
  /\ heard' = [heard EXCEPT ![i] = [n \in Names |-> @[n] \cup Said(in)[n]]]
  /\ current' = IF in.variants = <<>> THEN current
                ELSE [current EXCEPT ![i] = Named(in.variants)]
  /\ crossed' = IF in.variants = <<>> THEN crossed
                ELSE IF Crossed(call[c].mine[i].variants, in.variants)
                THEN crossed \cup {i} ELSE crossed \ {i}
Merging(c, in, i, b, d) ==
  /\ NewOK(in) /\ i \in DOMAIN drafts /\ RowOK(b)
  /\ b = call[c].base[i] /\ b = call[c].mine[i] /\ d = MergedDraft(b, in)
  /\ MergeWith(c, in, i, d)

LEMMA MergeIs ==
  ASSUME Shape, NEW c \in Calls, Merge(c)
  PROVE  \E in, i, b, d : Merging(c, in, i, b, d)
<1>1. At(c, "merge") /\ UNCHANGED settings
  BY DEF Merge
<1>2. PICK identity \in Identities(Head(call[c].incoming), call[c].mine) :
        LET in == [Head(call[c].incoming) EXCEPT !.status = identity.status, !.key = identity.key]
            i == First(Matches(in, call[c].mine))
        IN Matches(in, call[c].mine) # {} /\ MergeWith(c, in, i, MergedDraft(call[c].mine[i], in))
  BY Zenon DEF Merge, MergeWith
<1> PICK in : in = [Head(call[c].incoming) EXCEPT !.status = identity.status, !.key = identity.key]
  OBVIOUS
<1> PICK i : i = First(Matches(in, call[c].mine))
  OBVIOUS
<1> PICK b : b = call[c].mine[i]
  BY Zenon
<1> PICK d : d = MergedDraft(b, in)
  OBVIOUS
<1>3. Matches(in, call[c].mine) # {} /\ MergeWith(c, in, i, d)
  BY <1>2
<1>4. NewOK(in)
  BY <1>1, IncomingIs, Zenon
<1>5. i \in DOMAIN drafts /\ RowOK(b) /\ b = call[c].base[i]
  BY <1>1, <1>3, MatchedIs, Zenon
<1>6. Merging(c, in, i, b, d)
  BY <1>3, <1>4, <1>5 DEF Merging
<1> QED BY <1>6

LEMMA ShapeMerge ==
  ASSUME Shape, NEW c \in Calls, Merge(c)
  PROVE  Shape'
<1>1. PICK in, i, b, d : Merging(c, in, i, b, d)
  BY MergeIs
<1>2. /\ PutRow(c, i, d) /\ call' = [call EXCEPT ![c] = Took(Has(call[c], i, d), i)]
      /\ heard' = [heard EXCEPT ![i] = [n \in Names |-> heard[i][n] \cup Said(in)[n]]]
  BY <1>1 DEF Merging, MergeWith
<1>3. current' = current \/ current' = [current EXCEPT ![i] = Named(in.variants)]
  BY <1>1 DEF Merging, MergeWith
<1>4. NewOK(in) /\ i \in DOMAIN drafts /\ RowOK(b) /\ d = MergedDraft(b, in)
  BY <1>1 DEF Merging
<1>5. RowOK(d)
  BY <1>4, MergedIs
<1> PICK g : g = [n \in Names |-> heard[i][n] \cup Said(in)[n]]
  OBVIOUS
<1>6. IsFun(g) /\ DOMAIN g = Names /\ \A n \in Names : IsFiniteSet(g[n])
  <2>1. IsFun(g) /\ DOMAIN g = Names /\ \A n \in Names : g[n] = heard[i][n] \cup Said(in)[n]
    BY DEF IsFun
  <2>2. i \in DOMAIN heard
    BY <1>4, SeqIs DEF Shape, StoreShape
  <2>3. ASSUME NEW n \in Names
        PROVE  IsFiniteSet(g[n])
    <3>1. IsFiniteSet(heard[i][n])
      BY <2>2 DEF Shape, StoreShape
    <3>2. IsFiniteSet(Said(in)[n])
      BY <1>4, SaidIs
    <3> QED BY <2>1, <3>1, <3>2, FS_Union
  <2> QED BY <2>1, <2>3
<1>7. At(c, "merge") /\ UNCHANGED <<settings, asks, begun, losses>> /\ open' \subseteq open
  BY DEF Merge, queue
<1>8. StoreShape' /\ DOMAIN drafts' = DOMAIN drafts
  <2>1. HistoriesPut(i)
    BY <1>2, <1>3, <1>6 DEF HistoriesPut
  <2> QED BY <1>2, <1>4, <1>5, <1>7, <2>1, StorePut
<1>9. CallOK(Took(Has(call[c], i, d), i), DOMAIN drafts')
  <2>1. CallOK(call[c], DOMAIN drafts) /\ call[c].pc = "merge"
    BY <1>7, CallIs DEF At
  <2> QED BY <1>4, <1>5, <1>8, <2>1, TookOK
<1> QED BY <1>2, <1>8, <1>9, ShapeStep

LEMMA ShapeCreate ==
  ASSUME Shape, NEW c \in Calls, Create(c)
  PROVE  Shape'
<1>1. At(c, "merge")
  BY DEF Create
<1> PICK identity \in Identities(Head(call[c].incoming), call[c].mine) :
       LET in == [Head(call[c].incoming) EXCEPT !.status = identity.status, !.key = identity.key]
           i == Len(drafts) + 1
       IN /\ drafts' = Append(drafts, in)
          /\ call' = [call EXCEPT ![c] = Took(Has(@, i, in), i)]
          /\ heard' = Append(heard, Said(in))
          /\ current' = Append(current, Named(in.variants))
  BY DEF Create
<1> PICK in : in = [Head(call[c].incoming) EXCEPT !.status = identity.status, !.key = identity.key]
  OBVIOUS
<1> PICK i : i = Len(drafts) + 1
  OBVIOUS
<1>2. /\ drafts' = Append(drafts, in)
      /\ call' = [call EXCEPT ![c] = Took(Has(call[c], i, in), i)]
      /\ heard' = Append(heard, Said(in)) /\ current' = Append(current, Named(in.variants))
  OBVIOUS
<1>3. NewOK(in) /\ RowOK(in)
  <2>1. NewOK(in)
    BY <1>1, IncomingIs
  <2> QED BY <2>1 DEF NewOK
<1>4. /\ IsSeq(drafts) /\ Len(drafts) \in Nat /\ DOMAIN drafts = 1..Len(drafts)
      /\ IsSeq(heard) /\ Len(heard) = Len(drafts) /\ DOMAIN heard = 1..Len(drafts)
      /\ IsSeq(current) /\ Len(current) = Len(drafts)
  BY SeqIs DEF Shape, StoreShape
<1>5. /\ IsSeq(drafts') /\ Len(drafts') = i /\ drafts'[i] = in
      /\ \A k \in 1..Len(drafts) : drafts'[k] = drafts[k]
  BY <1>2, <1>4, SeqAppend
<1>6. /\ IsSeq(heard') /\ Len(heard') = i /\ heard'[i] = Said(in)
      /\ \A k \in 1..Len(drafts) : heard'[k] = heard[k]
  BY <1>2, <1>4, SeqAppend
<1>7. IsSeq(current') /\ Len(current') = i
  BY <1>2, <1>4, SeqAppend
<1>8. DOMAIN drafts' = 1..i /\ DOMAIN heard' = 1..i
  BY <1>5, <1>6, SeqIs
<1>9. DOMAIN drafts \subseteq DOMAIN drafts' /\ i \in DOMAIN drafts'
  BY <1>4, <1>8
<1>10. \A k \in DOMAIN drafts' : RowOK(drafts'[k])
  <2>1. ASSUME NEW k \in 1..i
        PROVE  RowOK(drafts'[k])
    <3>1. CASE k = i
      BY <1>3, <1>5, <3>1
    <3>2. CASE k # i
      <4>1. k \in 1..Len(drafts)
        BY <1>4, <3>2
      <4>2. RowOK(drafts[k])
        BY <1>4, <4>1 DEF Shape, StoreShape
      <4> QED BY <1>5, <4>1, <4>2
    <3> QED BY <3>1, <3>2
  <2> QED BY <1>8, <2>1
<1>11. \A k \in DOMAIN heard' : IsFun(heard'[k]) /\ DOMAIN heard'[k] = Names
                                /\ \A n \in Names : IsFiniteSet(heard'[k][n])
  <2>1. ASSUME NEW k \in 1..i
        PROVE  IsFun(heard'[k]) /\ DOMAIN heard'[k] = Names /\ \A n \in Names : IsFiniteSet(heard'[k][n])
    <3>1. CASE k = i
      <4>1. IsFun(Said(in)) /\ DOMAIN Said(in) = Names /\ \A n \in Names : IsFiniteSet(Said(in)[n])
        BY <1>3, SaidIs DEF IsFun, Said
      <4> QED BY <1>6, <3>1, <4>1
    <3>2. CASE k # i
      <4>1. k \in 1..Len(drafts)
        BY <1>4, <3>2
      <4>2. IsFun(heard[k]) /\ DOMAIN heard[k] = Names /\ \A n \in Names : IsFiniteSet(heard[k][n])
        BY <1>4, <4>1 DEF Shape, StoreShape
      <4> QED BY <1>6, <4>1, <4>2
    <3> QED BY <3>1, <3>2
  <2> QED BY <1>8, <2>1
<1>12. /\ asks' = asks /\ open' = open /\ begun' = begun /\ losses' = losses
       /\ files' = files /\ required' = required
  BY DEF Create, queue, settings
<1>13. asks' \in Seq(DOMAIN drafts')
  BY <1>9, <1>12, SeqMonotonic DEF Shape, StoreShape
<1>14. StoreShape'
  BY <1>5, <1>6, <1>7, <1>9, <1>10, <1>11, <1>12, <1>13 DEF Shape, StoreShape
<1>15. CallOK(Took(Has(call[c], i, in), i), DOMAIN drafts')
  <2>1. CallOK(call[c], DOMAIN drafts) /\ call[c].pc = "merge"
    BY <1>1, CallIs DEF At
  <2> QED BY <1>3, <1>9, <2>1, TookOK
<1> QED BY <1>2, <1>9, <1>14, <1>15, ShapeStep

LEMMA ShapeBeginIngest ==
  ASSUME Shape, NEW c \in Calls, BeginIngest(c)
  PROVE  Shape'
<1> PICK f \in files :
      Begins(c, [NoCall EXCEPT !.pc = "merge", !.kind = "ingest", !.base = drafts, !.mine = drafts,
                             !.incoming = DraftsOf(f)])
  BY DEF BeginIngest
<1> PICK q : q = [NoCall EXCEPT !.pc = "merge", !.kind = "ingest", !.base = drafts, !.mine = drafts,
                             !.incoming = DraftsOf(f)]
  OBVIOUS
<1>1. IsSeq(drafts) /\ (\A i \in DOMAIN drafts : RowOK(drafts[i])) /\ StoreShape
  BY DEF Shape, StoreShape
<1>2. CallOK(q, DOMAIN drafts)
  BY <1>1, IngestOK
<1>3. Begins(c, q)
  OBVIOUS
<1> QED BY <1>2, <1>3, ShapeBegins

\* The draft an answer is about.
LEMMA AskedIs ==
  ASSUME Shape, Asked # {}, NEW i, i = asks[Last1(Asked)]
  PROVE  i \in DOMAIN drafts /\ drafts[i].state = "INCOMPLETE" /\ Askable(drafts[i])
<1>1. asks \in Seq(DOMAIN drafts) /\ Len(asks) \in Nat /\ DOMAIN asks = 1..Len(asks)
  BY LenProperties DEF Shape, StoreShape
<1>2. Asked \subseteq 1..Len(asks)
  BY <1>1 DEF Asked
<1>3. Last1(Asked) \in Asked
  BY <1>1, <1>2, LastIs
<1>4. i \in DOMAIN drafts
  BY <1>1, <1>2, <1>3, ElementOfSeq
<1> QED BY <1>3, <1>4 DEF Asked

LEMMA ShapeBeginAnswer ==
  ASSUME Shape, NEW c \in Calls, BeginAnswer(c)
  PROVE  Shape'
<1> PICK i : i = asks[Last1(Asked)]
  OBVIOUS
<1>1. Asked # {}
  BY DEF BeginAnswer
<1>2. i \in DOMAIN drafts
  BY <1>1, AskedIs
<1> PICK given \in SUBSET drafts[i].missing \ {{}} :
      Begins(c, [HoldingRow("answer", "read", i, drafts[i]) EXCEPT !.given = given])
  BY DEF BeginAnswer
<1>3. RowOK(drafts[i])
  BY <1>2 DEF Shape, StoreShape
<1>4. given \subseteq Cores
  BY <1>3, RowFields
<1> PICK q : q = Single("answer", "read", i, drafts[i], drafts[i], given)
  OBVIOUS
<1>5. CallOK(q, DOMAIN drafts)
  BY <1>2, <1>3, <1>4, SingleOK
<1>6. Begins(c, q)
  <2>1. Begins(c, Gives(HoldingRow("answer", "read", i, drafts[i]), given))
    BY DEF Gives
  <2>2. Gives(HoldingRow("answer", "read", i, drafts[i]), given) = q
    BY GivenIsSingle
  <2> QED BY <2>1, <2>2
<1> QED BY <1>5, <1>6, ShapeBegins

LEMMA ShapeBeginApproval ==
  ASSUME Shape, NEW c \in Calls, BeginApproval(c)
  PROVE  Shape'
<1> PICK i \in DOMAIN drafts : Begins(c, HoldingRow("approval", "approve", i, drafts[i]))
  BY DEF BeginApproval
<1>1. RowOK(drafts[i])
  BY DEF Shape, StoreShape
<1> PICK q : q = Single("approval", "approve", i, drafts[i], drafts[i], {})
  OBVIOUS
<1> PICK given : given = {}
  OBVIOUS
<1> PICK d : d = drafts[i]
  OBVIOUS
<1> PICK D : D = DOMAIN drafts
  OBVIOUS
<1>2. CallOK(q, DOMAIN drafts)
  <2>1. i \in D /\ RowOK(d)
    BY <1>1
  <2>2. CallOK(Single("approval", "approve", i, d, d, given), D)
    BY <2>1, SingleOK
  <2> QED BY <2>2
<1>3. Begins(c, q)
  BY HeldIsSingle
<1> QED BY <1>2, <1>3, ShapeBegins

LEMMA ShapeBeginResolution ==
  ASSUME Shape, NEW c \in Calls, BeginResolution(c)
  PROVE  Shape'
<1> PICK i \in DOMAIN drafts : \E n \in Disputed(drafts[i]) \cap DOMAIN Answers : \E v \in Answers[n] :
      Begins(c, [HoldingRow("resolution", "resolve", i, Validate(Resolved(drafts[i], n, v)))
                   EXCEPT !.given = {<<n, Normal(n, v)>>}])
  BY DEF BeginResolution
<1> PICK n \in Disputed(drafts[i]) \cap DOMAIN Answers : \E v \in Answers[n] :
      Begins(c, [HoldingRow("resolution", "resolve", i, Validate(Resolved(drafts[i], n, v)))
                   EXCEPT !.given = {<<n, Normal(n, v)>>}])
  OBVIOUS
<1> PICK v \in Answers[n] :
      Begins(c, [HoldingRow("resolution", "resolve", i, Validate(Resolved(drafts[i], n, v)))
                   EXCEPT !.given = {<<n, Normal(n, v)>>}])
  OBVIOUS
<1>1. n \in Cores
  BY CatalogueAssumption
<1>2. RowOK(drafts[i])
  BY DEF Shape, StoreShape
<1> PICK d : d = Validate(Resolved(drafts[i], n, v))
  OBVIOUS
<1>3. RowOK(d) /\ Settles(drafts[i], d, n, v)
  BY <1>1, <1>2, ResolvedIs
<1> PICK given : given = {<<n, Normal(n, v)>>}
  OBVIOUS
<1> PICK q : q = Single("resolution", "resolve", i, drafts[i], d, given)
  OBVIOUS
<1>4. CallOK(q, DOMAIN drafts)
  BY <1>1, <1>2, <1>3, SingleOK
<1>5. Begins(c, q)
  <2>1. Begins(c, [HoldingRow("resolution", "resolve", i, d) EXCEPT !.given = given])
    OBVIOUS
  <2>2. Begins(c, Gives(HoldingRow("resolution", "resolve", i, d), given))
    BY <2>1 DEF Gives
  <2>3. Gives(HoldingRow("resolution", "resolve", i, d), given) = q
    BY GivenIsSingle
  <2> QED BY <2>2, <2>3
<1> QED BY <1>4, <1>5, ShapeBegins

LEMMA ShapePut ==
  ASSUME Shape, NEW c \in Calls, NEW i \in DOMAIN drafts, NEW d, RowOK(d), PutRow(c, i, d),
         UNCHANGED <<settings, asks, begun, losses>>, open' \subseteq open, HistoriesPut(i),
         NEW q, call' = [call EXCEPT ![c] = q], CallOK(q, DOMAIN drafts)
  PROVE  Shape'
<1>1. StoreShape' /\ DOMAIN drafts' = DOMAIN drafts
  BY StorePut
<1> QED BY <1>1, ShapeStep

LEMMA ShapePutRecommended ==
  ASSUME Shape, NEW c \in Calls, PutRecommended(c)
  PROVE  Shape'
<1>1. At(c, "put") /\ PutRow(c, Id(c), Row(c))
  BY DEF PutRecommended
<1>2. Id(c) \in DOMAIN drafts /\ RowOK(Row(c))
  BY <1>1, RowIs DEF At
<1> PICK q : q = Turn(Has(call[c], Id(c), Row(c)), "validate")
  OBVIOUS
<1>3. call' = [call EXCEPT ![c] = q]
  BY DEF PutRecommended
<1>4. CallOK(q, DOMAIN drafts)
  <2> PICK h : h = Has(call[c], Id(c), Row(c))
    OBVIOUS
  <2>1. CallOK(call[c], DOMAIN drafts) /\ call[c].pc = "put"
    BY <1>1, CallIs DEF At
  <2>2. CallOK(h, DOMAIN drafts)
    BY <1>2, <2>1, HasOK DEF Id
  <2>3. h.pc = "put"
    BY <1>2, <2>1, HasPc
  <2> QED BY <2>2, <2>3, TurnOK
<1>5. HistoriesPut(Id(c)) /\ UNCHANGED <<settings, asks, begun, losses>> /\ open' \subseteq open
  BY DEF PutRecommended, HistoriesPut, queue
<1> QED BY <1>1, <1>2, <1>3, <1>4, <1>5, ShapePut

LEMMA ShapePutValidated ==
  ASSUME Shape, NEW c \in Calls, PutValidated(c)
  PROVE  Shape'
<1> PICK d : d = Validate(Row(c))
  OBVIOUS
<1>1. At(c, "validate") /\ PutRow(c, Id(c), d)
  BY DEF PutValidated
<1>2. Id(c) \in DOMAIN drafts /\ RowOK(Row(c)) /\ Id(c) \in DOMAIN call[c].mine
  BY <1>1, RowIs DEF At
<1>3. RowOK(d) /\ Checked(d)
  BY <1>2, ValidateIs
<1> PICK q : q = Turn(Has(call[c], Id(c), d), "handle")
  OBVIOUS
<1>4. call' = [call EXCEPT ![c] = q]
  BY DEF PutValidated
<1>5. CallOK(q, DOMAIN drafts)
  <2> PICK h : h = Has(call[c], Id(c), d)
    OBVIOUS
  <2>1. CallOK(call[c], DOMAIN drafts) /\ call[c].pc = "validate"
    BY <1>1, CallIs DEF At
  <2>2. CallOK(h, DOMAIN drafts)
    BY <1>3, <2>1, HasOK DEF Id
  <2>3. h.pc = "validate" /\ h.mine[h.todo[h.at]] = d
    <3>1. h.pc = "validate" /\ h.todo = call[c].todo /\ h.at = call[c].at /\ h.mine[Id(c)] = d
      BY <1>2, <2>1, HasPc
    <3> QED BY <3>1 DEF Id
  <2>4. Checked(h.mine[h.todo[h.at]])
    BY <1>3, <2>3
  <2>5. CallOK(Turn(h, "handle"), DOMAIN drafts)
    BY <2>2, <2>3, <2>4, TurnOK
  <2> QED BY <2>5
<1>6. HistoriesPut(Id(c)) /\ UNCHANGED <<settings, asks, begun, losses>> /\ open' \subseteq open
  BY DEF PutValidated, HistoriesPut, queue
<1> QED BY <1>1, <1>2, <1>3, <1>4, <1>5, <1>6, ShapePut

LEMMA ShapeHandleDraft ==
  ASSUME Shape, NEW c \in Calls, HandleDraft(c)
  PROVE  Shape'
<1>1. CallOK(call[c], DOMAIN drafts) /\ call[c].pc = "handle" /\ call[c].kind = "ingest"
  BY CallIs DEF HandleDraft, At, CallOK, CallKind, Ingesting
<1>2. UNCHANGED <<settings, drafts, heard, current, begun, losses, queue>>
  BY DEF HandleDraft, histories
<1>3. CASE call' = [call EXCEPT ![c] = Turn(call[c], "idle")]
  <2>1. CallOK(Turn(call[c], "idle"), DOMAIN drafts)
    BY <1>1, TurnOK
  <2> QED BY <1>2, <1>3, <2>1, ShapeReads
<1>4. CASE Goto(c, "ask")
  <2> PICK q : q = [call[c] EXCEPT !.pc = "ask"]
    OBVIOUS
  <2>1. call' = [call EXCEPT ![c] = q]
    BY <1>4 DEF Goto
  <2>2. CallOK(q, DOMAIN drafts)
    BY <1>1, MovedOK
  <2> QED BY <1>2, <2>1, <2>2, ShapeReads
<1> QED BY <1>3, <1>4 DEF HandleDraft

LEMMA AskedNext ==
  ASSUME NEW r, NEW D, CallOK(r, D), r.pc \in {"ask", "send"},
         NEW q, q = Turn([r EXCEPT !.pc = "handle"], "idle")
  PROVE  CallOK(q, D) /\ (r.kind # "ingest" => q = NoCall)
<1> PICK h : h = [r EXCEPT !.pc = "handle"]
  OBVIOUS
<1>1. CASE r.kind = "ingest"
  <2>1. CallOK(h, D) /\ h.pc = "handle"
    BY <1>1, MovedOK
  <2> QED BY <1>1, <2>1, TurnOK
<1>2. CASE r.kind # "ingest"
  <2>1. Len(h.todo) = 1 /\ h.at = 1
    <3>1. Len(r.todo) = 1 /\ r.at \in 1..Len(r.todo)
      BY <1>2 DEF CallOK, CallTodo
    <3>2. h.todo = r.todo /\ h.at = r.at
      BY DEF CallOK, CallTyped
    <3> QED BY <3>1, <3>2
  <2>2. ~ (1 < 1)
    OBVIOUS
  <2>3. q = NoCall
    BY <2>1, <2>2 DEF Turn
  <2> QED BY <2>3, NoCallOK
<1> QED BY <1>1, <1>2

LEMMA ShapeCheckQueue ==
  ASSUME Shape, NEW c \in Calls, CheckQueue(c)
  PROVE  Shape'
<1>1. CallOK(call[c], DOMAIN drafts) /\ call[c].pc = "ask" /\ call[c].kind = "ingest"
  BY CallIs DEF CheckQueue, At, CallOK, CallKind, Ingesting
<1>2. UNCHANGED <<settings, drafts, heard, current, begun, losses, queue>>
  BY DEF CheckQueue, histories
<1>3. CASE Outstanding(Id(c))
  <2> PICK q : q = Turn([call[c] EXCEPT !.pc = "handle"], "idle")
    OBVIOUS
  <2>1. call' = [call EXCEPT ![c] = q]
    BY <1>3 DEF CheckQueue
  <2>2. CallOK(q, DOMAIN drafts)
    BY <1>1, AskedNext
  <2> QED BY <1>2, <2>1, <2>2, ShapeReads
<1>4. CASE ~ Outstanding(Id(c))
  <2> PICK q : q = [call[c] EXCEPT !.pc = "send"]
    OBVIOUS
  <2>1. call' = [call EXCEPT ![c] = q]
    BY <1>4 DEF CheckQueue, Goto
  <2>2. CallOK(q, DOMAIN drafts)
    BY <1>1, MovedOK
  <2> QED BY <1>2, <2>1, <2>2, ShapeReads
<1> QED BY <1>3, <1>4

LEMMA ShapeSendQuestion ==
  ASSUME Shape, NEW c \in Calls, SendQuestion(c)
  PROVE  Shape'
<1>1. CallOK(call[c], DOMAIN drafts) /\ call[c].pc = "send"
  BY CallIs DEF SendQuestion, At
<1>2. Id(c) \in DOMAIN drafts
  BY RowIs DEF SendQuestion, At
<1>3. StoreMore
  <2>1. \/ asks' = Append(asks, Id(c)) /\ open' = open \cup {Id(c)} /\ losses' = losses
        \/ losses < MaxLosses /\ losses' = losses + 1 /\ asks' = asks /\ open' = open
    BY DEF SendQuestion, queue
  <2>2. asks' \in Seq(DOMAIN drafts) /\ open' \subseteq DOMAIN drafts
    BY <1>2, <2>1, AppendIn DEF Shape, StoreShape
  <2>3. losses' \in 0..MaxLosses /\ begun' \in 0..MaxBegun
    BY <2>1, CatalogueAssumption DEF Shape, StoreShape, SendQuestion
  <2> QED BY <2>2, <2>3 DEF StoreMore
<1>4. StoreShape' /\ DOMAIN drafts' = DOMAIN drafts
  BY <1>3, StoreUnread DEF Shape, SendQuestion, histories
<1> PICK q : q = Turn([call[c] EXCEPT !.pc = "handle"], "idle")
  OBVIOUS
<1>5. call' = [call EXCEPT ![c] = q]
  BY DEF SendQuestion
<1>6. CallOK(q, DOMAIN drafts)
  BY <1>1, AskedNext
<1> QED BY <1>4, <1>5, <1>6, ShapeStep

LEMMA ShapeFillByAi ==
  ASSUME Shape, NEW c \in Calls, FillByAi(c)
  PROVE  Shape'
<1> PICK n \in Row(c).missing \cap AiFillable :
       LET d == Validate(Supplied(Row(c), n, AiText, "ai")) IN
       /\ PutRow(c, Id(c), d)
       /\ heard' = [heard EXCEPT ![Id(c)][n] = {AiText}]
       /\ call' = [call EXCEPT ![c] = IF d.state = "INCOMPLETE"
            THEN [Has(@, Id(c), d) EXCEPT !.pc = "ask"] ELSE Turn(Has(@, Id(c), d), "idle")]
  BY DEF FillByAi
<1> PICK d : d = Validate(Supplied(Row(c), n, AiText, "ai"))
  OBVIOUS
<1> PICK h : h = Has(call[c], Id(c), d)
  OBVIOUS
<1> PICK g : g = [heard[Id(c)] EXCEPT ![n] = {AiText}]
  OBVIOUS
<1>1. /\ PutRow(c, Id(c), d) /\ heard' = [heard EXCEPT ![Id(c)] = g]
      /\ call' = [call EXCEPT ![c] = IF d.state = "INCOMPLETE" THEN [h EXCEPT !.pc = "ask"] ELSE Turn(h, "idle")]
  OBVIOUS
<1>2. At(c, "handle") /\ AiText # None /\ n = "text"
  BY DEF FillByAi, AiFillable
<1>3. Id(c) \in DOMAIN drafts /\ RowOK(Row(c))
  BY <1>2, RowIs DEF At
<1>4. RowOK(d) /\ Checked(d)
  <2>1. n \in Cores /\ n # "price"
    BY <1>2 DEF Cores
  <2>2. Told(Row(c), d, n, AiText, "ai")
    BY <1>2, <1>3, <2>1, ToldIs
  <2> QED BY <2>2 DEF Told
<1>5. HistoriesPut(Id(c))
  <2>1. Id(c) \in DOMAIN heard
    BY <1>3, SeqIs DEF Shape, StoreShape
  <2>2. IsFun(heard[Id(c)]) /\ DOMAIN heard[Id(c)] = Names /\ \A m \in Names : IsFiniteSet(heard[Id(c)][m])
    BY <2>1 DEF Shape, StoreShape
  <2>3. IsFun(g) /\ DOMAIN g = Names /\ \A m \in Names : g[m] = heard[Id(c)][m] \/ g[m] = {AiText}
    BY <2>2 DEF IsFun
  <2>4. \A m \in Names : IsFiniteSet(g[m])
    BY <2>2, <2>3, FS_Singleton
  <2>5. current' = current
    BY DEF FillByAi
  <2> QED BY <1>1, <2>3, <2>4, <2>5 DEF HistoriesPut
<1>6. UNCHANGED <<settings, asks, begun, losses>> /\ open' \subseteq open
  BY DEF FillByAi, queue
<1>7. CallOK(call[c], DOMAIN drafts) /\ call[c].pc = "handle" /\ call[c].kind = "ingest"
  BY <1>2, CallIs DEF At, CallOK, CallKind, Ingesting
<1>8. CallOK(h, DOMAIN drafts) /\ h.pc = "handle" /\ h.kind = "ingest"
  <2>1. CallOK(h, DOMAIN drafts)
    BY <1>4, <1>7, HasOK DEF Id
  <2>2. h.pc = "handle"
    BY <1>7, HasPc
  <2> QED BY <2>1, <2>2 DEF CallOK, CallKind, Ingesting
<1>9. CASE d.state = "INCOMPLETE"
  <2> PICK q : q = [h EXCEPT !.pc = "ask"]
    OBVIOUS
  <2>1. CallOK(q, DOMAIN drafts)
    BY <1>8, MovedOK
  <2>2. call' = [call EXCEPT ![c] = q]
    BY <1>1, <1>9
  <2> QED BY <1>1, <1>3, <1>4, <1>5, <1>6, <2>1, <2>2, ShapePut
<1>10. CASE d.state # "INCOMPLETE"
  <2> PICK q : q = Turn(h, "idle")
    OBVIOUS
  <2>1. CallOK(q, DOMAIN drafts)
    BY <1>8, TurnOK
  <2>2. call' = [call EXCEPT ![c] = q]
    BY <1>1, <1>10
  <2> QED BY <1>1, <1>3, <1>4, <1>5, <1>6, <2>1, <2>2, ShapePut
<1> QED BY <1>9, <1>10

\* A call that is not an ingestion puts its row and moves on.
LEMMA HasMovedTo ==
  ASSUME Shape, NEW c \in Calls, ~ At(c, "idle"), NEW d, RowOK(d),
         NEW p, p \in {"read", "provide", "provided"} => call[c].given \subseteq Cores,
         \/ call[c].kind = "answer" /\ p \in {"read", "provide", "provided", "put_answered", "next",
                                              "approve", "put_approved"}
         \/ call[c].kind = "approval" /\ p = "put_approved"
         \/ call[c].kind = "resolution" /\ p = "resolved",
         NEW t, t = [Has(call[c], Id(c), d) EXCEPT !.pc = p]
  PROVE  CallOK(t, DOMAIN drafts)
<1> PICK r : r = call[c]
  OBVIOUS
<1>1. CallOK(r, DOMAIN drafts) /\ r.pc # "idle"
  BY CallIs DEF At
<1>2. t = Onward(Has(r, r.todo[r.at], d), p)
  BY DEF Id, Onward
<1>3. MayMove(r, p, r.given)
  BY DEF MayMove
<1> QED BY <1>1, <1>2, <1>3, MovedOnOK

LEMMA ShapeReadForField ==
  ASSUME Shape, NEW c \in Calls, ReadForField(c)
  PROVE  Shape'
<1>1. At(c, "read") /\ UNCHANGED <<settings, drafts, heard, current, begun, losses, queue>>
  BY DEF ReadForField, histories
<1>2. CallOK(call[c], DOMAIN drafts)
  BY CallIs
<1>3. CASE call' = [call EXCEPT ![c] = [Has(call[c], Id(c), drafts[Id(c)]) EXCEPT !.pc = "provide"]]
  <2> PICK d : d = drafts[Id(c)]
    OBVIOUS
  <2> PICK q : q = [Has(call[c], Id(c), d) EXCEPT !.pc = "provide"]
    OBVIOUS
  <2>1. RowOK(d)
    BY <1>1, RowIs DEF At, Shape, StoreShape
  <2>2. call[c].kind = "answer" /\ call[c].given \subseteq Cores /\ ~ At(c, "idle")
    BY <1>1, <1>2 DEF At, CallOK, CallKind, CallPlaced, Answering
  <2>3. CallOK(q, DOMAIN drafts)
    BY <2>1, <2>2, HasMovedTo
  <2> QED BY <1>1, <1>3, <2>3, ShapeReads
<1>4. CASE Leave(c)
  <2>1. CallOK(NoCall, DOMAIN drafts)
    BY NoCallOK
  <2> QED BY <1>1, <1>4, <2>1, ShapeReads DEF Leave
<1> QED BY <1>3, <1>4 DEF ReadForField

LEMMA ShapeProvideField ==
  ASSUME Shape, NEW c \in Calls, ProvideField(c)
  PROVE  Shape'
<1> PICK i : i = Id(c)
  OBVIOUS
<1>1. PICK n \in call[c].given : \E v \in Answers[n] :
       LET d == Validate(Supplied(Row(c), n, v, "human")) IN
       /\ PutRow(c, i, d)
       /\ call' = [call EXCEPT ![c] = [Has(@, i, d) EXCEPT !.pc = "provided", !.given = call[c].given \ {n}]]
       /\ heard' = [heard EXCEPT ![i][n] = (IF n \in Disputed(Row(c)) THEN @ ELSE {}) \cup {Normal(n, v)}]
  BY DEF ProvideField
<1>2. PICK v \in Answers[n] :
       LET d == Validate(Supplied(Row(c), n, v, "human")) IN
       /\ PutRow(c, i, d)
       /\ call' = [call EXCEPT ![c] = [Has(@, i, d) EXCEPT !.pc = "provided", !.given = call[c].given \ {n}]]
       /\ heard' = [heard EXCEPT ![i][n] = (IF n \in Disputed(Row(c)) THEN @ ELSE {}) \cup {Normal(n, v)}]
  BY <1>1
<1> PICK d : d = Validate(Supplied(Row(c), n, v, "human"))
  OBVIOUS
<1> PICK S : S = (IF n \in Disputed(Row(c)) THEN heard[i][n] ELSE {}) \cup {Normal(n, v)}
  OBVIOUS
<1> PICK g : g = [heard[i] EXCEPT ![n] = S]
  OBVIOUS
<1> PICK h : h = Has(call[c], i, d)
  OBVIOUS
<1> PICK given : given = call[c].given \ {n}
  OBVIOUS
<1> PICK q : q = MovedWith(h, "provided", given)
  OBVIOUS
<1>3. /\ PutRow(c, i, d) /\ heard' = [heard EXCEPT ![i] = g]
      /\ call' = [call EXCEPT ![c] = q]
  BY <1>2 DEF MovedWith
<1>4. At(c, "provide")
  BY DEF ProvideField
<1>5. i \in DOMAIN drafts /\ RowOK(Row(c))
  BY <1>4, RowIs DEF At
<1>6. /\ CallOK(call[c], DOMAIN drafts) /\ call[c].pc = "provide" /\ call[c].kind = "answer"
      /\ call[c].given \subseteq Cores
  BY <1>4, CallIs DEF At, CallOK, CallKind, CallPlaced, Answering
<1>7. RowOK(d)
  <2>1. n \in Cores
    BY <1>6
  <2>2. v # None /\ (n = "price" => v \in PriceRead)
    BY <2>1, AnswerIs
  <2>3. Told(Row(c), d, n, v, "human")
    BY <1>5, <2>1, <2>2, ToldIs
  <2> QED BY <2>3 DEF Told
<1>8. HistoriesPut(i)
  <2>1. i \in DOMAIN heard
    BY <1>5, SeqIs DEF Shape, StoreShape
  <2>2. IsFun(heard[i]) /\ DOMAIN heard[i] = Names /\ \A m \in Names : IsFiniteSet(heard[i][m])
    BY <2>1 DEF Shape, StoreShape
  <2>3. IsFun(g) /\ DOMAIN g = Names /\ \A m \in Names : g[m] = heard[i][m] \/ g[m] = S
    BY <2>2 DEF IsFun
  <2>4. IsFiniteSet(S)
    <3>1. n \in Names
      BY <1>6 DEF Cores, Names
    <3>2. IsFiniteSet(IF n \in Disputed(Row(c)) THEN heard[i][n] ELSE {})
      BY <2>2, <3>1, FS_EmptySet
    <3> QED BY <3>2, FS_Singleton, FS_Union
  <2>5. \A m \in Names : IsFiniteSet(g[m])
    BY <2>2, <2>3, <2>4
  <2>6. current' = current
    BY DEF ProvideField
  <2> QED BY <1>3, <2>3, <2>5, <2>6 DEF HistoriesPut
<1>9. UNCHANGED <<settings, asks, begun, losses>> /\ open' \subseteq open
  BY DEF ProvideField, queue
<1>10. CallOK(q, DOMAIN drafts)
  <2> PICK r : r = call[c]
    OBVIOUS
  <2>1. given \subseteq Cores
    BY <1>6
  <2>2. q = MovedWith(Has(r, r.todo[r.at], d), "provided", given)
    BY DEF Id
  <2>3. i = r.todo[r.at] /\ r.pc # "idle" /\ r.kind = "answer" /\ CallOK(r, DOMAIN drafts)
    BY <1>6 DEF Id
  <2>4. MayMove(r, "provided", given)
    BY <2>1, <2>3 DEF MayMove
  <2>5. CallOK(MovedWith(Has(r, r.todo[r.at], d), "provided", given), DOMAIN drafts)
    BY <1>7, <2>3, <2>4, MovedWithOK
  <2> QED BY <2>2, <2>5
<1> QED BY <1>3, <1>5, <1>7, <1>8, <1>9, <1>10, ShapePut

LEMMA ShapePutProvided ==
  ASSUME Shape, NEW c \in Calls, PutProvided(c)
  PROVE  Shape'
<1> PICK d : d = Row(c)
  OBVIOUS
<1>1. At(c, "provided") /\ PutRow(c, Id(c), d)
  BY DEF PutProvided
<1>2. Id(c) \in DOMAIN drafts /\ RowOK(Row(c))
  BY <1>1, RowIs DEF At
<1>3. RowOK(d)
  BY <1>2
<1>4. CallOK(call[c], DOMAIN drafts) /\ ~ At(c, "idle") /\ call[c].kind \in {"answer"}
  BY <1>1, CallIs DEF At, CallOK, CallKind, Answering, Approving, Resolving
<1>5. HistoriesPut(Id(c)) /\ UNCHANGED <<settings, asks, begun, losses>> /\ open' \subseteq open
  BY DEF PutProvided, HistoriesPut, queue
<1>6. CASE call[c].given = {}
  <2> PICK q : q = [Has(call[c], Id(c), d) EXCEPT !.pc = "put_answered"]
    OBVIOUS
  <2>1. call' = [call EXCEPT ![c] = q]
    BY <1>6 DEF PutProvided
  <2>2. CallOK(q, DOMAIN drafts)
    BY <1>3, <1>4, <1>6, HasMovedTo
  <2> QED BY <1>1, <1>2, <1>3, <1>5, <2>1, <2>2, ShapePut
<1>7. CASE call[c].given # {}
  <2> PICK q : q = [Has(call[c], Id(c), d) EXCEPT !.pc = "read"]
    OBVIOUS
  <2>1. call' = [call EXCEPT ![c] = q]
    BY <1>7 DEF PutProvided
  <2>2. call[c].given \subseteq Cores
    BY <1>1, <1>4 DEF At, CallOK, CallPlaced
  <2>3. CallOK(q, DOMAIN drafts)
    BY <1>3, <1>4, <2>2, HasMovedTo
  <2> QED BY <1>1, <1>2, <1>3, <1>5, <2>1, <2>3, ShapePut
<1> QED BY <1>6, <1>7

LEMMA ShapePutAnswered ==
  ASSUME Shape, NEW c \in Calls, PutAnswered(c)
  PROVE  Shape'
<1> PICK d : d = Validate(Row(c))
  OBVIOUS
<1>1. At(c, "put_answered") /\ PutRow(c, Id(c), d)
  BY DEF PutAnswered
<1>2. Id(c) \in DOMAIN drafts /\ RowOK(Row(c))
  BY <1>1, RowIs DEF At
<1>3. RowOK(d)
  BY <1>2, ValidateIs
<1>4. CallOK(call[c], DOMAIN drafts) /\ ~ At(c, "idle") /\ call[c].kind \in {"answer"}
  BY <1>1, CallIs DEF At, CallOK, CallKind, Answering, Approving, Resolving
<1>5. HistoriesPut(Id(c)) /\ UNCHANGED <<settings, asks, begun, losses>> /\ open' \subseteq open
  BY DEF PutAnswered, HistoriesPut, queue
<1>6. CASE d.state \notin Open
  <2> PICK q : q = [Has(call[c], Id(c), d) EXCEPT !.pc = "approve"]
    OBVIOUS
  <2>1. call' = [call EXCEPT ![c] = q]
    BY <1>6 DEF PutAnswered
  <2>2. CallOK(q, DOMAIN drafts)
    BY <1>3, <1>4, <1>6, HasMovedTo
  <2> QED BY <1>1, <1>2, <1>3, <1>5, <2>1, <2>2, ShapePut
<1>7. CASE d.state \in Open
  <2>1. call' = [call EXCEPT ![c] = NoCall]
    BY <1>7 DEF PutAnswered, Leave
  <2>2. CallOK(NoCall, DOMAIN drafts)
    BY NoCallOK
  <2> QED BY <1>1, <1>2, <1>3, <1>5, <2>1, <2>2, ShapePut
<1> QED BY <1>6, <1>7

LEMMA ShapePutFactsApproved ==
  ASSUME Shape, NEW c \in Calls, PutFactsApproved(c)
  PROVE  Shape'
<1> PICK d : d = Validate(FactsApproved(Row(c)))
  OBVIOUS
<1>1. At(c, "put_approved") /\ PutRow(c, Id(c), d)
  BY DEF PutFactsApproved
<1>2. Id(c) \in DOMAIN drafts /\ RowOK(Row(c))
  BY <1>1, RowIs DEF At
<1>3. RowOK(d)
  BY <1>2, FactsApprovedIs, ValidateIs
<1>4. CallOK(call[c], DOMAIN drafts) /\ ~ At(c, "idle") /\ call[c].kind \in {"answer", "approval"}
  BY <1>1, CallIs DEF At, CallOK, CallKind, Answering, Approving, Resolving
<1>5. HistoriesPut(Id(c)) /\ UNCHANGED <<settings, asks, begun, losses>> /\ open' \subseteq open
  BY DEF PutFactsApproved, HistoriesPut, queue
<1>6. CASE call[c].kind = "answer"
  <2> PICK q : q = [Has(call[c], Id(c), d) EXCEPT !.pc = "next"]
    OBVIOUS
  <2>1. call' = [call EXCEPT ![c] = q]
    BY <1>6 DEF PutFactsApproved
  <2>2. CallOK(q, DOMAIN drafts)
    BY <1>3, <1>4, <1>6, HasMovedTo
  <2> QED BY <1>1, <1>2, <1>3, <1>5, <2>1, <2>2, ShapePut
<1>7. CASE call[c].kind # "answer"
  <2>1. call' = [call EXCEPT ![c] = NoCall]
    BY <1>7 DEF PutFactsApproved, Leave
  <2>2. CallOK(NoCall, DOMAIN drafts)
    BY NoCallOK
  <2> QED BY <1>1, <1>2, <1>3, <1>5, <2>1, <2>2, ShapePut
<1> QED BY <1>6, <1>7

LEMMA ShapePutResolvedAgain ==
  ASSUME Shape, NEW c \in Calls, PutResolvedAgain(c)
  PROVE  Shape'
<1> PICK d : d = Row(c)
  OBVIOUS
<1>1. At(c, "resolved") /\ PutRow(c, Id(c), d)
  BY DEF PutResolvedAgain
<1>2. Id(c) \in DOMAIN drafts /\ RowOK(Row(c))
  BY <1>1, RowIs DEF At
<1>3. RowOK(d)
  BY <1>2
<1>4. CallOK(call[c], DOMAIN drafts) /\ ~ At(c, "idle") /\ call[c].kind \in {"resolution"}
  BY <1>1, CallIs DEF At, CallOK, CallKind, Answering, Approving, Resolving
<1>5. HistoriesPut(Id(c)) /\ UNCHANGED <<settings, asks, begun, losses>> /\ open' \subseteq open
  BY DEF PutResolvedAgain, HistoriesPut, queue
<1>6. CASE TRUE
  <2>1. call' = [call EXCEPT ![c] = NoCall]
    BY <1>6 DEF PutResolvedAgain, Leave
  <2>2. CallOK(NoCall, DOMAIN drafts)
    BY NoCallOK
  <2> QED BY <1>1, <1>2, <1>3, <1>5, <2>1, <2>2, ShapePut
<1> QED BY <1>6

LEMMA ShapePutResolved ==
  ASSUME Shape, NEW c \in Calls, PutResolved(c)
  PROVE  Shape'
<1> PICK i : i = Id(c)
  OBVIOUS
<1> PICK d : d = Row(c)
  OBVIOUS
<1> PICK said : said = CHOOSE g \in call[c].given : TRUE
  OBVIOUS
<1> PICK g : g = [heard[i] EXCEPT ![said[1]] = {said[2]}]
  OBVIOUS
<1> PICK q : q = [Has(call[c], i, d) EXCEPT !.pc = "resolved"]
  OBVIOUS
<1>1. /\ At(c, "resolve") /\ PutRow(c, i, d) /\ heard' = [heard EXCEPT ![i] = g]
      /\ call' = [call EXCEPT ![c] = q] /\ current' = current
  BY DEF PutResolved
<1>2. i \in DOMAIN drafts /\ RowOK(d)
  BY <1>1, RowIs DEF At
<1>3. CallOK(call[c], DOMAIN drafts) /\ ~ At(c, "idle") /\ call[c].kind = "resolution"
  BY <1>1, CallIs DEF At, CallOK, CallKind, Resolving
<1>4. HistoriesPut(i)
  <2>1. i \in DOMAIN heard
    BY <1>2, SeqIs DEF Shape, StoreShape
  <2>2. IsFun(heard[i]) /\ DOMAIN heard[i] = Names /\ \A m \in Names : IsFiniteSet(heard[i][m])
    BY <2>1 DEF Shape, StoreShape
  <2>3. IsFun(g) /\ DOMAIN g = Names /\ \A m \in Names : g[m] = heard[i][m] \/ g[m] = {said[2]}
    BY <2>2 DEF IsFun
  <2>4. \A m \in Names : IsFiniteSet(g[m])
    BY <2>2, <2>3, FS_Singleton
  <2> QED BY <1>1, <2>3, <2>4 DEF HistoriesPut
<1>5. UNCHANGED <<settings, asks, begun, losses>> /\ open' \subseteq open
  BY DEF PutResolved, queue
<1>6. CallOK(q, DOMAIN drafts)
  <2>1. q = [Has(call[c], Id(c), d) EXCEPT !.pc = "resolved"]
    OBVIOUS
  <2> QED BY <1>2, <1>3, <2>1, HasMovedTo
<1> QED BY <1>1, <1>2, <1>4, <1>5, <1>6, ShapePut

LEMMA ShapeNotifyNext ==
  ASSUME Shape, NEW c \in Calls, NotifyNext(c)
  PROVE  Shape'
<1> PICK waiting : waiting = {j \in DOMAIN drafts \ open : Waits(drafts[j])}
  OBVIOUS
<1>1. UNCHANGED <<settings, drafts, heard, current, begun, losses, queue>>
  BY DEF NotifyNext, histories
<1>2. \/ call' = [call EXCEPT ![c] = NoCall]
      \/ waiting # {} /\ call' = [call EXCEPT ![c] = HoldingRow("answer", "send", First(waiting), drafts[First(waiting)])]
  BY DEF NotifyNext
<1>3. CASE call' = [call EXCEPT ![c] = NoCall]
  <2>1. CallOK(NoCall, DOMAIN drafts)
    BY NoCallOK
  <2> QED BY <1>1, <1>3, <2>1, ShapeReads
<1>4. CASE waiting # {} /\ call' = [call EXCEPT ![c] = HoldingRow("answer", "send", First(waiting), drafts[First(waiting)])]
  <2> PICK i : i = First(waiting)
    OBVIOUS
  <2>1. i \in DOMAIN drafts
    <3>1. DOMAIN drafts \subseteq Nat
      BY SeqIs DEF Shape, StoreShape
    <3>2. i \in waiting
      BY <1>4, <3>1, FirstIs
    <3> QED BY <3>2
  <2>2. RowOK(drafts[i])
    BY <2>1 DEF Shape, StoreShape
  <2> PICK D : D = DOMAIN drafts
    OBVIOUS
  <2> PICK d : d = drafts[i]
    OBVIOUS
  <2> PICK given : given = {}
    OBVIOUS
  <2>3. HoldingRow("answer", "send", i, d) = Single("answer", "send", i, d, d, given)
    BY HeldIsSingle
  <2>4. i \in D /\ RowOK(d)
    BY <2>1, <2>2
  <2>5. CallOK(Single("answer", "send", i, d, d, given), D)
    BY <2>4, SingleOK
  <2>6. call' = [call EXCEPT ![c] = Single("answer", "send", i, d, d, given)]
    BY <1>4, <2>3
  <2> QED BY <1>1, <2>5, <2>6, ShapeReads
<1> QED BY <1>2, <1>3, <1>4

LEMMA ShapeReadForApproval ==
  ASSUME Shape, NEW c \in Calls, ReadForApproval(c)
  PROVE  Shape'
<1> PICK d : d = drafts[Id(c)]
  OBVIOUS
<1> PICK q : q = [Has(call[c], Id(c), d) EXCEPT !.pc = "put_approved"]
  OBVIOUS
<1>1. /\ At(c, "approve") /\ UNCHANGED <<settings, drafts, heard, current, begun, losses, queue>>
      /\ call' = [call EXCEPT ![c] = q]
  BY DEF ReadForApproval, histories
<1>2. RowOK(d)
  BY <1>1, RowIs DEF At, Shape, StoreShape
<1>3. call[c].kind \in {"answer", "approval"} /\ ~ At(c, "idle")
  BY <1>1, CallIs DEF At, CallOK, CallKind, Approving
<1>4. CallOK(q, DOMAIN drafts)
  BY <1>2, <1>3, HasMovedTo
<1> QED BY <1>1, <1>4, ShapeReads

LEMMA ShapeUnread ==
  ASSUME Shape, UNCHANGED <<files, drafts, heard, current, call, queue>>, required' \subseteq Cores,
         begun' \in 0..MaxBegun, losses' \in 0..MaxLosses
  PROVE  Shape'
BY DEF Shape, StoreShape, CallShape, queue

LEMMA ShapeRecordDecision ==
  ASSUME Shape, RecordDecision
  PROVE  Shape'
<1>1. UNCHANGED <<files, drafts, heard, current, call, queue>> /\ required' = required
  BY DEF RecordDecision, histories
<1>2. begun' \in 0..MaxBegun /\ losses' \in 0..MaxLosses /\ required' \subseteq Cores
  BY <1>1, CatalogueAssumption DEF RecordDecision, Shape, StoreShape
<1> QED BY <1>1, <1>2, ShapeUnread

LEMMA ShapeRequireMore ==
  ASSUME Shape, RequireMore
  PROVE  Shape'
<1>1. UNCHANGED <<files, drafts, heard, current, call, queue>>
  BY DEF RequireMore, histories
<1>2. begun' \in 0..MaxBegun /\ losses' \in 0..MaxLosses /\ required' \subseteq Cores
  BY CatalogueAssumption DEF RequireMore, Shape, StoreShape
<1> QED BY <1>1, <1>2, ShapeUnread

LEMMA ShapeCrash ==
  ASSUME Shape, NEW c \in Calls, Crash(c)
  PROVE  Shape'
<1>1. StoreMore
  BY CatalogueAssumption DEF Crash, Shape, StoreShape, StoreMore, queue
<1>2. StoreShape' /\ DOMAIN drafts' = DOMAIN drafts
  BY <1>1, StoreUnread DEF Crash, Shape, histories
<1>3. CallOK(NoCall, DOMAIN drafts)
  BY NoCallOK
<1> QED BY <1>2, <1>3, ShapeStep DEF Crash, Leave

LEMMA ShapeInit ==
  ASSUME CatalogueInit
  PROVE  Shape
<1>1. IsSeq(<<>>) /\ <<>> \in Seq({}) /\ DOMAIN <<>> = {} /\ Len(<<>>) = 0
  BY EmptySeq DEF IsSeq
<1>2. StoreShape
  BY <1>1, CatalogueAssumption DEF CatalogueInit, StoreShape
<1>3. CallOK(NoCall, DOMAIN drafts)
  BY NoCallOK
<1>4. IsFun(call) /\ DOMAIN call = Calls /\ \A c \in Calls : call[c] = NoCall
  BY DEF CatalogueInit, IsFun
<1> QED BY <1>2, <1>3, <1>4 DEF Shape, CallShape

LEMMA ShapeNext ==
  ASSUME Shape, [CatalogueNext]_catalogueVars
  PROVE  Shape'
<1>1. CASE UNCHANGED catalogueVars
  BY <1>1 DEF catalogueVars, queue, histories, Shape, StoreShape, CallShape
<1>2. ASSUME NEW c \in Calls, BeginIngest(c) \/ BeginAnswer(c) \/ BeginApproval(c) \/ BeginResolution(c)
      PROVE  Shape'
  BY <1>2, ShapeBeginIngest, ShapeBeginAnswer, ShapeBeginApproval, ShapeBeginResolution
<1>3. ASSUME NEW c \in Calls, CatalogueStep(c)
      PROVE  Shape'
  BY <1>3, ShapeMerge, ShapeCreate, ShapePutRecommended, ShapePutValidated, ShapeHandleDraft,
     ShapeFillByAi, ShapeCheckQueue, ShapeSendQuestion, ShapeReadForField, ShapeProvideField,
     ShapePutProvided, ShapePutAnswered, ShapeNotifyNext, ShapeReadForApproval,
     ShapePutFactsApproved, ShapePutResolved, ShapePutResolvedAgain DEF CatalogueStep
<1>4. ASSUME NEW c \in Calls, Crash(c)
      PROVE  Shape'
  BY <1>4, ShapeCrash
<1> QED BY <1>1, <1>2, <1>3, <1>4, ShapeRecordDecision, ShapeRequireMore DEF CatalogueNext

\* What was said about the row i becomes g.
HeardPut(i, g) == heard' = [heard EXCEPT ![i] = g] \/ (heard' = heard /\ g = heard[i])
Carries(b, d, h, g) == Backed(b, h) \/ Backed(d, h) => Backed(d, g)

LEMMA EvidencePut ==
  ASSUME Shape, Evidence, NEW c, NEW i \in DOMAIN drafts, NEW d, RowOK(d), PutRow(c, i, d),
         NEW g, HeardPut(i, g), Carries(call[c].base[i], d, heard[i], g)
  PROVE  Evidence'
<1>1. /\ DOMAIN drafts' = DOMAIN drafts /\ drafts'[i] = d
      /\ \A k \in DOMAIN drafts \ {i} : drafts'[k] = drafts[k]
      /\ i \notin overwritten' => drafts[i] \in {call[c].base[i], d}
      /\ overwritten \subseteq overwritten'
  BY PutIs
<1>2. i \in DOMAIN heard
  BY SeqIs DEF Shape, StoreShape
<1>3. heard'[i] = g /\ \A k \in DOMAIN drafts \ {i} : heard'[k] = heard[k]
  <2>1. CASE heard' = [heard EXCEPT ![i] = g]
    BY <1>2, <2>1, SeqReplace, SeqIs DEF Shape, StoreShape
  <2>2. CASE heard' = heard /\ g = heard[i]
    BY <2>2
  <2> QED BY <2>1, <2>2 DEF HeardPut
<1>4. ASSUME NEW k \in DOMAIN drafts', k \notin overwritten'
      PROVE  Backed(drafts'[k], heard'[k])
  <2>1. k \in DOMAIN drafts /\ k \notin overwritten
    BY <1>1, <1>4
  <2>2. Backed(drafts[k], heard[k])
    BY <2>1 DEF Evidence
  <2>3. CASE k = i
    <3>1. drafts[i] = call[c].base[i] \/ drafts[i] = d
      BY <1>1, <1>4, <2>3
    <3>2. Backed(d, g)
      BY <2>2, <2>3, <3>1 DEF Carries
    <3> QED BY <1>1, <1>3, <2>3, <3>2
  <2>4. CASE k # i
    BY <1>1, <1>3, <2>1, <2>2, <2>4
  <2> QED BY <2>3, <2>4
<1> QED BY <1>4 DEF Evidence

LEMMA EvidenceUnread ==
  ASSUME Evidence, UNCHANGED <<drafts, heard, overwritten>>
  PROVE  Evidence'
BY DEF Evidence

\* A row is put with the facts it had, or validated.
LEMMA EvidenceSame ==
  ASSUME Shape, Evidence, NEW c, NEW i \in DOMAIN drafts, NEW d, RowOK(d), PutRow(c, i, d),
         heard' = heard, d = call[c].base[i] \/ (FactsAs(call[c].base[i], d, {}) /\ Shows(d))
  PROVE  Evidence'
<1> PICK b : b = call[c].base[i]
  OBVIOUS
<1> PICK h : h = heard[i]
  OBVIOUS
<1>1. Backed(b, h) \/ Backed(d, h) => Backed(d, h)
  <2>1. CASE Backed(b, h) /\ FactsAs(b, d, {}) /\ Shows(d)
    BY <2>1, BackedAs
  <2> QED BY <2>1
<1>2. Carries(b, d, h, h)
  BY <1>1 DEF Carries
<1>3. HeardPut(i, h)
  BY DEF HeardPut
<1> QED BY <1>2, <1>3, EvidencePut

LEMMA EvidenceMerged ==
  ASSUME Shape, Evidence, NEW c, NEW i \in DOMAIN drafts, NEW in, NewOK(in), NEW b, RowOK(b),
         b = call[c].base[i], NEW d, d = MergedDraft(b, in), PutRow(c, i, d),
         NEW g, g = [n \in Names |-> heard[i][n] \cup Said(in)[n]], HeardPut(i, g)
  PROVE  Evidence'
<1> PICK h : h = heard[i]
  OBVIOUS
<1>1. RowOK(d)
  BY MergedIs
<1>2. DOMAIN h = Names
  BY SeqIs DEF Shape, StoreShape
<1>3. Carries(b, d, h, g)
  <2> SUFFICES ASSUME Backed(b, h) \/ Backed(d, h)
               PROVE  Backed(d, g)
    BY DEF Carries
  <2>1. Backed(MergedDraft(b, in), [n \in Names |-> h[n] \cup Said(in)[n]])
    BY <1>2, BackedMerged, Zenon
  <2> QED BY <2>1
<1> QED BY <1>1, <1>3, EvidencePut

LEMMA EvidenceMerge ==
  ASSUME Shape, Evidence, NEW c \in Calls, Merge(c)
  PROVE  Evidence'
<1>1. PICK in, i, b, d : Merging(c, in, i, b, d)
  BY MergeIs
<1> PICK g : g = [n \in Names |-> heard[i][n] \cup Said(in)[n]]
  BY Zenon
<1>2. PutRow(c, i, d) /\ HeardPut(i, g)
  BY <1>1 DEF Merging, MergeWith, HeardPut
<1>3. /\ NewOK(in) /\ i \in DOMAIN drafts /\ RowOK(b) /\ b = call[c].base[i]
      /\ d = MergedDraft(b, in)
  BY <1>1 DEF Merging
<1> QED BY <1>2, <1>3, EvidenceMerged

LEMMA EvidenceCreate ==
  ASSUME Shape, Evidence, NEW c \in Calls, Create(c)
  PROVE  Evidence'
<1>1. At(c, "merge")
  BY DEF Create
<1> PICK identity \in Identities(Head(call[c].incoming), call[c].mine) :
       LET in == [Head(call[c].incoming) EXCEPT !.status = identity.status, !.key = identity.key]
       IN /\ drafts' = Append(drafts, in) /\ heard' = Append(heard, Said(in))
  BY DEF Create
<1> PICK in : in = [Head(call[c].incoming) EXCEPT !.status = identity.status, !.key = identity.key]
  OBVIOUS
<1>2. drafts' = Append(drafts, in) /\ heard' = Append(heard, Said(in)) /\ overwritten' = overwritten
  BY DEF Create
<1>3. NewOK(in)
  BY <1>1, IncomingIs
<1>4. /\ IsSeq(drafts) /\ Len(drafts) \in Nat /\ DOMAIN drafts = 1..Len(drafts)
      /\ IsSeq(heard) /\ Len(heard) = Len(drafts)
  BY SeqIs DEF Shape, StoreShape
<1>5. /\ IsSeq(drafts') /\ Len(drafts') = Len(drafts) + 1 /\ drafts'[Len(drafts) + 1] = in
      /\ \A k \in 1..Len(drafts) : drafts'[k] = drafts[k]
  BY <1>2, <1>4, SeqAppend
<1>6. heard'[Len(drafts) + 1] = Said(in) /\ \A k \in 1..Len(drafts) : heard'[k] = heard[k]
  BY <1>2, <1>4, SeqAppend
<1>7. DOMAIN drafts' = 1..(Len(drafts) + 1)
  BY <1>5, SeqIs
<1>8. ASSUME NEW k \in DOMAIN drafts', k \notin overwritten'
      PROVE  Backed(drafts'[k], heard'[k])
  <2>1. CASE k = Len(drafts) + 1
    BY <1>3, <1>5, <1>6, <2>1, BackedNew
  <2>2. CASE k # Len(drafts) + 1
    <3>1. k \in 1..Len(drafts)
      BY <1>4, <1>7, <2>2
    <3>2. Backed(drafts[k], heard[k])
      BY <1>2, <1>4, <1>8, <3>1 DEF Evidence
    <3> QED BY <1>5, <1>6, <3>1, <3>2
  <2> QED BY <2>1, <2>2
<1> QED BY <1>8 DEF Evidence

\* Facts are told about a row: by a source of its own, or by the owner.
Tells(b, d, n, S, h) ==
  /\ FactsAs(b, d, {n}) /\ Shows(d) /\ n \in DOMAIN d.facts
  /\ d.facts[n].by # "missing" /\ Normal(n, d.facts[n].value) \in S
  /\ Backed(b, h) \/ Backed(d, h) => (d.facts[n].disputed <=> Various(S))
WithSaid(h, n, S) == [h EXCEPT ![n] = S]

LEMMA EvidenceTold ==
  ASSUME Shape, Evidence, NEW c, NEW i \in DOMAIN drafts, NEW d, RowOK(d), PutRow(c, i, d),
         NEW n \in Names, NEW S, HeardPut(i, WithSaid(heard[i], n, S)),
         Tells(call[c].base[i], d, n, S, heard[i])
  PROVE  Evidence'
<1> PICK b : b = call[c].base[i]
  OBVIOUS
<1> PICK h : h = heard[i]
  OBVIOUS
<1> PICK g : g = WithSaid(h, n, S)
  OBVIOUS
<1>1. DOMAIN h = Names
  BY SeqIs DEF Shape, StoreShape
<1>2. Carries(b, d, h, g)
  <2> SUFFICES ASSUME Backed(b, h) \/ Backed(d, h)
               PROVE  Backed(d, g)
    BY DEF Carries
  <2>1. /\ d.facts[n].disputed <=> Various(S)
        /\ FactsAs(b, d, {n}) /\ Shows(d) /\ n \in DOMAIN d.facts
        /\ d.facts[n].by # "missing" /\ Normal(n, d.facts[n].value) \in S
    BY DEF Tells
  <2>2. Backed(d, [h EXCEPT ![n] = S])
    BY <1>1, <2>1, BackedTold
  <2> QED BY <2>2 DEF WithSaid
<1> QED BY <1>2, EvidencePut

LEMMA OneIsNotVarious ==
  ASSUME NEW x
  PROVE  ~ Various({x})
BY DEF Various

LEMMA EvidenceFillByAi ==
  ASSUME Shape, Evidence, NEW c \in Calls, FillByAi(c)
  PROVE  Evidence'
<1> PICK i : i = Id(c)
  OBVIOUS
<1> PICK b : b = Row(c)
  OBVIOUS
<1> PICK n \in b.missing \cap AiFillable :
       LET d == Validate(Supplied(b, n, AiText, "ai")) IN
       /\ PutRow(c, i, d)
       /\ heard' = [heard EXCEPT ![i][n] = {AiText}]
  BY DEF FillByAi
<1> PICK d : d = Validate(Supplied(b, n, AiText, "ai"))
  OBVIOUS
<1>1. PutRow(c, i, d) /\ HeardPut(i, WithSaid(heard[i], n, {AiText}))
  BY DEF HeardPut, WithSaid
<1>2. At(c, "handle") /\ AiText # None /\ n = "text" /\ n \in b.missing
  BY DEF FillByAi, AiFillable
<1>3. i \in DOMAIN drafts /\ RowOK(b) /\ b = call[c].base[i]
  BY <1>2, RowIs DEF At
<1>4. Told(b, d, n, AiText, "ai")
  <2>1. n \in Cores /\ n # "price"
    BY <1>2 DEF Cores
  <2> QED BY <1>2, <1>3, <2>1, ToldIs
<1>5. Normal(n, d.facts[n].value) \in {AiText}
  BY <1>2, <1>4 DEF Told, Normal
<1>6. ~ d.facts[n].disputed
  <2>1. Checked(b)
    BY <1>2, CallIs, Zenon DEF CallOK, CallPlaced, CallTodo, CallKind, Ingesting, At, Row, Id
  <2>2. n \in DOMAIN b.facts /\ b.facts[n].by = "missing"
    BY <1>2, <2>1 DEF Checked
  <2>3. ~ b.facts[n].disputed
    BY <1>3, <2>2, ValueIs
  <2> QED BY <1>4, <2>2, <2>3, Zenon DEF Told, Disputed
<1>7. n \in Names
  BY <1>2 DEF Names
<1>8. /\ RowOK(d) /\ Shows(d) /\ FactsAs(call[c].base[i], d, {n}) /\ n \in DOMAIN d.facts
      /\ d.facts[n].by # "missing"
  BY <1>3, <1>4 DEF Told
<1>9. Tells(call[c].base[i], d, n, {AiText}, heard[i])
  BY <1>5, <1>6, <1>8, OneIsNotVarious DEF Tells
<1> QED BY <1>1, <1>3, <1>7, <1>8, <1>9, EvidenceTold

LEMMA EvidenceProvideField ==
  ASSUME Shape, Evidence, NEW c \in Calls, ProvideField(c)
  PROVE  Evidence'
<1> PICK i : i = Id(c)
  OBVIOUS
<1> PICK b : b = Row(c)
  OBVIOUS
<1> PICK n \in call[c].given : \E v \in Answers[n] :
       LET d == Validate(Supplied(b, n, v, "human")) IN
       /\ PutRow(c, i, d)
       /\ heard' = [heard EXCEPT ![i][n] = (IF n \in Disputed(b) THEN @ ELSE {}) \cup {Normal(n, v)}]
  BY DEF ProvideField
<1> PICK v \in Answers[n] :
       LET d == Validate(Supplied(b, n, v, "human")) IN
       /\ PutRow(c, i, d)
       /\ heard' = [heard EXCEPT ![i][n] = (IF n \in Disputed(b) THEN @ ELSE {}) \cup {Normal(n, v)}]
  OBVIOUS
<1> PICK d : d = Validate(Supplied(b, n, v, "human"))
  OBVIOUS
<1> PICK S : S = (IF n \in Disputed(b) THEN heard[i][n] ELSE {}) \cup {Normal(n, v)}
  OBVIOUS
<1>1. PutRow(c, i, d) /\ HeardPut(i, WithSaid(heard[i], n, S))
  BY DEF HeardPut, WithSaid
<1>2. At(c, "provide")
  BY DEF ProvideField
<1>3. i \in DOMAIN drafts /\ RowOK(b) /\ b = call[c].base[i]
  BY <1>2, RowIs DEF At
<1>4. n \in Cores
  BY <1>2, CallIs DEF At, CallOK, CallPlaced
<1>5. Told(b, d, n, v, "human")
  <2>1. v # None /\ (n = "price" => v \in PriceRead)
    BY <1>4, AnswerIs
  <2> QED BY <1>3, <1>4, <2>1, ToldIs
<1>6. n \in Names
  BY <1>4, Zenon DEF Cores, Names
<1>7. /\ RowOK(d) /\ Shows(d) /\ FactsAs(call[c].base[i], d, {n}) /\ n \in DOMAIN d.facts
      /\ d.facts[n].by # "missing" /\ Normal(n, d.facts[n].value) \in S
  BY <1>3, <1>5 DEF Told
<1>8. Backed(call[c].base[i], heard[i]) \/ Backed(d, heard[i]) => (d.facts[n].disputed <=> Various(S))
  <2> SUFFICES ASSUME Backed(b, heard[i]) \/ Backed(d, heard[i])
               PROVE  d.facts[n].disputed <=> Various(S)
    BY <1>3
  <2>1. d.facts[n].disputed <=> n \in Disputed(b)
    BY <1>5 DEF Told
  <2>2. CASE n \notin Disputed(b)
    <3>1. S = {Normal(n, v)}
      BY <2>2
    <3> QED BY <2>1, <2>2, <3>1, OneIsNotVarious
  <2>3. CASE n \in Disputed(b)
    <3>1. n \in DOMAIN b.facts /\ b.facts[n].disputed /\ d.facts[n].disputed
      BY <2>1, <2>3 DEF Disputed
    <3>2. Various(heard[i][n])
      BY <1>7, <3>1 DEF Backed
    <3>3. Various(S)
      BY <2>3, <3>2 DEF Various
    <3> QED BY <3>1, <3>3
  <2> QED BY <2>2, <2>3
<1>9. Tells(call[c].base[i], d, n, S, heard[i])
  BY <1>7, <1>8 DEF Tells
<1> QED BY <1>1, <1>3, <1>6, <1>7, <1>9, EvidenceTold

LEMMA EvidencePutResolved ==
  ASSUME Shape, Evidence, NEW c \in Calls, PutResolved(c)
  PROVE  Evidence'
<1> PICK i : i = Id(c)
  OBVIOUS
<1> PICK d : d = Row(c)
  OBVIOUS
<1> PICK b : b = call[c].base[i]
  OBVIOUS
<1> PICK said : said = CHOOSE g \in call[c].given : TRUE
  OBVIOUS
<1>1. /\ At(c, "resolve") /\ PutRow(c, i, d)
      /\ heard' = [heard EXCEPT ![i] = [heard[i] EXCEPT ![said[1]] = {said[2]}]]
  BY DEF PutResolved
<1>2. i \in DOMAIN drafts /\ RowOK(d)
  BY <1>1, RowIs DEF At
<1>3. CallOK(call[c], DOMAIN drafts) /\ call[c].pc = "resolve" /\ call[c].kind = "resolution"
  BY <1>1, CallIs DEF At, CallOK, CallKind, Resolving
<1>4. call[c].todo[1] = i
  <2>1. Len(call[c].todo) = 1 /\ call[c].at \in 1..Len(call[c].todo)
    BY <1>3 DEF CallOK, CallTodo
  <2>2. call[c].at = 1
    BY <2>1
  <2> QED BY <2>2 DEF Id
<1> PICK n \in Cores : \E v \in Answers[n] :
      /\ call[c].given = {<<n, Normal(n, v)>>} /\ Settles(b, d, n, v)
  BY <1>3, <1>4 DEF CallOK, CallPlaced, Row
<1> PICK v \in Answers[n] : call[c].given = {<<n, Normal(n, v)>>} /\ Settles(b, d, n, v)
  OBVIOUS
<1>5. said = <<n, Normal(n, v)>>
  OBVIOUS
<1> PICK S : S = {Normal(n, v)}
  OBVIOUS
<1>6. HeardPut(i, WithSaid(heard[i], n, S))
  <2>1. said[1] = n /\ {said[2]} = S
    BY <1>5
  <2>2. heard' = [heard EXCEPT ![i] = WithSaid(heard[i], said[1], {said[2]})]
    BY <1>1 DEF WithSaid
  <2> QED BY <2>1, <2>2 DEF HeardPut
<1>7. n \in Names
  BY DEF Cores, Names
<1>8. /\ Shows(d) /\ FactsAs(call[c].base[i], d, {n}) /\ n \in DOMAIN d.facts
      /\ d.facts[n].by # "missing" /\ Normal(n, d.facts[n].value) \in S /\ ~ d.facts[n].disputed
  BY DEF Settles
<1>9. Tells(call[c].base[i], d, n, S, heard[i])
  BY <1>8, OneIsNotVarious DEF Tells
<1> QED BY <1>1, <1>2, <1>6, <1>7, <1>9, EvidenceTold

LEMMA EvidencePutRecommended ==
  ASSUME Shape, Evidence, NEW c \in Calls, PutRecommended(c)
  PROVE  Evidence'
<1> PICK i : i = Id(c)
  OBVIOUS
<1> PICK b : b = Row(c)
  OBVIOUS
<1> PICK d : d = b
  OBVIOUS
<1>1. At(c, "put") /\ PutRow(c, i, d) /\ heard' = heard
  BY DEF PutRecommended
<1>2. i \in DOMAIN drafts /\ RowOK(b) /\ b = call[c].base[i]
  BY <1>1, RowIs DEF At
<1>3. RowOK(d) /\ d = call[c].base[i]
  BY <1>2
<1> QED BY <1>1, <1>2, <1>3, EvidenceSame

LEMMA EvidencePutValidated ==
  ASSUME Shape, Evidence, NEW c \in Calls, PutValidated(c)
  PROVE  Evidence'
<1> PICK i : i = Id(c)
  OBVIOUS
<1> PICK b : b = Row(c)
  OBVIOUS
<1> PICK d : d = Validate(b)
  OBVIOUS
<1>1. At(c, "validate") /\ PutRow(c, i, d) /\ heard' = heard
  BY DEF PutValidated
<1>2. i \in DOMAIN drafts /\ RowOK(b) /\ b = call[c].base[i]
  BY <1>1, RowIs DEF At
<1>3. RowOK(d) /\ FactsAs(b, d, {}) /\ Shows(d)
  BY <1>2, ValidateIs
<1> QED BY <1>1, <1>2, <1>3, EvidenceSame

LEMMA EvidencePutProvided ==
  ASSUME Shape, Evidence, NEW c \in Calls, PutProvided(c)
  PROVE  Evidence'
<1> PICK i : i = Id(c)
  OBVIOUS
<1> PICK b : b = Row(c)
  OBVIOUS
<1> PICK d : d = b
  OBVIOUS
<1>1. At(c, "provided") /\ PutRow(c, i, d) /\ heard' = heard
  BY DEF PutProvided
<1>2. i \in DOMAIN drafts /\ RowOK(b) /\ b = call[c].base[i]
  BY <1>1, RowIs DEF At
<1>3. RowOK(d) /\ d = call[c].base[i]
  BY <1>2
<1> QED BY <1>1, <1>2, <1>3, EvidenceSame

LEMMA EvidencePutAnswered ==
  ASSUME Shape, Evidence, NEW c \in Calls, PutAnswered(c)
  PROVE  Evidence'
<1> PICK i : i = Id(c)
  OBVIOUS
<1> PICK b : b = Row(c)
  OBVIOUS
<1> PICK d : d = Validate(b)
  OBVIOUS
<1>1. At(c, "put_answered") /\ PutRow(c, i, d) /\ heard' = heard
  BY DEF PutAnswered
<1>2. i \in DOMAIN drafts /\ RowOK(b) /\ b = call[c].base[i]
  BY <1>1, RowIs DEF At
<1>3. RowOK(d) /\ FactsAs(b, d, {}) /\ Shows(d)
  BY <1>2, ValidateIs
<1> QED BY <1>1, <1>2, <1>3, EvidenceSame

LEMMA EvidencePutFactsApproved ==
  ASSUME Shape, Evidence, NEW c \in Calls, PutFactsApproved(c)
  PROVE  Evidence'
<1> PICK i : i = Id(c)
  OBVIOUS
<1> PICK b : b = Row(c)
  OBVIOUS
<1> PICK d : d = Validate(FactsApproved(b))
  OBVIOUS
<1>1. At(c, "put_approved") /\ PutRow(c, i, d) /\ heard' = heard
  BY DEF PutFactsApproved
<1>2. i \in DOMAIN drafts /\ RowOK(b) /\ b = call[c].base[i]
  BY <1>1, RowIs DEF At
<1>3. RowOK(d) /\ FactsAs(b, d, {}) /\ Shows(d)
  <2> PICK a : a = FactsApproved(b)
    OBVIOUS
  <2>1. RowOK(a) /\ FactsAs(b, a, {})
    BY <1>2, FactsApprovedIs
  <2>2. RowOK(d) /\ FactsAs(a, d, {}) /\ Shows(d)
    BY <2>1, ValidateIs
  <2> QED BY <2>1, <2>2, FactsAsTwice
<1> QED BY <1>1, <1>2, <1>3, EvidenceSame

LEMMA EvidencePutResolvedAgain ==
  ASSUME Shape, Evidence, NEW c \in Calls, PutResolvedAgain(c)
  PROVE  Evidence'
<1> PICK i : i = Id(c)
  OBVIOUS
<1> PICK b : b = Row(c)
  OBVIOUS
<1> PICK d : d = b
  OBVIOUS
<1>1. At(c, "resolved") /\ PutRow(c, i, d) /\ heard' = heard
  BY DEF PutResolvedAgain
<1>2. i \in DOMAIN drafts /\ RowOK(b) /\ b = call[c].base[i]
  BY <1>1, RowIs DEF At
<1>3. RowOK(d) /\ d = call[c].base[i]
  BY <1>2
<1> QED BY <1>1, <1>2, <1>3, EvidenceSame

LEMMA EvidenceNext ==
  ASSUME Shape, Evidence, [CatalogueNext]_catalogueVars
  PROVE  Evidence'
<1>1. CASE UNCHANGED catalogueVars
  BY <1>1, EvidenceUnread DEF catalogueVars, histories
<1>2. ASSUME NEW c \in Calls, BeginIngest(c) \/ BeginAnswer(c) \/ BeginApproval(c) \/ BeginResolution(c)
      PROVE  Evidence'
  BY <1>2, EvidenceUnread DEF BeginIngest, BeginAnswer, BeginApproval, BeginResolution, Begins, histories
<1>3. ASSUME NEW c \in Calls,
             \/ HandleDraft(c) \/ CheckQueue(c) \/ SendQuestion(c) \/ ReadForField(c) \/ NotifyNext(c)
             \/ ReadForApproval(c) \/ Crash(c)
      PROVE  Evidence'
  BY <1>3, EvidenceUnread
     DEF HandleDraft, CheckQueue, SendQuestion, ReadForField, NotifyNext, ReadForApproval, Crash, histories
<1>4. ASSUME NEW c \in Calls, CatalogueStep(c)
      PROVE  Evidence'
  BY <1>3, <1>4, EvidenceMerge, EvidenceCreate, EvidencePutRecommended, EvidencePutValidated,
     EvidenceFillByAi, EvidenceProvideField, EvidencePutProvided, EvidencePutAnswered,
     EvidencePutFactsApproved, EvidencePutResolved, EvidencePutResolvedAgain DEF CatalogueStep
<1>5. ASSUME RecordDecision \/ RequireMore
      PROVE  Evidence'
  BY <1>5, EvidenceUnread DEF RecordDecision, RequireMore, histories
<1> QED BY <1>1, <1>2, <1>3, <1>4, <1>5 DEF CatalogueNext

LEMMA VariousIsMany ==
  ASSUME NEW S, IsFiniteSet(S)
  PROVE  Various(S) <=> Cardinality(S) > 1
<1>1. Cardinality(S) \in Nat
  BY FS_CardinalityType
<1>2. CASE S = {}
  BY <1>2, FS_EmptySet DEF Various
<1>3. CASE S # {}
  <2> PICK x \in S : TRUE
    BY <1>3
  <2>1. IsFiniteSet({x}) /\ Cardinality({x}) = 1
    BY FS_Singleton
  <2>2. {x} \subseteq S
    OBVIOUS
  <2>3. Cardinality({x}) <= Cardinality(S) /\ (Cardinality({x}) = Cardinality(S) => {x} = S)
    BY <2>1, <2>2, FS_Subset
  <2>4. Various(S) <=> {x} # S
    BY DEF Various
  <2> QED BY <1>1, <2>1, <2>3, <2>4
<1> QED BY <1>2, <1>3

LEMMA EvidenceShown ==
  ASSUME Shape, Evidence
  PROVE  FactsReflectEvidence
<1>1. RowsOK
  <2>1. ASSUME NEW i \in DOMAIN drafts
        PROVE  /\ DOMAIN drafts[i].facts \subseteq Names /\ drafts[i].missing \subseteq Cores
               /\ drafts[i].status \in {"UNRESOLVED", "AMBIGUOUS", "RESOLVED", "CONFLICT"}
               /\ drafts[i].state \in {"INCOMPLETE", "CONFLICTED", "NEEDS_APPROVAL", "READY"}
    <3> PICK d : d = drafts[i]
      OBVIOUS
    <3>1. RowOK(d)
      BY DEF Shape, StoreShape
    <3>2. d.status \in {"UNRESOLVED", "AMBIGUOUS", "RESOLVED", "CONFLICT"}
      BY <3>1 DEF RowOK
    <3> QED BY <3>1, <3>2, RowFields
  <2> QED BY <2>1 DEF Shape, StoreShape, RowsOK
<1>2. ASSUME NEW i \in DOMAIN drafts \ overwritten, NEW n \in DOMAIN drafts[i].facts
      PROVE  LET f == drafts[i].facts[n] IN
             /\ f.by = "missing" <=> heard[i][n] = {}
             /\ f.by # "missing" => Normal(n, f.value) \in heard[i][n]
             /\ f.disputed <=> Cardinality(heard[i][n]) > 1
             /\ n \in Protected => f.by # "ai"
  <2>1. Backed(drafts[i], heard[i])
    BY DEF Evidence
  <2>2. RowOK(drafts[i])
    BY DEF Shape, StoreShape
  <2>3. n \in Names /\ FactOK(n, drafts[i].facts[n])
    BY <2>2, RowFields
  <2>4. IsFiniteSet(heard[i][n])
    BY <2>3, SeqIs DEF Shape, StoreShape
  <2>5. Various(heard[i][n]) <=> Cardinality(heard[i][n]) > 1
    BY <2>4, VariousIsMany
  <2>6. n \in Protected => drafts[i].facts[n].by # "ai"
    BY <2>3 DEF FactOK
  <2> QED BY <2>1, <2>5, <2>6 DEF Backed
<1>3. ASSUME NEW i \in DOMAIN drafts \ overwritten, Disputed(drafts[i]) # {}
      PROVE  drafts[i].state = "CONFLICTED"
  BY <1>3 DEF Evidence, Backed, Shows
<1> QED BY <1>1, <1>2, <1>3 DEF FactsReflectEvidence

\* The last revision of the row i becomes l.
CurrentPut(i, l) == current' = [current EXCEPT ![i] = l] \/ (current' = current /\ l = current[i])

RevisedOr(i, d, l) == i \in overwritten' \cup crossed' \/ Revised(d.variants, l)

WasPut(i, d) ==
  /\ DOMAIN drafts' = DOMAIN drafts /\ drafts'[i] = d
  /\ \A k \in DOMAIN drafts \ {i} : drafts'[k] = drafts[k]

LEMMA PutDone ==
  ASSUME Shape, NEW c, NEW i \in DOMAIN drafts, NEW d, RowOK(d), PutRow(c, i, d)
  PROVE  WasPut(i, d)
<1>1. drafts' = [drafts EXCEPT ![i] = d]
  BY DEF PutRow
<1>2. IsSeq(drafts)
  BY DEF Shape, StoreShape
<1> QED BY <1>1, <1>2, SeqReplace DEF WasPut

LEMMA LineupsPut ==
  ASSUME Shape, Lineups, NEW c, NEW i \in DOMAIN drafts, NEW d, RowOK(d), PutRow(c, i, d),
         NEW l, CurrentPut(i, l),
         crossed \subseteq crossed' \cup {i},
         RevisedOr(i, d, l)
  PROVE  Lineups'
<1>1. /\ DOMAIN drafts' = DOMAIN drafts /\ drafts'[i] = d
      /\ \A k \in DOMAIN drafts \ {i} : drafts'[k] = drafts[k]
      /\ overwritten \subseteq overwritten'
  <2>1. /\ DOMAIN drafts' = DOMAIN drafts /\ drafts'[i] = d
        /\ \A k \in DOMAIN drafts \ {i} : drafts'[k] = drafts[k]
    BY PutDone DEF WasPut
  <2>2. overwritten \subseteq overwritten'
    BY DEF PutRow
  <2> QED BY <2>1, <2>2
<1>2. i \in DOMAIN current /\ IsSeq(current)
  BY SeqIs DEF Shape, StoreShape
<1>3. current'[i] = l /\ \A k \in DOMAIN drafts \ {i} : current'[k] = current[k]
  <2>1. CASE current' = [current EXCEPT ![i] = l]
    BY <1>2, <2>1, SeqReplace, SeqIs DEF Shape, StoreShape
  <2>2. CASE current' = current /\ l = current[i]
    BY <2>2
  <2> QED BY <2>1, <2>2 DEF CurrentPut
<1>4. ASSUME NEW k \in DOMAIN drafts', k \notin overwritten', k \notin crossed'
      PROVE  Revised(drafts'[k].variants, current'[k])
  <2>1. CASE k = i
    BY <1>1, <1>3, <1>4, <2>1 DEF RevisedOr
  <2>2. CASE k # i
    <3>1. k \in DOMAIN drafts /\ k \notin overwritten /\ k \notin crossed
      BY <1>1, <1>4, <2>2
    <3>2. Revised(drafts[k].variants, current[k])
      BY <3>1 DEF Lineups
    <3> QED BY <1>1, <1>3, <2>2, <3>1, <3>2
  <2> QED BY <2>1, <2>2
<1> QED BY <1>4 DEF Lineups

LEMMA LineupsSame ==
  ASSUME Shape, Lineups, NEW c, NEW i \in DOMAIN drafts, NEW d, RowOK(d), PutRow(c, i, d),
         current' = current, crossed' = crossed, d.variants = call[c].base[i].variants
  PROVE  Lineups'
<1> PICK l : l = current[i]
  OBVIOUS
<1>1. RevisedOr(i, d, l)
  <2>1. CASE i \notin overwritten' /\ i \notin crossed'
    <3>1. i \notin overwritten /\ i \notin crossed /\ drafts[i] \in {call[c].base[i], d}
      BY <2>1, PutIs
    <3>2. Revised(drafts[i].variants, l)
      BY <3>1 DEF Lineups
    <3>3. drafts[i].variants = d.variants
      BY <3>1
    <3> QED BY <3>2, <3>3 DEF RevisedOr
  <2> QED BY <2>1 DEF RevisedOr
<1>2. crossed \subseteq crossed' \cup {i}
  OBVIOUS
<1>3. CurrentPut(i, l)
  BY DEF CurrentPut
<1> QED BY <1>1, <1>2, <1>3, LineupsPut

LEMMA LineupsUnread ==
  ASSUME Lineups, UNCHANGED <<drafts, current, overwritten, crossed>>
  PROVE  Lineups'
BY DEF Lineups

LEMMA NewIsRevised ==
  ASSUME NEW in, NewOK(in)
  PROVE  Revised(in.variants, Named(in.variants))
<1> PICK variants : variants = in.variants
  OBVIOUS
<1>1. \A k \in DOMAIN variants : variants[k].status = "ACTIVE"
  BY DEF NewOK
<1>2. Active(variants) = DOMAIN variants
  BY <1>1 DEF Active
<1>3. ASSUME NEW g \in Named(variants)
      PROVE  \E j \in Active(variants) : Fits(variants[j], g)
  <2>1. PICK k \in DOMAIN variants : g = [sku |-> variants[k].sku, option |-> variants[k].option]
    BY DEF Named
  <2>2. Fits(variants[k], g)
    BY <2>1 DEF Fits
  <2> QED BY <1>2, <2>2
<1>4. ASSUME NEW j \in Active(variants)
      PROVE  \E g \in Named(variants) : Fits(variants[j], g)
  <2> PICK g : g = [sku |-> variants[j].sku, option |-> variants[j].option]
    OBVIOUS
  <2>1. g \in Named(variants)
    BY <1>2 DEF Named
  <2>2. Fits(variants[j], g)
    BY DEF Fits
  <2> QED BY <2>1, <2>2
<1> QED BY <1>3, <1>4 DEF Revised

LEMMA LineupsMerged ==
  ASSUME Shape, Lineups, NEW c, NEW i \in DOMAIN drafts, NEW in, NewOK(in), NEW b, RowOK(b),
         b = call[c].base[i], NEW d, d = MergedDraft(b, in), PutRow(c, i, d),
         current' = IF in.variants = <<>> THEN current ELSE [current EXCEPT ![i] = Named(in.variants)],
         crossed' = IF in.variants = <<>> THEN crossed
                    ELSE IF Crossed(b.variants, in.variants) THEN crossed \cup {i} ELSE crossed \ {i}
  PROVE  Lineups'
<1>1. /\ RowOK(d)
      /\ d.variants = IF in.variants = <<>> THEN b.variants ELSE Reconciled(b.variants, in.variants)
  BY MergedIs
<1>2. CASE in.variants = <<>>
  BY <1>1, <1>2, LineupsSame
<1>3. CASE in.variants # <<>>
  <2> PICK l : l = Named(in.variants)
    OBVIOUS
  <2>1. RevisedOr(i, d, l)
    <3>1. CASE Crossed(b.variants, in.variants)
      BY <1>3, <3>1 DEF RevisedOr
    <3>2. CASE ~ Crossed(b.variants, in.variants)
      <4>1. VariantsOK(b.variants) /\ VariantsOK(in.variants)
        BY RowFields DEF NewOK
      <4>2. Revised(Reconciled(b.variants, in.variants), Named(in.variants))
        BY <3>2, <4>1, ReconciledRevised
      <4> QED BY <1>1, <1>3, <4>2 DEF RevisedOr
    <3> QED BY <3>1, <3>2
  <2>2. crossed \subseteq crossed' \cup {i} /\ CurrentPut(i, l)
    BY <1>3, Zenon DEF CurrentPut
  <2> QED BY <1>1, <2>1, <2>2, LineupsPut
<1> QED BY <1>2, <1>3

LEMMA LineupsMerge ==
  ASSUME Shape, Lineups, NEW c \in Calls, Merge(c)
  PROVE  Lineups'
<1>1. PICK in, i, b, d : Merging(c, in, i, b, d)
  BY MergeIs
<1>2. /\ NewOK(in) /\ i \in DOMAIN drafts /\ RowOK(b) /\ b = call[c].base[i]
      /\ d = MergedDraft(b, in)
  BY <1>1 DEF Merging
<1>3. /\ PutRow(c, i, d)
      /\ current' = IF in.variants = <<>> THEN current ELSE [current EXCEPT ![i] = Named(in.variants)]
      /\ crossed' = IF in.variants = <<>> THEN crossed
                    ELSE IF Crossed(b.variants, in.variants) THEN crossed \cup {i} ELSE crossed \ {i}
  BY <1>1 DEF Merging, MergeWith
<1> QED BY <1>2, <1>3, LineupsMerged

LEMMA LineupsCreate ==
  ASSUME Shape, Lineups, NEW c \in Calls, Create(c)
  PROVE  Lineups'
<1>1. At(c, "merge")
  BY DEF Create
<1> PICK identity \in Identities(Head(call[c].incoming), call[c].mine) :
       LET in == [Head(call[c].incoming) EXCEPT !.status = identity.status, !.key = identity.key]
       IN /\ drafts' = Append(drafts, in) /\ current' = Append(current, Named(in.variants))
  BY DEF Create
<1> PICK in : in = [Head(call[c].incoming) EXCEPT !.status = identity.status, !.key = identity.key]
  OBVIOUS
<1>2. /\ drafts' = Append(drafts, in) /\ current' = Append(current, Named(in.variants))
      /\ overwritten' = overwritten /\ crossed' = crossed
  BY DEF Create
<1>3. NewOK(in)
  BY <1>1, IncomingIs
<1>4. /\ IsSeq(drafts) /\ Len(drafts) \in Nat /\ DOMAIN drafts = 1..Len(drafts)
      /\ IsSeq(current) /\ Len(current) = Len(drafts)
  BY SeqIs DEF Shape, StoreShape
<1>5. /\ IsSeq(drafts') /\ Len(drafts') = Len(drafts) + 1 /\ drafts'[Len(drafts) + 1] = in
      /\ \A k \in 1..Len(drafts) : drafts'[k] = drafts[k]
  BY <1>2, <1>4, SeqAppend
<1>6. /\ current'[Len(drafts) + 1] = Named(in.variants)
      /\ \A k \in 1..Len(drafts) : current'[k] = current[k]
  BY <1>2, <1>4, SeqAppend
<1>7. DOMAIN drafts' = 1..(Len(drafts) + 1)
  BY <1>5, SeqIs
<1>8. ASSUME NEW k \in DOMAIN drafts', k \notin overwritten', k \notin crossed'
      PROVE  Revised(drafts'[k].variants, current'[k])
  <2>1. CASE k = Len(drafts) + 1
    BY <1>3, <1>5, <1>6, <2>1, NewIsRevised
  <2>2. CASE k # Len(drafts) + 1
    <3>1. k \in 1..Len(drafts)
      BY <1>4, <1>7, <2>2
    <3>2. Revised(drafts[k].variants, current[k])
      BY <1>2, <1>4, <1>8, <3>1 DEF Lineups
    <3> QED BY <1>5, <1>6, <3>1, <3>2
  <2> QED BY <2>1, <2>2
<1> QED BY <1>8 DEF Lineups

LEMMA LineupsPutRecommended ==
  ASSUME Shape, Lineups, NEW c \in Calls, PutRecommended(c)
  PROVE  Lineups'
<1> PICK i : i = Id(c)
  OBVIOUS
<1> PICK b : b = Row(c)
  OBVIOUS
<1> PICK d : d = b
  OBVIOUS
<1>1. At(c, "put") /\ PutRow(c, i, d) /\ current' = current /\ crossed' = crossed
  BY DEF PutRecommended
<1>2. i \in DOMAIN drafts /\ RowOK(b) /\ b.variants = call[c].base[i].variants
  BY <1>1, RowIs DEF At
<1>3. RowOK(d) /\ d.variants = b.variants
  BY <1>2
<1> QED BY <1>1, <1>2, <1>3, LineupsSame

LEMMA LineupsPutValidated ==
  ASSUME Shape, Lineups, NEW c \in Calls, PutValidated(c)
  PROVE  Lineups'
<1> PICK i : i = Id(c)
  OBVIOUS
<1> PICK b : b = Row(c)
  OBVIOUS
<1> PICK d : d = Validate(b)
  OBVIOUS
<1>1. At(c, "validate") /\ PutRow(c, i, d) /\ current' = current /\ crossed' = crossed
  BY DEF PutValidated
<1>2. i \in DOMAIN drafts /\ RowOK(b) /\ b.variants = call[c].base[i].variants
  BY <1>1, RowIs DEF At
<1>3. RowOK(d) /\ d.variants = b.variants
  BY <1>2, ValidateIs
<1> QED BY <1>1, <1>2, <1>3, LineupsSame

LEMMA LineupsPutProvided ==
  ASSUME Shape, Lineups, NEW c \in Calls, PutProvided(c)
  PROVE  Lineups'
<1> PICK i : i = Id(c)
  OBVIOUS
<1> PICK b : b = Row(c)
  OBVIOUS
<1> PICK d : d = b
  OBVIOUS
<1>1. At(c, "provided") /\ PutRow(c, i, d) /\ current' = current /\ crossed' = crossed
  BY DEF PutProvided
<1>2. i \in DOMAIN drafts /\ RowOK(b) /\ b.variants = call[c].base[i].variants
  BY <1>1, RowIs DEF At
<1>3. RowOK(d) /\ d.variants = b.variants
  BY <1>2
<1> QED BY <1>1, <1>2, <1>3, LineupsSame

LEMMA LineupsPutAnswered ==
  ASSUME Shape, Lineups, NEW c \in Calls, PutAnswered(c)
  PROVE  Lineups'
<1> PICK i : i = Id(c)
  OBVIOUS
<1> PICK b : b = Row(c)
  OBVIOUS
<1> PICK d : d = Validate(b)
  OBVIOUS
<1>1. At(c, "put_answered") /\ PutRow(c, i, d) /\ current' = current /\ crossed' = crossed
  BY DEF PutAnswered
<1>2. i \in DOMAIN drafts /\ RowOK(b) /\ b.variants = call[c].base[i].variants
  BY <1>1, RowIs DEF At
<1>3. RowOK(d) /\ d.variants = b.variants
  BY <1>2, ValidateIs
<1> QED BY <1>1, <1>2, <1>3, LineupsSame

LEMMA LineupsPutFactsApproved ==
  ASSUME Shape, Lineups, NEW c \in Calls, PutFactsApproved(c)
  PROVE  Lineups'
<1> PICK i : i = Id(c)
  OBVIOUS
<1> PICK b : b = Row(c)
  OBVIOUS
<1> PICK d : d = Validate(FactsApproved(b))
  OBVIOUS
<1>1. At(c, "put_approved") /\ PutRow(c, i, d) /\ current' = current /\ crossed' = crossed
  BY DEF PutFactsApproved
<1>2. i \in DOMAIN drafts /\ RowOK(b) /\ b.variants = call[c].base[i].variants
  BY <1>1, RowIs DEF At
<1>3. RowOK(d) /\ d.variants = b.variants
  <2> PICK a : a = FactsApproved(b)
    OBVIOUS
  <2>1. RowOK(a) /\ a.variants = b.variants
    BY <1>2, FactsApprovedIs
  <2> QED BY <2>1, ValidateIs
<1> QED BY <1>1, <1>2, <1>3, LineupsSame

LEMMA LineupsPutResolvedAgain ==
  ASSUME Shape, Lineups, NEW c \in Calls, PutResolvedAgain(c)
  PROVE  Lineups'
<1> PICK i : i = Id(c)
  OBVIOUS
<1> PICK b : b = Row(c)
  OBVIOUS
<1> PICK d : d = b
  OBVIOUS
<1>1. At(c, "resolved") /\ PutRow(c, i, d) /\ current' = current /\ crossed' = crossed
  BY DEF PutResolvedAgain
<1>2. i \in DOMAIN drafts /\ RowOK(b) /\ b.variants = call[c].base[i].variants
  BY <1>1, RowIs DEF At
<1>3. RowOK(d) /\ d.variants = b.variants
  BY <1>2
<1> QED BY <1>1, <1>2, <1>3, LineupsSame

LEMMA LineupsFillByAi ==
  ASSUME Shape, Lineups, NEW c \in Calls, FillByAi(c)
  PROVE  Lineups'
<1> PICK i : i = Id(c)
  OBVIOUS
<1> PICK b : b = Row(c)
  OBVIOUS
<1> PICK n \in b.missing \cap AiFillable : PutRow(c, i, Validate(Supplied(b, n, AiText, "ai")))
  BY DEF FillByAi
<1> PICK d : d = Validate(Supplied(b, n, AiText, "ai"))
  OBVIOUS
<1>1. At(c, "handle") /\ PutRow(c, i, d) /\ current' = current /\ crossed' = crossed
  BY DEF FillByAi
<1>2. i \in DOMAIN drafts /\ RowOK(b) /\ b.variants = call[c].base[i].variants
  BY <1>1, RowIs DEF At
<1>3. RowOK(d) /\ d.variants = b.variants
  <2>1. AiText # None /\ n = "text"
    BY DEF FillByAi, AiFillable
  <2>2. n \in Cores /\ n # "price"
    BY <2>1 DEF Cores
  <2>3. Told(b, d, n, AiText, "ai")
    BY <1>2, <2>1, <2>2, ToldIs
  <2> QED BY <2>3 DEF Told
<1> QED BY <1>1, <1>2, <1>3, LineupsSame

LEMMA LineupsProvideField ==
  ASSUME Shape, Lineups, NEW c \in Calls, ProvideField(c)
  PROVE  Lineups'
<1> PICK i : i = Id(c)
  OBVIOUS
<1> PICK b : b = Row(c)
  OBVIOUS
<1> PICK n \in call[c].given : \E v \in Answers[n] : PutRow(c, i, Validate(Supplied(b, n, v, "human")))
  BY DEF ProvideField
<1> PICK v \in Answers[n] : PutRow(c, i, Validate(Supplied(b, n, v, "human")))
  OBVIOUS
<1> PICK d : d = Validate(Supplied(b, n, v, "human"))
  OBVIOUS
<1>1. At(c, "provide") /\ PutRow(c, i, d) /\ current' = current /\ crossed' = crossed
  BY DEF ProvideField
<1>2. i \in DOMAIN drafts /\ RowOK(b) /\ b.variants = call[c].base[i].variants
  BY <1>1, RowIs DEF At
<1>3. RowOK(d) /\ d.variants = b.variants
  <2>1. n \in Cores
    BY <1>1, CallIs DEF At, CallOK, CallPlaced
  <2>2. v # None /\ (n = "price" => v \in PriceRead)
    BY <2>1, AnswerIs
  <2>3. Told(b, d, n, v, "human")
    BY <1>2, <2>1, <2>2, ToldIs
  <2> QED BY <2>3 DEF Told
<1> QED BY <1>1, <1>2, <1>3, LineupsSame

LEMMA LineupsPutResolved ==
  ASSUME Shape, Lineups, NEW c \in Calls, PutResolved(c)
  PROVE  Lineups'
<1> PICK i : i = Id(c)
  OBVIOUS
<1> PICK d : d = Row(c)
  OBVIOUS
<1> PICK b : b = call[c].base[i]
  OBVIOUS
<1>1. At(c, "resolve") /\ PutRow(c, i, d) /\ current' = current /\ crossed' = crossed
  BY DEF PutResolved
<1>2. i \in DOMAIN drafts /\ RowOK(d)
  BY <1>1, RowIs DEF At
<1>3. CallOK(call[c], DOMAIN drafts) /\ call[c].pc = "resolve" /\ call[c].kind = "resolution"
  BY <1>1, CallIs DEF At, CallOK, CallKind, Resolving
<1>4. call[c].todo[1] = i
  <2>1. Len(call[c].todo) = 1 /\ call[c].at \in 1..Len(call[c].todo)
    BY <1>3 DEF CallOK, CallTodo
  <2>2. call[c].at = 1
    BY <2>1
  <2> QED BY <2>2 DEF Id
<1> PICK n \in Cores : \E v \in Answers[n] : Settles(b, d, n, v)
  BY <1>3, <1>4 DEF CallOK, CallPlaced, Row
<1>5. d.variants = b.variants
  BY DEF Settles
<1> QED BY <1>1, <1>2, <1>5, LineupsSame

LEMMA LineupsNext ==
  ASSUME Shape, Lineups, [CatalogueNext]_catalogueVars
  PROVE  Lineups'
<1>1. CASE UNCHANGED catalogueVars
  BY <1>1, LineupsUnread DEF catalogueVars, histories
<1>2. ASSUME NEW c \in Calls, BeginIngest(c) \/ BeginAnswer(c) \/ BeginApproval(c) \/ BeginResolution(c)
      PROVE  Lineups'
  BY <1>2, LineupsUnread DEF BeginIngest, BeginAnswer, BeginApproval, BeginResolution, Begins, histories
<1>3. ASSUME NEW c \in Calls,
             \/ HandleDraft(c) \/ CheckQueue(c) \/ SendQuestion(c) \/ ReadForField(c) \/ NotifyNext(c)
             \/ ReadForApproval(c) \/ Crash(c)
      PROVE  Lineups'
  BY <1>3, LineupsUnread
     DEF HandleDraft, CheckQueue, SendQuestion, ReadForField, NotifyNext, ReadForApproval, Crash, histories
<1>4. ASSUME NEW c \in Calls, CatalogueStep(c)
      PROVE  Lineups'
  BY <1>3, <1>4, LineupsMerge, LineupsCreate, LineupsPutRecommended, LineupsPutValidated,
     LineupsFillByAi, LineupsProvideField, LineupsPutProvided, LineupsPutAnswered,
     LineupsPutFactsApproved, LineupsPutResolved, LineupsPutResolvedAgain DEF CatalogueStep
<1>5. ASSUME RecordDecision \/ RequireMore
      PROVE  Lineups'
  BY <1>5, LineupsUnread DEF RecordDecision, RequireMore, histories
<1> QED BY <1>1, <1>2, <1>3, <1>4, <1>5 DEF CatalogueNext

LEMMA LineupsShown ==
  ASSUME Lineups
  PROVE  ActiveIsTheRevision
BY DEF Lineups, Revised, ActiveIsTheRevision

-----------------------------------------------------------------------------
(* The queue of questions.                                                 *)

\* No draft forgets what is known of it.
Grow ==
  /\ DOMAIN drafts \subseteq DOMAIN drafts'
  /\ \A k \in DOMAIN drafts : DOMAIN drafts[k].facts \subseteq DOMAIN drafts'[k].facts

\* What c holds as q was put or read, or it held it before.
Holds(c, q) ==
  \A k \in DOMAIN q.base :
    \/ k \in DOMAIN call[c].base /\ q.base[k] = call[c].base[k]
    \/ q.base[k] = drafts'[k]

CanSend(q) == q.pc \in {"ask", "send"} => Askable(drafts'[q.todo[q.at]])

\* As q, the call c sees to the draft k, or did not before and need not now.
Sees(c, q, k) ==
  \/ ToValidate(q, k)
  \/ Askable(drafts'[k]) /\ (ToAsk(q, k) \/ Turns(q))
  \/ /\ k \in DOMAIN drafts /\ drafts[k].state = "INCOMPLETE" /\ ~ ToValidate(call[c], k)
     /\ ToAsk(call[c], k) => ToAsk(q, k) \/ Asking'

Minds(c, q) ==
  /\ Asking => Asking' \/ Turns(q)
  /\ Turns(call[c]) => Asking' \/ Turns(q)
  /\ \A k \in DOMAIN drafts' : drafts'[k].state = "INCOMPLETE" => Sees(c, q, k)

LEMMA GrownKept ==
  ASSUME Shape, Grown, Grow, NEW c \in Calls, NEW q, call' = [call EXCEPT ![c] = q], Holds(c, q)
  PROVE  Grown'
<1>1. call'[c] = q /\ \A x \in Calls \ {c} : call'[x] = call[x]
  BY DEF Shape, CallShape, IsFun
<1>2. ASSUME NEW x \in Calls, NEW k \in DOMAIN call[x].base
      PROVE  DOMAIN call[x].base[k].facts \subseteq DOMAIN drafts'[k].facts
  <2>1. k \in DOMAIN drafts
    BY <1>2, CallIs DEF CallOK, CallHolds
  <2> QED BY <2>1 DEF Grown, Grow
<1>3. ASSUME NEW x \in Calls, NEW k \in DOMAIN call'[x].base
      PROVE  DOMAIN call'[x].base[k].facts \subseteq DOMAIN drafts'[k].facts
  <2>1. CASE x = c
    <3>1. k \in DOMAIN q.base /\ call'[x].base[k] = q.base[k]
      BY <1>1, <2>1
    <3>2. CASE k \in DOMAIN call[c].base /\ q.base[k] = call[c].base[k]
      BY <1>2, <3>1, <3>2
    <3>3. CASE q.base[k] = drafts'[k]
      BY <3>1, <3>3
    <3> QED BY <3>1, <3>2, <3>3 DEF Holds
  <2>2. CASE x # c
    BY <1>1, <1>2, <2>2
  <2> QED BY <2>1, <2>2
<1> QED BY <1>3 DEF Grown

LEMMA SendableKept ==
  ASSUME Shape, Sendable, Grow, NEW c \in Calls, NEW q, call' = [call EXCEPT ![c] = q], CanSend(q)
  PROVE  Sendable'
<1>1. call'[c] = q /\ \A x \in Calls \ {c} : call'[x] = call[x]
  BY DEF Shape, CallShape, IsFun
<1>2. ASSUME NEW x \in Calls, call'[x].pc \in {"ask", "send"}
      PROVE  Askable(drafts'[call'[x].todo[call'[x].at]])
  <2>1. CASE x = c
    BY <1>1, <1>2, <2>1 DEF CanSend
  <2>2. CASE x # c
    <3>1. call[x].pc \in {"ask", "send"} /\ call'[x] = call[x]
      BY <1>1, <1>2, <2>2
    <3>2. Id(x) \in DOMAIN drafts
      BY <3>1, RowIs DEF At
    <3>3. Askable(drafts[Id(x)])
      BY <3>1 DEF Sendable, Id
    <3>4. Askable(drafts'[Id(x)])
      BY <3>2, <3>3 DEF Grow, Askable
    <3>5. Id(x) = call'[x].todo[call'[x].at]
      BY <3>1 DEF Id
    <3> QED BY <3>4, <3>5
  <2> QED BY <2>1, <2>2
<1> QED BY <1>2 DEF Sendable

LEMMA AttendedKept ==
  ASSUME Shape, Attended, Grow, NEW c \in Calls, NEW q, call' = [call EXCEPT ![c] = q], Minds(c, q)
  PROVE  Attended'
<1>1. call'[c] = q /\ \A x \in Calls \ {c} : call'[x] = call[x]
  BY DEF Shape, CallShape, IsFun
<1>2. ASSUME Asking' \/ Turns(q)
      PROVE  Asking' \/ Turning'
  BY <1>1, <1>2 DEF Turning
<1>3. ASSUME NEW k \in DOMAIN drafts', drafts'[k].state = "INCOMPLETE"
      PROVE  Covered(k)' /\ Known(k)'
  <2>1. CASE ToValidate(q, k)
    BY <1>1, <2>1 DEF Covered, Known
  <2>2. CASE Askable(drafts'[k]) /\ (ToAsk(q, k) \/ Turns(q))
    BY <1>1, <1>2, <2>2 DEF Covered, Known
  <2>3. CASE /\ k \in DOMAIN drafts /\ drafts[k].state = "INCOMPLETE" /\ ~ ToValidate(call[c], k)
             /\ ToAsk(call[c], k) => ToAsk(q, k) \/ Asking'
    <3>1. Covered(k) /\ Known(k)
      BY <2>3 DEF Attended
    <3>2. ASSUME NEW x \in Calls, ToValidate(call[x], k)
          PROVE  Covered(k)' /\ Known(k)'
      <4>1. x # c
        BY <2>3, <3>2
      <4> QED BY <1>1, <3>2, <4>1 DEF Covered, Known
    <3>3. ASSUME NEW x \in Calls, ToAsk(call[x], k)
          PROVE  Covered(k)'
      <4>1. CASE x = c
        BY <1>1, <2>3, <3>3, <4>1 DEF Covered
      <4>2. CASE x # c
        BY <1>1, <3>3, <4>2 DEF Covered
      <4> QED BY <4>1, <4>2
    <3>4. ASSUME NEW x \in Calls, Turns(call[x])
          PROVE  Covered(k)'
      <4>1. CASE x = c
        BY <1>2, <3>4, <4>1 DEF Minds, Covered
      <4>2. CASE x # c
        BY <1>1, <3>4, <4>2 DEF Covered, Turning
      <4> QED BY <4>1, <4>2
    <3>5. Asking => Covered(k)'
      BY <1>2 DEF Minds, Covered
    <3>6. Covered(k)'
      BY <3>1, <3>2, <3>3, <3>4, <3>5 DEF Covered, Turning
    <3>7. Askable(drafts[k]) => Known(k)'
      BY <2>3 DEF Grow, Askable, Known
    <3>8. Known(k)'
      BY <3>1, <3>2, <3>7 DEF Known
    <3> QED BY <3>6, <3>8
  <2> QED BY <1>3, <2>1, <2>2, <2>3 DEF Minds, Sees
<1> QED BY <1>3 DEF Attended

LEMMA QueueStep ==
  ASSUME Shape, Queue, NEW c \in Calls, NEW q, call' = [call EXCEPT ![c] = q], overwritten \subseteq overwritten',
         overwritten' = {} => Grow /\ Holds(c, q) /\ CanSend(q),
         overwritten' = {} /\ ~ diverted' => ~ diverted /\ (Attended' \/ Minds(c, q))
  PROVE  Queue'
<1> SUFFICES ASSUME overwritten' = {}
             PROVE  Grown' /\ Sendable' /\ (~ diverted' => Attended')
  BY DEF Queue
<1>1. Grown /\ Sendable /\ (~ diverted => Attended) /\ Grow /\ Holds(c, q) /\ CanSend(q)
  BY DEF Queue
<1>2. Grown' /\ Sendable'
  BY <1>1, GrownKept, SendableKept
<1>3. ASSUME ~ diverted'
      PROVE  Attended'
  BY <1>1, <1>3, AttendedKept
<1> QED BY <1>2, <1>3

LEMMA IdleSees ==
  ASSUME NEW r, r.pc \in {"idle", "handle", "ask", "send"} \/ r.pc \in Answering \cup Approving \cup Resolving,
         NEW k
  PROVE  ~ ToValidate(r, k)
BY DEF ToValidate, Answering, Approving, Resolving

LEMMA OthersSee ==
  ASSUME NEW r, NEW D, CallOK(r, D), r.kind # "ingest" \/ r.pc = "idle", NEW k
  PROVE  ~ ToValidate(r, k) /\ ~ ToAsk(r, k)
<1>1. r.pc \notin Ingesting \cup {"send"} \/ r.kind # "ingest" \/ r.pc = "idle"
  OBVIOUS
<1>2. r.pc \notin {"merge", "put", "validate"}
  BY DEF CallOK, CallKind, Ingesting
<1>3. r.kind = "ingest" => r.pc = "idle"
  OBVIOUS
<1> QED BY <1>2, <1>3 DEF ToValidate, ToAsk

LEMMA Unwritten ==
  ASSUME Shape, UNCHANGED drafts
  PROVE  Grow /\ (open' = open => (Asking => Asking'))
BY DEF Grow, Asking

LEMMA QueueUnread ==
  ASSUME Queue, UNCHANGED <<drafts, open, call, overwritten, diverted>>
  PROVE  Queue'
<1>1. Asking' = Asking /\ Turning' = Turning /\ Grown' = Grown /\ Sendable' = Sendable
  BY DEF Asking, Turning, Grown, Sendable
<1>2. Attended' = Attended
  BY DEF Attended, Covered, Known, Asking, Turning
<1> QED BY <1>1, <1>2 DEF Queue

\* A call that asks and validates nothing goes on, or ends, without a put.
LEMMA QueueReads ==
  ASSUME Shape, Queue, NEW c \in Calls, NEW q, call' = [call EXCEPT ![c] = q],
         UNCHANGED <<drafts, open, overwritten>>, Holds(c, q), q.pc \notin {"ask", "send"},
         call[c].kind # "ingest" \/ call[c].pc = "idle",
         Turns(call[c]) => Turns(q) \/ diverted',
         diverted => diverted'
  PROVE  Queue'
<1>1. Grow /\ (Asking => Asking')
  BY Unwritten
<1>2. CanSend(q)
  BY DEF CanSend
<1>3. \A k : ~ ToValidate(call[c], k) /\ ~ ToAsk(call[c], k)
  BY CallIs, OthersSee
<1>4. ASSUME ~ diverted'
      PROVE  ~ diverted /\ Minds(c, q)
  BY <1>1, <1>3, <1>4 DEF Minds, Sees
<1> QED BY <1>1, <1>2, <1>4, QueueStep

LEMMA QueueBegins ==
  ASSUME Shape, Queue, NEW c \in Calls, NEW q, Begins(c, q), Holds(c, q), q.pc \notin {"ask", "send"}
  PROVE  Queue'
<1>1. call[c].pc = "idle" /\ call' = [call EXCEPT ![c] = q]
      /\ UNCHANGED <<drafts, open, overwritten, diverted>>
  BY DEF Begins, At, queue, histories
<1>2. ~ Turns(call[c])
  BY <1>1 DEF Turns
<1> QED BY <1>1, <1>2, QueueReads

LEMMA QueueBeginIngest ==
  ASSUME Shape, Queue, NEW c \in Calls, BeginIngest(c)
  PROVE  Queue'
<1> PICK f \in files :
      Begins(c, [NoCall EXCEPT !.pc = "merge", !.kind = "ingest", !.base = drafts, !.mine = drafts,
                             !.incoming = DraftsOf(f)])
  BY DEF BeginIngest
<1> PICK q : q = [NoCall EXCEPT !.pc = "merge", !.kind = "ingest", !.base = drafts, !.mine = drafts,
                             !.incoming = DraftsOf(f)]
  OBVIOUS
<1>1. q.pc = "merge" /\ q.base = drafts
  BY DEF NoCall
<1>2. Begins(c, q) /\ drafts' = drafts
  BY DEF Begins
<1>3. Holds(c, q)
  BY <1>1, <1>2 DEF Holds
<1> QED BY <1>1, <1>2, <1>3, QueueBegins

LEMMA SingleHolds ==
  ASSUME NEW c, NEW kind, NEW pc, NEW i, NEW d, NEW given, drafts' = drafts,
         NEW q, q = Single(kind, pc, i, drafts[i], d, given)
  PROVE  Holds(c, q) /\ q.pc = pc /\ q.kind = kind /\ q.todo[q.at] = i
<1>1. /\ q.pc = pc /\ q.kind = kind /\ q.base = [k \in {i} |-> drafts[i]] /\ q.todo = <<i>> /\ q.at = 1
  BY DEF Single
<1>2. Holds(c, q)
  BY <1>1 DEF Holds
<1> QED BY <1>1, <1>2

LEMMA QueueBeginAnswer ==
  ASSUME Shape, Queue, NEW c \in Calls, BeginAnswer(c)
  PROVE  Queue'
<1> PICK i : i = asks[Last1(Asked)]
  OBVIOUS
<1> PICK given \in SUBSET drafts[i].missing \ {{}} :
      Begins(c, [HoldingRow("answer", "read", i, drafts[i]) EXCEPT !.given = given])
  BY DEF BeginAnswer
<1> PICK d : d = drafts[i]
  OBVIOUS
<1> PICK q : q = Single("answer", "read", i, drafts[i], d, given)
  OBVIOUS
<1>1. Begins(c, q)
  <2>1. Begins(c, Gives(HoldingRow("answer", "read", i, d), given))
    BY DEF Gives
  <2>2. Gives(HoldingRow("answer", "read", i, d), given) = q
    BY GivenIsSingle
  <2> QED BY <2>1, <2>2
<1>2. drafts' = drafts
  BY <1>1 DEF Begins
<1>3. Holds(c, q) /\ q.pc = "read"
  BY <1>2 DEF Single, Holds
<1> QED BY <1>1, <1>3, QueueBegins

LEMMA QueueBeginApproval ==
  ASSUME Shape, Queue, NEW c \in Calls, BeginApproval(c)
  PROVE  Queue'
<1> PICK i \in DOMAIN drafts : Begins(c, HoldingRow("approval", "approve", i, drafts[i]))
  BY DEF BeginApproval
<1> PICK d : d = drafts[i]
  OBVIOUS
<1> PICK given : given = {}
  OBVIOUS
<1> PICK q : q = Single("approval", "approve", i, drafts[i], d, given)
  OBVIOUS
<1>1. Begins(c, q)
  BY HeldIsSingle
<1>2. drafts' = drafts
  BY <1>1 DEF Begins
<1>3. Holds(c, q) /\ q.pc = "approve"
  BY <1>2, SingleHolds
<1> QED BY <1>1, <1>3, QueueBegins

LEMMA QueueBeginResolution ==
  ASSUME Shape, Queue, NEW c \in Calls, BeginResolution(c)
  PROVE  Queue'
<1> PICK i \in DOMAIN drafts : \E n \in Disputed(drafts[i]) \cap DOMAIN Answers : \E v \in Answers[n] :
      Begins(c, [HoldingRow("resolution", "resolve", i, Validate(Resolved(drafts[i], n, v)))
                   EXCEPT !.given = {<<n, Normal(n, v)>>}])
  BY DEF BeginResolution
<1> PICK n \in Disputed(drafts[i]) \cap DOMAIN Answers : \E v \in Answers[n] :
      Begins(c, [HoldingRow("resolution", "resolve", i, Validate(Resolved(drafts[i], n, v)))
                   EXCEPT !.given = {<<n, Normal(n, v)>>}])
  OBVIOUS
<1> PICK v \in Answers[n] :
      Begins(c, [HoldingRow("resolution", "resolve", i, Validate(Resolved(drafts[i], n, v)))
                   EXCEPT !.given = {<<n, Normal(n, v)>>}])
  OBVIOUS
<1> PICK d : d = Validate(Resolved(drafts[i], n, v))
  OBVIOUS
<1> PICK given : given = {<<n, Normal(n, v)>>}
  OBVIOUS
<1> PICK q : q = Single("resolution", "resolve", i, drafts[i], d, given)
  OBVIOUS
<1>1. Begins(c, q)
  <2>1. Begins(c, [HoldingRow("resolution", "resolve", i, d) EXCEPT !.given = given])
    OBVIOUS
  <2>2. Begins(c, Gives(HoldingRow("resolution", "resolve", i, d), given))
    BY <2>1 DEF Gives
  <2>3. Gives(HoldingRow("resolution", "resolve", i, d), given) = q
    BY GivenIsSingle
  <2> QED BY <2>2, <2>3
<1>2. drafts' = drafts
  BY <1>1 DEF Begins
<1>3. Holds(c, q) /\ q.pc = "resolve"
  BY <1>2 DEF Single, Holds
<1> QED BY <1>1, <1>3, QueueBegins

\* What q holds besides its place is what r does.
SameHeld(q, r) == q.kind = r.kind /\ q.base = r.base /\ q.mine = r.mine /\ q.todo = r.todo

Turned(q, r, next) ==
  \/ r.at < Len(r.todo) /\ q.pc = r.pc /\ q.at = r.at + 1 /\ SameHeld(q, r)
  \/ ~ (r.at < Len(r.todo)) /\ next = "idle" /\ q = NoCall
  \/ ~ (r.at < Len(r.todo)) /\ next # "idle" /\ q.pc = next /\ q.at = 1 /\ SameHeld(q, r)

LEMMA TurnIs ==
  ASSUME NEW r, CallTyped(r), NEW next, NEW q, q = Turn(r, next)
  PROVE  Turned(q, r, next)
<1>1. CASE r.at < Len(r.todo)
  <2>1. q = [r EXCEPT !.at = r.at + 1]
    BY <1>1 DEF Turn
  <2> QED BY <1>1, <2>1 DEF CallTyped, Turned, SameHeld
<1>2. CASE ~ (r.at < Len(r.todo)) /\ next = "idle"
  BY <1>2 DEF Turn, Turned
<1>3. CASE ~ (r.at < Len(r.todo)) /\ next # "idle"
  <2>1. q = [r EXCEPT !.pc = next, !.at = 1]
    BY <1>3 DEF Turn
  <2> QED BY <1>3, <2>1 DEF CallTyped, Turned, SameHeld
<1> QED BY <1>1, <1>2, <1>3

LEMMA MovedIs ==
  ASSUME NEW r, CallTyped(r), NEW p, NEW q, q = Onward(r, p)
  PROVE  q.pc = p /\ q.at = r.at /\ SameHeld(q, r)
BY DEF Onward, CallTyped, SameHeld

LEMMA MovedWithIs ==
  ASSUME NEW r, CallTyped(r), NEW p, NEW given, NEW q, q = MovedWith(r, p, given)
  PROVE  q.pc = p /\ q.at = r.at /\ SameHeld(q, r)
BY DEF MovedWith, CallTyped, SameHeld

LEMMA NothingHeld ==
  ASSUME NEW c
  PROVE  /\ Holds(c, NoCall) /\ NoCall.pc = "idle" /\ CanSend(NoCall) /\ ~ Turns(NoCall)
         /\ \A k : ~ ToValidate(NoCall, k) /\ ~ ToAsk(NoCall, k)
<1>1. NoCall.pc = "idle" /\ NoCall.base = <<>>
  BY DEF NoCall
<1>2. DOMAIN <<>> = {}
  OBVIOUS
<1> QED BY <1>1, <1>2 DEF Holds, CanSend, Turns, ToValidate, ToAsk

LEMMA PutHolds ==
  ASSUME NEW c, NEW i, NEW d, drafts'[i] = d, NEW h, HasPut(h, call[c], i, d), NEW t, t.base = h.base
  PROVE  Holds(c, t)
<1>1. DOMAIN t.base = DOMAIN call[c].base \cup {i} /\ t.base[i] = d
  BY DEF HasPut
<1>2. \A k \in DOMAIN call[c].base : k # i => t.base[k] = call[c].base[k]
  BY DEF HasPut
<1> QED BY <1>1, <1>2 DEF Holds

LEMMA GrowPut ==
  ASSUME Shape, NEW c \in Calls, NEW i \in DOMAIN drafts, NEW d, RowOK(d), PutRow(c, i, d), overwritten' = {},
         DOMAIN call[c].base[i].facts \subseteq DOMAIN d.facts
  PROVE  Grow
<1>1. /\ DOMAIN drafts' = DOMAIN drafts /\ drafts'[i] = d
      /\ \A k \in DOMAIN drafts \ {i} : drafts'[k] = drafts[k]
  BY PutDone DEF WasPut
<1>2. drafts[i] \in {call[c].base[i], d}
  BY PutIs
<1>3. DOMAIN drafts[i].facts \subseteq DOMAIN d.facts
  BY <1>2
<1> QED BY <1>1, <1>3 DEF Grow

LEMMA AskingPut ==
  ASSUME Shape, NEW c \in Calls, NEW i \in DOMAIN drafts, NEW d, RowOK(d), PutRow(c, i, d), Grow, open' = open,
         ~ Diverts(c, i, d), call[c].kind # "answer", Asking
  PROVE  Asking'
<1>1. /\ DOMAIN drafts' = DOMAIN drafts /\ drafts'[i] = d
      /\ \A k \in DOMAIN drafts \ {i} : drafts'[k] = drafts[k]
  BY PutDone DEF WasPut
<1>2. PICK j \in open : Waits(drafts[j])
  BY DEF Asking
<1>3. j \in DOMAIN drafts
  BY DEF Shape, StoreShape
<1>4. Askable(drafts'[j])
  BY <1>2, <1>3 DEF Grow, Askable, Waits
<1>5. drafts'[j].state \in Open
  <2>1. CASE j = i
    BY <1>1, <1>2, <2>1 DEF Diverts, Waits
  <2>2. CASE j # i
    BY <1>1, <1>2, <1>3, <2>2 DEF Waits
  <2> QED BY <2>1, <2>2
<1> QED BY <1>2, <1>4, <1>5 DEF Asking, Waits

\* A draft that is put as it was read is not changed.
LEMMA SamePut ==
  ASSUME Shape, NEW c, NEW i \in DOMAIN drafts, PutRow(c, i, call[c].base[i]), overwritten' = {}
  PROVE  drafts' = drafts
<1> PICK d : d = call[c].base[i]
  OBVIOUS
<1>1. drafts' = [drafts EXCEPT ![i] = d]
  BY DEF PutRow
<1>2. drafts[i] = d
  BY DEF PutRow
<1>3. IsSeq(drafts)
  BY DEF Shape, StoreShape
<1>4. drafts = [k \in 1..Len(drafts) |-> drafts[k]]
  BY <1>3, SeqIs
<1> QED BY <1>1, <1>2, <1>4

LEMMA OverwrittenGrows ==
  ASSUME NEW c, NEW i, NEW d, PutRow(c, i, d)
  PROVE  overwritten \subseteq overwritten'
BY DEF PutRow

LEMMA CallHasPut ==
  ASSUME Shape, NEW c \in Calls, ~ At(c, "idle"), ~ At(c, "merge"), NEW d, RowOK(d),
         NEW h, h = Has(call[c], Id(c), d)
  PROVE  CallTyped(h) /\ HasPut(h, call[c], Id(c), d)
<1> PICK r : r = call[c]
  OBVIOUS
<1> PICK i : i = Id(c)
  OBVIOUS
<1> PICK D : D = DOMAIN drafts
  OBVIOUS
<1>1. CallTyped(r) /\ CallHolds(r, D) /\ D \subseteq D
  BY CallIs DEF CallOK
<1>2. i \in D
  BY RowIs
<1>3. r.pc = "resolve" => DOMAIN r.base \subseteq {i}
  <2>1. ASSUME r.pc = "resolve"
        PROVE  DOMAIN r.base = {r.todo[1]} /\ Len(r.todo) = 1 /\ r.at \in 1..Len(r.todo)
    BY <2>1, CallIs DEF CallOK, CallTodo, CallKind, Resolving
  <2> QED BY <2>1 DEF Id
<1>4. h = Has(r, i, d)
  OBVIOUS
<1>5. CallTyped(h) /\ CallHolds(h, D) /\ HasPut(h, r, i, d)
  BY <1>1, <1>2, <1>3, <1>4, HasIs
<1> QED BY <1>5

\* Each incomplete draft is seen to once the row i is d.
SeesAll(c, q) == \A k \in DOMAIN drafts' : drafts'[k].state = "INCOMPLETE" => Sees(c, q, k)
Knows(c, i, d) == DOMAIN call[c].base[i].facts \subseteq DOMAIN d.facts

LEMMA QueuePut ==
  ASSUME Shape, Queue, NEW c \in Calls, NEW q, call' = [call EXCEPT ![c] = q],
         NEW i \in DOMAIN drafts, NEW d, RowOK(d), PutRow(c, i, d), Knows(c, i, d), open' = open,
         call[c].kind # "answer", Holds(c, q), overwritten' = {} => CanSend(q),
         diverted' = (diverted \/ Diverts(c, i, d)),
         overwritten' = {} /\ ~ diverted' => SeesAll(c, q)
  PROVE  Queue'
<1>1. ASSUME overwritten' = {}
      PROVE  Grow
  BY <1>1, GrowPut DEF Knows
<1>2. ASSUME overwritten' = {}, ~ diverted'
      PROVE  ~ diverted /\ Minds(c, q)
  <2>1. Asking => Asking'
    BY <1>1, <1>2, AskingPut
  <2>2. ~ Turns(call[c])
    BY DEF Turns
  <2> QED BY <1>2, <2>1, <2>2 DEF Minds, SeesAll
<1>3. overwritten \subseteq overwritten'
  BY OverwrittenGrows
<1> QED BY <1>1, <1>2, <1>3, QueueStep

\* A call that neither asks nor validates puts a draft.
LEMMA OtherSees ==
  ASSUME Shape, NEW c \in Calls, NEW q, NEW i \in DOMAIN drafts, NEW d, RowOK(d), PutRow(c, i, d),
         call[c].kind # "ingest",
         d.state = "INCOMPLETE" => drafts[i].state = "INCOMPLETE" \/ (Askable(d) /\ Turns(q))
  PROVE  SeesAll(c, q)
<1>1. /\ DOMAIN drafts' = DOMAIN drafts /\ drafts'[i] = d
      /\ \A k \in DOMAIN drafts \ {i} : drafts'[k] = drafts[k]
  BY PutDone DEF WasPut
<1>2. \A k : ~ ToValidate(call[c], k) /\ ~ ToAsk(call[c], k)
  BY CallIs, OthersSee
<1>3. ASSUME NEW k \in DOMAIN drafts', drafts'[k].state = "INCOMPLETE"
      PROVE  Sees(c, q, k)
  <2>1. CASE k = i /\ Askable(d) /\ Turns(q)
    BY <1>1, <2>1 DEF Sees
  <2>2. CASE k \in DOMAIN drafts /\ drafts[k].state = "INCOMPLETE"
    BY <1>2, <2>2 DEF Sees
  <2> QED BY <1>1, <1>3, <2>1, <2>2
<1> QED BY <1>3 DEF SeesAll

LEMMA QueueAnswers ==
  ASSUME Shape, Queue, NEW c \in Calls, NEW q, call' = [call EXCEPT ![c] = q],
         NEW i \in DOMAIN drafts, NEW d, RowOK(d), PutRow(c, i, d), Knows(c, i, d),
         call[c].kind # "ingest", Holds(c, q), CanSend(q), diverted => diverted',
         ~ diverted' => Turns(q),
         overwritten' = {} /\ ~ diverted' /\ d.state = "INCOMPLETE" =>
           drafts[i].state = "INCOMPLETE" \/ Askable(d)
  PROVE  Queue'
<1>1. ASSUME overwritten' = {}
      PROVE  Grow
  BY <1>1, GrowPut DEF Knows
<1>2. ASSUME overwritten' = {}, ~ diverted'
      PROVE  ~ diverted /\ Minds(c, q)
  <2>1. Turns(q) /\ ~ diverted
    BY <1>2
  <2>2. SeesAll(c, q)
    BY <1>2, <2>1, OtherSees
  <2> QED BY <2>1, <2>2 DEF Minds, SeesAll
<1>3. overwritten \subseteq overwritten'
  BY OverwrittenGrows
<1> QED BY <1>1, <1>2, <1>3, QueueStep

LEMMA QueueReadForField ==
  ASSUME Shape, Queue, NEW c \in Calls, ReadForField(c)
  PROVE  Queue'
<1> PICK i : i = Id(c)
  OBVIOUS
<1> PICK d : d = drafts[i]
  OBVIOUS
<1> PICK h : h = Has(call[c], i, d)
  OBVIOUS
<1>1. At(c, "read") /\ UNCHANGED <<drafts, open, overwritten>>
  BY DEF ReadForField, queue, histories
<1>2. i \in DOMAIN drafts /\ RowOK(d)
  BY <1>1, RowIs DEF At, Shape, StoreShape
<1>3. CallTyped(h) /\ HasPut(h, call[c], i, d)
  BY <1>1, <1>2, CallHasPut DEF At
<1>4. call[c].kind = "answer"
  BY <1>1, CallIs DEF At, CallOK, CallKind, Answering
<1>5. CASE call' = [call EXCEPT ![c] = Onward(h, "provide")] /\ diverted' = diverted
  <2> PICK q : q = Onward(h, "provide")
    OBVIOUS
  <2>1. q.pc = "provide" /\ SameHeld(q, h)
    BY <1>3, MovedIs
  <2>2. Holds(c, q)
    <3>1. drafts'[i] = d /\ q.base = h.base
      BY <1>1, <2>1 DEF SameHeld
    <3> QED BY <1>3, <3>1, PutHolds
  <2>3. Turns(q)
    BY <1>3, <1>4, <2>1 DEF Turns, SameHeld, HasPut
  <2>4. call' = [call EXCEPT ![c] = q]
    BY <1>5
  <2>5. call[c].kind # "ingest" \/ call[c].pc = "idle"
    BY <1>4
  <2>6. q.pc \notin {"ask", "send"}
    BY <2>1
  <2> QED BY <1>1, <1>5, <2>2, <2>3, <2>4, <2>5, <2>6, QueueReads
<1>6. CASE Leave(c) /\ diverted' = TRUE
  <2> PICK q : q = NoCall
    OBVIOUS
  <2>1. Holds(c, q) /\ q.pc \notin {"ask", "send"}
    BY NothingHeld
  <2>2. call' = [call EXCEPT ![c] = q]
    BY <1>6 DEF Leave
  <2>3. call[c].kind # "ingest" \/ call[c].pc = "idle"
    BY <1>4
  <2> QED BY <1>1, <1>6, <2>1, <2>2, <2>3, QueueReads
<1>7. \/ call' = [call EXCEPT ![c] = Onward(h, "provide")] /\ diverted' = diverted
      \/ Leave(c) /\ diverted' = TRUE
  BY DEF ReadForField, Onward
<1> QED BY <1>5, <1>6, <1>7

LEMMA QueueReadForApproval ==
  ASSUME Shape, Queue, NEW c \in Calls, ReadForApproval(c)
  PROVE  Queue'
<1> PICK i : i = Id(c)
  OBVIOUS
<1> PICK d : d = drafts[i]
  OBVIOUS
<1> PICK h : h = Has(call[c], i, d)
  OBVIOUS
<1>1. At(c, "approve") /\ UNCHANGED <<drafts, open, overwritten, diverted>>
  BY DEF ReadForApproval, queue, histories
<1>2. i \in DOMAIN drafts /\ RowOK(d)
  BY <1>1, RowIs DEF At, Shape, StoreShape
<1>3. CallTyped(h) /\ HasPut(h, call[c], i, d)
  BY <1>1, <1>2, CallHasPut DEF At
<1>4. call[c].kind \in {"answer", "approval"}
  BY <1>1, CallIs DEF At, CallOK, CallKind, Approving
<1> PICK q : q = Onward(h, "put_approved")
  OBVIOUS
<1>5. q.pc = "put_approved" /\ SameHeld(q, h)
  BY <1>3, MovedIs
<1>6. Holds(c, q)
  <2>1. drafts'[i] = d /\ q.base = h.base
    BY <1>1, <1>5 DEF SameHeld
  <2> QED BY <1>3, <2>1, PutHolds
<1>7. Turns(call[c]) => Turns(q)
  BY <1>3, <1>5 DEF Turns, SameHeld, HasPut
<1>8. call' = [call EXCEPT ![c] = q]
  BY DEF ReadForApproval, Onward
<1>9. (call[c].kind # "ingest" \/ call[c].pc = "idle") /\ q.pc \notin {"ask", "send"}
  BY <1>4, <1>5
<1> QED BY <1>1, <1>6, <1>7, <1>8, <1>9, QueueReads

LEMMA QueueProvideField ==
  ASSUME Shape, Queue, NEW c \in Calls, ProvideField(c)
  PROVE  Queue'
<1> PICK i : i = Id(c)
  OBVIOUS
<1> PICK b : b = Row(c)
  OBVIOUS
<1>1. PICK n \in call[c].given : \E v \in Answers[n] :
      LET e == Validate(Supplied(b, n, v, "human")) IN
      /\ PutRow(c, i, e)
      /\ call' = [call EXCEPT ![c] = MovedWith(Has(call[c], i, e), "provided", call[c].given \ {n})]
  BY DEF ProvideField, MovedWith
<1>2. PICK v \in Answers[n] :
      LET e == Validate(Supplied(b, n, v, "human")) IN
      /\ PutRow(c, i, e)
      /\ call' = [call EXCEPT ![c] = MovedWith(Has(call[c], i, e), "provided", call[c].given \ {n})]
  BY <1>1
<1> PICK d : d = Validate(Supplied(b, n, v, "human"))
  OBVIOUS
<1> PICK h : h = Has(call[c], i, d)
  OBVIOUS
<1> PICK given : given = call[c].given \ {n}
  OBVIOUS
<1> PICK q : q = MovedWith(h, "provided", given)
  OBVIOUS
<1>3. At(c, "provide") /\ PutRow(c, i, d) /\ call' = [call EXCEPT ![c] = q] /\ diverted' = diverted
  BY <1>2 DEF ProvideField
<1>4. i \in DOMAIN drafts /\ RowOK(b) /\ b = call[c].base[i]
  BY <1>3, RowIs DEF At
<1>5. Told(b, d, n, v, "human")
  <2>1. n \in Cores
    BY <1>3, CallIs DEF At, CallOK, CallPlaced
  <2>2. v # None /\ (n = "price" => v \in PriceRead)
    BY <2>1, AnswerIs, Zenon
  <2> QED BY <1>4, <2>1, <2>2, ToldIs
<1>6. RowOK(d) /\ Knows(c, i, d) /\ Askable(d)
  BY <1>4, <1>5, Zenon DEF Told, FactsAs, Knows, Askable
<1>7. CallTyped(h) /\ HasPut(h, call[c], i, d)
  BY <1>3, <1>6, CallHasPut DEF At
<1>8. q.pc = "provided" /\ SameHeld(q, h)
  BY <1>7, MovedWithIs
<1>9. Holds(c, q)
  <2>1. drafts'[i] = d
    BY <1>3, <1>4, <1>6, PutDone DEF WasPut
  <2>2. q.base = h.base
    BY <1>8 DEF SameHeld
  <2>3. HasPut(h, call[c], i, d)
    BY <1>7
  <2> QED BY <2>1, <2>2, <2>3, PutHolds
<1>10. call[c].kind = "answer"
  BY <1>3, CallIs DEF At, CallOK, CallKind, Answering
<1>11. Turns(q) /\ CanSend(q) /\ call[c].kind # "ingest"
  BY <1>7, <1>8, <1>10 DEF Turns, CanSend, SameHeld, HasPut
<1> QED BY <1>3, <1>4, <1>6, <1>9, <1>11, QueueAnswers

LEMMA QueuePutProvided ==
  ASSUME Shape, Queue, NEW c \in Calls, PutProvided(c)
  PROVE  Queue'
<1> PICK i : i = Id(c)
  OBVIOUS
<1> PICK d : d = Row(c)
  OBVIOUS
<1> PICK h : h = Has(call[c], i, d)
  OBVIOUS
<1> PICK p : p = IF call[c].given = {} THEN "put_answered" ELSE "read"
  OBVIOUS
<1> PICK q : q = Onward(h, p)
  OBVIOUS
<1>1. At(c, "provided") /\ PutRow(c, i, d) /\ call' = [call EXCEPT ![c] = q] /\ diverted' = diverted
  BY DEF PutProvided, Onward
<1>2. i \in DOMAIN drafts /\ RowOK(d) /\ d = call[c].base[i]
  BY <1>1, RowIs DEF At
<1>3. Knows(c, i, d)
  BY <1>2 DEF Knows
<1>4. CallTyped(h) /\ HasPut(h, call[c], i, d)
  BY <1>1, <1>2, CallHasPut DEF At
<1>5. q.pc = p /\ SameHeld(q, h) /\ p \in {"put_answered", "read"}
  BY <1>4, MovedIs
<1>6. Holds(c, q)
  <2>1. drafts'[i] = d /\ q.base = h.base
    BY <1>1, <1>2, <1>5, PutDone DEF SameHeld, WasPut
  <2> QED BY <1>4, <2>1, PutHolds
<1>7. call[c].kind = "answer"
  BY <1>1, CallIs DEF At, CallOK, CallKind, Answering
<1>8. Turns(q) /\ CanSend(q) /\ call[c].kind # "ingest"
  BY <1>4, <1>5, <1>7 DEF Turns, CanSend, SameHeld, HasPut
<1>9. ASSUME overwritten' = {}
       PROVE  drafts[i] = d
  BY <1>1, <1>2, <1>9 DEF PutRow
<1> QED BY <1>1, <1>2, <1>3, <1>6, <1>8, <1>9, QueueAnswers

LEMMA QueuePutAnswered ==
  ASSUME Shape, Queue, NEW c \in Calls, PutAnswered(c)
  PROVE  Queue'
<1> PICK i : i = Id(c)
  OBVIOUS
<1> PICK b : b = Row(c)
  OBVIOUS
<1> PICK d : d = Validate(b)
  OBVIOUS
<1> PICK h : h = Has(call[c], i, d)
  OBVIOUS
<1> PICK q : q = IF d.state \notin Open THEN Onward(h, "approve") ELSE NoCall
  OBVIOUS
<1>1. /\ At(c, "put_answered") /\ PutRow(c, i, d) /\ call' = [call EXCEPT ![c] = q]
      /\ diverted' = (diverted \/ d.state \in Open)
  BY DEF PutAnswered, Onward
<1>2. i \in DOMAIN drafts /\ RowOK(b) /\ b = call[c].base[i]
  BY <1>1, RowIs DEF At
<1>3. RowOK(d) /\ Knows(c, i, d)
  BY <1>2, ValidateIs DEF Knows, FactsAs
<1>4. CallTyped(h) /\ HasPut(h, call[c], i, d)
  BY <1>1, <1>3, CallHasPut DEF At
<1>5. call[c].kind = "answer"
  BY <1>1, CallIs DEF At, CallOK, CallKind, Answering
<1>6. d.state = "INCOMPLETE" => diverted'
  BY <1>1, Zenon DEF Open
<1>7. CASE d.state \notin Open
  <2>1. q.pc = "approve" /\ SameHeld(q, h)
    BY <1>4, <1>7, MovedIs
  <2>2. Holds(c, q)
    <3>1. drafts'[i] = d /\ q.base = h.base
      BY <1>1, <1>2, <1>3, <2>1, PutDone DEF SameHeld, WasPut
    <3> QED BY <1>4, <3>1, PutHolds
  <2>3. Turns(q) /\ CanSend(q) /\ call[c].kind # "ingest"
    BY <1>4, <1>5, <2>1 DEF Turns, CanSend, SameHeld, HasPut
  <2> QED BY <1>1, <1>2, <1>3, <1>6, <2>2, <2>3, QueueAnswers, Zenon
<1>8. CASE d.state \in Open
  <2>1. q = NoCall
    BY <1>8
  <2>2. Holds(c, q) /\ CanSend(q) /\ diverted'
    BY <1>1, <1>8, <2>1, NothingHeld
  <2>3. call[c].kind # "ingest"
    BY <1>5
  <2> QED BY <1>1, <1>2, <1>3, <2>2, <2>3, QueueAnswers
<1> QED BY <1>7, <1>8

LEMMA QueueNotifyNext ==
  ASSUME Shape, Queue, NEW c \in Calls, NotifyNext(c)
  PROVE  Queue'
<1> PICK waiting : waiting = {j \in DOMAIN drafts \ open : Waits(drafts[j])}
  OBVIOUS
<1> PICK i : i = First(waiting)
  OBVIOUS
<1> PICK blocked \in BOOLEAN : blocked = (waiting # {} /\ drafts[i].missing = {})
  OBVIOUS
<1>1. /\ At(c, "next") /\ UNCHANGED <<drafts, open, overwritten>>
      /\ call' = [call EXCEPT ![c] = IF waiting = {} \/ blocked THEN NoCall
                                     ELSE HoldingRow("answer", "send", i, drafts[i])]
      /\ diverted' = (diverted \/ blocked)
  BY DEF NotifyNext, queue, histories
<1>2. CallOK(call[c], DOMAIN drafts) /\ call[c].pc = "next" /\ call[c].kind = "answer"
  BY <1>1, CallIs DEF At, CallOK, CallKind, Answering
<1>3. Grow /\ (Asking => Asking')
  BY <1>1, Unwritten
<1>4. \A k : ~ ToValidate(call[c], k) /\ ~ ToAsk(call[c], k)
  BY <1>2, OthersSee
<1>5. CASE waiting = {} \/ blocked
  <2> PICK q : q = NoCall
    OBVIOUS
  <2>1. call' = [call EXCEPT ![c] = q]
    BY <1>1, <1>5
  <2>2. Holds(c, q) /\ CanSend(q)
    BY NothingHeld
  <2>3. ASSUME overwritten' = {}, ~ diverted'
        PROVE  ~ diverted /\ Attended'
    <3>1. waiting = {} /\ ~ diverted /\ Attended
      BY <1>1, <1>5, <2>3 DEF Queue
    <3>2. \A x \in Calls \ {c} : call'[x] = call[x]
      BY <2>1 DEF Shape, CallShape, IsFun
    <3>3. ASSUME NEW k \in DOMAIN drafts, drafts[k].state = "INCOMPLETE"
          PROVE  Covered(k)' /\ Known(k)'
      <4>1. Known(k)
        BY <3>1, <3>3 DEF Attended
      <4>2. CASE Askable(drafts[k])
        <5>1. Waits(drafts[k])
          BY <3>3, <4>2 DEF Waits, Open
        <5>2. k \in open
          BY <3>1, <5>1
        <5>3. Asking
          BY <5>1, <5>2 DEF Asking
        <5>4. Askable(drafts'[k])
          BY <1>1, <4>2
        <5> QED BY <1>3, <5>3, <5>4 DEF Covered, Known
      <4>3. CASE ~ Askable(drafts[k])
        <5>1. PICK x \in Calls : ToValidate(call[x], k)
          BY <4>1, <4>3 DEF Known
        <5>2. x # c
          BY <1>4, <5>1
        <5> QED BY <3>2, <5>1, <5>2 DEF Covered, Known
      <4> QED BY <4>2, <4>3
    <3> QED BY <1>1, <3>1, <3>3 DEF Attended
  <2>4. overwritten \subseteq overwritten'
    BY <1>1
  <2> QED BY <1>3, <2>1, <2>2, <2>3, <2>4, QueueStep
<1>6. CASE waiting # {} /\ ~ blocked
  <2> PICK d : d = drafts[i]
    OBVIOUS
  <2> PICK given : given = {}
    OBVIOUS
  <2> PICK q : q = Single("answer", "send", i, drafts[i], d, given)
    OBVIOUS
  <2>1. call' = [call EXCEPT ![c] = q]
    BY <1>1, <1>6, HeldIsSingle
  <2>2. q.pc = "send" /\ q.kind = "answer" /\ q.todo[q.at] = i /\ Holds(c, q)
    <3>1. drafts' = drafts
      BY <1>1
    <3> QED BY <3>1 DEF Single, Holds
  <2>3. i \in waiting
    <3>1. waiting \subseteq Nat
      <4>1. Len(drafts) \in Nat /\ DOMAIN drafts = 1..Len(drafts)
        BY SeqIs DEF Shape, StoreShape
      <4>2. waiting \subseteq DOMAIN drafts
        OBVIOUS
      <4> QED BY <4>1, <4>2
    <3> QED BY <1>6, <3>1, FirstIs
  <2>4. CanSend(q)
    <3>1. Askable(drafts[i])
      BY <2>3 DEF Waits
    <3> QED BY <1>1, <2>2, <3>1, Zenon DEF CanSend
  <2>5. ASSUME overwritten' = {}, ~ diverted'
        PROVE  ~ diverted /\ Minds(c, q)
    <3>1. Turns(q) /\ ~ diverted
      BY <1>1, <2>2, <2>5 DEF Turns
    <3> QED BY <1>1, <1>4, <3>1 DEF Minds, Sees
  <2>6. overwritten \subseteq overwritten'
    BY <1>1
  <2> QED BY <1>3, <2>1, <2>2, <2>4, <2>5, <2>6, QueueStep
<1> QED BY <1>5, <1>6

LEMMA QueuePutFactsApproved ==
  ASSUME Shape, Queue, NEW c \in Calls, PutFactsApproved(c)
  PROVE  Queue'
<1> PICK i : i = Id(c)
  OBVIOUS
<1> PICK b : b = Row(c)
  OBVIOUS
<1> PICK d : d = Validate(FactsApproved(b))
  OBVIOUS
<1> PICK h : h = Has(call[c], i, d)
  OBVIOUS
<1> PICK q : q = IF call[c].kind = "answer" THEN Onward(h, "next") ELSE NoCall
  OBVIOUS
<1>1. /\ At(c, "put_approved") /\ PutRow(c, i, d) /\ call' = [call EXCEPT ![c] = q]
      /\ diverted' = (diverted \/ Diverts(c, i, d)) /\ open' = open
  BY DEF PutFactsApproved, Onward, queue
<1>2. i \in DOMAIN drafts /\ RowOK(b) /\ b = call[c].base[i]
  BY <1>1, RowIs DEF At
<1>3. RowOK(d) /\ FactsAs(b, d, {})
  <2> PICK a : a = FactsApproved(b)
    OBVIOUS
  <2>1. RowOK(a) /\ FactsAs(b, a, {})
    BY <1>2, FactsApprovedIs
  <2>2. RowOK(d) /\ FactsAs(a, d, {})
    BY <2>1, ValidateIs
  <2> QED BY <2>1, <2>2, FactsAsTwice
<1>4. Knows(c, i, d)
  BY <1>2, <1>3 DEF Knows, FactsAs
<1>5. CallTyped(h) /\ HasPut(h, call[c], i, d)
  BY <1>1, <1>3, CallHasPut DEF At
<1>6. call[c].kind \in {"answer", "approval"} /\ call[c].kind # "ingest"
  BY <1>1, CallIs DEF At, CallOK, CallKind, Approving
<1>7. ~ diverted' /\ d.state = "INCOMPLETE" => drafts[i].state = "INCOMPLETE"
  BY <1>1, <1>6 DEF Diverts
<1>8. CASE call[c].kind = "answer"
  <2>1. q.pc = "next" /\ SameHeld(q, h)
    BY <1>5, <1>8, MovedIs
  <2>2. Holds(c, q)
    <3>1. drafts'[i] = d
      BY <1>1, <1>2, <1>3, PutDone DEF WasPut
    <3>2. q.base = h.base
      BY <2>1 DEF SameHeld
    <3> QED BY <1>5, <3>1, <3>2, PutHolds
  <2>3. Turns(q) /\ CanSend(q)
    BY <1>5, <1>8, <2>1 DEF Turns, CanSend, SameHeld, HasPut
  <2>4. diverted => diverted'
    BY <1>1
  <2> QED BY <1>1, <1>2, <1>3, <1>4, <1>6, <1>7, <2>2, <2>3, <2>4, QueueAnswers
<1>9. CASE call[c].kind # "answer"
  <2>1. Holds(c, q) /\ CanSend(q)
    BY <1>9, NothingHeld
  <2>2. ASSUME ~ diverted'
        PROVE  SeesAll(c, q)
    BY <1>1, <1>2, <1>3, <1>6, <1>7, <2>2, OtherSees
  <2> QED BY <1>1, <1>2, <1>3, <1>4, <1>9, <2>1, <2>2, QueuePut
<1> QED BY <1>8, <1>9

\* The two puts of a resolution.
LEMMA QueueResolves ==
  ASSUME Shape, Queue, NEW c \in Calls, NEW i, i = Id(c), NEW d, d = Row(c), PutRow(c, i, d), Knows(c, i, d),
         At(c, "resolve") \/ At(c, "resolved"), open' = open, diverted' = (diverted \/ Diverts(c, i, d)),
         NEW q, call' = [call EXCEPT ![c] = q], q = NoCall \/ q = Onward(Has(call[c], i, d), "resolved")
  PROVE  Queue'
<1>1. i \in DOMAIN drafts /\ RowOK(d)
  BY RowIs DEF At
<1>2. call[c].kind = "resolution"
  BY CallIs DEF At, CallOK, CallKind, Resolving
<1>3. Holds(c, q) /\ CanSend(q)
  <2>1. CASE q = NoCall
    BY <2>1, NothingHeld
  <2>2. CASE q = Onward(Has(call[c], i, d), "resolved")
    <3> PICK h : h = Has(call[c], i, d)
      OBVIOUS
    <3>1. CallTyped(h) /\ HasPut(h, call[c], i, d)
      BY <1>1, CallHasPut DEF At
    <3>2. q.pc = "resolved" /\ SameHeld(q, h)
      BY <2>2, <3>1, MovedIs
    <3>3. drafts'[i] = d /\ q.base = h.base
      BY <1>1, <3>2, PutDone DEF SameHeld, WasPut
    <3> QED BY <3>1, <3>2, <3>3 DEF HasPut, Holds, CanSend
  <2> QED BY <2>1, <2>2
<1>4. ASSUME ~ diverted'
      PROVE  SeesAll(c, q)
  <2>1. d.state = "INCOMPLETE" => drafts[i].state = "INCOMPLETE"
    BY <1>2, <1>4 DEF Diverts
  <2>2. call[c].kind # "ingest"
    BY <1>2
  <2> QED BY <1>1, <2>1, <2>2, OtherSees
<1>5. call[c].kind # "answer"
  BY <1>2
<1> QED BY <1>1, <1>3, <1>4, <1>5, QueuePut

LEMMA QueuePutResolved ==
  ASSUME Shape, Queue, NEW c \in Calls, PutResolved(c)
  PROVE  Queue'
<1> PICK i : i = Id(c)
  OBVIOUS
<1> PICK d : d = Row(c)
  OBVIOUS
<1> PICK b : b = call[c].base[i]
  OBVIOUS
<1> PICK q : q = Onward(Has(call[c], i, d), "resolved")
  OBVIOUS
<1>1. /\ At(c, "resolve") /\ PutRow(c, i, d) /\ call' = [call EXCEPT ![c] = q]
      /\ diverted' = (diverted \/ Diverts(c, i, d)) /\ open' = open
  BY DEF PutResolved, Onward, queue
<1>2. CallOK(call[c], DOMAIN drafts) /\ call[c].pc = "resolve" /\ call[c].kind = "resolution"
  BY <1>1, CallIs DEF At, CallOK, CallKind, Resolving
<1>3. call[c].todo[1] = i
  <2>1. Len(call[c].todo) = 1 /\ call[c].at \in 1..Len(call[c].todo)
    BY <1>2 DEF CallOK, CallTodo
  <2>2. call[c].at = 1
    BY <2>1
  <2> QED BY <2>2 DEF Id
<1> PICK n \in Cores : \E v \in Answers[n] : Settles(b, d, n, v)
  BY <1>2, <1>3 DEF CallOK, CallPlaced, Row
<1>4. Knows(c, i, d)
  BY DEF Settles, FactsAs, Knows
<1> QED BY <1>1, <1>4, QueueResolves

LEMMA QueuePutResolvedAgain ==
  ASSUME Shape, Queue, NEW c \in Calls, PutResolvedAgain(c)
  PROVE  Queue'
<1> PICK i : i = Id(c)
  OBVIOUS
<1> PICK d : d = Row(c)
  OBVIOUS
<1> PICK q : q = NoCall
  OBVIOUS
<1>1. /\ At(c, "resolved") /\ PutRow(c, i, d) /\ call' = [call EXCEPT ![c] = q]
      /\ diverted' = (diverted \/ Diverts(c, i, d)) /\ open' = open
  BY DEF PutResolvedAgain, Leave, queue
<1>2. d = call[c].base[i]
  BY <1>1, RowIs DEF At
<1>3. Knows(c, i, d)
  BY <1>2 DEF Knows
<1> QED BY <1>1, <1>3, QueueResolves

LEMMA QueueCrash ==
  ASSUME Shape, Queue, NEW c \in Calls, Crash(c)
  PROVE  Queue'
<1> PICK q : q = NoCall
  OBVIOUS
<1>1. call' = [call EXCEPT ![c] = q] /\ diverted' /\ UNCHANGED <<drafts, open, overwritten>>
  BY DEF Crash, Leave, queue, histories
<1>2. Grow
  BY <1>1, Unwritten
<1>3. Holds(c, q) /\ CanSend(q)
  BY NothingHeld
<1>4. overwritten \subseteq overwritten'
  BY <1>1
<1> QED BY <1>1, <1>2, <1>3, <1>4, QueueStep

LEMMA TookIs ==
  ASSUME NEW r, CallTyped(r), r.pc = "merge", NEW i, NEW q, q = Took(r, i)
  PROVE  q.pc \in {"merge", "put"} /\ q.base = r.base /\ q.kind = r.kind /\ q.todo = Append(r.todo, i)
<1> PICK p \in {"merge", "put"} : p = IF Len(r.incoming) = 1 THEN "put" ELSE "merge"
  OBVIOUS
<1>1. q = [r EXCEPT !.incoming = Tail(r.incoming), !.todo = Append(r.todo, i), !.pc = p]
  BY DEF Took
<1> QED BY <1>1 DEF CallTyped

TookOn(q, r, i) ==
  ToValidate(q, i) /\ \A k : r.pc = "merge" /\ ToValidate(r, k) => ToValidate(q, k)

LEMMA TookSees ==
  ASSUME NEW r, CallTyped(r), NEW i, NEW q, q.pc \in {"merge", "put"}, q.todo = Append(r.todo, i)
  PROVE  TookOn(q, r, i)
<1>1. IsSeq(r.todo) /\ Len(r.todo) \in Nat
  BY CallFields, SeqAny
<1>2. /\ Len(q.todo) = Len(r.todo) + 1 /\ q.todo[Len(r.todo) + 1] = i
      /\ \A l \in 1..Len(r.todo) : q.todo[l] = r.todo[l]
  BY <1>1, SeqAppend
<1>3. Len(r.todo) + 1 \in 1..Len(q.todo)
  BY <1>1, <1>2
<1>4. ToValidate(q, i)
  BY <1>2, <1>3 DEF ToValidate
<1>5. ASSUME NEW k, r.pc = "merge", ToValidate(r, k)
      PROVE  ToValidate(q, k)
  <2>1. PICK l \in 1..Len(r.todo) : r.todo[l] = k
    BY <1>5 DEF ToValidate
  <2>2. l \in 1..Len(q.todo) /\ q.todo[l] = k
    BY <1>1, <1>2, <2>1
  <2> QED BY <2>2 DEF ToValidate
<1> QED BY <1>4, <1>5 DEF TookOn

\* The row i of the store is d, and the others are as they were.
NowIs(i, d) ==
  /\ i \in DOMAIN drafts' /\ drafts'[i] = d /\ DOMAIN drafts \subseteq DOMAIN drafts'
  /\ \A k \in DOMAIN drafts' \ {i} : k \in DOMAIN drafts /\ drafts'[k] = drafts[k]

TakesWell ==
  /\ overwritten \subseteq overwritten' /\ (overwritten' = {} => Grow)
  /\ overwritten' = {} /\ ~ diverted' => ~ diverted /\ (Asking => Asking')

LEMMA QueueTakes ==
  ASSUME Shape, Queue, NEW c \in Calls, At(c, "merge"), NEW i, NEW d, RowOK(d), NowIs(i, d), open' = open,
         NEW q, q = Took(Has(call[c], i, d), i), call' = [call EXCEPT ![c] = q],
         TakesWell
  PROVE  Queue'
<1> PICK r : r = call[c]
  OBVIOUS
<1> PICK D : D = DOMAIN drafts
  OBVIOUS
<1> PICK E : E = DOMAIN drafts'
  OBVIOUS
<1> PICK h : h = Has(r, i, d)
  OBVIOUS
<1>1. CallOK(r, D) /\ r.pc = "merge" /\ r.kind = "ingest"
  BY CallIs DEF At, CallOK, CallKind, Ingesting
<1>2. CallTyped(h) /\ HasPut(h, r, i, d)
  <2>1. CallTyped(r) /\ CallHolds(r, D) /\ D \subseteq E /\ i \in E /\ r.pc # "resolve"
    BY <1>1 DEF CallOK, NowIs
  <2>2. CallTyped(h) /\ CallHolds(h, E) /\ HasPut(h, r, i, d)
    BY <2>1, HasIs
  <2> QED BY <2>2
<1>3. q.pc \in {"merge", "put"} /\ q.base = h.base /\ q.kind = h.kind /\ q.todo = Append(h.todo, i)
  BY <1>1, <1>2, TookIs DEF HasPut
<1>4. Holds(c, q)
  BY <1>2, <1>3 DEF HasPut, Holds, NowIs
<1>5. CanSend(q)
  BY <1>3 DEF CanSend
<1>6. ToValidate(q, i) /\ \A k : ToValidate(r, k) => ToValidate(q, k)
  <2>1. CallTyped(r) /\ q.pc \in {"merge", "put"} /\ q.todo = Append(r.todo, i)
    BY <1>1, <1>2, <1>3 DEF CallOK, HasPut
  <2>2. TookOn(q, r, i)
    BY <2>1, TookSees
  <2> QED BY <1>1, <2>2 DEF TookOn
<1>7. ASSUME NEW k \in DOMAIN drafts', drafts'[k].state = "INCOMPLETE"
      PROVE  Sees(c, q, k)
  <2>1. CASE ToValidate(q, k)
    BY <2>1 DEF Sees
  <2>2. CASE ~ ToValidate(q, k)
    <3>1. k # i /\ ~ ToValidate(r, k) /\ ~ ToAsk(r, k)
      BY <1>1, <1>6, <2>2 DEF ToAsk
    <3>2. k \in DOMAIN drafts /\ drafts[k].state = "INCOMPLETE"
      BY <1>7, <3>1 DEF NowIs
    <3> QED BY <3>1, <3>2 DEF Sees
  <2> QED BY <2>1, <2>2
<1>8. ~ Turns(call[c])
  BY <1>1 DEF Turns
<1>9. overwritten' = {} /\ ~ diverted' => ~ diverted /\ Minds(c, q)
  BY <1>7, <1>8 DEF Minds, TakesWell
<1>10. overwritten \subseteq overwritten' /\ (overwritten' = {} => Grow)
  BY DEF TakesWell
<1> QED BY <1>4, <1>5, <1>9, <1>10, QueueStep

\* A draft of the file is merged with the row i that c holds as b.
Merges(c, in, i, b, d, q) ==
  /\ b = call[c].base[i] /\ d = MergedDraft(b, in) /\ PutRow(c, i, d)
  /\ q = Took(Has(call[c], i, d), i) /\ call' = [call EXCEPT ![c] = q]
  /\ open' = open /\ diverted' = (diverted \/ Diverts(c, i, d))

LEMMA QueueMerged ==
  ASSUME Shape, Queue, NEW c \in Calls, At(c, "merge"), NEW in, NewOK(in), NEW i \in DOMAIN drafts,
         NEW b, RowOK(b), NEW d, NEW q, Merges(c, in, i, b, d, q)
  PROVE  Queue'
<1>1. /\ b = call[c].base[i] /\ d = MergedDraft(b, in) /\ PutRow(c, i, d)
      /\ q = Took(Has(call[c], i, d), i) /\ call' = [call EXCEPT ![c] = q]
      /\ open' = open /\ diverted' = (diverted \/ Diverts(c, i, d))
  BY DEF Merges
<1>2. RowOK(d) /\ DOMAIN d.facts = DOMAIN b.facts \cup DOMAIN in.facts
  BY <1>1, MergedIs
<1>3. NowIs(i, d)
  <2>1. i \in DOMAIN drafts /\ RowOK(d) /\ PutRow(c, i, d)
    BY <1>1, <1>2
  <2>2. WasPut(i, d)
    BY <2>1, PutDone
  <2> QED BY <2>2 DEF NowIs, WasPut
<1>4. ASSUME overwritten' = {}
      PROVE  Grow
  BY <1>1, <1>2, <1>4, GrowPut
<1>5. call[c].kind # "answer"
  BY CallIs DEF At, CallOK, CallKind, Ingesting
<1>6. ASSUME overwritten' = {}, ~ diverted'
      PROVE  ~ diverted /\ (Asking => Asking')
  BY <1>1, <1>2, <1>4, <1>5, <1>6, AskingPut
<1>7. overwritten \subseteq overwritten'
  BY <1>1, OverwrittenGrows
<1>8. TakesWell
  BY <1>4, <1>6, <1>7 DEF TakesWell
<1>9. /\ At(c, "merge") /\ RowOK(d) /\ NowIs(i, d) /\ open' = open
       /\ q = Took(Has(call[c], i, d), i) /\ call' = [call EXCEPT ![c] = q] /\ TakesWell
  BY <1>1, <1>2, <1>3, <1>8, Zenon
<1> QED BY <1>9, QueueTakes

LEMMA QueueMerge ==
  ASSUME Shape, Queue, NEW c \in Calls, Merge(c)
  PROVE  Queue'
<1>1. At(c, "merge") /\ open' = open
  BY Zenon DEF Merge, queue
<1>2. PICK in, i, b, d : Merging(c, in, i, b, d)
  BY MergeIs
<1> PICK q : q = Took(Has(call[c], i, d), i)
  BY Zenon
<1>3. /\ PutRow(c, i, d) /\ call' = [call EXCEPT ![c] = q]
      /\ diverted' = (diverted \/ Diverts(c, i, d))
  BY <1>2 DEF Merging, MergeWith
<1>4. /\ NewOK(in) /\ i \in DOMAIN drafts /\ RowOK(b) /\ b = call[c].base[i]
      /\ d = MergedDraft(b, in)
  BY <1>2 DEF Merging
<1>5. Merges(c, in, i, b, d, q)
  BY <1>1, <1>3, <1>4 DEF Merges
<1> QED BY <1>1, <1>4, <1>5, QueueMerged

LEMMA QueueCreate ==
  ASSUME Shape, Queue, NEW c \in Calls, Create(c)
  PROVE  Queue'
<1>1. At(c, "merge") /\ UNCHANGED <<open, overwritten, diverted>>
  BY DEF Create, queue
<1> PICK identity \in Identities(Head(call[c].incoming), call[c].mine) :
       LET in == [Head(call[c].incoming) EXCEPT !.status = identity.status, !.key = identity.key]
           i == Len(drafts) + 1
       IN /\ drafts' = Append(drafts, in)
          /\ call' = [call EXCEPT ![c] = Took(Has(@, i, in), i)]
  BY DEF Create
<1> PICK in : in = [Head(call[c].incoming) EXCEPT !.status = identity.status, !.key = identity.key]
  OBVIOUS
<1> PICK i : i = Len(drafts) + 1
  OBVIOUS
<1> PICK q : q = Took(Has(call[c], i, in), i)
  OBVIOUS
<1>2. drafts' = Append(drafts, in) /\ call' = [call EXCEPT ![c] = q]
  OBVIOUS
<1>3. RowOK(in)
  <2>1. NewOK(in)
    BY <1>1, IncomingIs
  <2> QED BY <2>1 DEF NewOK
<1>4. IsSeq(drafts) /\ Len(drafts) \in Nat /\ DOMAIN drafts = 1..Len(drafts)
  BY SeqIs DEF Shape, StoreShape
<1>5. /\ IsSeq(drafts') /\ Len(drafts') = i /\ drafts'[i] = in
      /\ \A k \in 1..Len(drafts) : drafts'[k] = drafts[k]
  BY <1>2, <1>4, SeqAppend
<1>6. DOMAIN drafts' = 1..i /\ i \in 1..i /\ \A k \in 1..i : k = i \/ k \in 1..Len(drafts)
  BY <1>4, <1>5, SeqIs
<1>7. DOMAIN drafts \subseteq DOMAIN drafts'
  BY <1>4, <1>6
<1>8. NowIs(i, in)
  BY <1>4, <1>5, <1>6, <1>7 DEF NowIs
<1>9. Grow
  BY <1>4, <1>5, <1>7 DEF Grow
<1>10. Asking => Asking'
  <2>1. ASSUME NEW j \in open, Waits(drafts[j])
        PROVE  Asking'
    <3>1. j \in DOMAIN drafts
      BY DEF Shape, StoreShape
    <3>2. Waits(drafts'[j])
      BY <1>4, <1>5, <2>1, <3>1
    <3> QED BY <1>1, <3>2 DEF Asking
  <2> QED BY <2>1 DEF Asking
<1>11. overwritten \subseteq overwritten' /\ open' = open /\ (~ diverted' => ~ diverted)
  BY <1>1
<1>12. TakesWell
  BY <1>9, <1>10, <1>11 DEF TakesWell
<1>13. /\ At(c, "merge") /\ RowOK(in) /\ NowIs(i, in) /\ open' = open
       /\ q = Took(Has(call[c], i, in), i) /\ call' = [call EXCEPT ![c] = q] /\ TakesWell
  BY <1>1, <1>2, <1>3, <1>8, <1>12
<1> QED BY <1>13, QueueTakes

\* q still validates and asks about what r did, but perhaps not about i.
WentOn(q, r, i) ==
  \A k : k # i => (ToValidate(r, k) => ToValidate(q, k)) /\ (ToAsk(r, k) => ToAsk(q, k))

LEMMA HasOn ==
  ASSUME NEW r, NEW D, CallOK(r, D), r.pc # "resolve", NEW i, NEW d, NEW h, HasPut(h, r, i, d)
  PROVE  WentOn(h, r, i)
<1>1. h.pc = r.pc /\ h.todo = r.todo /\ h.at = r.at /\ h.kind = r.kind
  BY DEF HasPut
<1>2. r.mine = r.base
  BY DEF CallOK, CallHolds
<1>3. \A k \in DOMAIN r.mine : k # i => k \in DOMAIN h.mine /\ h.mine[k] = r.mine[k]
  BY <1>2 DEF HasPut
<1>4. ASSUME NEW k, k # i, ToAsk(r, k)
      PROVE  ToAsk(h, k)
  BY <1>1, <1>3, <1>4 DEF ToAsk
<1>5. ASSUME NEW k, ToValidate(r, k)
      PROVE  ToValidate(h, k)
  BY <1>1, <1>5 DEF ToValidate
<1> QED BY <1>4, <1>5 DEF WentOn

LEMMA OnAgain ==
  ASSUME NEW p, NEW q, NEW r, NEW i, WentOn(q, r, i), WentOn(p, q, i)
  PROVE  WentOn(p, r, i)
BY DEF WentOn

LEMMA PutOn ==
  ASSUME NEW h, CallTyped(h), h.pc = "put", NEW q, Turned(q, h, "validate"), NEW k, ToValidate(h, k)
  PROVE  ToValidate(q, k)
<1>1. PICK l \in 1..Len(h.todo) : h.todo[l] = k
  BY DEF ToValidate
<1>2. q.todo = h.todo /\ (q.pc = "put" \/ (q.pc = "validate" /\ q.at = 1))
  BY DEF Turned, SameHeld
<1> QED BY <1>1, <1>2 DEF ToValidate

LEMMA ValidatedOn ==
  ASSUME NEW h, CallTyped(h), h.pc = "validate", h.kind = "ingest", h.at \in 1..Len(h.todo),
         NEW i, i = h.todo[h.at], NEW q, Turned(q, h, "handle")
  PROVE  WentOn(q, h, i) /\ (h.mine[i].state = "INCOMPLETE" => ToAsk(q, i))
<1>1. Len(h.todo) \in Nat /\ h.at \in Nat /\ i \in DOMAIN h.mine
  BY CallFields
<1>2. /\ SameHeld(q, h)
      /\ \/ h.at < Len(h.todo) /\ q.pc = "validate" /\ q.at = h.at + 1
         \/ h.at = Len(h.todo) /\ q.pc = "handle" /\ q.at = 1
  BY <1>1 DEF Turned
<1>3. ASSUME NEW l \in 1..h.at, h.todo[l] \in DOMAIN h.mine, h.mine[h.todo[l]].state = "INCOMPLETE"
      PROVE  ToAsk(q, h.todo[l])
  <2>1. CASE h.at < Len(h.todo) /\ q.pc = "validate" /\ q.at = h.at + 1
    <3>1. l \in 1..(q.at - 1)
      BY <1>1, <2>1
    <3> QED BY <1>2, <1>3, <2>1, <3>1 DEF ToAsk, SameHeld
  <2>2. CASE h.at = Len(h.todo) /\ q.pc = "handle" /\ q.at = 1
    <3>1. l \in q.at..Len(q.todo)
      BY <1>1, <1>2, <2>2 DEF SameHeld
    <3> QED BY <1>2, <1>3, <2>2, <3>1 DEF ToAsk, SameHeld
  <2> QED BY <1>2, <2>1, <2>2
<1>4. ASSUME NEW k, k # i, ToAsk(h, k)
      PROVE  ToAsk(q, k)
  <2>1. PICK l \in 1..(h.at - 1) : h.todo[l] = k
    BY <1>4 DEF ToAsk
  <2>2. l \in 1..h.at
    BY <1>1
  <2>3. k \in DOMAIN h.mine /\ h.mine[k].state = "INCOMPLETE"
    BY <1>4 DEF ToAsk
  <2> QED BY <1>3, <2>1, <2>2, <2>3
<1>5. ASSUME NEW k, k # i, ToValidate(h, k)
      PROVE  ToValidate(q, k)
  <2>1. PICK l \in h.at..Len(h.todo) : h.todo[l] = k
    BY <1>5 DEF ToValidate
  <2>2. l # h.at
    BY <1>5, <2>1
  <2>3. h.at < Len(h.todo) /\ l \in (h.at + 1)..Len(h.todo)
    BY <1>1, <2>2
  <2>4. q.pc = "validate" /\ q.at = h.at + 1 /\ q.todo = h.todo
    BY <1>1, <1>2, <2>3 DEF SameHeld
  <2> QED BY <2>1, <2>3, <2>4 DEF ToValidate
<1>6. h.mine[i].state = "INCOMPLETE" => ToAsk(q, i)
  <2>1. h.at \in 1..h.at
    BY <1>1
  <2> QED BY <1>1, <1>3, <2>1
<1> QED BY <1>4, <1>5, <1>6 DEF WentOn

LEMMA HandledOn ==
  ASSUME NEW h, CallTyped(h), h.pc \in {"handle", "ask", "send"}, h.kind = "ingest", h.at \in 1..Len(h.todo),
         NEW i, i = h.todo[h.at], NEW q,
         \/ Turned(q, h, "idle") /\ h.pc = "handle"
         \/ q.pc \in {"handle", "ask", "send"} /\ q.at = h.at /\ SameHeld(q, h)
  PROVE  WentOn(q, h, i)
<1>1. Len(h.todo) \in Nat /\ h.at \in Nat
  BY CallFields
<1>2. ASSUME NEW k, k # i, ToAsk(h, k)
      PROVE  ToAsk(q, k)
  <2>1. PICK l \in h.at..Len(h.todo) : h.todo[l] = k
    BY <1>2 DEF ToAsk
  <2>2. l # h.at
    BY <1>2, <2>1
  <2>3. h.at < Len(h.todo) /\ l \in (h.at + 1)..Len(h.todo)
    BY <1>1, <2>2
  <2>4. q.pc \in {"handle", "ask", "send"} /\ SameHeld(q, h) /\ q.at \in {h.at, h.at + 1}
    BY <2>3 DEF Turned
  <2>5. l \in q.at..Len(q.todo)
    BY <1>1, <2>3, <2>4 DEF SameHeld
  <2> QED BY <1>2, <2>1, <2>4, <2>5 DEF ToAsk, SameHeld
<1>3. \A k : ~ ToValidate(h, k)
  BY DEF ToValidate
<1> QED BY <1>2, <1>3 DEF WentOn

\* A call that ingests has put d, and still sees to it when it is incomplete.
LEMMA IngestSees ==
  ASSUME Shape, NEW c \in Calls, NEW q, NEW i \in DOMAIN drafts, NEW d, RowOK(d), PutRow(c, i, d),
         WentOn(q, call[c], i), d.state = "INCOMPLETE" => Askable(d) /\ ToAsk(q, i)
  PROVE  SeesAll(c, q)
<1>1. /\ DOMAIN drafts' = DOMAIN drafts /\ drafts'[i] = d
      /\ \A k \in DOMAIN drafts \ {i} : drafts'[k] = drafts[k]
  BY PutDone DEF WasPut
<1>2. ASSUME NEW k \in DOMAIN drafts', drafts'[k].state = "INCOMPLETE"
      PROVE  Sees(c, q, k)
  <2>1. CASE k = i
    BY <1>1, <1>2, <2>1 DEF Sees
  <2>2. CASE k # i
    <3>1. k \in DOMAIN drafts /\ drafts[k].state = "INCOMPLETE"
      BY <1>1, <1>2, <2>2
    <3>2. /\ ToValidate(call[c], k) => ToValidate(q, k)
          /\ ToAsk(call[c], k) => ToAsk(q, k)
      BY <2>2 DEF WentOn
    <3> QED BY <3>1, <3>2 DEF Sees
  <2> QED BY <2>1, <2>2
<1> QED BY <1>2 DEF SeesAll

LEMMA IncompleteIsKnown ==
  ASSUME NEW d, Checked(d), d.state = "INCOMPLETE"
  PROVE  Askable(d)
BY DEF Checked, Askable

LEMMA StillAsks ==
  ASSUME NEW h, CallTyped(h), h.kind = "ingest", h.at \in 1..Len(h.todo),
         h.mine[h.todo[h.at]].state = "INCOMPLETE",
         NEW q, q.pc \in {"handle", "ask", "send"}, q.at = h.at, SameHeld(q, h)
  PROVE  ToAsk(q, h.todo[h.at])
<1> PICK i : i = h.todo[h.at]
  OBVIOUS
<1>1. Len(h.todo) \in Nat /\ h.at \in Nat /\ i \in DOMAIN h.mine
  BY CallFields
<1>2. h.at \in q.at..Len(q.todo) /\ q.todo[h.at] = i
  BY <1>1 DEF SameHeld
<1> QED BY <1>1, <1>2 DEF ToAsk, SameHeld

LEMMA QueuePutRecommended ==
  ASSUME Shape, Queue, NEW c \in Calls, PutRecommended(c)
  PROVE  Queue'
<1> PICK i : i = Id(c)
  OBVIOUS
<1> PICK d : d = Row(c)
  OBVIOUS
<1> PICK h : h = Has(call[c], i, d)
  OBVIOUS
<1> PICK q : q = Turn(h, "validate")
  OBVIOUS
<1>1. /\ At(c, "put") /\ PutRow(c, i, d) /\ call' = [call EXCEPT ![c] = q]
      /\ diverted' = (diverted \/ Diverts(c, i, d)) /\ open' = open
  BY DEF PutRecommended, queue
<1>2. i \in DOMAIN drafts /\ RowOK(d) /\ d = call[c].base[i]
  BY <1>1, RowIs DEF At
<1>3. CallTyped(h) /\ HasPut(h, call[c], i, d)
  BY <1>1, <1>2, CallHasPut DEF At
<1>4. Turned(q, h, "validate") /\ h.pc = "put"
  BY <1>1, <1>3, TurnIs DEF HasPut, At
<1>5. q.base = h.base /\ q.pc \in {"put", "validate"}
  BY <1>4 DEF Turned, SameHeld
<1>6. Holds(c, q) /\ CanSend(q)
  <2>1. drafts'[i] = d
    BY <1>1, <1>2, PutDone DEF WasPut
  <2> QED BY <1>3, <1>5, <2>1 DEF HasPut, Holds, CanSend
<1>7. ASSUME overwritten' = {}
      PROVE  SeesAll(c, q)
  <2>1. drafts' = drafts
    BY <1>1, <1>2, <1>7, SamePut
  <2>2. ASSUME NEW k, ToValidate(call[c], k)
        PROVE  ToValidate(q, k)
    <3>1. ToValidate(h, k)
      BY <1>3, <2>2 DEF HasPut, ToValidate
    <3> QED BY <1>3, <1>4, <3>1, PutOn
  <2>3. \A k : ~ ToAsk(call[c], k)
    BY <1>1 DEF ToAsk, At
  <2> QED BY <2>1, <2>2, <2>3 DEF SeesAll, Sees
<1>8. Knows(c, i, d) /\ call[c].kind # "answer"
  BY <1>1, <1>2, CallIs DEF Knows, At, CallOK, CallKind, Ingesting
<1> QED BY <1>1, <1>2, <1>6, <1>7, <1>8, QueuePut

LEMMA QueuePutValidated ==
  ASSUME Shape, Queue, NEW c \in Calls, PutValidated(c)
  PROVE  Queue'
<1> PICK i : i = Id(c)
  OBVIOUS
<1> PICK b : b = Row(c)
  OBVIOUS
<1> PICK d : d = Validate(b)
  OBVIOUS
<1> PICK h : h = Has(call[c], i, d)
  OBVIOUS
<1> PICK q : q = Turn(h, "handle")
  OBVIOUS
<1>1. /\ At(c, "validate") /\ PutRow(c, i, d) /\ call' = [call EXCEPT ![c] = q]
      /\ diverted' = (diverted \/ Diverts(c, i, d)) /\ open' = open
  BY DEF PutValidated, queue
<1>2. i \in DOMAIN drafts /\ RowOK(b) /\ b = call[c].base[i] /\ call[c].at \in 1..Len(call[c].todo)
  BY <1>1, RowIs DEF At
<1>3. RowOK(d) /\ Checked(d) /\ Knows(c, i, d)
  BY <1>2, ValidateIs DEF Knows, FactsAs
<1>4. CallTyped(h) /\ HasPut(h, call[c], i, d)
  BY <1>1, <1>3, CallHasPut DEF At
<1>5. CallOK(call[c], DOMAIN drafts) /\ call[c].kind = "ingest" /\ call[c].kind # "answer"
      /\ call[c].pc = "validate"
  BY <1>1, CallIs, Zenon DEF At, CallOK, CallKind, Ingesting
<1>6. Turned(q, h, "handle") /\ h.pc = "validate" /\ h.kind = "ingest"
      /\ h.at \in 1..Len(h.todo) /\ i = h.todo[h.at] /\ h.mine[i] = d
  BY <1>2, <1>4, <1>5, TurnIs, Zenon DEF HasPut, Id
<1>7. WentOn(q, h, i) /\ (d.state = "INCOMPLETE" => ToAsk(q, i))
  BY <1>4, <1>6, ValidatedOn, Zenon
<1>8. WentOn(q, call[c], i)
  <2>1. WentOn(h, call[c], i)
    BY <1>4, <1>5, HasOn
  <2> QED BY <1>7, <2>1, OnAgain
<1>9. SeesAll(c, q)
  <2>1. d.state = "INCOMPLETE" => Askable(d) /\ ToAsk(q, i)
    BY <1>3, <1>7, IncompleteIsKnown
  <2> QED BY <1>1, <1>2, <1>3, <1>8, <2>1, IngestSees
<1>10. Holds(c, q) /\ CanSend(q)
  <2>1. drafts'[i] = d
    BY <1>1, <1>2, <1>3, PutDone, Zenon DEF WasPut
  <2>2. q.base = h.base /\ q.pc \in {"validate", "handle"}
    BY <1>6, Zenon DEF Turned, SameHeld
  <2> QED BY <1>4, <2>1, <2>2 DEF HasPut, Holds, CanSend
<1> QED BY <1>1, <1>2, <1>3, <1>5, <1>9, <1>10, QueuePut

\* The AI has filled a gap of the row i, which is now d.
Fills(c, i, d, q) ==
  /\ i = Id(c) /\ At(c, "handle") /\ PutRow(c, i, d) /\ open' = open
  /\ diverted' = (diverted \/ Diverts(c, i, d)) /\ call' = [call EXCEPT ![c] = q]
  /\ q = IF d.state = "INCOMPLETE" THEN Onward(Has(call[c], i, d), "ask")
         ELSE Turn(Has(call[c], i, d), "idle")

LEMMA QueueFilled ==
  ASSUME Shape, Queue, NEW c \in Calls, NEW i, NEW d, NEW n, NEW q, Fills(c, i, d, q),
         Told(Row(c), d, n, AiText, "ai")
  PROVE  Queue'
<1> PICK b : b = Row(c)
  OBVIOUS
<1> PICK h : h = Has(call[c], i, d)
  OBVIOUS
<1>1. /\ PutRow(c, i, d) /\ call' = [call EXCEPT ![c] = q] /\ diverted' = (diverted \/ Diverts(c, i, d))
      /\ q = IF d.state = "INCOMPLETE" THEN Onward(h, "ask") ELSE Turn(h, "idle")
  BY DEF Fills
<1>2. i = Id(c) /\ At(c, "handle") /\ open' = open
  BY DEF Fills
<1>3. i \in DOMAIN drafts /\ RowOK(b) /\ b = call[c].base[i] /\ call[c].at \in 1..Len(call[c].todo)
  BY <1>2, RowIs DEF At
<1>4. RowOK(d) /\ Askable(d) /\ Knows(c, i, d)
  BY <1>3 DEF Told, FactsAs, Askable, Knows
<1>5. CallTyped(h) /\ HasPut(h, call[c], i, d)
  BY <1>2, <1>4, CallHasPut DEF At
<1>6. CallOK(call[c], DOMAIN drafts) /\ call[c].kind = "ingest" /\ call[c].kind # "answer"
      /\ call[c].pc = "handle"
  BY <1>2, CallIs, Zenon DEF At, CallOK, CallKind, Ingesting
<1>7. h.pc = "handle" /\ h.kind = "ingest" /\ h.at \in 1..Len(h.todo) /\ i = h.todo[h.at] /\ h.mine[i] = d
      /\ i \in DOMAIN h.mine
  BY <1>2, <1>3, <1>5, <1>6, Zenon DEF HasPut, Id
<1>8. WentOn(h, call[c], i)
  BY <1>5, <1>6, HasOn
<1>9. drafts'[i] = d
  <2>1. i \in DOMAIN drafts /\ RowOK(d) /\ PutRow(c, i, d)
    BY <1>1, <1>3, <1>4
  <2>2. WasPut(i, d)
    BY <2>1, PutDone
  <2> QED BY <2>2 DEF WasPut
<1>10. CASE d.state = "INCOMPLETE"
  <2>1. q.pc = "ask" /\ q.at = h.at /\ SameHeld(q, h)
    BY <1>1, <1>5, <1>10, MovedIs
  <2>2. WentOn(q, h, i)
    BY <1>5, <1>7, <2>1, HandledOn, Zenon
  <2>3. WentOn(q, call[c], i)
    BY <1>8, <2>2, OnAgain, Zenon
  <2>4. ToAsk(q, i)
    <3>1. /\ CallTyped(h) /\ h.kind = "ingest" /\ h.at \in 1..Len(h.todo)
          /\ h.mine[h.todo[h.at]].state = "INCOMPLETE"
          /\ q.pc \in {"handle", "ask", "send"} /\ q.at = h.at /\ SameHeld(q, h)
      BY <1>5, <1>7, <1>10, <2>1, Zenon
    <3>2. ToAsk(q, h.todo[h.at])
      BY <3>1, StillAsks
    <3> QED BY <1>7, <3>2, Zenon
  <2>5. SeesAll(c, q)
    BY <1>1, <1>3, <1>4, <2>3, <2>4, IngestSees
  <2>6. Holds(c, q) /\ CanSend(q)
    <3>1. q.base = h.base /\ q.todo[q.at] = i
      BY <1>7, <2>1 DEF SameHeld
    <3>2. Holds(c, q)
      BY <1>5, <1>9, <3>1, PutHolds
    <3>3. CanSend(q)
      BY <1>4, <1>9, <3>1 DEF CanSend
    <3> QED BY <3>2, <3>3
  <2> QED BY <1>1, <1>2, <1>3, <1>4, <1>6, <2>5, <2>6, QueuePut
<1>11. CASE d.state # "INCOMPLETE"
  <2>1. Turned(q, h, "idle")
    BY <1>1, <1>5, <1>11, TurnIs, Zenon
  <2>2. WentOn(q, h, i)
    BY <1>5, <1>7, <2>1, HandledOn, Zenon
  <2>3. WentOn(q, call[c], i)
    BY <1>8, <2>2, OnAgain
  <2>4. SeesAll(c, q)
    BY <1>1, <1>3, <1>4, <1>11, <2>3, IngestSees
  <2>5. Holds(c, q) /\ CanSend(q)
    <3>1. CASE q = NoCall
      BY <3>1, NothingHeld
    <3>2. CASE q # NoCall
      <4>1. q.base = h.base /\ q.pc = "handle"
        BY <1>7, <2>1, <3>2 DEF Turned, SameHeld
      <4>2. Holds(c, q)
        BY <1>5, <1>9, <4>1, PutHolds
      <4> QED BY <4>1, <4>2 DEF CanSend
    <3> QED BY <3>1, <3>2
  <2> QED BY <1>1, <1>2, <1>3, <1>4, <1>6, <2>4, <2>5, QueuePut
<1> QED BY <1>10, <1>11

LEMMA QueueFillByAi ==
  ASSUME Shape, Queue, NEW c \in Calls, FillByAi(c)
  PROVE  Queue'
<1> PICK i : i = Id(c)
  OBVIOUS
<1> PICK b : b = Row(c)
  OBVIOUS
<1> PICK n \in b.missing \cap AiFillable :
       LET d == Validate(Supplied(b, n, AiText, "ai")) IN
       /\ PutRow(c, i, d)
       /\ diverted' = (diverted \/ Diverts(c, i, d))
       /\ call' = [call EXCEPT ![c] = IF d.state = "INCOMPLETE"
            THEN Onward(Has(call[c], i, d), "ask") ELSE Turn(Has(call[c], i, d), "idle")]
  BY DEF FillByAi, Onward
<1> PICK d : d = Validate(Supplied(b, n, AiText, "ai"))
  OBVIOUS
<1> PICK q : q = IF d.state = "INCOMPLETE" THEN Onward(Has(call[c], i, d), "ask")
                  ELSE Turn(Has(call[c], i, d), "idle")
  OBVIOUS
<1>1. At(c, "handle") /\ AiText # None /\ n = "text" /\ open' = open
  BY DEF FillByAi, AiFillable, queue
<1>2. Fills(c, i, d, q)
  BY <1>1 DEF Fills
<1>3. Told(Row(c), d, n, AiText, "ai")
  <2>1. n \in Cores /\ n # "price"
    BY <1>1 DEF Cores
  <2>2. RowOK(b)
    BY <1>1, RowIs DEF At
  <2> QED BY <1>1, <2>1, <2>2, ToldIs
<1> QED BY <1>2, <1>3, QueueFilled

\* A call at one of its drafts goes on without a put.
GoesOn(c, q) ==
  /\ UNCHANGED drafts /\ open \subseteq open' /\ call' = [call EXCEPT ![c] = q] /\ overwritten' = overwritten
  /\ q = NoCall \/ SameHeld(q, call[c])

LEMMA QueueGoesOn ==
  ASSUME Shape, Queue, NEW c \in Calls, NEW q, GoesOn(c, q), call[c].pc \in {"handle", "ask", "send"},
         overwritten' = {} => CanSend(q), diverted => diverted',
         ~ diverted' /\ Turns(call[c]) => Asking',
         overwritten' = {} /\ ~ diverted' => \A k : ToAsk(call[c], k) => ToAsk(q, k) \/ Asking'
  PROVE  Queue'
<1>1. /\ drafts' = drafts /\ open \subseteq open' /\ call' = [call EXCEPT ![c] = q]
      /\ overwritten' = overwritten /\ (q = NoCall \/ SameHeld(q, call[c]))
  BY DEF GoesOn
<1>2. Grow
  BY <1>1, Unwritten
<1>3. Asking => Asking'
  BY <1>1 DEF Asking
<1>4. Holds(c, q)
  <2>1. CASE q = NoCall
    BY <2>1, NothingHeld
  <2>2. CASE SameHeld(q, call[c])
    BY <2>2 DEF SameHeld, Holds
  <2> QED BY <1>1, <2>1, <2>2
<1>5. \A k : ~ ToValidate(call[c], k)
  BY IdleSees
<1>6. ASSUME overwritten' = {}, ~ diverted'
      PROVE  ~ diverted /\ Minds(c, q)
  <2>1. SeesAll(c, q)
    BY <1>1, <1>5, <1>6 DEF SeesAll, Sees
  <2> QED BY <1>3, <1>6, <2>1 DEF Minds, SeesAll
<1>7. overwritten \subseteq overwritten'
  BY <1>1
<1> QED BY <1>1, <1>2, <1>4, <1>6, <1>7, QueueStep

\* What a call holds of an incomplete draft, the store knows as well.
LEMMA StillAskable ==
  ASSUME Shape, Queue, overwritten = {}, NEW c \in Calls, ~ At(c, "idle"), ~ At(c, "merge"), ~ At(c, "resolve"),
         Askable(Row(c))
  PROVE  Askable(drafts[Id(c)])
<1>1. Id(c) \in DOMAIN call[c].base /\ Row(c) = call[c].base[Id(c)]
  BY RowIs
<1>2. DOMAIN call[c].base[Id(c)].facts \subseteq DOMAIN drafts[Id(c)].facts
  BY <1>1 DEF Queue, Grown
<1> QED BY <1>1, <1>2 DEF Askable

LEMMA QueueHandleDraft ==
  ASSUME Shape, Queue, NEW c \in Calls, HandleDraft(c)
  PROVE  Queue'
<1> PICK r : r = call[c]
  OBVIOUS
<1> PICK i : i = Id(c)
  OBVIOUS
<1>1. CallOK(r, DOMAIN drafts) /\ r.pc = "handle" /\ r.kind = "ingest" /\ CallTyped(r)
  BY CallIs DEF HandleDraft, At, CallOK, CallKind, Ingesting
<1>2. UNCHANGED <<drafts, open, overwritten, diverted>>
  BY DEF HandleDraft, queue, histories
<1>3. r.at \in 1..Len(r.todo) /\ i = r.todo[r.at] /\ i \in DOMAIN r.mine /\ Row(c) = r.mine[i]
  BY <1>1, RowIs DEF At, Id, Row
<1>4. ~ Turns(call[c])
  BY <1>1 DEF Turns
<1>5. CASE Row(c).state = "INCOMPLETE" /\ Askable(Row(c))
  <2> PICK q : q = Onward(r, "ask")
    OBVIOUS
  <2>1. q.pc = "ask" /\ q.at = r.at /\ SameHeld(q, r)
    BY <1>1, MovedIs
  <2>2. GoesOn(c, q)
    <3>1. call' = [call EXCEPT ![c] = q]
      BY <1>5 DEF HandleDraft, Goto, Onward
    <3> QED BY <1>2, <2>1, <3>1 DEF GoesOn
  <2>3. overwritten' = {} => CanSend(q)
    <3>1. overwritten = {} => Askable(drafts[i])
      BY <1>1, <1>5, StillAskable DEF At
    <3>2. q.todo[q.at] = i
      BY <1>3, <2>1 DEF SameHeld
    <3> QED BY <1>2, <3>1, <3>2 DEF CanSend
  <2>4. \A k : ToAsk(r, k) => ToAsk(q, k)
    BY <1>1, <2>1 DEF ToAsk, SameHeld
  <2> QED BY <1>1, <1>2, <1>4, <2>2, <2>3, <2>4, QueueGoesOn
<1>6. CASE ~ (Row(c).state = "INCOMPLETE" /\ Askable(Row(c)))
  <2> PICK q : q = Turn(r, "idle")
    OBVIOUS
  <2>1. Turned(q, r, "idle")
    BY <1>1, TurnIs
  <2>2. GoesOn(c, q)
    <3>1. call' = [call EXCEPT ![c] = q]
      BY <1>6 DEF HandleDraft
    <3> QED BY <1>2, <2>1, <3>1 DEF GoesOn, Turned
  <2>3. CanSend(q)
    <3>1. CASE q = NoCall
      BY <3>1, NothingHeld
    <3>2. CASE q # NoCall
      BY <1>1, <2>1, <3>2 DEF Turned, CanSend
    <3> QED BY <3>1, <3>2
  <2>4. Row(c).state # "INCOMPLETE"
    <3>1. Checked(r.mine[r.todo[r.at]])
      BY <1>1, <1>3 DEF CallOK, CallPlaced
    <3>2. Checked(Row(c))
      BY <1>3, <3>1
    <3> QED BY <1>6, <3>2, IncompleteIsKnown
  <2>5. ~ ToAsk(r, i)
    BY <1>3, <2>4 DEF ToAsk
  <2>6. WentOn(q, r, i)
    BY <1>1, <1>3, <2>1, HandledOn
  <2>7. \A k : ToAsk(r, k) => ToAsk(q, k)
    BY <2>5, <2>6 DEF WentOn
  <2> QED BY <1>1, <1>2, <1>4, <2>2, <2>3, <2>7, QueueGoesOn
<1> QED BY <1>5, <1>6

\* After its question a call is at its next draft, or over.
LEMMA AskedIsOver ==
  ASSUME NEW r, NEW D, CallOK(r, D), r.pc \in {"ask", "send"}, NEW q, q = Turn(Onward(r, "handle"), "idle")
  PROVE  (q = NoCall \/ SameHeld(q, r)) /\ CanSend(q)
<1> PICK h : h = Onward(r, "handle")
  OBVIOUS
<1>1. CallTyped(r)
  BY DEF CallOK
<1>2. h.pc = "handle" /\ h.at = r.at /\ SameHeld(h, r)
  BY <1>1, MovedIs
<1>3. CallTyped(h)
  <2>1. "handle" \in Places
    BY DEF Places, Ingesting
  <2> QED BY <1>1, <2>1 DEF CallTyped, Onward
<1>4. Turned(q, h, "idle")
  BY <1>3, TurnIs
<1>5. CASE q = NoCall
  BY <1>5, NothingHeld
<1>6. CASE q # NoCall
  BY <1>2, <1>4, <1>6 DEF Turned, SameHeld, CanSend
<1> QED BY <1>5, <1>6

LEMMA QueueCheckQueue ==
  ASSUME Shape, Queue, NEW c \in Calls, CheckQueue(c)
  PROVE  Queue'
<1> PICK r : r = call[c]
  OBVIOUS
<1> PICK i : i = Id(c)
  OBVIOUS
<1>1. CallOK(r, DOMAIN drafts) /\ r.pc = "ask" /\ r.kind = "ingest" /\ CallTyped(r)
  BY CallIs DEF CheckQueue, At, CallOK, CallKind, Ingesting
<1>2. UNCHANGED <<drafts, open, overwritten, diverted>>
  BY DEF CheckQueue, queue, histories
<1>3. ~ Turns(call[c])
  BY <1>1 DEF Turns
<1>4. CASE Outstanding(i)
  <2> PICK q : q = Turn(Onward(r, "handle"), "idle")
    OBVIOUS
  <2>1. call' = [call EXCEPT ![c] = q]
    BY <1>4 DEF CheckQueue, Onward
  <2>2. (q = NoCall \/ SameHeld(q, r)) /\ CanSend(q)
    BY <1>1, AskedIsOver
  <2>3. GoesOn(c, q)
    BY <1>2, <2>1, <2>2 DEF GoesOn
  <2>4. Asking'
    BY <1>2, <1>4 DEF Asking, Outstanding
  <2> QED BY <1>1, <1>2, <1>3, <2>2, <2>3, <2>4, QueueGoesOn
<1>5. CASE ~ Outstanding(i)
  <2> PICK q : q = Onward(r, "send")
    OBVIOUS
  <2>1. q.pc = "send" /\ q.at = r.at /\ SameHeld(q, r)
    BY <1>1, MovedIs
  <2>2. GoesOn(c, q)
    <3>1. call' = [call EXCEPT ![c] = q]
      BY <1>5 DEF CheckQueue, Goto, Onward
    <3> QED BY <1>2, <2>1, <3>1 DEF GoesOn
  <2>3. overwritten' = {} => CanSend(q)
    <3>1. overwritten = {} => Askable(drafts[r.todo[r.at]])
      BY <1>1 DEF Queue, Sendable
    <3> QED BY <1>2, <2>1, <3>1 DEF CanSend, SameHeld
  <2>4. \A k : ToAsk(r, k) => ToAsk(q, k)
    BY <1>1, <2>1 DEF ToAsk, SameHeld
  <2> QED BY <1>1, <1>2, <1>3, <2>2, <2>3, <2>4, QueueGoesOn
<1> QED BY <1>4, <1>5

LEMMA QueueSendQuestion ==
  ASSUME Shape, Queue, NEW c \in Calls, SendQuestion(c)
  PROVE  Queue'
<1> PICK r : r = call[c]
  OBVIOUS
<1> PICK i : i = Id(c)
  OBVIOUS
<1> PICK q : q = Turn(Onward(r, "handle"), "idle")
  OBVIOUS
<1>1. CallOK(r, DOMAIN drafts) /\ r.pc = "send"
  BY CallIs DEF SendQuestion, At
<1>2. /\ UNCHANGED <<drafts, overwritten>> /\ call' = [call EXCEPT ![c] = q]
      /\ \/ open' = open \cup {i} /\ diverted' = (diverted \/ drafts[i].state \notin Open)
         \/ diverted' = TRUE /\ open' = open
  BY DEF SendQuestion, queue, histories, Onward
<1>3. (q = NoCall \/ SameHeld(q, r)) /\ CanSend(q)
  BY <1>1, AskedIsOver
<1>4. GoesOn(c, q)
  BY <1>2, <1>3 DEF GoesOn
<1>5. ASSUME overwritten' = {}, ~ diverted'
      PROVE  Asking'
  <2>1. open' = open \cup {i} /\ drafts[i].state \in Open
    BY <1>2, <1>5
  <2>2. Askable(drafts[i])
    BY <1>1, <1>2, <1>5 DEF Queue, Sendable, Id
  <2> QED BY <1>2, <2>1, <2>2 DEF Asking, Waits
<1>6. diverted => diverted'
  BY <1>2
<1>7. CASE overwritten' = {}
  BY <1>1, <1>3, <1>4, <1>5, <1>6, <1>7, QueueGoesOn
<1>8. CASE overwritten' # {}
  BY <1>8 DEF Queue
<1> QED BY <1>7, <1>8

LEMMA QueueNext ==
  ASSUME Shape, Queue, [CatalogueNext]_catalogueVars
  PROVE  Queue'
<1>1. CASE UNCHANGED catalogueVars
  BY <1>1, QueueUnread DEF catalogueVars, queue, histories
<1>2. ASSUME NEW c \in Calls, BeginIngest(c) \/ BeginAnswer(c) \/ BeginApproval(c) \/ BeginResolution(c)
      PROVE  Queue'
  BY <1>2, QueueBeginIngest, QueueBeginAnswer, QueueBeginApproval, QueueBeginResolution
<1>3. ASSUME NEW c \in Calls, CatalogueStep(c)
      PROVE  Queue'
  BY <1>3, QueueMerge, QueueCreate, QueuePutRecommended, QueuePutValidated, QueueHandleDraft,
     QueueFillByAi, QueueCheckQueue, QueueSendQuestion, QueueReadForField, QueueProvideField,
     QueuePutProvided, QueuePutAnswered, QueueNotifyNext, QueueReadForApproval,
     QueuePutFactsApproved, QueuePutResolved, QueuePutResolvedAgain DEF CatalogueStep
<1>4. ASSUME NEW c \in Calls, Crash(c)
      PROVE  Queue'
  BY <1>4, QueueCrash
<1>5. ASSUME RecordDecision \/ RequireMore
      PROVE  Queue'
  BY <1>5, QueueUnread DEF RecordDecision, RequireMore, queue, histories
<1> QED BY <1>1, <1>2, <1>3, <1>4, <1>5 DEF CatalogueNext

LEMMA QueueShown ==
  ASSUME Shape, Queue
  PROVE  NobodyWaitsUnasked
<1> SUFFICES ASSUME AtRest, ~ diverted, overwritten = {}, NEW i \in DOMAIN drafts,
                    drafts[i].state = "INCOMPLETE"
             PROVE  \E j \in open : Waits(drafts[j])
  BY DEF NobodyWaitsUnasked
<1>1. Covered(i)
  BY DEF Queue, Attended
<1>2. \A c \in Calls : call[c] = NoCall
  BY CallIs DEF AtRest, At, CallOK, CallKind
<1>3. ~ Turning
  BY <1>2 DEF Turning, Turns, NoCall
<1>4. \A c \in Calls : ~ ToValidate(call[c], i) /\ ~ ToAsk(call[c], i)
  BY <1>2, CatalogueAssumption DEF ToValidate, ToAsk, NoCall
<1> QED BY <1>1, <1>3, <1>4 DEF Covered, Asking

LEMMA InitiallyEmpty ==
  ASSUME CatalogueInit
  PROVE  Evidence /\ Lineups /\ Queue
<1>1. DOMAIN drafts = {} /\ overwritten = {} /\ diverted = FALSE /\ crossed = {}
  BY DEF CatalogueInit
<1>2. Evidence /\ Lineups /\ Attended
  BY <1>1 DEF Evidence, Lineups, Attended
<1>3. \A c \in Calls : call[c] = NoCall
  BY DEF CatalogueInit
<1>4. Grown /\ Sendable
  BY <1>3 DEF Grown, Sendable, NoCall
<1> QED BY <1>2, <1>4 DEF Queue

-----------------------------------------------------------------------------
(* The theorems.                                                           *)

\* The four parts of the invariant of the drafts hold together: the shape of the store
\* and of the calls, what a fact says of what was heard, what the variants say of the
\* last revision, and who sees to a draft that waits.
THEOREM CatalogueInvariant ==
  CatalogueSpec => [](Shape /\ Evidence /\ Lineups /\ Queue)
<1> DEFINE Inv == Shape /\ Evidence /\ Lineups /\ Queue
<1>1. CatalogueInit => Inv
  BY ShapeInit, InitiallyEmpty
<1>2. Inv /\ [CatalogueNext]_catalogueVars => Inv'
  BY ShapeNext, EvidenceNext, LineupsNext, QueueNext
<1> QED BY <1>1, <1>2, PTL DEF CatalogueSpec

\* detect_and_merge_fact, resolve_conflict, provide_missing_fact and the AI's filling: whatever the
\* files, their order and the calls that cross, a fact of a draft that no call has put
\* back over another's change is what its sources said, and a dispute is not hidden.
THEOREM FactsReflectEvidenceAlways ==
  CatalogueSpec => []FactsReflectEvidence
<1>1. Shape /\ Evidence => FactsReflectEvidence
  BY EvidenceShown
<1> QED BY <1>1, CatalogueInvariant, PTL

\* reconcile_variant_lifecycle over any number of revisions: the active variants of a
\* draft are those that its last revision gives.
THEOREM ActiveIsTheRevisionAlways ==
  CatalogueSpec => []ActiveIsTheRevision
<1>1. Lineups => ActiveIsTheRevision
  BY LineupsShown
<1> QED BY <1>1, CatalogueInvariant, PTL

\* The queue of questions to the owner: when nothing runs, and nothing went wrong that
\* the property names, an incomplete draft waits for a question that is outstanding.
THEOREM NobodyWaitsUnaskedAlways ==
  CatalogueSpec => []NobodyWaitsUnasked
<1>1. Shape /\ Queue => NobodyWaitsUnasked
  BY QueueShown
<1> QED BY <1>1, CatalogueInvariant, PTL
=============================================================================
