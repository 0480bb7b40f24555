----------------------------- MODULE Publication -----------------------------
(***************************************************************************)
(* One product draft on its way to one storefront: validation and the      *)
(* facts an owner supplies or approves, the publication policy and its     *)
(* approval (packages/product_onboarding/workflow.py, validation.py), the  *)
(* publication with its attempts (publication.py), and the two mutations   *)
(* of the storefront connector that make the product exist and show it.    *)
(*                                                                         *)
(* A draft and a publication are rows that every caller reads, changes and *)
(* puts back whole; a storefront product is looked for by its SKU and then *)
(* set, in two requests; the merchant may delete it there.                 *)
(*                                                                         *)
(* The facts of the draft are one required fact, the price.  Left out:     *)
(* unresolved identities and duplicate SKUs, which the policy refuses like *)
(* a draft that is not READY, exceptions, audit, and the messages to the   *)
(* owner (OwnerConversation).                                              *)
(***************************************************************************)
EXTENDS Integers, Sequences, FiniteSets, Threads

CONSTANTS
  Prices,        \* the prices the sources or an owner may name
  Policies,      \* publication rules, of "always", "category" and "auto"
  OnIngest,      \* product_rules.auto_publish_on_ingest
  MaxFaults      \* bound: deletions, lost answers and deaths

Publications == [status : {"approved", "publishing", "published"}, product : Nat]

ASSUME PublicationAssumption ==
  /\ Prices \subseteq Nat \ {0} /\ Prices # {}
  /\ Policies \subseteq {"always", "category", "auto"}
  /\ OnIngest \in BOOLEAN
  /\ MaxBegun \in Nat \ {0} /\ MaxFaults \in Nat
  /\ None \notin Nat \cup Publications

VARIABLES
  policy,       \* the merchant's publication rule
  draft,        \* the ProductDraft row
  approval,     \* Approval rows of the draft, in order of creation
  publication,  \* None or the Publication row, [status, product]
  attempts,     \* PublicationAttempt rows
  key,          \* idempotency records, [Keys -> [status, result]]
  listing,      \* the storefront: [product -> price]
  shown,        \* the storefront: products on its online sales channel
  made,         \* the storefront: products it ever had are 1..made
  overlapped,   \* history: two publications ran at the same time
  faults

rows == <<draft, approval, publication, attempts>>
store == <<listing, shown, made>>
bounds == <<policy, begun>>
vars == <<policy, rows, key, store, call, overlapped, begun, faults>>

States == {"INCOMPLETE", "CONFLICTED", "NEEDS_APPROVAL", "READY"}
DraftRows == [price : Prices \cup {0}, conflicted : BOOLEAN, approved : BOOLEAN,
              released : BOOLEAN, state : States]
Keys == {"a", "online"} \X (0..MaxBegun)
Free == [status |-> "free", result |-> None]
Idle == [pc |-> "idle", kind |-> None, row |-> None, approval |-> None, pub |-> None,
         key |-> None, product |-> None, claim |-> None, lost |-> FALSE]

TypeOK ==
  /\ policy \in Policies /\ draft \in DraftRows
  /\ approval \in Seq([action : {"facts", "publication"}, status : {"pending", "approved"}])
  /\ publication \in [status : {"approved", "publishing", "published"},
                      product : 0..made] \cup {None}
  /\ attempts \in 0..MaxBegun /\ made \in 0..MaxBegun
  /\ \A k \in Keys : key[k].status \in {"free", "reserved", "completed"}
  /\ DOMAIN listing \subseteq 1..made /\ shown \subseteq 1..made
  /\ overlapped \in BOOLEAN /\ begun \in 0..MaxBegun /\ faults \in 0..MaxFaults

\* ProductCompletenessValidator.validate.
Validated(d) ==
  [d EXCEPT !.state = IF d.conflicted THEN "CONFLICTED"
                      ELSE IF d.price = 0 THEN "INCOMPLETE"
                      ELSE IF ~ d.approved THEN "NEEDS_APPROVAL" ELSE "READY"]

\* approve_extracted_facts leaves what is in conflict alone.
WithFactsApproved(d) == [d EXCEPT !.approved = @ \/ ~ d.conflicted]

Ingested ==
  {Validated(d) : d \in [price : Prices \cup {0}, conflicted : BOOLEAN, approved : {FALSE},
                         released : {FALSE}, state : {"READY"}]}

Init ==
  /\ policy \in Policies
  /\ draft \in {d \in Ingested : d.conflicted => d.price # 0}
  /\ approval = <<>> /\ publication = None /\ attempts = 0
  /\ key = [k \in Keys |-> Free]
  /\ listing = <<>> /\ shown = {} /\ made = 0
  /\ call = [c \in Calls |-> IF c = CHOOSE x \in Calls : TRUE
                             THEN [Idle EXCEPT !.pc = "handle", !.kind = "ingest", !.row = draft]
                             ELSE Idle]
  /\ overlapped = FALSE /\ begun = 1 /\ faults = 0

Holding(c, pc, d) == call' = [call EXCEPT ![c].pc = pc, ![c].row = d]
Return(c) == call' = [call EXCEPT ![c] = Idle]

\* It goes on, with what it has read so far behind it.
Forget(c, pc) ==
  call' = [call EXCEPT ![c] = [Idle EXCEPT !.pc = pc, !.kind = call[c].kind, !.lost = call[c].lost]]

\* An exception ends the call; ingestion falls back on an approval of the facts.
Raise(c) == IF call[c].kind = "ingest" THEN Forget(c, "find_facts") ELSE Return(c)

\* What the call tells its caller, until it is gone.
Claim(c, claim) ==
  call' = [call EXCEPT ![c] = [Idle EXCEPT !.pc = "answered", !.claim = claim,
                                            !.lost = call[c].lost]]

Pending(action) ==
  {i \in DOMAIN approval : approval[i].action = action /\ approval[i].status = "pending"}
PutPending(action) == approval' = Append(approval, [action |-> action, status |-> "pending"])
PutApproved(i) == approval' = [approval EXCEPT ![i].status = "approved"]

-----------------------------------------------------------------------------
(* Ingestion's handling of a validated draft.                              *)

HandleValidatedDraft(c) ==
  /\ At(c, "handle")
  /\ IF call[c].row.state # "NEEDS_APPROVAL" THEN Return(c)
     ELSE Forget(c, IF OnIngest THEN "read_facts" ELSE "find_facts")
  /\ UNCHANGED <<bounds, rows, key, store, overlapped, faults>>

FindFactsApproval(c) ==
  /\ At(c, "find_facts")
  /\ IF Pending("facts") = {} THEN Goto(c, "put_facts") ELSE Return(c)
  /\ UNCHANGED <<bounds, rows, key, store, overlapped, faults>>

PutFactsApproval(c) ==
  /\ At(c, "put_facts")
  /\ PutPending("facts") /\ Return(c)
  /\ UNCHANGED <<bounds, draft, publication, attempts, key, store, overlapped, faults>>

-----------------------------------------------------------------------------
(* resolve_conflict and provide_missing_fact: read, validate, put twice.   *)

Begin(c, kind, pc) ==
  /\ begun < MaxBegun /\ begun' = begun + 1
  /\ At(c, "idle") /\ c = CHOOSE x \in Calls : At(x, "idle")
  /\ call' = [call EXCEPT ![c] = [Idle EXCEPT !.pc = pc, !.kind = kind]]
  /\ UNCHANGED <<policy, rows, key, store, overlapped, faults>>

SupplyFact(c) ==
  /\ begun < MaxBegun /\ begun' = begun + 1
  /\ At(c, "idle") /\ c = CHOOSE x \in Calls : At(x, "idle")
  /\ draft.conflicted \/ draft.price = 0
  /\ \E p \in Prices :
       call' = [call EXCEPT ![c] = [Idle EXCEPT !.pc = "put_validated", !.kind = "supply",
         !.row = Validated([draft EXCEPT !.price = p, !.conflicted = FALSE, !.approved = TRUE])]]
  /\ UNCHANGED <<policy, rows, key, store, overlapped, faults>>

PutSupplied(c) ==
  /\ call[c].pc \in {"put_validated", "put_again"}
  /\ draft' = call[c].row
  /\ IF At(c, "put_validated") THEN Goto(c, "put_again") ELSE Return(c)
  /\ UNCHANGED <<bounds, approval, publication, attempts, key, store, overlapped, faults>>

-----------------------------------------------------------------------------
(* approve_product_facts.                                                  *)

ReadForFacts(c) ==
  /\ At(c, "read_facts")
  /\ \/ \E i \in Pending("facts") :
          call' = [call EXCEPT ![c].pc = "resolve_facts", ![c].row = draft, ![c].approval = i]
     \/ Pending("facts") = {} /\ Holding(c, "approve_facts", draft)
  /\ UNCHANGED <<bounds, rows, key, store, overlapped, faults>>

ResolveFactsApproval(c) ==
  /\ At(c, "resolve_facts")
  /\ PutApproved(call[c].approval) /\ Goto(c, "approve_facts")
  /\ UNCHANGED <<bounds, draft, publication, attempts, key, store, overlapped, faults>>

ApproveFacts(c) ==
  /\ At(c, "approve_facts")
  /\ draft' = Validated(WithFactsApproved(call[c].row))
  /\ IF call[c].kind = "facts" THEN Return(c) ELSE Forget(c, "request")
  /\ UNCHANGED <<bounds, approval, publication, attempts, key, store, overlapped, faults>>

-----------------------------------------------------------------------------
(* request_publication.                                                    *)

ReadForRequest(c) ==
  /\ At(c, "request")
  /\ Holding(c, "evaluate", Validated(draft))
  /\ UNCHANGED <<bounds, rows, key, store, overlapped, faults>>

\* The put of the validated draft, and apply_publication_policy on it.
Evaluate(c) ==
  /\ At(c, "evaluate")
  /\ draft' = call[c].row
  /\ IF call[c].row.state # "READY" THEN Return(c)
     ELSE IF policy = "auto" THEN Goto(c, "release") ELSE Forget(c, "find_approval")
  /\ UNCHANGED <<bounds, approval, publication, attempts, key, store, overlapped, faults>>

AutoPublish(c) ==
  /\ At(c, "release")
  /\ draft' = [call[c].row EXCEPT !.released = TRUE]
  /\ Forget(c, "create")
  /\ UNCHANGED <<bounds, approval, publication, attempts, key, store, overlapped, faults>>

\* auto_publish_after_resolution approves what waits for the merchant's standing rule
\* alone; a rule about the product stays with the owner.
AfterRequest(c) ==
  IF call[c].kind \in {"auto", "ingest"} /\ policy = "always" THEN Goto(c, "approve") ELSE Return(c)

FindPublicationApproval(c) ==
  /\ At(c, "find_approval")
  /\ IF Pending("publication") = {} THEN Goto(c, "put_approval") ELSE AfterRequest(c)
  /\ UNCHANGED <<bounds, rows, key, store, overlapped, faults>>

PutPublicationApproval(c) ==
  /\ At(c, "put_approval")
  /\ PutPending("publication") /\ AfterRequest(c)
  /\ UNCHANGED <<bounds, draft, publication, attempts, key, store, overlapped, faults>>

-----------------------------------------------------------------------------
(* approve_publication.                                                    *)

FindPending(c) ==
  /\ At(c, "approve")
  /\ \/ \E i \in Pending("publication") :
          call' = [call EXCEPT ![c].pc = "resolve", ![c].approval = i]
     \/ Pending("publication") = {} /\ Raise(c)
  /\ UNCHANGED <<bounds, rows, key, store, overlapped, faults>>

ResolveApproval(c) ==
  /\ At(c, "resolve")
  /\ PutApproved(call[c].approval) /\ Forget(c, "read_approved")
  /\ UNCHANGED <<bounds, draft, publication, attempts, key, store, overlapped, faults>>

ReadApproved(c) ==
  /\ At(c, "read_approved")
  /\ Holding(c, "put_released", draft)
  /\ UNCHANGED <<bounds, rows, key, store, overlapped, faults>>

\* The draft is READY from here on, whatever it was.
PutReleased(c) ==
  /\ At(c, "put_released")
  /\ draft' = [WithFactsApproved(call[c].row) EXCEPT !.state = "READY", !.released = TRUE]
  /\ Forget(c, "create")
  /\ UNCHANGED <<bounds, approval, publication, attempts, key, store, overlapped, faults>>

-----------------------------------------------------------------------------
(* _publish and create_publication.                                        *)

Publishable(d) == d.released /\ ~ d.conflicted

Publishing == {"insert", "reverify", "reopen", "get_publication", "get_draft",
               "put_publishing", "put_attempt", "reserve", "wait", "find", "set", "complete",
               "put_published", "verify"}

CreatePublication(c) ==
  /\ At(c, "create")
  /\ overlapped' = (overlapped \/ \E x \in Calls : call[x].pc \in Publishing)
  /\ IF publication # None
     THEN call' = [call EXCEPT ![c].pub = publication,
            ![c].pc = IF publication.status = "published" THEN "reverify" ELSE "get_publication"]
     ELSE IF Publishable(draft) /\ draft.state \in {"READY", "NEEDS_APPROVAL"}
     THEN Goto(c, "insert")
     ELSE Raise(c)
  /\ UNCHANGED <<bounds, rows, key, store, faults>>

\* The unique index turns a second row away; the caller goes on with the identity of
\* the row that was not stored, and fails on it.
InsertPublication(c) ==
  /\ At(c, "insert")
  /\ IF publication = None
     THEN publication' = [status |-> "approved", product |-> 0] /\ Goto(c, "get_publication")
     ELSE Raise(c) /\ UNCHANGED publication
  /\ UNCHANGED <<bounds, draft, approval, attempts, key, store, overlapped, faults>>

Verified(p) == p \in DOMAIN listing /\ listing[p] = draft.price

\* A fault of OnlineKey: one key for the SKU.
KeyOfSku(p) == <<"online", 1>>

OnlineKey(p) == <<"online", p>>

AfterPublication(c, p) ==
  IF call[c].kind \in {"auto", "ingest"}
  THEN call' = [call EXCEPT ![c].pc = "reserve", ![c].key = OnlineKey(p),
                            ![c].row = None, ![c].pub = None, ![c].product = None]
  ELSE Claim(c, "published")

\* What is published and still there as it should be is not sent again.
Reverify(c) ==
  /\ At(c, "reverify")
  /\ IF Verified(publication.product) THEN AfterPublication(c, publication.product)
     ELSE Goto(c, "reopen")
  /\ UNCHANGED <<bounds, rows, key, store, overlapped, faults>>

Reopen(c) ==
  /\ At(c, "reopen")
  /\ publication' = [call[c].pub EXCEPT !.status = "approved"]
  /\ Forget(c, "get_publication")
  /\ UNCHANGED <<bounds, draft, approval, attempts, key, store, overlapped, faults>>

-----------------------------------------------------------------------------
(* ProductPublicationService.publish.                                      *)

GetPublication(c) ==
  /\ At(c, "get_publication")
  /\ call' = [call EXCEPT ![c].pc = "get_draft", ![c].pub = publication]
  /\ UNCHANGED <<bounds, rows, key, store, overlapped, faults>>

AttemptKey(n) == <<"a", n>>

\* The draft and the number of attempts so far.
GetDraft(c) ==
  /\ At(c, "get_draft")
  /\ IF Publishable(draft) /\ draft.state = "READY"
     THEN call' = [call EXCEPT ![c].pc = "put_publishing", ![c].row = draft,
                               ![c].key = AttemptKey(attempts)]
     ELSE Raise(c)
  /\ UNCHANGED <<bounds, rows, key, store, overlapped, faults>>

PutPublishing(c) ==
  /\ At(c, "put_publishing")
  /\ publication' = [call[c].pub EXCEPT !.status = "publishing"]
  /\ call' = [call EXCEPT ![c].pc = "put_attempt", ![c].pub = None]
  /\ UNCHANGED <<bounds, draft, approval, attempts, key, store, overlapped, faults>>

PutAttempt(c) ==
  /\ At(c, "put_attempt")
  /\ attempts' = attempts + 1
  /\ Goto(c, "reserve")
  /\ UNCHANGED <<bounds, draft, approval, publication, key, store, overlapped, faults>>

\* GuardedConnector.execute_mutation, of publish_product or publish_to_online_store.
\* Without a product the key is made from the time, and no other call has it.
Unshared(c) == call[c].key = <<"online", 0>>

Reserve(c) ==
  /\ At(c, "reserve")
  /\ IF Unshared(c) THEN Goto(c, "find") /\ UNCHANGED key
     ELSE IF key[call[c].key] = Free
     THEN key' = [key EXCEPT ![call[c].key].status = "reserved"] /\ Goto(c, "find")
     ELSE Goto(c, "wait") /\ UNCHANGED key
  /\ UNCHANGED <<bounds, rows, store, overlapped, faults>>

Showing(c) == call[c].key[1] = "online"
AfterMutation(c, result) ==
  IF Showing(c) THEN Claim(c, IF result THEN "live" ELSE "published")
  ELSE call' = [call EXCEPT ![c].pc = "put_published", ![c].key = None, ![c].row = None,
                            ![c].product = result]

\* The stored result, or none of it when the time is over: the caller fails on that.
WaitForResult(c) ==
  /\ At(c, "wait")
  /\ IF key[call[c].key].status = "completed"
     THEN AfterMutation(c, key[call[c].key].result)
     ELSE Raise(c)
  /\ UNCHANGED <<bounds, rows, key, store, overlapped, faults>>

\* A fault of Existing: the storefront is not asked for the SKU.
NotLooked(p) == FALSE

Existing(p) == p \in DOMAIN listing

FindBySku(c) ==
  /\ At(c, "find")
  /\ \/ \E p \in {x \in 1..made : Existing(x)} :
          call' = [call EXCEPT ![c].pc = "set", ![c].product = p]
     \/ /\ {x \in 1..made : Existing(x)} = {} /\ ~ Showing(c)
        /\ call' = [call EXCEPT ![c].pc = "set", ![c].product = None]
  /\ UNCHANGED <<bounds, rows, key, store, overlapped, faults>>

Put(p, price) == listing' = [x \in DOMAIN listing \cup {p} |-> IF x = p THEN price ELSE listing[x]]

SetProduct(c) ==
  LET p == IF call[c].product = None THEN made + 1 ELSE call[c].product IN
  /\ At(c, "set") /\ ~ Showing(c)
  /\ call[c].product = None \/ call[c].product \in DOMAIN listing
  /\ Put(p, call[c].row.price)
  /\ made' = IF p > made THEN p ELSE made
  /\ call' = [call EXCEPT ![c].pc = "complete", ![c].row = None, ![c].product = p]
  /\ UNCHANGED <<bounds, rows, key, shown, overlapped, faults>>

\* publishablePublish, and the bounded poll that may not see its effect yet.
ShowProduct(c) ==
  /\ At(c, "set") /\ Showing(c)
  /\ call[c].product \in DOMAIN listing
  /\ shown' = shown \cup {call[c].product}
  /\ \E seen \in BOOLEAN : call' = [call EXCEPT ![c].pc = "complete", ![c].product = seen]
  /\ UNCHANGED <<bounds, rows, key, listing, made, overlapped, faults>>

Complete(c) ==
  /\ At(c, "complete")
  /\ key' = IF Unshared(c) THEN key
            ELSE [key EXCEPT ![call[c].key] = [status |-> "completed", result |-> call[c].product]]
  /\ AfterMutation(c, call[c].product)
  /\ UNCHANGED <<bounds, rows, store, overlapped, faults>>

\* The mutation raises and run_once releases its key: the product is gone, or the
\* storefront refuses, or its answer is lost after it acted.
MutationFails(c) ==
  /\ \/ /\ call[c].pc \in {"find", "set", "complete"}
        /\ faults < MaxFaults /\ faults' = faults + 1
     \/ /\ At(c, "find") /\ Showing(c) /\ {x \in 1..made : Existing(x)} = {}
        /\ UNCHANGED faults
     \/ /\ At(c, "set") /\ call[c].product \notin DOMAIN listing \cup {None}
        /\ UNCHANGED faults
  /\ key' = IF Unshared(c) THEN key ELSE [key EXCEPT ![call[c].key] = Free]
  /\ Raise(c)
  /\ UNCHANGED <<bounds, rows, store, overlapped>>

PutPublished(c) ==
  /\ At(c, "put_published")
  /\ publication' = [status |-> "published", product |-> call[c].product]
  /\ Forget(c, "verify")
  /\ UNCHANGED <<bounds, draft, approval, attempts, key, store, overlapped, faults>>

\* verify reads the row again; what it finds does not change the answer.
Verify(c) ==
  /\ At(c, "verify")
  /\ AfterPublication(c, publication.product)
  /\ UNCHANGED <<bounds, rows, key, store, overlapped, faults>>

Answer(c) ==
  /\ At(c, "answered") /\ Return(c)
  /\ UNCHANGED <<bounds, rows, key, store, overlapped, faults>>

-----------------------------------------------------------------------------
(* The merchant deletes a product at the storefront; a thread dies.        *)

DeleteProduct ==
  /\ faults < MaxFaults /\ faults' = faults + 1
  /\ \E p \in DOMAIN listing : listing' = [x \in DOMAIN listing \ {p} |-> listing[x]]
  /\ call' = [c \in Calls |-> IF At(c, "idle") THEN call[c] ELSE [call[c] EXCEPT !.lost = TRUE]]
  /\ UNCHANGED <<bounds, rows, key, shown, made, overlapped>>

Die(c) ==
  /\ ~ At(c, "idle")
  /\ faults < MaxFaults /\ faults' = faults + 1
  /\ Return(c)
  /\ UNCHANGED <<bounds, rows, key, store, overlapped>>

-----------------------------------------------------------------------------
Step(c) ==
  \/ HandleValidatedDraft(c) \/ FindFactsApproval(c) \/ PutFactsApproval(c)
  \/ PutSupplied(c)
  \/ ReadForFacts(c) \/ ResolveFactsApproval(c) \/ ApproveFacts(c)
  \/ ReadForRequest(c) \/ Evaluate(c) \/ AutoPublish(c)
  \/ FindPublicationApproval(c) \/ PutPublicationApproval(c)
  \/ FindPending(c) \/ ResolveApproval(c) \/ ReadApproved(c) \/ PutReleased(c)
  \/ CreatePublication(c) \/ InsertPublication(c) \/ Reverify(c) \/ Reopen(c)
  \/ GetPublication(c) \/ GetDraft(c) \/ PutPublishing(c) \/ PutAttempt(c)
  \/ Reserve(c) \/ WaitForResult(c) \/ FindBySku(c) \/ SetProduct(c) \/ ShowProduct(c)
  \/ Complete(c) \/ PutPublished(c) \/ Verify(c) \/ Answer(c)

Next ==
  \/ \E c \in Calls : SupplyFact(c)
  \/ \E c \in Calls : Begin(c, "facts", "read_facts")
  \/ \E c \in Calls : Begin(c, "request", "request")
  \/ \E c \in Calls : Begin(c, "approve", "approve")
  \/ \E c \in Calls : Begin(c, "auto", "read_facts")
  \/ \E c \in Calls : Step(c)
  \/ \E c \in Calls : MutationFails(c)
  \/ \E c \in Calls : Die(c)
  \/ DeleteProduct

Spec == Init /\ [][Next]_vars

-----------------------------------------------------------------------------
(* Properties.                                                             *)

\* What a call answers is true: when it says published, the storefront lists the
\* product, and when it says live, shows it, unless the merchant deleted it while the
\* call ran.  A product that was deleted and published again is really sent and shown
\* again.  "Live" has one more exception: two publications that overlapped overwrite
\* each other's product in the publication row.
AnswerIsTrue ==
  /\ TypeOK
  /\ \A c \in Calls : At(c, "answered") /\ ~ call[c].lost =>
       /\ DOMAIN listing # {}
       /\ call[c].claim = "live" /\ ~ overlapped => DOMAIN listing \cap shown # {}

\* Retries, lost answers, deaths and repeated approvals never list the draft twice, as
\* long as no two publications of it overlap: each attempt has a key of its own, and
\* only the look for the SKU makes it find what an earlier one has left.
ListedOnce == Cardinality(DOMAIN listing) > 1 => overlapped
=============================================================================
