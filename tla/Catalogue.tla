------------------------------ MODULE Catalogue ------------------------------
(***************************************************************************)
(* The product drafts of a merchant and the evidence they rest on: what a  *)
(* supplier's file becomes (packages/product_onboarding/ingestion.py),     *)
(* which draft it is merged with (identity.py), how facts and variants are *)
(* merged (provenance.py, variants.py), the validation of the result       *)
(* (validation.py), the filling of gaps by the AI and the questions to the *)
(* owner, one draft at a time (workflow.py), and the owner's answer to     *)
(* them (_try_resolve_missing_fields of notifications/resolution.py).      *)
(*                                                                         *)
(* An ingestion lists all drafts once, changes the rows it holds and puts  *)
(* them back, three times each; answers, resolutions and approvals read    *)
(* one row and put it back.  Nothing orders these calls.                   *)
(*                                                                         *)
(* A row of a file gives some of five facts and an option (a colour, a     *)
(* size).  Left out: parsing, spelling and units other than those of the   *)
(* price, the further options and prices of variants, invalid prices, the  *)
(* inventory question, taxonomy, trusted supplier profiles (none are       *)
(* configured) and what follows an approval (Publication).                 *)
(***************************************************************************)
EXTENDS Integers, Sequences, FiniteSets, Threads

CONSTANTS
  Batches,       \* sets of files that suppliers may send, each a sequence of rows
  Answers,       \* [Cores -> values an owner may give]
  Required,      \* product_rules.required
  Later,         \* what the merchant may require from some day on
  AiText,        \* what the AI writes when it is enabled, or None
  Decidable,     \* pairs of identifiers an operator may decide about
  MaxDecisions,  \* bound: decisions about identities
  MaxLosses      \* bound: deaths and messages that are not delivered

Names == {"sku", "barcode", "style", "price", "text"}
Cores == {"sku", "price", "text"}   \* the facts that are fields of the draft as well
AiFillable == {"text"}
Protected == Names \ {"text"}

\* A price is a text in units of the currency or a cell in hundredths of it.
PriceRead == [form : {"words", "cell"}, amount : Nat]
Read(row) ==
  /\ DOMAIN row \subseteq Names \cup {"option", "photo"}
  /\ "price" \in DOMAIN row => row["price"] \in PriceRead \cup {None}

ASSUME CatalogueAssumption ==
  /\ Required \subseteq Cores /\ Later \subseteq Cores
  /\ MaxBegun \in Nat /\ MaxDecisions \in Nat /\ MaxLosses \in Nat
  /\ \A batch \in Batches : \A file \in batch :
       file # <<>> /\ file \in Seq({file[k] : k \in DOMAIN file}) /\ \A k \in DOMAIN file : Read(file[k])
  /\ DOMAIN Answers = Cores /\ Answers["price"] \subseteq PriceRead
  /\ \A n \in Cores : None \notin Answers[n]
  /\ None \notin Nat \cup PriceRead

VARIABLES
  files,        \* the files of this behaviour
  required,     \* product_rules.required
  decisions,    \* IdentityDecision rows, oldest first: [pair, same]
  drafts,       \* ProductDraft rows, oldest first
  asks,         \* audit: drafts the owner was asked about, oldest first
  open,         \* audit: drafts with no reply since they were last asked about
  heard,        \* history: [draft -> [Names -> what its sources say since a decision]]
  current,      \* history: [draft -> the variants of its last revision]
  overwritten,  \* history: drafts put back over a change of another call
  crossed,      \* history: drafts whose last revision matched one variant twice
  diverted,     \* history: a question ended, or arose, outside the queue
  losses

queue == <<asks, open>>
histories == <<heard, current, overwritten, crossed>>
catalogueVars == <<files, required, decisions, drafts, queue, call, histories, diverted, begun, losses>>

Get(f, n) == IF n \in DOMAIN f THEN f[n] ELSE None
First(S) == CHOOSE x \in S : \A y \in S : x <= y
Last1(S) == CHOOSE x \in S : \A y \in S : x >= y
InOrder(S) ==
  [j \in 1..Cardinality(S) |-> CHOOSE x \in S : Cardinality({y \in S : y <= x}) = j]

-----------------------------------------------------------------------------
(* Facts: provenance.py.                                                   *)

\* normalize_commercial_fact_value: a price in words counts units of the currency,
\* an integer cell counts hundredths of it.
Words(n) == [form |-> "words", amount |-> n]
Cell(n) == [form |-> "cell", amount |-> n]
Normal(n, v) ==
  IF n # "price" \/ v = None THEN v
  ELSE IF v.form = "words" THEN 100 * v.amount ELSE v.amount

NoFact == [value |-> None, by |-> "missing", disputed |-> FALSE, approved |-> FALSE]
SourceFact(v) == IF v = None THEN NoFact ELSE [NoFact EXCEPT !.value = v, !.by = "source"]

\* A fault of MergedFact: values are compared as they were read, units and all.
RawMergedFact(n, f, in) ==
  IF f.by = "missing" /\ in.value # None THEN in
  ELSE IF in.value \in {None, f.value} THEN f
  ELSE [f EXCEPT !.disputed = TRUE]

\* detect_and_merge_fact.
MergedFact(n, f, in) ==
  IF f.by = "missing" /\ in.value # None THEN in
  ELSE IF in.value = None \/ Normal(n, f.value) = Normal(n, in.value) THEN f
  ELSE [f EXCEPT !.disputed = TRUE]

MergedFacts(facts, in) ==
  [n \in DOMAIN facts \cup DOMAIN in |->
     IF n \notin DOMAIN facts THEN in[n]
     ELSE IF n \notin DOMAIN in THEN facts[n]
     ELSE MergedFact(n, facts[n], in[n])]

Disputed(d) == {n \in DOMAIN d.facts : d.facts[n].disputed}

WithFact(d, n, f) ==
  [d EXCEPT !.facts = [m \in DOMAIN d.facts \cup {n} |-> IF m = n THEN f ELSE d.facts[m]]]
WithCore(d, n, v) == IF n \in Cores THEN [d EXCEPT ![n] = Normal(n, v)] ELSE d

\* resolve_fact_conflict.
Resolved(d, n, v) ==
  WithCore(WithFact(d, n, [value |-> v, by |-> "human", disputed |-> FALSE, approved |-> TRUE]), n, v)

\* provide_missing_fact, which raises for a fact that is neither missing nor the AI's.
Suppliable(d, n) == n \in DOMAIN d.facts => d.facts[n].by \in {"missing", "ai"}
Stored(n, v) == IF n = "price" THEN Cell(Normal(n, v)) ELSE v
Supplied(d, n, v, by) ==
  WithCore(WithFact(d, n, [value |-> Stored(n, v), by |-> by, approved |-> TRUE,
             disputed |-> IF n \in DOMAIN d.facts THEN d.facts[n].disputed ELSE FALSE]), n, v)

\* approve_extracted_facts.
FactsApproved(d) ==
  [d EXCEPT !.facts = [n \in DOMAIN d.facts |->
     [d.facts[n] EXCEPT !.approved = @ \/ ~ d.facts[n].disputed]]]

-----------------------------------------------------------------------------
(* Variants: variants.py.                                                  *)

Active(variants) == {i \in DOMAIN variants : variants[i].status = "ACTIVE"}
Named(revision) == {[sku |-> revision[k].sku, option |-> revision[k].option] : k \in DOMAIN revision}
Fits(v, g) == g.sku \in {None, v.sku} /\ g.option \in {None, v.option}

\* validate_variant_matrix: two active variants with one SKU or one option.
Tangled(variants) ==
  \E i, j \in Active(variants) : i # j /\
    \/ variants[i].sku # None /\ variants[i].sku = variants[j].sku
    \/ variants[i].option # None /\ variants[i].option = variants[j].option

\* The variant a new one is matched with: by its option, or else by its SKU, in the
\* variants as they were before the revision.
Match(variants, in) ==
  LET options == {i \in DOMAIN variants : variants[i].option = in.option /\ in.option # None}
      skus == {i \in DOMAIN variants : variants[i].sku = in.sku /\ in.sku # None}
  IN IF options # {} THEN Last1(options) ELSE IF skus # {} THEN Last1(skus) ELSE 0

Matching(variants, revision, i) == {k \in DOMAIN revision : Match(variants, revision[k]) = i}

\* What a field of variant i becomes: the last one given for it, or else what it was.
Latest(variants, revision, i, n) ==
  LET given == {k \in Matching(variants, revision, i) : revision[k][n] # None}
  IN IF given = {} THEN variants[i][n] ELSE revision[Last1(given)][n]

Added(variants, revision) ==
  LET new == InOrder(Matching(variants, revision, 0))
  IN [j \in DOMAIN new |-> [revision[new[j]] EXCEPT !.status = "ACTIVE"]]

\* A fault of Reconciled: a variant that comes back stays stale.
NeverRevived(variants, revision) ==
  [i \in DOMAIN variants |->
     IF Matching(variants, revision, i) = {} THEN [variants[i] EXCEPT !.status = "STALE"]
     ELSE [variants[i] EXCEPT !.sku = Latest(variants, revision, i, "sku"),
                              !.option = Latest(variants, revision, i, "option")]]
  \o Added(variants, revision)

\* reconcile_variant_lifecycle: what the revision does not name becomes stale.
Reconciled(variants, revision) ==
  [i \in DOMAIN variants |->
     IF Matching(variants, revision, i) = {} THEN [variants[i] EXCEPT !.status = "STALE"]
     ELSE [sku |-> Latest(variants, revision, i, "sku"),
           option |-> Latest(variants, revision, i, "option"), status |-> "ACTIVE"]]
  \o Added(variants, revision)

\* Two variants of the revision match the same one.
Crossed(variants, revision) ==
  \E i \in DOMAIN variants : \E k, l \in Matching(variants, revision, i) : k # l

-----------------------------------------------------------------------------
(* The drafts of a file: ingestion.py.                                     *)

VariantOf(row) == [sku |-> Get(row, "sku"), option |-> Get(row, "option"), status |-> "ACTIVE"]
FactsOf(row) == [n \in DOMAIN row \cap Names |-> SourceFact(row[n])]

Draft(sku, price, row, variants) ==
  [sku |-> sku, price |-> price, text |-> Get(row, "text"), facts |-> FactsOf(row),
   variants |-> variants, tangled |-> FALSE, status |-> "UNRESOLVED", key |-> None,
   missing |-> {}, state |-> IF sku # None /\ price # None THEN "READY" ELSE "INCOMPLETE"]

PriceOf(row) == Normal("price", Get(row, "price"))
Lowest(rows) ==
  LET prices == {PriceOf(rows[i]) : i \in DOMAIN rows} \ {None}
  IN IF prices = {} THEN None ELSE First(prices)

\* The rows of one style are one draft, named for the style; its facts are those of its
\* first row.
StyleDraft(style, rows) ==
  Draft(style, Lowest(rows), rows[1], [i \in DOMAIN rows |-> VariantOf(rows[i])])

\* A row of its own; a photo names a SKU and nothing more.
RowDraft(row) ==
  IF "photo" \in DOMAIN row THEN Draft(row["photo"], None, row, <<>>)
  ELSE Draft(Get(row, "sku"), PriceOf(row), row,
             IF Get(row, "option") = None THEN <<>> ELSE <<VariantOf(row)>>)

DraftsOf(file) ==
  LET StyleAt(i) == Get(file[i], "style")
      Of(style) == InOrder({i \in DOMAIN file : StyleAt(i) = style})
      RowsOf(style) == [k \in DOMAIN Of(style) |-> file[Of(style)[k]]]
      starts == InOrder({i \in DOMAIN file :
                           StyleAt(i) # None /\ \A j \in 1..(i - 1) : StyleAt(j) # StyleAt(i)})
  IN [k \in DOMAIN starts |-> StyleDraft(StyleAt(starts[k]), RowsOf(StyleAt(starts[k])))]
     \o [k \in DOMAIN Of(None) |-> RowDraft(RowsOf(None)[k])]

-----------------------------------------------------------------------------
(* Identity: identity.py.                                                  *)

ValueOf(d, n) == IF n \in DOMAIN d.facts THEN d.facts[n].value ELSE None
Identifiers(d) == {d.sku, ValueOf(d, "style"), ValueOf(d, "barcode")} \ {None}

\* get_decision: the newest about the two.
About(a, b) == {i \in DOMAIN decisions : decisions[i].pair = {a, b}}
Decided(a, b) == IF About(a, b) = {} THEN 0 ELSE Last1(About(a, b))
Different(a, b) ==
  a # None /\ b # None /\ Decided(a, b) # 0 /\ ~ decisions[Decided(a, b)].same

SameAs(d, known) ==
  {i \in DOMAIN decisions : decisions[i].same /\
     \E k \in DOMAIN known : \E a \in Identifiers(d), b \in Identifiers(known[k]) :
       Decided(a, b) = i}

BarcodeClash(d, known) ==
  LET barcode == ValueOf(d, "barcode")
      style == ValueOf(d, "style") IN
  barcode # None /\ \E k \in DOMAIN known :
    /\ ValueOf(known[k], "barcode") = barcode
    /\ \/ None \notin {style, ValueOf(known[k], "style")} /\ ValueOf(known[k], "style") # style
       \/ Different(d.sku, known[k].sku)

StyleBlocked(d, known) ==
  \E k \in DOMAIN known :
    ValueOf(known[k], "style") = ValueOf(d, "style") /\ Different(d.sku, known[k].sku)

WithSku(sku, known) == {k \in DOMAIN known : known[k].sku = sku /\ sku # None}

\* resolve_draft: [status, key]s of a draft beside the known ones.  Without an
\* identifier, a title like another one's makes it ambiguous.
Identities(d, known) ==
  LET style == ValueOf(d, "style")
      barcode == ValueOf(d, "barcode")
      Key(kind, value) == {[status |-> "RESOLVED", key |-> <<kind, value>>]}
      Conflict == {[status |-> "CONFLICT", key |-> None]}
  IN CASE SameAs(d, known) # {} -> Key("decision", First(SameAs(d, known)))
       [] SameAs(d, known) = {} /\ BarcodeClash(d, known) -> Conflict
       [] OTHER ->
          IF style # None
          THEN IF StyleBlocked(d, known) THEN Conflict ELSE Key("style", style)
          ELSE IF barcode # None THEN Key("barcode", barcode)
          ELSE IF d.sku # None
          THEN IF WithSku(d.sku, known) # {} /\ Different(d.sku, First(WithSku(d.sku, known)))
               THEN Conflict ELSE Key("sku", d.sku)
          ELSE {[status |-> s, key |-> None] :
                  s \in {"UNRESOLVED"} \cup (IF DOMAIN known = {} THEN {} ELSE {"AMBIGUOUS"})}

\* The drafts an ingested one is merged with, the oldest of them.
Matches(d, known) ==
  (IF d.status = "RESOLVED" THEN {k \in DOMAIN known : known[k].key = d.key} ELSE {})
  \cup WithSku(d.sku, known)

MergedDraft(d, in) ==
  LET facts == MergedFacts(d.facts, in.facts)
      disputes == {n \in DOMAIN in.facts \cap DOMAIN d.facts :
                     facts[n].disputed /\ in.facts[n].value # None
                     /\ Normal(n, in.facts[n].value) # Normal(n, d.facts[n].value)}
  IN [d EXCEPT !.facts = facts,
        !.variants = IF in.variants = <<>> THEN @ ELSE Reconciled(@, in.variants),
        !.status = in.status, !.key = IF in.key = None THEN @ ELSE in.key,
        !.state = IF disputes = {} THEN @ ELSE "CONFLICTED"]

-----------------------------------------------------------------------------
(* ProductCompletenessValidator.validate.                                  *)

\* A required field the draft lacks is taken from its fact.
Completed(d) ==
  LET Lacking(n) == n \in required /\ d[n] = None
      Field(n) == IF Lacking(n) THEN Normal(n, ValueOf(d, n)) ELSE d[n]
      Absent(n) == n \in Cores /\ Lacking(n) /\ ValueOf(d, n) = None
  IN [d EXCEPT !.sku = Field("sku"), !.price = Field("price"), !.text = Field("text"),
        !.facts = [n \in DOMAIN d.facts \cup {m \in Cores : Absent(m)} |->
                     IF n \notin DOMAIN d.facts THEN NoFact
                     ELSE IF Absent(n) THEN [d.facts[n] EXCEPT !.by = "missing"]
                     ELSE d.facts[n]],
        !.missing = {n \in Cores : Absent(n)}]

Invented(d) == \E n \in DOMAIN d.facts : n \in Protected /\ d.facts[n].by = "ai"

Validate(row) ==
  LET c == Completed(row)
      named == c.status = "UNRESOLVED" /\ c.sku # None
      tangled == c.tangled \/ Tangled(c.variants)
  IN [c EXCEPT !.status = IF named THEN "RESOLVED" ELSE @,
        !.key = IF named THEN <<"sku", c.sku>> ELSE @,
        !.tangled = tangled,
        !.state = CASE Invented(c) -> "INVALID"
                    [] ~ Invented(c) /\ (tangled \/ Disputed(c) # {}) -> "CONFLICTED"
                    [] OTHER -> IF c.missing # {} THEN "INCOMPLETE"
                                ELSE IF \E n \in DOMAIN c.facts : ~ c.facts[n].approved
                                THEN "NEEDS_APPROVAL" ELSE "READY"]

\* The draft of a photo has no fact but its picture, until validation adds what it lacks.
Askable(d) == DOMAIN d.facts # {}
Open == {"INCOMPLETE", "CONFLICTED"}
Waits(d) == d.state \in Open /\ Askable(d)

-----------------------------------------------------------------------------
NoCall == [pc |-> "idle", kind |-> None, base |-> <<>>, mine |-> <<>>, incoming |-> <<>>,
         todo |-> <<>>, at |-> 1, given |-> {}]

CatalogueInit ==
  /\ files \in Batches /\ required = Required /\ decisions = <<>>
  /\ drafts = <<>> /\ asks = <<>> /\ open = {}
  /\ call = [c \in Calls |-> NoCall]
  /\ heard = <<>> /\ current = <<>> /\ overwritten = {} /\ crossed = {} /\ diverted = FALSE
  /\ begun = 0 /\ losses = 0

Leave(c) == call' = [call EXCEPT ![c] = NoCall]
settings == <<files, required, decisions>>

\* A call begins, on a thread that is free.
Begins(c, held) ==
  /\ begun < MaxBegun /\ begun' = begun + 1
  /\ At(c, "idle") /\ c = CHOOSE x \in Calls : At(x, "idle")
  /\ call' = [call EXCEPT ![c] = held]
  /\ UNCHANGED <<settings, drafts, queue, histories, diverted, losses>>

HoldingRow(kind, pc, i, d) ==
  [NoCall EXCEPT !.pc = pc, !.kind = kind, !.todo = <<i>>,
               !.base = [k \in {i} |-> drafts[i]], !.mine = [k \in {i} |-> d]]

\* A question leaves the queue, or should join it, without an answer or an ingestion.
Diverts(c, i, d) ==
  \/ call[c].kind # "answer" /\ i \in open /\ drafts[i].state \in Open
     /\ d.state \notin Open
  \/ call[c].kind # "ingest" /\ drafts[i].state # "INCOMPLETE"
     /\ d.state = "INCOMPLETE"

\* The row i is put whole.
PutRow(c, i, d) ==
  /\ drafts' = [drafts EXCEPT ![i] = d]
  /\ overwritten' = IF drafts[i] \in {call[c].base[i], d} THEN overwritten ELSE overwritten \cup {i}

\* What the thread holds of the row i, now that it was put.
Has(held, i, d) ==
  [held EXCEPT !.base = [k \in DOMAIN @ \cup {i} |-> IF k = i THEN d ELSE @[k]],
               !.mine = [k \in DOMAIN @ \cup {i} |-> IF k = i THEN d ELSE @[k]]]

\* The next of its drafts, or the next stage.
Turn(held, next) ==
  IF held.at < Len(held.todo) THEN [held EXCEPT !.at = @ + 1]
  ELSE IF next = "idle" THEN NoCall ELSE [held EXCEPT !.pc = next, !.at = 1]

Id(c) == call[c].todo[call[c].at]
Row(c) == call[c].mine[Id(c)]

-----------------------------------------------------------------------------
(* ingest_file: the file is read and all drafts are listed; each draft of  *)
(* it is merged with the oldest that matches, or is new.                   *)

BeginIngest(c) ==
  \E f \in files :
    Begins(c, [NoCall EXCEPT !.pc = "merge", !.kind = "ingest", !.base = drafts, !.mine = drafts,
                           !.incoming = DraftsOf(f)])

Took(held, i) ==
  [held EXCEPT !.incoming = Tail(@), !.todo = Append(@, i),
               !.pc = IF Len(held.incoming) = 1 THEN "put" ELSE "merge"]

Said(d) ==
  [n \in Names |-> IF ValueOf(d, n) = None THEN {} ELSE {Normal(n, ValueOf(d, n))}]

Merge(c) ==
  /\ At(c, "merge")
  /\ \E identity \in Identities(Head(call[c].incoming), call[c].mine) :
       LET in == [Head(call[c].incoming) EXCEPT !.status = identity.status, !.key = identity.key]
           i == First(Matches(in, call[c].mine))
           d == MergedDraft(call[c].mine[i], in)
       IN /\ Matches(in, call[c].mine) # {}
          /\ PutRow(c, i, d)
          /\ call' = [call EXCEPT ![c] = Took(Has(@, i, d), i)]
          /\ diverted' = (diverted \/ Diverts(c, i, d))
          /\ heard' = [heard EXCEPT ![i] = [n \in Names |-> @[n] \cup Said(in)[n]]]
          /\ current' = IF in.variants = <<>> THEN current
                        ELSE [current EXCEPT ![i] = Named(in.variants)]
          /\ crossed' = IF in.variants = <<>> THEN crossed
                        ELSE IF Crossed(call[c].mine[i].variants, in.variants)
                        THEN crossed \cup {i} ELSE crossed \ {i}
  /\ UNCHANGED <<settings, queue, begun, losses>>

Create(c) ==
  /\ At(c, "merge")
  /\ \E identity \in Identities(Head(call[c].incoming), call[c].mine) :
       LET in == [Head(call[c].incoming) EXCEPT !.status = identity.status, !.key = identity.key]
           i == Len(drafts) + 1
       IN /\ Matches(in, call[c].mine) = {}
          /\ drafts' = Append(drafts, in)
          /\ call' = [call EXCEPT ![c] = Took(Has(@, i, in), i)]
          /\ heard' = Append(heard, Said(in))
          /\ current' = Append(current, Named(in.variants))
  /\ UNCHANGED <<settings, queue, overwritten, crossed, diverted, begun, losses>>

\* The recommendation of a category, which is put without being validated.
PutRecommended(c) ==
  /\ At(c, "put")
  /\ PutRow(c, Id(c), Row(c))
  /\ diverted' = (diverted \/ Diverts(c, Id(c), Row(c)))
  /\ call' = [call EXCEPT ![c] = Turn(Has(@, Id(c), Row(c)), "validate")]
  /\ UNCHANGED <<settings, queue, heard, current, crossed, begun, losses>>

PutValidated(c) ==
  LET d == Validate(Row(c)) IN
  /\ At(c, "validate")
  /\ PutRow(c, Id(c), d)
  /\ diverted' = (diverted \/ Diverts(c, Id(c), d))
  /\ call' = [call EXCEPT ![c] = Turn(Has(@, Id(c), d), "handle")]
  /\ UNCHANGED <<settings, queue, heard, current, crossed, begun, losses>>

-----------------------------------------------------------------------------
(* _handle_validated_draft: the AI fills what it may, the owner is asked.  *)

HandleDraft(c) ==
  /\ At(c, "handle")
  /\ IF Row(c).state = "INCOMPLETE" /\ Askable(Row(c)) THEN Goto(c, "ask")
     ELSE call' = [call EXCEPT ![c] = Turn(@, "idle")]
  /\ UNCHANGED <<settings, drafts, queue, histories, diverted, begun, losses>>

FillByAi(c) ==
  /\ At(c, "handle") /\ AiText # None
  /\ Row(c).state = "INCOMPLETE" /\ Askable(Row(c))
  /\ \E n \in Row(c).missing \cap AiFillable :
       LET d == Validate(Supplied(Row(c), n, AiText, "ai")) IN
       /\ PutRow(c, Id(c), d)
       /\ diverted' = (diverted \/ Diverts(c, Id(c), d))
       /\ heard' = [heard EXCEPT ![Id(c)][n] = {AiText}]
       /\ call' = [call EXCEPT ![c] = IF d.state = "INCOMPLETE"
            THEN [Has(@, Id(c), d) EXCEPT !.pc = "ask"] ELSE Turn(Has(@, Id(c), d), "idle")]
  /\ UNCHANGED <<settings, queue, current, crossed, begun, losses>>

\* _has_outstanding_missing_field_notification, the draft itself excepted.
Outstanding(i) ==
  \E j \in open \ {i} : Waits(drafts[j])

CheckQueue(c) ==
  /\ At(c, "ask")
  /\ IF Outstanding(Id(c)) THEN call' = [call EXCEPT ![c] = Turn([@ EXCEPT !.pc = "handle"], "idle")]
     ELSE Goto(c, "send")
  /\ UNCHANGED <<settings, drafts, queue, histories, diverted, begun, losses>>

\* _auto_notify_missing_fields: a message that is not delivered is recorded as such.
SendQuestion(c) ==
  /\ At(c, "send")
  /\ \/ /\ asks' = Append(asks, Id(c)) /\ open' = open \cup {Id(c)}
        /\ diverted' = (diverted \/ drafts[Id(c)].state \notin Open)
        /\ UNCHANGED losses
     \/ /\ losses < MaxLosses /\ losses' = losses + 1
        /\ diverted' = TRUE /\ UNCHANGED queue
  /\ call' = [call EXCEPT ![c] = Turn([@ EXCEPT !.pc = "handle"], "idle")]
  /\ UNCHANGED <<settings, drafts, histories, begun>>

-----------------------------------------------------------------------------
(* The owner's answer: some of what the draft asked about last lacks.      *)

Asked == {k \in DOMAIN asks : drafts[asks[k]].state = "INCOMPLETE" /\ Askable(drafts[asks[k]])}

BeginAnswer(c) ==
  /\ Asked # {}
  /\ LET i == asks[Last1(Asked)] IN
     \E given \in SUBSET drafts[i].missing \ {{}} :
       Begins(c, [HoldingRow("answer", "read", i, drafts[i]) EXCEPT !.given = given])

\* provide_missing_fact, one field at a time; what was supplied meanwhile makes it raise.
ReadForField(c) ==
  LET i == Id(c) IN
  /\ At(c, "read")
  /\ IF \A n \in call[c].given : Suppliable(drafts[i], n)
     THEN /\ call' = [call EXCEPT ![c] = [Has(@, i, drafts[i]) EXCEPT !.pc = "provide"]]
          /\ UNCHANGED diverted
     ELSE Leave(c) /\ diverted' = TRUE
  /\ UNCHANGED <<settings, drafts, queue, histories, begun, losses>>

ProvideField(c) ==
  LET i == Id(c) IN
  /\ At(c, "provide")
  /\ \E n \in call[c].given : \E v \in Answers[n] :
       LET d == Validate(Supplied(Row(c), n, v, "human")) IN
       /\ PutRow(c, i, d)
       /\ call' = [call EXCEPT ![c] = [Has(@, i, d) EXCEPT !.pc = "provided", !.given = call[c].given \ {n}]]
       /\ heard' = [heard EXCEPT ![i][n] = (IF n \in Disputed(Row(c)) THEN @ ELSE {}) \cup {Normal(n, v)}]
  /\ UNCHANGED <<settings, queue, current, crossed, diverted, begun, losses>>

\* The second put, and the audit entry that makes it a reply.
PutProvided(c) ==
  LET i == Id(c) IN
  /\ At(c, "provided")
  /\ PutRow(c, i, Row(c))
  /\ open' = open \ {i}
  /\ call' = [call EXCEPT ![c] = [Has(@, i, Row(c)) EXCEPT
                 !.pc = IF call[c].given = {} THEN "put_answered" ELSE "read"]]
  /\ UNCHANGED <<settings, asks, heard, current, crossed, diverted, begun, losses>>

\* A fault of PutAnswered: a draft that still needs approval does not pass the turn on.
PutAnsweredWaiting(c) ==
  LET i == Id(c)
      d == Validate(Row(c)) IN
  /\ At(c, "put_answered")
  /\ PutRow(c, i, d)
  /\ diverted' = (diverted \/ d.state \in Open)
  /\ call' = [call EXCEPT ![c] = IF d.state = "READY" THEN [Has(@, i, d) EXCEPT !.pc = "approve"] ELSE NoCall]
  /\ UNCHANGED <<settings, queue, heard, current, crossed, begun, losses>>

\* The draft is put and validated once more; when it is complete its facts are approved,
\* it goes to publication, and the next draft has its turn.
PutAnswered(c) ==
  LET i == Id(c)
      d == Validate(Row(c))
      complete == d.state \notin Open IN
  /\ At(c, "put_answered")
  /\ PutRow(c, i, d)
  /\ diverted' = (diverted \/ ~ complete)
  /\ call' = [call EXCEPT ![c] = IF complete THEN [Has(@, i, d) EXCEPT !.pc = "approve"] ELSE NoCall]
  /\ UNCHANGED <<settings, queue, heard, current, crossed, begun, losses>>

\* notify_next_missing_field_draft: the oldest that is not waited for; when it has no
\* missing field, nobody is asked.
NotifyNext(c) ==
  LET waiting == {j \in DOMAIN drafts \ open : Waits(drafts[j])}
      blocked == waiting # {} /\ drafts[First(waiting)].missing = {} IN
  /\ At(c, "next")
  /\ call' = [call EXCEPT ![c] =
       IF waiting = {} \/ blocked THEN NoCall
       ELSE HoldingRow("answer", "send", First(waiting), drafts[First(waiting)])]
  /\ diverted' = (diverted \/ blocked)
  /\ UNCHANGED <<settings, drafts, queue, histories, begun, losses>>

-----------------------------------------------------------------------------
(* approve_product_facts, resolve_conflict, record_decision, the settings. *)

BeginApproval(c) ==
  \E i \in DOMAIN drafts : Begins(c, HoldingRow("approval", "approve", i, drafts[i]))

ReadForApproval(c) ==
  LET d == drafts[Id(c)] IN
  /\ At(c, "approve")
  /\ call' = [call EXCEPT ![c] = [Has(@, Id(c), d) EXCEPT !.pc = "put_approved"]]
  /\ UNCHANGED <<settings, drafts, queue, histories, diverted, begun, losses>>

PutFactsApproved(c) ==
  LET d == Validate(FactsApproved(Row(c))) IN
  /\ At(c, "put_approved")
  /\ PutRow(c, Id(c), d)
  /\ diverted' = (diverted \/ Diverts(c, Id(c), d))
  /\ call' = [call EXCEPT ![c] = IF @.kind = "answer" THEN [Has(@, Id(c), d) EXCEPT !.pc = "next"]
                                  ELSE NoCall]
  /\ UNCHANGED <<settings, queue, heard, current, crossed, begun, losses>>

BeginResolution(c) ==
  \E i \in DOMAIN drafts : \E n \in Disputed(drafts[i]) \cap DOMAIN Answers : \E v \in Answers[n] :
    Begins(c, [HoldingRow("resolution", "resolve", i, Validate(Resolved(drafts[i], n, v)))
                 EXCEPT !.given = {<<n, Normal(n, v)>>}])

PutResolved(c) ==
  LET i == Id(c)
      said == CHOOSE g \in call[c].given : TRUE IN
  /\ At(c, "resolve")
  /\ PutRow(c, i, Row(c))
  /\ heard' = [heard EXCEPT ![i][said[1]] = {said[2]}]
  /\ diverted' = (diverted \/ Diverts(c, i, Row(c)))
  /\ call' = [call EXCEPT ![c] = [Has(@, i, Row(c)) EXCEPT !.pc = "resolved"]]
  /\ UNCHANGED <<settings, queue, current, crossed, begun, losses>>

PutResolvedAgain(c) ==
  /\ At(c, "resolved")
  /\ PutRow(c, Id(c), Row(c)) /\ Leave(c)
  /\ diverted' = (diverted \/ Diverts(c, Id(c), Row(c)))
  /\ UNCHANGED <<settings, queue, heard, current, crossed, begun, losses>>

RecordDecision ==
  /\ begun < MaxBegun /\ begun' = begun + 1 /\ Len(decisions) < MaxDecisions
  /\ \E p \in Decidable, same \in BOOLEAN :
       decisions' = Append(decisions, [pair |-> p, same |-> same])
  /\ UNCHANGED <<files, required, drafts, queue, call, histories, diverted, losses>>

RequireMore ==
  /\ begun < MaxBegun /\ begun' = begun + 1 /\ ~ Later \subseteq required
  /\ required' = required \cup Later
  /\ UNCHANGED <<files, decisions, drafts, queue, call, histories, diverted, losses>>

Crash(c) ==
  /\ ~ At(c, "idle")
  /\ losses < MaxLosses /\ losses' = losses + 1
  /\ Leave(c) /\ diverted' = TRUE
  /\ UNCHANGED <<settings, drafts, queue, histories, begun>>

-----------------------------------------------------------------------------
CatalogueStep(c) ==
  \/ Merge(c) \/ Create(c) \/ PutRecommended(c) \/ PutValidated(c)
  \/ HandleDraft(c) \/ FillByAi(c) \/ CheckQueue(c) \/ SendQuestion(c)
  \/ ReadForField(c) \/ ProvideField(c) \/ PutProvided(c) \/ PutAnswered(c) \/ NotifyNext(c)
  \/ ReadForApproval(c) \/ PutFactsApproved(c) \/ PutResolved(c) \/ PutResolvedAgain(c)

CatalogueNext ==
  \/ \E c \in Calls : BeginIngest(c)
  \/ \E c \in Calls : BeginAnswer(c)
  \/ \E c \in Calls : BeginApproval(c)
  \/ \E c \in Calls : BeginResolution(c)
  \/ \E c \in Calls : CatalogueStep(c)
  \/ \E c \in Calls : Crash(c)
  \/ RecordDecision \/ RequireMore

CatalogueSpec == CatalogueInit /\ [][CatalogueNext]_catalogueVars

-----------------------------------------------------------------------------
(* Properties.                                                             *)

\* Every row of the store and every thread has its shape.
RowsOK ==
  /\ required \subseteq Cores /\ open \subseteq DOMAIN drafts
  /\ \A i \in DOMAIN drafts :
       /\ DOMAIN drafts[i].facts \subseteq Names /\ drafts[i].missing \subseteq Cores
       /\ drafts[i].status \in {"UNRESOLVED", "AMBIGUOUS", "RESOLVED", "CONFLICT"}
       /\ drafts[i].state \in {"INCOMPLETE", "CONFLICTED", "NEEDS_APPROVAL", "READY"}
  /\ begun \in 0..MaxBegun /\ losses \in 0..MaxLosses

\* As long as no call put a draft back over the change of another: a fact has a value
\* that a source, the owner or the AI gave since the last decision about it, is in
\* dispute exactly when they gave different ones, whatever the order and the number of
\* the files, and no draft leaves CONFLICTED while one is.  Only a resolution ends a
\* dispute, and the AI never speaks for a commercial fact.
FactsReflectEvidence ==
  /\ RowsOK
  /\ \A i \in DOMAIN drafts \ overwritten :
       /\ \A n \in DOMAIN drafts[i].facts :
            LET f == drafts[i].facts[n] IN
            /\ f.by = "missing" <=> heard[i][n] = {}
            /\ f.by # "missing" => Normal(n, f.value) \in heard[i][n]
            /\ f.disputed <=> Cardinality(heard[i][n]) > 1
            /\ n \in Protected => f.by # "ai"
       /\ Disputed(drafts[i]) # {} => drafts[i].state = "CONFLICTED"

\* Unless two of its rows matched one variant, after the last revision of a product
\* each of its rows fits a variant that is active, and no variant is active that none of
\* them fits: the others are stale, and one that comes back is active again.
ActiveIsTheRevision ==
  \A i \in DOMAIN drafts \ (overwritten \cup crossed) : current[i] # {} =>
    LET variants == drafts[i].variants IN
    /\ \A g \in current[i] : \E j \in Active(variants) : Fits(variants[j], g)
    /\ \A j \in Active(variants) : \E g \in current[i] : Fits(variants[j], g)

\* No incomplete draft waits while nobody is being asked: unless a call died, a message
\* was lost, a row was overwritten, a question was sent too late, one ended or arose
\* otherwise than by an answer or an ingestion, or a conflicted draft with nothing to
\* ask about was first in the queue, a question about some draft is outstanding.
AtRest == \A c \in Calls : At(c, "idle")
NobodyWaitsUnasked ==
  AtRest /\ ~ diverted /\ overwritten = {} =>
    \A i \in DOMAIN drafts : drafts[i].state = "INCOMPLETE" => \E j \in open : Waits(drafts[j])
=============================================================================
