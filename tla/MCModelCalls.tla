----------------------------- MODULE MCModelCalls -----------------------------
(***************************************************************************)
(* Calls about a finding whose evidence holds cell content, with and       *)
(* without a finalized context, and one with more evidence than an answer  *)
(* may refer to; first inferences of two contexts; the proposal of a rule. *)
(* The answers are a good one and what differs from it at one place, at    *)
(* every place, or at two of the more delicate places.                     *)
(***************************************************************************)
EXTENDS ModelCalls

Of(length) == [Plain EXCEPT !.length = length, !.token = FALSE]

Long == [L60 |-> 60, L61 |-> 61, L80 |-> 80, L81 |-> 81, L300 |-> 300,
         L301 |-> 301, L400 |-> 400, L401 |-> 401, L600 |-> 600, L601 |-> 601]

MCProse ==
    [w \in DOMAIN Long |-> Of(Long[w])] @@
    [w \in {"says 3", "says 9", "says 77", "says 100"} |->
        [Of(6) EXCEPT !.numbers = {CASE w = "says 3" -> 3 [] w = "says 9" -> 9
                                     [] w = "says 77" -> 77
                                     [] w = "says 100" -> 100}]] @@
    ("" :> [Of(0) EXCEPT !.blank = TRUE]) @@
    ("  " :> [Of(2) EXCEPT !.blank = TRUE]) @@
    ("mock text" :> Of(9)) @@
    ("names refunds" :> [Of(13) EXCEPT !.terms = {"refund"}]) @@
    ("names revenue" :> [Of(13) EXCEPT !.terms = {"revenue"}]) @@
    ("claims" :> [Of(6) EXCEPT !.claims = TRUE, !.advises = TRUE]) @@
    ("asserts" :> [Of(7) EXCEPT !.claims = TRUE]) @@
    ("acts" :> [Of(4) EXCEPT !.acts = TRUE]) @@
    ("revenue" :> [Plain EXCEPT !.length = 7, !.stems = {"revenue"}]) @@
    ("cell 77" :> [Of(7) EXCEPT !.numbers = {77}, !.stems = {"refund"}])

MCCellWords == {"cell 77", "Acme", "ACME", "evidence of acme"}

Casings == [id |-> "evidence of acme", columns |-> <<"revenue">>, rows |-> 3,
            summary |-> "summary",
            payload |-> [distinct_casings |-> Strings(<<"Acme", "ACME">>),
                         row_count |-> Num(3), variant_count |-> Num(2)]]

Excerpt == [id |-> "evidence of excerpt", columns |-> <<"notes">>, rows |-> 1,
            summary |-> "summary",
            payload |-> [truncated_sample_prefix |-> Str("cell 77"),
                         matched_pattern_categories |-> Strings(<<"override">>),
                         counts |-> Obj("cell 77" :> Num(12)),
                         variant_count |-> Num(4)]]

UserContext ==
    [f \in ContextFields |->
        CASE f = "probable_domain" ->
                 [value |-> Str("sales"), confidence |-> 100, state |-> "confirmed"]
          [] f = "candidate_keys" ->
                 [value |-> Strings(<<"order_id">>), confidence |-> 90,
                  state |-> "corrected"]
          [] f = "row_grain" ->
                 [value |-> Str("says 9"), confidence |-> 60, state |-> "inferred"]
          [] OTHER -> Unknown(f)]

Finding(evidence, columns, finalized) ==
    [kind |-> "finding", evidence |-> evidence, columns |-> columns,
     context |-> UserContext, finalized |-> finalized]

Informed   == Finding(<<Casings, Excerpt>>, <<"revenue", "notes">>, TRUE)
Uninformed == Finding(<<Casings>>, <<"revenue">>, FALSE)
Crowded    == Finding([i \in 1 .. 11 |->
                          [Excerpt EXCEPT !.id = "evidence " \o Decimal(i)]],
                      <<"notes">>, FALSE)

Column(name, type, marker, entity) ==
    [name |-> name, type |-> type, likely |-> TRUE, marker |-> marker,
     entity |-> entity]

Orders == <<Column("order_id", "identifier", TRUE, "order"),
            Column("price", "numeric", TRUE, ""),
            Column("region", "categorical", TRUE, ""),
            Column("placed", "date", FALSE, "")>>

Notes  == <<Column("code", "text", FALSE, ""),
            Column("other_id", "identifier", FALSE, "other"),
            Column("price", "numeric", TRUE, "")>>

ContextCase(columns) ==
    [kind |-> "context", evidence |-> <<Casings, Excerpt>>, columns |-> columns]

RuleCase == [kind |-> "rule", evidence |-> <<Casings>>,
             finding |-> [detector |-> "consistency.inconsistent_capitalization",
                          evidence_ids |-> <<"evidence of acme">>]]

MCCases == [informed |-> Informed, uninformed |-> Uninformed,
            crowded |-> Crowded, orders |-> ContextCase(Orders),
            notes |-> ContextCase(Notes), spelling |-> RuleCase]
-----------------------------------------------------------------------------
(* Answers.                                                                *)

Absent == [type |-> "absent"]

\* v with x at the end of a path of keys.
RECURSIVE Put(_, _, _)
Put(v, path, x) ==
    IF path = <<>> THEN x
    ELSE IF IsList(v)
    THEN List([v.items EXCEPT ![1] = Put(v.items[1], Tail(path), x)])
    ELSE LET k == Head(path)
         IN  IF x = Absent /\ Len(path) = 1
             THEN Obj(Restrict(v.members, Keys(v) \ {k}))
             ELSE Obj((k :> Put(IF Has(v, k) THEN v.members[k] ELSE Obj(<< >>),
                                Tail(path), x)) @@ v.members)

Changed(base, changes) == {Put(base, c[1], c[2]) : c \in changes}
ChangedTwice(base, changes) ==
    UNION {Changed(Put(base, c[1], c[2]),
                   {d \in changes : Head(d[1]) # Head(c[1])}) : c \in changes}

Wrong == {Null, Num(7), Bool(TRUE), List(<<Num(1)>>), Obj(<< >>), Absent}

Good(ids, columns, fields) ==
    Obj([schema_version |-> Str(FindingVersion),
         provenance |-> Str(AiInterpretation),
         explanation |-> Str("says 3"),
         business_impact |-> List(<<Obj(
             [k \in DOMAIN ImpactTexts |-> Str("text")] @@
             [evidence_ids |-> Strings(ids), context_fields |-> Strings(fields)])>>),
         remediation |-> List(<<Obj(
             [k \in DOMAIN RemediationTexts |-> Str("text")] @@
             [technical_example |-> Str("text"), evidence_ids |-> Strings(ids)])>>),
         validation_rule |-> Obj(
             [rule_type |-> Str("unique"), columns |-> Strings(columns),
              description |-> Str("says 100")]),
         referenced_evidence_ids |-> Strings(ids),
         referenced_columns |-> Strings(columns),
         numeric_claims |-> Obj([row_count |-> Num(3)])])

TextPaths ==
    {<<"explanation">>, <<"validation_rule", "description">>} \cup
    {<<"business_impact", 1, k>> : k \in DOMAIN ImpactTexts} \cup
    {<<"remediation", 1, k>> :
        k \in DOMAIN RemediationTexts \cup {"technical_example"}}

NamePaths == {<<"business_impact", 1, "evidence_ids">>,
              <<"business_impact", 1, "context_fields">>,
              <<"remediation", 1, "evidence_ids">>,
              <<"validation_rule", "columns">>,
              <<"referenced_evidence_ids">>, <<"referenced_columns">>}

Repeated(w, n) == Strings([i \in 1 .. n |-> w])

NameValues ==
    {Repeated(w, n) : n \in {0, 1, 5, 6, 10, 11},
                      w \in {"evidence_1", "revenue", "probable_domain"}}
    \cup {Strings(<<"row_grain">>), Strings(<<"evidence of acme">>),
          Strings(<<"evidence_1", "evidence_2">>)}

OtherPaths ==
    {<<"schema_version">>, <<"provenance">>, <<"business_impact">>,
     <<"business_impact", 1>>, <<"remediation">>, <<"remediation", 1>>,
     <<"validation_rule">>, <<"validation_rule", "rule_type">>,
     <<"numeric_claims">>, <<"numeric_claims", "row_count">>,
     <<"numeric_claims", "variant_count">>,
     <<"score">>, <<"business_impact", 1, "basis">>,
     <<"remediation", 1, "score">>, <<"validation_rule", "status">>}

\* One entry of a list, n times.
Entries(base, k) ==
    {<< <<k>>, List([i \in 1 .. n |-> Field(base, k).items[1]]) >> : n \in {0, 3, 4}}

FindingChanges(base) ==
    (TextPaths \X ({Str(w) : w \in DOMAIN MCProse} \cup Wrong))
    \cup (NamePaths \X (NameValues \cup Wrong))
    \cup (OtherPaths \X ({Str("other"), Num(2), Num(3)} \cup Wrong))
    \cup Entries(base, "business_impact") \cup Entries(base, "remediation")

Delicate ==
    (({<<"explanation">>, <<"validation_rule", "description">>,
       <<"business_impact", 1, "statement">>,
       <<"remediation", 1, "technical_example">>}) \X
     {Str(w) : w \in {"", "  ", "says 77", "names refunds", "asserts", "acts"}})
    \cup ({<<"referenced_evidence_ids">>, <<"referenced_columns">>,
           <<"business_impact", 1, "context_fields">>} \X
          {List(<<>>), Strings(<<"probable_domain">>), Strings(<<"notes">>)})

GoodFor(c) == Good(<<Alias(1)>>, <<c.columns[1]>>,
                   IF c.finalized THEN <<"probable_domain">> ELSE <<>>)

FindingAnswersTo(c) ==
    IF c = Crowded THEN {GoodFor(c)}
    ELSE {GoodFor(c)} \cup Changed(GoodFor(c), FindingChanges(GoodFor(c)))
             \cup (IF c = Informed THEN ChangedTwice(GoodFor(c), Delicate)
                   ELSE {})

Mixed == {List(<<Str("evidence_1"), List(<<>>)>>),
          List(<<Str("other"), Obj(<< >>)>>), List(<<Obj(<< >>)>>),
          Strings(<<"revenue", "notes">>), Strings(<<"evidence_2">>),
          List(<<Null>>)}

ContextAnswersTo ==
    LET base == Obj([schema_version |-> Str("1"), narrative |-> Str("shop data"),
                     provenance |-> Str("ai_interpretation"),
                     referenced_columns |-> Strings(<<"revenue">>)])
        changes ==
            ({<<"schema_version">>, <<"narrative">>, <<"provenance">>,
              <<"severity">>, <<"score">>, <<"numeric_claims">>,
              <<"referenced_columns">>, <<"referenced_evidence_ids">>} \X
             ({Str(w) : w \in {"", "  ", "claims", "high", "other"}}
                  \cup Mixed \cup Wrong))
            \cup ({<<"numeric_claims", "row_count">>} \X Wrong)
    IN  {base} \cup Changed(base, changes)

RuleAnswersTo ==
    LET base == Obj([schema_version |-> Str(RuleVersion),
                     provenance |-> Str("ai_interpretation"),
                     canonical_value |-> Str("ACME")])
        changes ==
            {<<"schema_version">>, <<"provenance">>, <<"canonical_value">>,
             <<"score">>} \X ({Str(w) : w \in {"", "Acme", "acme"}} \cup Wrong)
    IN  {base} \cup Changed(base, changes) \cup ChangedTwice(base, changes)

MCAnswers ==
    [c \in DOMAIN MCCases |->
        CASE MCCases[c].kind = "finding" -> FindingAnswersTo(MCCases[c])
          [] MCCases[c].kind = "context" -> ContextAnswersTo
          [] MCCases[c].kind = "rule"    -> RuleAnswersTo]
=============================================================================
