---------------------------- MODULE FindingAnswers ----------------------------
(***************************************************************************)
(* The structured analysis of a finding: the contract of a request, the    *)
(* validation of an answer, and the explanation made of an accepted one    *)
(* (ai_boundary/finding_analysis.py, explanation/ai_explanation.py,        *)
(* domain/explanation.py).                                                 *)
(*                                                                         *)
(* A request holds the evidence of the finding, the envelope sent, the     *)
(* numeric facts that may be claimed by name, and what an answer may rest  *)
(* on.                                                                     *)
(***************************************************************************)
EXTENDS OutputContract

FindingVersion   == "finding_analysis_v2"
AiInterpretation == "ai_interpretation"

MaxReferences  == 10
MaxRuleColumns == 5
MaxEntries     == 3

FindingRequest(evidence, context) ==
    LET envelope == Envelope(evidence, context)
        facts    == KnownNumericFacts(evidence)
    IN  [evidence |-> evidence, envelope |-> envelope, facts |-> facts,
         ids |-> EvidenceIds(envelope), columns |-> EvidenceColumns(evidence),
         context |-> DOMAIN context, grounding |-> Grounding(envelope, facts)]

RuleTypes == {"not_null", "unique", "accepted_values", "numeric_range",
              "date_range", "regex", "max_missing_percentage",
              "approximate_equality", "expression_comparison",
              "conditional_rule", "max_duplicate_percentage"}

\* The texts of an entry and the most characters each may have.
ImpactTexts == [statement |-> 400, assumption |-> 300]

RemediationTexts ==
    [action_summary |-> 400, responsible_role |-> 80, urgency |-> 60,
     historical_correction_guidance |-> 400,
     source_system_prevention_guidance |-> 400,
     risk_warning |-> 300, verification_step |-> 300]

MaxExplanation     == 600
MaxExample         == 300
MaxRuleDescription == 400

ImpactKeys      == DOMAIN ImpactTexts \cup {"evidence_ids", "context_fields"}
RemediationKeys ==
    DOMAIN RemediationTexts \cup {"technical_example", "evidence_ids"}
RuleKeys        == {"rule_type", "columns", "description"}
RequiredKeys    ==
    {"schema_version", "provenance", "explanation", "business_impact",
     "remediation", "validation_rule", "referenced_evidence_ids",
     "referenced_columns"}
-----------------------------------------------------------------------------
(* The contract.                                                           *)

TextsAreAllowed(v, limits) ==
    \A k \in DOMAIN limits : IsTextOf(Field(v, k), 1, limits[k])

ImpactIsAllowed(v, req) ==
    /\ HasFields(v, ImpactKeys, {})
    /\ TextsAreAllowed(v, ImpactTexts)
    /\ IsSomeOf(Field(v, "evidence_ids"), req.ids, 0, MaxReferences)
    /\ IsSomeOf(Field(v, "context_fields"), req.context, 0, MaxReferences)

RemediationIsAllowed(v, req) ==
    /\ HasFields(v, RemediationKeys, {})
    /\ TextsAreAllowed(v, RemediationTexts)
    /\ IsTextOf(Field(v, "technical_example"), 0, MaxExample)
    /\ IsSomeOf(Field(v, "evidence_ids"), req.ids, 0, MaxReferences)

RuleIsAllowed(v, req) ==
    /\ HasFields(v, RuleKeys, {})
    /\ IsOneOf(Field(v, "rule_type"), RuleTypes)
    /\ IsSomeOf(Field(v, "columns"), req.columns, 0, MaxRuleColumns)
    /\ IsTextOf(Field(v, "description"), 1, MaxRuleDescription)

ClaimsAreAllowed(v, req) ==
    HasFields(v, {}, DOMAIN req.facts) /\ \A k \in Keys(v) : IsNumber(Field(v, k))

\* finding_analysis_json_schema
FindingSchemaAllows(a, req) ==
    /\ HasFields(a, RequiredKeys, {"numeric_claims"})
    /\ IsOneOf(Field(a, "schema_version"), {FindingVersion})
    /\ IsOneOf(Field(a, "provenance"), {AiInterpretation})
    /\ IsTextOf(Field(a, "explanation"), 1, MaxExplanation)
    /\ IsListOf(Field(a, "business_impact"), 1, MaxEntries)
    /\ \A v \in Items(Field(a, "business_impact")) : ImpactIsAllowed(v, req)
    /\ IsListOf(Field(a, "remediation"), 1, MaxEntries)
    /\ \A v \in Items(Field(a, "remediation")) : RemediationIsAllowed(v, req)
    /\ RuleIsAllowed(Field(a, "validation_rule"), req)
    /\ IsSomeOf(Field(a, "referenced_evidence_ids"), req.ids, 1, MaxReferences)
    /\ IsSomeOf(Field(a, "referenced_columns"), req.columns, 0, MaxReferences)
    /\ Has(a, "numeric_claims") => ClaimsAreAllowed(Field(a, "numeric_claims"), req)

Upto(s, n) == SubSeq(s, 1, IF Len(s) < n THEN Len(s) ELSE n)

\* mock_finding_analysis_output; columns is the columns in order.
MockFindingAnswer(req, columns) ==
    LET ids == [i \in DOMAIN req.evidence |-> Alias(i)]
        text == Str(MockText)
    IN  Obj([schema_version |-> Str(FindingVersion),
             provenance |-> Str(AiInterpretation),
             explanation |-> text,
             business_impact |-> List(<<Obj(
                 [k \in ImpactKeys |->
                     CASE k = "evidence_ids"   -> Strings(Upto(ids, 1))
                       [] k = "context_fields" -> List(<<>>)
                       [] OTHER -> text])>>),
             remediation |-> List(<<Obj(
                 [k \in RemediationKeys |->
                     CASE k = "evidence_ids"      -> Strings(Upto(ids, 1))
                       [] k = "technical_example" -> Str(NoText)
                       [] OTHER -> text])>>),
             validation_rule |-> Obj(
                 [rule_type |-> Str("not_null"),
                  columns |-> Strings(Upto(columns, MaxRuleColumns)),
                  description |-> text]),
             referenced_evidence_ids |-> Strings(ids),
             referenced_columns |-> Strings(columns)])
-----------------------------------------------------------------------------
(* The validation of an answer: the set of reasons to reject it.           *)

Ungrounded(w, grounding, structural) ==
    ~(Facts(w).numbers \subseteq grounding.numbers \cup structural)

TextsAreBounded(v, limits) ==
    \A k \in DOMAIN limits : IsText(Field(v, k), limits[k])

IsImpact(v) ==
    /\ ImpactKeys \subseteq Keys(v)
    /\ TextsAreBounded(v, ImpactTexts)
    /\ IsNames(Field(v, "evidence_ids"), 0, MaxReferences)
    /\ IsNames(Field(v, "context_fields"), 0, MaxReferences)

\* The one text that may be empty.
IsExample(v) ==
    IsString(v) /\ Facts(v.word).length <= MaxExample

IsRemediation(v) ==
    /\ RemediationKeys \subseteq Keys(v)
    /\ TextsAreBounded(v, RemediationTexts)
    /\ IsExample(Field(v, "technical_example"))
    /\ IsNames(Field(v, "evidence_ids"), 0, MaxReferences)

ImpactWords(v) == {Word(v, k) : k \in DOMAIN ImpactTexts}

\* Who acts and how soon are shown, and not screened.
AdviceWords(v) ==
    {Word(v, k) : k \in DOMAIN RemediationTexts \ {"responsible_role", "urgency"}}
        \cup ({Word(v, "technical_example")} \ {NoText})

\* An entry of a list: what is said of its keys, of its form and of its content.
EntryReasons(v, keys, wellFormed, content) ==
    IF ~IsObject(v) THEN {"schema_invalid"}
    ELSE When(~(Keys(v) \subseteq keys), "unsupported_control_field") \cup
         (IF wellFormed THEN content ELSE {"schema_invalid"})

\* _check_impact_statement
ImpactReasons(v, req) ==
    EntryReasons(v, ImpactKeys, IsImpact(v),
        When(~(Named(v, "evidence_ids") \subseteq req.ids),
             "unknown_evidence_id") \cup
        When(~(Named(v, "context_fields") \subseteq req.context),
             "unknown_context_field") \cup
        When(\E w \in ImpactWords(v) : Ungrounded(w, req.grounding, {}),
             "unknown_numeric_claim") \cup
        When(\E w \in ImpactWords(v) : Facts(w).claims, "unsupported_claim"))

\* Advice may recommend, but not say that something was done.
AdviceReasons(w, req, structural) ==
    When(Facts(w).acts, "unsupported_action_claim") \cup
    When(Ungrounded(w, req.grounding, structural), "unknown_numeric_claim")
        \cup
    When(Facts(w).advises, "unsupported_claim")

\* _check_remediation_option
RemediationReasons(v, req) ==
    EntryReasons(v, RemediationKeys, IsRemediation(v),
        When(~(Named(v, "evidence_ids") \subseteq req.ids),
             "unknown_evidence_id") \cup
        UNION {AdviceReasons(w, req, {}) : w \in AdviceWords(v)})

IsShortList(v) == IsList(v) /\ Len(v.items) \in 1 .. MaxEntries

ReferenceReasons(v, known, min, max, reason) ==
    IF IsNames(v, min, max)
    THEN When(~({x.word : x \in Items(v)} \subseteq known), reason)
    ELSE {"schema_invalid"}

\* Numbers that a proposed bound may have without evidence.
StructuralNumbers == {0, 1, 100}

RuleReasons(v, req) ==
    EntryReasons(v, RuleKeys, RuleKeys \subseteq Keys(v),
        When(~IsOneOf(Field(v, "rule_type"), RuleTypes),
             "schema_invalid") \cup
        ReferenceReasons(Field(v, "columns"), req.columns,
                         0, MaxRuleColumns, "unknown_column") \cup
        IF IsText(Field(v, "description"), MaxRuleDescription)
        THEN AdviceReasons(Word(v, "description"), req, StructuralNumbers)
        ELSE {"schema_invalid"})

ExplanationReasons(v, req) ==
    IF IsText(v, MaxExplanation)
    THEN When(~(Facts(v.word).terms \subseteq req.grounding.stems),
              "unsupported_impact_claim") \cup
         When(Ungrounded(v.word, req.grounding, {}),
              "unknown_numeric_claim") \cup
         When(Facts(v.word).claims, "unsupported_claim")
    ELSE {"schema_invalid"}

NumericClaimReasons(v, facts) ==
    IF ~IsObject(v) THEN {"schema_invalid"}
    ELSE UNION {IF k \notin DOMAIN facts THEN {"unknown_numeric_claim"}
                ELSE IF ~IsNumber(Field(v, k)) THEN {"schema_invalid"}
                ELSE When(Field(v, k).number # facts[k],
                          "numeric_claim_mismatch") : k \in Keys(v)}

ProvenanceReasons(v) ==
    IF ~IsString(v) THEN {"schema_invalid"}
    ELSE When(v.word # AiInterpretation, "invalid_provenance")

\* The reasons of one member of an answer.
MemberReasons(v, k, req) ==
    CASE k = "schema_version" -> When(v # Str(FindingVersion), "schema_invalid")
      [] k = "provenance" -> ProvenanceReasons(v)
      [] k = "explanation" -> ExplanationReasons(v, req)
      [] k = "business_impact" ->
             IF IsShortList(v) THEN UNION {ImpactReasons(x, req) : x \in Items(v)}
             ELSE {"schema_invalid"}
      [] k = "remediation" ->
             IF IsShortList(v)
             THEN UNION {RemediationReasons(x, req) : x \in Items(v)}
             ELSE {"schema_invalid"}
      [] k = "validation_rule" -> RuleReasons(v, req)
      [] k = "referenced_evidence_ids" ->
             ReferenceReasons(v, req.ids, IF req.ids = {} THEN 0 ELSE 1,
                              MaxReferences, "unknown_evidence_id")
      [] k = "referenced_columns" ->
             ReferenceReasons(v, req.columns, 0, MaxReferences,
                              "unknown_column")
      [] k = "numeric_claims" -> NumericClaimReasons(v, req.facts)
      [] OTHER -> {"unsupported_control_field"}

\* validate_finding_analysis_output
FindingReasons(a, req) ==
    IF ~IsObject(a) THEN {"schema_invalid"}
    ELSE When(~(RequiredKeys \subseteq Keys(a)), "schema_invalid") \cup
         UNION {MemberReasons(Field(a, k), k, req) : k \in Keys(a)}
-----------------------------------------------------------------------------
(* The explanation of an accepted answer.                                  *)

\* derive_impact_basis: the program says how a statement is labelled.
ImpactBasis(fields) ==
    IF fields = {} THEN "assumption" ELSE "confirmed_context"

\* The identifier of the evidence that an alias stands for.
RealId(alias, req) ==
    LET i == CHOOSE j \in DOMAIN req.evidence : Alias(j) = alias
    IN  req.evidence[i].id

RealIds(v, req) == {RealId(x, req) : x \in Named(v, "evidence_ids")}

\* _build_explanation
Explanation(a, req) ==
    [narrative |-> Word(a, "explanation"),
     evidence  |-> {e.id : e \in Range(req.evidence)},
     columns   |-> req.columns,
     impact    |->
        {[statement |-> Word(v, "statement"), assumption |-> Word(v, "assumption"),
          basis |-> ImpactBasis(Named(v, "context_fields")),
          context |-> Named(v, "context_fields"), evidence |-> RealIds(v, req)] :
            v \in Items(Field(a, "business_impact"))},
     remediation |->
        {[texts |-> [k \in DOMAIN RemediationTexts |-> Word(v, k)],
          example |-> IF Facts(Word(v, "technical_example")).blank THEN {}
                      ELSE {Word(v, "technical_example")},
          evidence |-> RealIds(v, req)] : v \in Items(Field(a, "remediation"))},
     rule |->
        [type |-> Word(Field(a, "validation_rule"), "rule_type"),
         columns |-> Named(Field(a, "validation_rule"), "columns")
                         \cap req.columns,
         description |-> Word(Field(a, "validation_rule"), "description")]]

\* What the domain objects refuse (their __post_init__).
IsWellMade(x) ==
    LET Blank(w) == Facts(w).blank
    IN  /\ x.narrative # NoText
        /\ \A i \in x.impact :
               /\ i.statement # NoText /\ ~Blank(i.assumption)
               /\ (i.basis = "confirmed_context") <=> (i.context # {})
        /\ \A o \in x.remediation :
               \A k \in DOMAIN o.texts : ~Blank(o.texts[k])
        /\ x.rule.description # NoText /\ x.rule.type \in RuleTypes
=============================================================================
