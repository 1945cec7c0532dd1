---------------------------- MODULE ContextAnswers ----------------------------
(***************************************************************************)
(* The context of a dataset: what is inferred of it from its columns, the  *)
(* questions asked about it, and the answer of a model that refines its    *)
(* probable domain (context_inference/heuristics.py, guided_questions.py   *)
(* and ai_context.py, and the unstructured output contract of              *)
(* ai_boundary/validation.py).                                             *)
(*                                                                         *)
(* A column is [name, type, likely, marker, entity]: its inferred type,    *)
(* whether a text looks like an identifier, whether the name has one of    *)
(* the sales markers, and the name without its suffix "_id" ("" if it has  *)
(* no such suffix or nothing before it).  Confidences are in hundredths.   *)
(***************************************************************************)
EXTENDS OutputContract, SequencesExt

RoleFields == {"candidate_keys", "business_dates", "measure_roles", "dimensions"}

\* Hypotheses, as a set: two columns never make the same one.
Hypothesis(field, value, confidence, i) ==
    [field |-> field, value |-> value, confidence |-> confidence, column |-> i]

ColumnsOfType(columns, type) == {i \in DOMAIN columns : columns[i].type = type}

\* _type_hypotheses
TypeHypotheses(columns, type, field, confidence) ==
    {Hypothesis(field, columns[i].name, confidence, i) :
        i \in ColumnsOfType(columns, type)}

\* _candidate_key_hypotheses
CandidateKeyHypotheses(columns) ==
    TypeHypotheses(columns, "identifier", "candidate_keys", 90) \cup
    {Hypothesis("candidate_keys", columns[i].name, 70, i) :
        i \in {j \in ColumnsOfType(columns, "text") : columns[j].likely}}

\* _row_grain_hypotheses, _primary_entity_hypotheses: of a sole key.
SoleKeyHypotheses(columns) ==
    LET keys == CandidateKeyHypotheses(columns)
    IN  IF Cardinality(keys) # 1 THEN {}
        ELSE UNION {{Hypothesis("row_grain", "One row per " \o h.value, 60, 0)} \cup
                    (IF columns[h.column].entity = NoText THEN {}
                     ELSE {Hypothesis("primary_entity",
                                      columns[h.column].entity, 55, 0)}) :
                        h \in keys}

SalesMinMatches == 3

\* _probable_domain_hypotheses
DomainHypotheses(columns) ==
    IF Cardinality({i \in DOMAIN columns : columns[i].marker}) < SalesMinMatches
    THEN {}
    ELSE {Hypothesis("probable_domain", "Sales / order transactions", 50, 0)}

\* infer_context_hypotheses
InferredHypotheses(columns) ==
    CandidateKeyHypotheses(columns)
        \cup TypeHypotheses(columns, "date", "business_dates", 90)
        \cup TypeHypotheses(columns, "numeric", "measure_roles", 75)
        \cup TypeHypotheses(columns, "categorical", "dimensions", 70)
        \cup SoleKeyHypotheses(columns)
        \cup DomainHypotheses(columns)

\* _unknown_field_value
Unknown(field) ==
    [value |-> IF field \in RoleFields THEN List(<<>>) ELSE Str("unknown"),
     confidence |-> 0, state |-> "unknown"]

\* _consolidate_role_field: every name, at the average confidence.
AllOf(candidates) ==
    [value |-> Strings(SetToSeq({h.value : h \in candidates})),
     confidence |-> MapThenSumSet(LAMBDA h : h.confidence, candidates)
                        \div Cardinality(candidates),
     state |-> "inferred"]

\* _consolidate_single_value_field: the value of most confidence.
BestOf(candidates) ==
    LET best == CHOOSE h \in candidates :
                    \A g \in candidates : g.confidence <= h.confidence
    IN  [value |-> Str(best.value), confidence |-> best.confidence,
         state |-> "inferred"]

\* consolidate_dataset_context
Consolidated(hypotheses) ==
    [f \in ContextFields |->
        LET candidates == {h \in hypotheses : h.field = f}
        IN  IF candidates = {} THEN Unknown(f)
            ELSE IF f \in RoleFields THEN AllOf(candidates)
            ELSE BestOf(candidates)]

\* infer_dataset_context
InferredContext(columns) == Consolidated(InferredHypotheses(columns))

QuestionFields == {"probable_domain", "row_grain", "primary_entity",
                   "currency_behavior", "expected_business_rules"}

\* generate_guided_questions: which fields are asked about.
GuidedQuestions(context) == {f \in QuestionFields : context[f].state = "unknown"}
-----------------------------------------------------------------------------
(* The answer of a model.                                                  *)

OutputVersion == "1"
Severities    == {"critical", "high", "medium", "low", "informational"}

NarrativeKeys == {"schema_version", "narrative", "provenance"}
AnswerKeys    == NarrativeKeys \cup
    {"referenced_evidence_ids", "referenced_columns", "numeric_claims",
     "severity"}

\* build_context_inference_envelope
ContextEnvelope(evidence, context) ==
    Envelope(evidence, SerializedContext(context))

\* An optional member that is null is as good as absent.
IsGiven(a, k) == Has(a, k) /\ ~(Field(a, k).type = "null")

\* A list is looked at from its start up to the first item that is not known;
\* an item that cannot be hashed cannot even be looked for.
IsKnown(v, known) == IsString(v) /\ v.word \in known
CannotBeHashed(v) == IsList(v) \/ IsObject(v)

FirstUnknown(v, known) ==
    {i \in DOMAIN v.items :
        /\ ~IsKnown(v.items[i], known)
        /\ \A j \in 1 .. i - 1 : IsKnown(v.items[j], known)}

ReferencesRaise(a, k, known) ==
    /\ IsGiven(a, k)
    /\ IsList(Field(a, k))
    /\ \E i \in FirstUnknown(Field(a, k), known) :
           CannotBeHashed(Field(a, k).items[i])

KnownReferences(envelope) ==
    [referenced_evidence_ids |-> EvidenceIds(envelope),
     referenced_columns |-> EvidenceColumns(envelope.evidence)]

\* Whether the validation raises TypeError.
ValidationRaises(a, envelope) ==
    \E k \in DOMAIN KnownReferences(envelope) :
        ReferencesRaise(a, k, KnownReferences(envelope)[k])

UnknownReason == [referenced_evidence_ids |-> "unknown_evidence_id",
                  referenced_columns |-> "unknown_column"]

AnswerReferenceReasons(a, envelope) ==
    UNION {IF ~IsGiven(a, k) THEN {}
           ELSE IF ~IsList(Field(a, k)) THEN {"schema_invalid"}
           ELSE When(FirstUnknown(Field(a, k), KnownReferences(envelope)[k]) # {},
                     UnknownReason[k]) : k \in DOMAIN UnknownReason}

\* validate_model_output: no numeric fact is known to this call.
AnswerReasons(a, envelope) ==
    When(~(Keys(a) \subseteq AnswerKeys), "unsupported_control_field") \cup
    When(~(NarrativeKeys \subseteq Keys(a)), "schema_invalid") \cup
    When(Has(a, "schema_version") /\ Field(a, "schema_version") # Str(OutputVersion),
         "schema_invalid") \cup
    When(Has(a, "narrative") /\ ~IsString(Field(a, "narrative")),
         "schema_invalid") \cup
    When(Has(a, "narrative") /\ IsString(Field(a, "narrative"))
             /\ Facts(Word(a, "narrative")).claims, "unsupported_claim") \cup
    When(Has(a, "provenance") /\ ~IsString(Field(a, "provenance")),
         "schema_invalid") \cup
    When(Has(a, "provenance") /\ IsString(Field(a, "provenance"))
             /\ Word(a, "provenance") # "ai_interpretation",
         "invalid_provenance") \cup
    AnswerReferenceReasons(a, envelope) \cup
    When(IsGiven(a, "numeric_claims") /\ ~IsObject(Field(a, "numeric_claims")),
         "schema_invalid") \cup
    When(IsGiven(a, "numeric_claims") /\ IsObject(Field(a, "numeric_claims"))
             /\ Keys(Field(a, "numeric_claims")) # {}, "unknown_numeric_claim") \cup
    When(IsGiven(a, "severity") /\ ~IsOneOf(Field(a, "severity"), Severities),
         "invalid_severity")

\* ContextHypothesis refuses an empty value, although an empty narrative is valid.
HypothesisRaises(a) == Word(a, "narrative") = NoText

\* default_mock_raw_output
MockAnswer ==
    Obj([schema_version |-> Str(OutputVersion), narrative |-> Str(MockText),
         provenance |-> Str("ai_interpretation")])

\* Mutation: the answer is less confident than the heuristic.
RefinedContextAtFifty(columns, a) ==
    Consolidated(InferredHypotheses(columns) \cup
        {Hypothesis("probable_domain", Word(a, "narrative"), 49, 0)})

\* combine_hypotheses, consolidate_dataset_context
RefinedContext(columns, a) ==
    Consolidated(InferredHypotheses(columns) \cup
        {Hypothesis("probable_domain", Word(a, "narrative"), 65, 0)})
=============================================================================
