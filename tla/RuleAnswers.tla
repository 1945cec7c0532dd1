------------------------------ MODULE RuleAnswers ------------------------------
(***************************************************************************)
(* A rule proposed with the help of a model: which of the spellings found  *)
(* in the data is the right one (rules/generation.py,                      *)
(* rules/ai_generation.py, ai_boundary/rule_generation.py, and             *)
(* finalize_ai_assisted_rule and create_validation_rule of                 *)
(* analysis/service.py).                                                   *)
(***************************************************************************)
EXTENDS OutputContract

RuleVersion == "rule_generation_v1"

MinCandidates == 2

AiAssistableDetectors == {"consistency.inconsistent_capitalization"}

\* A finding is [detector, evidence_ids].  extract_ai_assist_candidates: the
\* candidates are the words of a list, <<>> if there is none to choose from.
Candidates(finding, evidence) ==
    LET items == {e \in Range(evidence) : e.id = finding.evidence_ids[1]}
        lists == {v \in {e.payload["distinct_casings"] :
                     e \in {x \in items : "distinct_casings" \in DOMAIN x.payload}} :
                         IsListOfStrings(v) /\ Len(v.items) >= MinCandidates}
    IN  IF /\ finding.detector \in AiAssistableDetectors
           /\ finding.evidence_ids # <<>>
           /\ lists # {}
        THEN LET v == CHOOSE v \in lists : TRUE
             IN  [i \in DOMAIN v.items |-> v.items[i].word]
        ELSE <<>>

RuleAnswerKeys == {"schema_version", "provenance", "canonical_value"}

\* rule_generation_json_schema
RuleSchemaAllows(a, candidates) ==
    /\ HasFields(a, RuleAnswerKeys, {})
    /\ IsOneOf(Field(a, "schema_version"), {RuleVersion})
    /\ IsOneOf(Field(a, "provenance"), {"ai_interpretation"})
    /\ IsOneOf(Field(a, "canonical_value"), Range(candidates))

\* _mock_rule_generation_output_factory
MockRuleAnswer(candidates) ==
    Obj([schema_version |-> Str(RuleVersion),
         provenance |-> Str("ai_interpretation"),
         canonical_value |-> Str(candidates[1])])

ValueReasons(v, candidates) ==
    IF ~IsString(v) THEN {"schema_invalid"}
    ELSE When(v.word \notin Range(candidates), "value_not_candidate")

\* validate_rule_generation_output
RuleAnswerReasons(a, candidates) ==
    When(~(Keys(a) \subseteq RuleAnswerKeys), "unsupported_control_field") \cup
    IF ~(RuleAnswerKeys \subseteq Keys(a)) THEN {"schema_invalid"}
    ELSE When(Field(a, "schema_version") # Str(RuleVersion), "schema_invalid") \cup
         When(Field(a, "provenance") # Str("ai_interpretation"),
              "invalid_provenance") \cup
         ValueReasons(Field(a, "canonical_value"), candidates)

\* The rule that finalize_ai_assisted_rule offers.
OfferedRule(value) == [type |-> "accepted_values", accepted |-> <<value>>]

\* create_validation_rule: what may be created as chosen by a model.
IsGenuine(rule, candidates) ==
    /\ candidates # <<>>
    /\ rule.type = "accepted_values"
    /\ Len(rule.accepted) = 1
    /\ rule.accepted[1] \in Range(candidates)
=============================================================================
