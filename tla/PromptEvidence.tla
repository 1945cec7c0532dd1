---------------------------- MODULE PromptEvidence ----------------------------
(***************************************************************************)
(* What a model is shown of an analysis, and what its answer may rest on   *)
(* (ai_boundary/envelope.py, ai_boundary/prompt.py, and the grounding of   *)
(* ai_boundary/finding_analysis.py).                                       *)
(*                                                                         *)
(* A word is any string.  What the program reads off its characters is     *)
(* given by Prose: how long it is, whether it is blank or a bare token,    *)
(* the numbers in it, the consequence terms it uses (terms) and the stems  *)
(* it contains (stems), and what the lexical screens say of it: that it    *)
(* makes a claim as an assertion (claims) or as advice (advises), or says  *)
(* that something was done (acts).                                         *)
(***************************************************************************)
EXTENDS Json

CONSTANT Prose

NoText == ""

ASSUME ProseAssumption ==
    /\ NoText \in DOMAIN Prose /\ Prose[NoText].length = 0
    /\ \A w \in DOMAIN Prose :
           Prose[w].length \in Nat /\ (Prose[w].length = 0 => Prose[w].blank)

Plain == [length |-> 1, blank |-> FALSE, token |-> TRUE, numbers |-> {},
          terms |-> {}, stems |-> {}, claims |-> FALSE, advises |-> FALSE,
          acts |-> FALSE]

Facts(w) == IF w \in DOMAIN Prose THEN Prose[w] ELSE Plain

EvidenceParts == {"id", "columns", "rows", "summary", "payload"}

\* The identifier of a piece of evidence can hold the content of a cell, so a
\* model sees its position.
Digits == <<"0", "1", "2", "3", "4", "5", "6", "7", "8", "9">>

\* In decimal, for the fewer than a hundred pieces of evidence of a finding.
Decimal(n) == (IF n < 10 THEN NoText ELSE Digits[(n \div 10) + 1])
                  \o Digits[(n % 10) + 1]

Alias(i) == "evidence_" \o Decimal(i)

ProviderView(evidence) ==
    [i \in DOMAIN evidence |-> [evidence[i] EXCEPT !.id = Alias(i)]]

SafeStringPayloadKeys == {"matched_pattern_categories", "reference_date"}

\* _computed_fact: one string that is not allowed withholds the whole value.
IsComputedFact(v, strings) ==
    \A x \in Within(v) :
        /\ IsString(x) => strings /\ Facts(x.word).token
        /\ IsObject(x) => \A k \in Keys(x) : strings /\ Facts(k).token

\* Mutation: a payload is sent as it is.
SentWhole(e) == e

\* serialize_evidence_for_provider
Sent(e) ==
    LET kept == {k \in DOMAIN e.payload :
                     /\ Facts(k).token
                     /\ IsComputedFact(e.payload[k], k \in SafeStringPayloadKeys)}
    IN  [e EXCEPT !.payload = Restrict(e.payload, kept)]

EvidenceWords(e) ==
    {e.id, e.summary} \cup Range(e.columns) \cup Words(Obj(e.payload))

\* build_prompt_envelope; no route sends sample values.
Envelope(evidence, context) ==
    [evidence |-> ProviderView(evidence), context |-> context]

SentEvidence(envelope) ==
    {Sent(envelope.evidence[i]) : i \in DOMAIN envelope.evidence}

\* build_safe_prompt: the strings and the numbers in the data of a prompt.
PromptWords(envelope) ==
    Words(Obj(envelope.context)) \cup
        UNION {EvidenceWords(e) : e \in SentEvidence(envelope)}

PromptNumbers(envelope) ==
    Numbers(Obj(envelope.context)) \cup
        UNION {{e.rows} \cup Numbers(Obj(e.payload)) : e \in SentEvidence(envelope)}

EvidenceIds(envelope) == {e.id : e \in Range(envelope.evidence)}

EvidenceColumns(evidence) == UNION {Range(e.columns) : e \in Range(evidence)}

\* _known_numeric_facts_from_evidence: a name with two values has none.
KnownNumericFacts(evidence) ==
    LET Values(k) == {e.payload[k].number :
            e \in {x \in Range(evidence) :
                       k \in DOMAIN x.payload /\ IsNumber(x.payload[k])}}
        names == {k \in UNION {DOMAIN e.payload : e \in Range(evidence)} :
                      Cardinality(Values(k)) = 1}
    IN  [k \in names |-> CHOOSE n \in Values(k) : TRUE]

\* Mutation: what a model may use is read from the evidence, not the prompt.
GroundingInEvidence(envelope, facts) ==
    LET words == Words(Obj(envelope.context)) \cup
                     UNION {EvidenceWords(e) : e \in Range(envelope.evidence)}
    IN  [numbers |-> Range(facts) \cup PromptNumbers(envelope) \cup
                         UNION {Facts(w).numbers : w \in words},
         stems |-> UNION {Facts(w).stems : w \in words}]

\* _Grounding: the numbers and stems an answer may use are those of the prompt
\* (samples excepted), and the known facts.
Grounding(envelope, facts) ==
    LET words == PromptWords(envelope)
    IN  [numbers |-> Range(facts) \cup PromptNumbers(envelope) \cup
                         UNION {Facts(w).numbers : w \in words},
         stems |-> UNION {Facts(w).stems : w \in words}]
-----------------------------------------------------------------------------
ContextFields == {"probable_domain", "row_grain", "primary_entity",
                  "candidate_keys", "business_dates", "measure_roles",
                  "dimensions", "currency_behavior", "expected_business_rules"}

NoContext == << >>

\* Mutation: what was inferred is sent as well.
ConfirmedContextOrInferred(context, finalized) ==
    LET fields == {f \in DOMAIN context : context[f].state # "unknown"}
    IN  IF finalized
        THEN [f \in fields |-> Obj([value |-> context[f].value,
                                    confirmation_state |-> Str(context[f].state)])]
        ELSE NoContext

\* confirmed_context_for_finding_analysis: what the user has confirmed or
\* corrected, once the context is finalized; a context is a function of the
\* fields, or NoContext.
ConfirmedContext(context, finalized) ==
    LET fields == {f \in DOMAIN context :
                       context[f].state \in {"confirmed", "corrected"}}
    IN  IF finalized
        THEN [f \in fields |-> Obj([value |-> context[f].value,
                                    confirmation_state |-> Str(context[f].state)])]
        ELSE NoContext

\* serialize_dataset_context: everything, for the inference of the context.
SerializedContext(context) ==
    [f \in DOMAIN context |->
        Obj([value |-> context[f].value, confidence |-> Num(context[f].confidence),
             confirmation_state |-> Str(context[f].state)])]
=============================================================================
