------------------------------ MODULE ModelCalls ------------------------------
(***************************************************************************)
(* A call of a model, from the evidence of an analysis to what is kept of  *)
(* the answer: the analysis of a finding (run_finding_explanation), the    *)
(* first inference of a context (get_analysis_context and                  *)
(* run_context_inference) and the proposal of a rule                       *)
(* (get_finding_rule_proposal and run_rule_generation), with the providers *)
(* of ai_provider.  The model, and the server in front of it, are the      *)
(* environment: any answer, a refused format, an error.                    *)
(*                                                                         *)
(* While a call is made, others may edit or delete its analysis.           *)
(***************************************************************************)
EXTENDS FindingAnswers, ContextAnswers, RuleAnswers

CONSTANTS Cases,        \* Cases[c]: what a call may be about
          Answers,      \* Answers[c]: what a model may answer in case c
          CellWords     \* the words that are the content of cells

VARIABLES call, told, analysis

vars == << call, told, analysis >>

Providers  == {"mock", "llama_cpp", "unconfigured"}
MaxRetries == 2

NoAnswer == Null
NoResult == Null

\* What has been shown to the provider; fields: of the context.
Told(words, numbers, fields) ==
    [words |-> words, numbers |-> numbers, fields |-> fields]

NothingTold == Told({}, {}, {})

\* A case: of a finding [kind, evidence, columns, context, finalized], of the
\* context of a dataset [kind, evidence, columns], or of a rule [kind,
\* evidence, finding].
IsOf(kind) == Cases[call.case].kind = kind

CasesOf(kind) == {c \in DOMAIN Cases : Cases[c].kind = kind}

\* What each case comes to, whatever the model answers.
Inferred == [c \in CasesOf("context") |-> InferredContext(Cases[c].columns)]

Spellings == [c \in CasesOf("rule") |->
                 Candidates(Cases[c].finding, Cases[c].evidence)]

Context == [c \in DOMAIN Cases |->
    CASE Cases[c].kind = "finding" ->
             ConfirmedContext(Cases[c].context, Cases[c].finalized)
      [] OTHER -> NoContext]

Envelopes == [c \in DOMAIN Cases |->
    IF Cases[c].kind = "context"
    THEN ContextEnvelope(Cases[c].evidence, Inferred[c])
    ELSE Envelope(Cases[c].evidence, Context[c])]

Request == [c \in CasesOf("finding") |->
               FindingRequest(Cases[c].evidence, Context[c])]

\* What the schema of a request allows; a context call has none.
SchemaAllows(c, a) ==
    CASE Cases[c].kind = "finding" -> FindingSchemaAllows(a, Request[c])
      [] Cases[c].kind = "rule"    -> RuleSchemaAllows(a, Spellings[c])

Reasons(c, a) ==
    CASE Cases[c].kind = "finding" -> FindingReasons(a, Request[c])
      [] Cases[c].kind = "context" -> AnswerReasons(a, Envelopes[c])
      [] Cases[c].kind = "rule"    -> RuleAnswerReasons(a, Spellings[c])

\* run_context_inference raises; the routes take it for an error of the provider.
Raises(c, a) ==
    /\ Cases[c].kind = "context"
    /\ \/ ValidationRaises(a, Envelopes[c])
       \/ AnswerReasons(a, Envelopes[c]) = {} /\ HypothesisRaises(a)

MockOutput(c) ==
    CASE Cases[c].kind = "finding" ->
             MockFindingAnswer(Request[c], Cases[c].columns)
      [] Cases[c].kind = "context" -> MockAnswer
      [] Cases[c].kind = "rule"    -> MockRuleAnswer(Spellings[c])

RetriesOf(c) == IF Cases[c].kind = "rule" THEN 0 ELSE MaxRetries

Result(c, a) ==
    CASE Cases[c].kind = "finding" -> Explanation(a, Request[c])
      [] Cases[c].kind = "context" -> RefinedContext(Cases[c].columns, a)
      [] Cases[c].kind = "rule"    -> [value |-> Word(a, "canonical_value")]

\* The words a contract names.
ContractWords(c) ==
    CASE Cases[c].kind = "finding" -> DOMAIN Request[c].facts
      [] Cases[c].kind = "context" -> {}
      [] Cases[c].kind = "rule"    -> Range(Spellings[c])

\* A finding has evidence, and its columns are those of it; a rule is only
\* proposed for spellings (FindingCandidate, get_finding_rule_proposal).
ASSUME CasesAssumption ==
    \A c \in DOMAIN Cases :
        LET case == Cases[c] IN
        /\ case.kind \in {"finding", "context", "rule"}
        /\ case.evidence \in Seq(Range(case.evidence))
        /\ \A e \in Range(case.evidence) :
               /\ EvidenceParts \subseteq DOMAIN e
               /\ \A k \in DOMAIN e.payload :
                      IsJson(e.payload[k]) /\ IsWalked(e.payload[k])
        /\ case.kind = "finding" =>
               /\ case.evidence # <<>>
               /\ case.columns \in Seq(EvidenceColumns(case.evidence))
        /\ case.kind = "rule" => Spellings[c] # <<>>

\* A provider hands on JSON objects only.
ASSUME AnswersAreObjects ==
    \A c \in DOMAIN Cases : \A a \in Answers[c] :
        IsObject(a) /\ IsJson(a) /\ IsWalked(a)

\* What is not the content of cells: what the program writes about them, the
\* names of columns and what is said of the dataset.
Metadata(c) ==
    LET evidence == Cases[c].evidence
        About(e) == {e.summary} \cup Range(e.columns) \cup DOMAIN e.payload \cup
            UNION {Words(e.payload[k]) :
                       k \in DOMAIN e.payload \cap SafeStringPayloadKeys}
    IN  {Alias(i) : i \in DOMAIN evidence} \cup Words(Obj(Envelopes[c].context))
            \cup UNION {About(e) : e \in Range(evidence)}

ASSUME CellWordsAreOfCells ==
    \A c \in DOMAIN Cases : CellWords \cap Metadata(c) = {}
-----------------------------------------------------------------------------
Init ==
    /\ \E c \in DOMAIN Cases, p \in Providers :
           call = [case |-> c, provider |-> p, pc |-> "build", retries |-> 0,
                   posts |-> 0, answer |-> NoAnswer, reasons |-> {},
                   status |-> "provider_error", sent |-> FALSE,
                   contextSent |-> FALSE, result |-> NoResult]
    /\ told = NothingTold
    /\ LET context == IF IsOf("context") THEN Inferred[call.case]
                      ELSE NoContext
       IN  analysis = [there |-> TRUE, version |-> 1, context |-> context,
                       questions |-> IF IsOf("context")
                                     THEN GuidedQuestions(context) ELSE {},
                       rules |-> {}, calls |-> <<>>]

\* create_provider and the envelope: without a model there is nothing to ask.
Build ==
    /\ call.pc = "build"
    /\ call' = IF call.provider = "unconfigured"
               THEN [call EXCEPT !.pc = "record"]
               ELSE [call EXCEPT !.pc = "ask", !.sent = TRUE,
                         !.contextSent = /\ IsOf("finding")
                                         /\ Context[call.case] # NoContext]
    /\ UNCHANGED << told, analysis >>

\* build_safe_prompt and the contract: all that a provider is shown.
Shown(c) ==
    LET envelope == Envelopes[c]
    IN  Told(PromptWords(envelope) \cup ContractWords(c), PromptNumbers(envelope),
             DOMAIN envelope.context)

Show ==
    LET shown == Shown(call.case)
    IN  told' = Told(told.words \cup shown.words, told.numbers \cup shown.numbers,
                     told.fields \cup shown.fields)

\* LlamaCppProvider.complete, up to the first request.
Post ==
    /\ call.pc = "ask" /\ call.provider = "llama_cpp"
    /\ call' = [call EXCEPT !.pc = "posted", !.posts = @ + 1,
                            !.answer = NoAnswer, !.reasons = {}]
    /\ Show
    /\ UNCHANGED analysis

\* Mutation: the request is repeated as long as it is refused.
FormatRefusedAgain ==
    /\ call.pc \in {"posted", "reposted"} /\ ~IsOf("context")
    /\ call' = [call EXCEPT !.pc = "reposted", !.posts = @ + 1]
    /\ UNCHANGED << told, analysis >>

\* A server that does not know response_format is asked again without it.
FormatRefused ==
    /\ call.pc = "posted" /\ ~IsOf("context")
    /\ call' = [call EXCEPT !.pc = "reposted", !.posts = @ + 1]
    /\ UNCHANGED << told, analysis >>

\* Timeout, no connection, an error status, or no JSON object in the answer.
ProviderFails ==
    /\ call.pc \in {"posted", "reposted"}
    /\ call' = [call EXCEPT !.pc = "record"]
    /\ UNCHANGED << told, analysis >>

\* Mutation: a rejected answer is asked for once more than agreed.
JudgeOnceMore(a) ==
    LET reasons == Reasons(call.case, a)
        judged  == [call EXCEPT !.answer = a, !.reasons = reasons]
    IN  call' =
            IF Raises(call.case, a) THEN [judged EXCEPT !.pc = "record"]
            ELSE IF reasons = {}
            THEN [judged EXCEPT !.status = "accepted", !.pc = "keep",
                                !.result = Result(call.case, a)]
            ELSE IF call.retries <= RetriesOf(call.case)
            THEN [judged EXCEPT !.retries = @ + 1, !.pc = "ask"]
            ELSE [judged EXCEPT !.status = "rejected", !.pc = "record"]

\* An accepted answer is used; a rejected one is asked for again, with the
\* reasons, as long as there are retries.
Judge(a) ==
    LET reasons == Reasons(call.case, a)
        judged  == [call EXCEPT !.answer = a, !.reasons = reasons]
    IN  call' =
            IF Raises(call.case, a) THEN [judged EXCEPT !.pc = "record"]
            ELSE IF reasons = {}
            THEN [judged EXCEPT !.status = "accepted", !.pc = "keep",
                                !.result = Result(call.case, a)]
            ELSE IF call.retries < RetriesOf(call.case)
            THEN [judged EXCEPT !.retries = @ + 1, !.pc = "ask"]
            ELSE [judged EXCEPT !.status = "rejected", !.pc = "record"]

ModelAnswers ==
    /\ call.pc \in {"posted", "reposted"}
    /\ \E a \in Answers[call.case] : Judge(a)
    /\ UNCHANGED << told, analysis >>

\* MockProvider.complete
MockAnswers ==
    /\ call.pc = "ask" /\ call.provider = "mock"
    /\ Judge(MockOutput(call.case))
    /\ Show
    /\ UNCHANGED analysis
-----------------------------------------------------------------------------
KeepFinding ==
    /\ call.pc = "keep" /\ IsOf("finding")
    /\ call' = [call EXCEPT !.pc = "record"]
    /\ UNCHANGED << told, analysis >>

\* apply_ai_context_augmentation: only on the context as it was inferred; what
\* it raises leaves the route, and the call is not recorded.
KeepContext ==
    /\ call.pc = "keep" /\ IsOf("context")
    /\ IF analysis.there /\ analysis.version = 1
       THEN /\ call' = [call EXCEPT !.pc = "reread"]
            /\ analysis' = [analysis EXCEPT !.context = call.result]
       ELSE /\ call' = [call EXCEPT !.pc = "escaped"]
            /\ UNCHANGED analysis
    /\ UNCHANGED told

\* The analysis is read again for its version.
Reread ==
    /\ call.pc = "reread"
    /\ call' = [call EXCEPT !.pc = IF analysis.there THEN "record" ELSE "escaped"]
    /\ UNCHANGED << told, analysis >>

\* finalize_ai_assisted_rule: looks the candidates up again.
KeepRule ==
    /\ call.pc = "keep" /\ IsOf("rule")
    /\ IF ~analysis.there THEN call' = [call EXCEPT !.pc = "escaped"]
       ELSE IF call.result.value \in Range(Spellings[call.case])
       THEN call' = [call EXCEPT !.pc = "record",
                                 !.result = OfferedRule(call.result.value)]
       ELSE call' = [call EXCEPT !.pc = "record", !.status = "rejected",
                                 !.result = NoResult]
    /\ UNCHANGED << told, analysis >>

\* record_ai_enrichment_call: an analysis that is gone is ignored.
Record ==
    /\ call.pc = "record"
    /\ call' = [call EXCEPT !.pc = "done"]
    /\ analysis' = IF analysis.there
                   THEN [analysis EXCEPT !.calls = Append(@,
                            [outcome |-> call.status, sent |-> call.sent,
                             contextSent |-> call.contextSent])]
                   ELSE analysis
    /\ UNCHANGED told

\* The user accepts the offer: create_validation_rule.
AcceptOffer ==
    /\ call.pc = "done" /\ IsOf("rule") /\ call.status = "accepted"
    /\ analysis.there /\ analysis.rules = {}
    /\ IsGenuine(call.result, Spellings[call.case])
    /\ analysis' = [analysis EXCEPT !.rules = {call.result}]
    /\ UNCHANGED << call, told >>

OthersEdit ==
    /\ IsOf("context") /\ analysis.there /\ analysis.version = 1
    /\ analysis' = [analysis EXCEPT !.version = 2]
    /\ UNCHANGED << call, told >>

OthersDelete ==
    /\ analysis.there
    /\ analysis' = [analysis EXCEPT !.there = FALSE]
    /\ UNCHANGED << call, told >>

Next ==
    \/ Build \/ Post \/ FormatRefused \/ ProviderFails
    \/ ModelAnswers \/ MockAnswers
    \/ KeepFinding \/ KeepContext \/ Reread \/ KeepRule
    \/ Record \/ AcceptOffer
    \/ OthersEdit \/ OthersDelete

Spec == Init /\ [][Next]_vars
-----------------------------------------------------------------------------
(* Properties.                                                             *)

\* The types of the variables.
TypeOK ==
    /\ call.case \in DOMAIN Cases
    /\ call.provider \in Providers
    /\ call.pc \in {"build", "ask", "posted", "reposted", "keep", "reread",
                    "record", "done", "escaped"}
    /\ call.retries \in 0 .. MaxRetries
    /\ call.posts \in 0 .. 2 * (MaxRetries + 1)
    /\ call.status \in {"accepted", "rejected", "provider_error"}
    /\ call.sent \in BOOLEAN /\ call.contextSent \in BOOLEAN
    /\ analysis.there \in BOOLEAN /\ analysis.version \in 1 .. 2
    /\ Len(analysis.calls) <= 1

NumbersTold == told.numbers \cup UNION {Facts(w).numbers : w \in told.words}
StemsTold   == UNION {Facts(w).stems : w \in told.words}

\* The content of cells is not shown to a model, except for the spellings that
\* a rule may choose from; nor is any context the user has not confirmed.
OnlyFactsAreTold ==
    /\ told.words \cap CellWords \subseteq
           (IF IsOf("rule") THEN Range(Spellings[call.case]) ELSE {})
    /\ IsOf("finding") =>
           \A f \in told.fields :
               /\ Cases[call.case].context[f].state \in {"confirmed", "corrected"}
               /\ Cases[call.case].finalized

\* Every number and consequence of an explanation was shown to the model that
\* wrote it, every reference is to the evidence or the confirmed context of the
\* finding, and a statement is labelled by the context it cites.
ExplanationIsGrounded(x) ==
    LET case    == Cases[call.case]
        numbers == NumbersTold \cup Range(KnownNumericFacts(case.evidence))
        ids     == {e.id : e \in Range(case.evidence)}
        advice(o) == {o.texts[k] : k \in DOMAIN o.texts
                                       \ {"responsible_role", "urgency"}}
        texts   == {x.narrative}
            \cup {i.statement : i \in x.impact} \cup {i.assumption : i \in x.impact}
            \cup UNION {advice(o) \cup o.example : o \in x.remediation}
    IN  /\ IsWellMade(x)
        /\ \A w \in texts : Facts(w).numbers \subseteq numbers
        /\ Facts(x.rule.description).numbers
               \subseteq numbers \cup StructuralNumbers
        /\ Facts(x.narrative).terms \subseteq StemsTold
        /\ \A y \in x.impact \cup x.remediation : y.evidence \subseteq ids
        /\ \A i \in x.impact : i.context \subseteq told.fields
        /\ x.rule.columns \subseteq EvidenceColumns(case.evidence)

\* A model only refines the probable domain, and an answer that is kept is what
\* the context then says; what is asked of the user is what was unknown before.
OnlyTheDomainIsRefined ==
    LET inferred == Inferred[call.case]
    IN  /\ \A f \in ContextFields \ {"probable_domain"} :
               analysis.context[f] = inferred[f]
        /\ \/ analysis.context # inferred
           \/ call.status = "accepted" /\ call.pc \in {"reread", "record", "done"}
           => analysis.context["probable_domain"].value =
                   Field(call.answer, "narrative")
        /\ \A f \in ContextFields :
               f \in analysis.questions =>
                   inferred[f].value \in {Str("unknown"), List(<<>>)}

\* What a model is told, and what is kept of what it answers
\* (ai_boundary/prompt.py, _Grounding, _build_explanation,
\* apply_ai_context_augmentation, finalize_ai_assisted_rule).
AcceptedIsGrounded ==
    /\ OnlyFactsAreTold
    /\ IsOf("finding") /\ call.result # NoResult =>
           ExplanationIsGrounded(call.result)
    /\ IsOf("context") => OnlyTheDomainIsRefined
    /\ \A r \in analysis.rules : IsGenuine(r, Spellings[call.case])

\* Reasons that a schema cannot express.
ReasonsOfContent == {"unsupported_impact_claim", "unknown_numeric_claim",
                     "numeric_claim_mismatch", "unsupported_claim",
                     "unsupported_action_claim"}

\* The contract and the validator agree: an accepted answer is one that the
\* schema of its request allows, and an answer that the schema allows is only
\* rejected for what its texts and numbers say, or for a text that is blank
\* (finding_analysis_json_schema, validate_finding_analysis_output,
\* rule_generation_json_schema, validate_rule_generation_output).
SchemaAndValidatorAgree ==
    call.answer # NoAnswer /\ ~IsOf("context") =>
        LET conforms == SchemaAllows(call.case, call.answer)
            blank    == \E w \in Words(call.answer) : Facts(w).blank
        IN  /\ call.reasons = {} => conforms
            /\ conforms => call.reasons \subseteq
                   ((IF IsOf("finding") THEN ReasonsOfContent ELSE {}) \cup
                    (IF blank THEN {"schema_invalid"} ELSE {}))

\* What the mock provider answers is accepted, unless there are more references
\* than an answer may have.
MockIsAccepted ==
    call.provider = "mock" /\ call.answer # NoAnswer =>
        \/ call.reasons = {} /\ call.retries = 0
        \/ IsOf("finding") /\ \/ Len(Cases[call.case].evidence) > MaxReferences
                              \/ Len(Cases[call.case].columns) > MaxReferences

\* A call ends after as many attempts as agreed; it says truly what was sent,
\* and is counted once with how it ended, unless its analysis was deleted or
\* edited while it ran; an offer that was made can be accepted; only a context
\* call raises, for an empty narrative or a reference that is no string
\* (run_finding_explanation, run_context_inference, run_rule_generation,
\* LlamaCppProvider.complete, _record_enrichment).
CallsEndAsPromised ==
    /\ call.retries <= RetriesOf(call.case)
    /\ call.posts <= (IF IsOf("context") THEN 1 ELSE 2) * (call.retries + 1)
    /\ told.words # {} => call.sent
    /\ call.provider = "llama_cpp" =>
           (call.posts > 0 <=> told.words # {})
    /\ IsOf("finding") /\ told.words # {} =>
           (call.contextSent <=> told.fields # {})
    /\ call.pc = "escaped" => ~analysis.there \/ analysis.version = 2
    /\ call.pc = "done" /\ analysis.there =>
           analysis.calls = << [outcome |-> call.status, sent |-> call.sent,
                                contextSent |-> call.contextSent] >>
    /\ call.status = "rejected" =>
           call.retries = RetriesOf(call.case) /\ call.reasons # {}
    /\ call.pc = "done" /\ IsOf("rule") /\ call.status = "accepted" =>
           IsGenuine(call.result, Spellings[call.case])
    /\ call.pc \in {"record", "done"} /\ call.status = "provider_error"
           /\ call.answer # NoAnswer =>
               \/ Field(call.answer, "narrative") = Str(NoText)
               \/ \E k \in DOMAIN UnknownReason :
                      IsGiven(call.answer, k)
                          /\ ~IsListOfStrings(Field(call.answer, k))
    /\ MockIsAccepted
=============================================================================
