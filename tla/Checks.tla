------------------------------- MODULE Checks -------------------------------
(***************************************************************************)
(* What one run of an analysis calculates (analysis/service.py,            *)
(* run_analysis, detectors/engine.py, run_detectors), the rule it later    *)
(* offers for a finding (generate_rule_proposal) and the rules that users  *)
(* create, from an offer or by hand (create_rule).  AnalysisJobs models    *)
(* the same run with its writes, checkpoints and crashes, and ContextEdits *)
(* the row that rules are stored in; here nothing is interrupted.          *)
(***************************************************************************)
EXTENDS ValidationRules, TrustScore

CONSTANTS
    Files,      \* the uploaded files
    Fragile,    \* bound: the detectors that may raise an exception
    HandWritten,\* bound: the files that users write rules for by hand
    Requests,   \* bound: the rules they write: [type, names, nulls, given]
    NoValue     \* a stage that has not calculated anything yet, or no finding

ASSUME HandWrittenAreFiles == HandWritten \subseteq Files

\* What the readers yield: texts in columns, or in numbered rows and columns.
ASSUME FilesAreFiles ==
    \A f \in Files :
        \/ /\ f.format = "csv"
           /\ f.header \in Seq(STRING)
           /\ f.rows \in Seq(Seq(DOMAIN Read \cup {""}))
        \/ /\ f.format = "xlsx"
           /\ f.rows \in Seq(Range(f.rows))
           /\ \A i \in DOMAIN f.rows :
                  LET row == f.rows[i]
                  IN /\ row.index \in Nat
                     /\ DOMAIN row.cells \in SUBSET (Nat \ {0})
                     /\ IsFiniteSet(DOMAIN row.cells)
                     /\ row.cells \in
                            [DOMAIN row.cells -> DOMAIN Read \cup {"", FormulaOnly}]

ASSUME NamesAreRead ==
    \A f \in Files : IsReadable(f) =>
        \A c \in DOMAIN Parsed(f).columns : Parsed(f).columns[c].name \in DOMAIN ReadName

\* What the request's schema lets through.
ASSUME RequestsAreRequests ==
    \A r \in Requests :
        /\ r.type \in DOMAIN Owned /\ r.nulls \in {"skip", "fail"}
        /\ r.names \in Seq(STRING)
        /\ r.given = [parameter \in DOMAIN r.given |-> r.given[parameter]]
        /\ \A parameter \in DOMAIN r.given :
               CASE parameter \in {"comparison_operator", "condition_operator"} ->
                        r.given[parameter] \in Operators
                 [] parameter \in {"accepted_values", "pattern"} -> TRUE
                 [] OTHER -> r.given[parameter] \in Int

VARIABLES
    file,       \* the stored content of the analysis
    state,      \* the state of the analysis
    table,      \* parsed.rows, the columns and the ingest facts
    profile,    \* dataset_profile
    results,    \* of run_detectors: [status, findings, observations] each
    trust,      \* trust_assessment
    answer      \* to the last request for a rule, which is offered, stored or
                \* refused, with its execution

vars == <<file, state, table, profile, results, trust, answer>>

Init ==
    /\ file \in Files
    /\ state = "parsing"
    /\ table = NoValue /\ profile = NoValue /\ results = NoValue
    /\ trust = NoValue /\ answer = NoValue

\* Any exception of the pipeline ends the analysis without results.
Fail ==
    /\ state' = "failed"
    /\ table' = NoValue /\ profile' = NoValue /\ results' = NoValue
    /\ UNCHANGED <<file, trust, answer>>

Parse ==
    /\ state = "parsing"
    /\ IF IsReadable(file)
       THEN /\ table' = Parsed(file)
            /\ state' = "profiling"
            /\ UNCHANGED <<file, profile, results, trust, answer>>
       ELSE Fail

RunProfile ==
    /\ state = "profiling"
    /\ IF CanBeProfiled(table)
       THEN /\ profile' = Profile(table)
            /\ state' = "detecting"
            /\ UNCHANGED <<file, table, results, trust, answer>>
       ELSE Fail

\* run_detectors: every detector has a result, and one that raises has a
\* failed one without findings, whatever the others do.
Results(failing, found, observed) ==
    [d \in DOMAIN found |->
        IF d \in failing
        THEN [status |-> "failed", findings |-> {}, observations |-> {}]
        ELSE [status |-> "success", findings |-> found[d],
              observations |-> IF d \in DOMAIN observed THEN observed[d] ELSE {}]]

Findings(r) == UNION {r[d].findings : d \in DOMAIN r}
Observations(r) == UNION {r[d].observations : d \in DOMAIN r}

RunDetectors ==
    /\ state = "detecting" /\ results = NoValue
    /\ \E failing \in SUBSET Fragile :
           results' = Results(failing, Found(table, profile), Observed(table, profile))
    /\ UNCHANGED <<file, state, table, profile, trust, answer>>

\* Scores read the findings and never the observations.
Complete ==
    /\ state = "detecting" /\ results # NoValue
    /\ trust' = Trust(Findings(results), table, profile)
    /\ state' = "completed"
    /\ UNCHANGED <<file, table, profile, results, answer>>

\* A rule is made and executed, or refused.
Answer(kind, f, rule) ==
    IF IsRule(rule)
    THEN [kind |-> kind, finding |-> f, rule |-> rule, tally |-> Execute(rule, table)]
    ELSE [kind |-> "refused", finding |-> f]

\* generate_rule_proposal of a stored finding: executed over the rows of the
\* stored file, which is parsed again, to the same table, and never stored.
\* Bound: one question, since no answer depends on an earlier one.
OfferRule(f) ==
    /\ state = "completed" /\ IsGeneratable(f) /\ answer = NoValue
    /\ answer' = Answer("offered", f, Proposal(f, table, profile))
    /\ UNCHANGED <<file, state, table, profile, results, trust>>

\* Mutation: the first column of a name is taken.
FirstNamed(t, name) ==
    LET named == {c \in Cols(t) : t.columns[c].name = name}
    IN CHOOSE c \in named : \A d \in named : c <= d

\* columns_by_name: of columns with one name the last is taken.
Named(t, name) == SetMax({c \in Cols(t) : t.columns[c].name = name})

\* create_rule; the rule is stored with the outcome of its first execution.
CreateRule(request, f) ==
    /\ state = "completed"
    /\ answer' =
           IF Range(request.names) \subseteq {table.columns[c].name : c \in Cols(table)}
           THEN Answer("stored", f,
                       [type |-> request.type, nulls |-> request.nulls,
                        given |-> request.given,
                        columns |-> [k \in DOMAIN request.names |->
                                        Named(table, request.names[k])]])
           ELSE [kind |-> "refused", finding |-> f]
    /\ UNCHANGED <<file, state, table, profile, results, trust>>

\* A client posts what it was offered, with the names of the columns.
AcceptOffer ==
    /\ answer # NoValue /\ answer.kind = "offered"
    /\ LET rule == answer.rule
       IN CreateRule([type |-> rule.type, nulls |-> rule.nulls, given |-> rule.given,
                      names |-> [k \in DOMAIN rule.columns |->
                                    table.columns[rule.columns[k]].name]],
                     answer.finding)

\* The findings of the file make no difference to a rule that is written.
WriteRule ==
    /\ state = "completed" /\ file \in HandWritten /\ answer = NoValue
    /\ \A d \in DOMAIN results : results[d].status = "success"
    /\ \E request \in Requests : CreateRule(request, NoValue)

Next ==
    \/ Parse \/ RunProfile \/ RunDetectors \/ Complete
    \/ state = "completed" /\ \E f \in Findings(results) : OfferRule(f)
    \/ AcceptOffer
    \/ WriteRule

Spec == Init /\ [][Next]_vars

-----------------------------------------------------------------------------
\* What a stage hands on has the shape the next one relies on: rows as wide as
\* the header, findings of rows and columns that exist, no results of a failed
\* analysis, and a score on its scale.
TypeOK ==
    /\ state \in {"parsing", "profiling", "detecting", "completed", "failed"}
    /\ state = "failed" => table = NoValue /\ trust = NoValue /\ results = NoValue
    /\ table # NoValue =>
           /\ \A i \in RowIds(table) : DOMAIN table.rows[i] = Cols(table)
           /\ table.unnamed \subseteq Cols(table) /\ table.ragged \subseteq RowIds(table)
    /\ profile # NoValue => \A c \in Cols(table) : profile.columns[c].type \in Types
    /\ results # NoValue =>
           \A f \in Findings(results) :
               /\ f.columns \subseteq Cols(table) /\ f.rows \subseteq RowIds(table)
               /\ f.severity \in DOMAIN Weight /\ f.confidence \in 0 .. 100
    /\ trust # NoValue => trust.score \in 0 .. Perfect(profile)

\* The rows of a worksheet are numbered as the user sees them: a blank row in
\* between, written or left out of the file, moves no later row up, although
\* the reader puts blank rows in only once a row with data follows
\* (_finish_row).
RowsKeepTheirPlace ==
    table # NoValue /\ file.format = "xlsx" => InPlace(file)

\* Profiling counts by the position of a column, a detector collects rows by
\* the key of a column: what a detector flags on the strength of a metric is as
\* many rows as the metric counted.  Every row beyond the first of its kind is
\* a duplicate of the profile and flagged with it, and a column that was
\* called mixed shows at least two shapes.  (Read before a rule is asked for,
\* which changes none of this; so is the next.)
CountsAgreeWithRows ==
    LET Of(d, c) == {f \in results[d].findings : c \in f.columns}
        Ran(d) == results[d].status = "success"
        Counted(d, c, n) == Ran(d) =>
            Cardinality(UNION {f.rows : f \in Of(d, c)}) = n
        CountedIfFound(d, c, n) == \A f \in Of(d, c) : Cardinality(f.rows) = n
        twins == UNION {f.rows : f \in results["exact_duplicate_rows"].findings}
    IN results # NoValue /\ answer = NoValue =>
        /\ \A c \in Cols(table) :
               LET m == profile.columns[c]
               IN /\ Counted("leading_trailing_whitespace", c, m.padded)
                  /\ Counted("future_dates", c, m.future)
                  /\ Counted("extreme_outliers", c, m.numeric.extreme)
                  /\ CountedIfFound("negative_likely_non_negative_values", c,
                                    m.numeric.negative)
                  /\ CountedIfFound("excessive_missing_values", c, m.nulls)
                  /\ CountedIfFound("missing_likely_identifier", c, m.nulls)
                  /\ m.type = "mixed" /\ Ran("mixed_types") =>
                         \E o \in results["mixed_types"].observations :
                             o.column = c /\ o.rows # {}
        /\ Ran("exact_duplicate_rows") =>
               profile.duplicates =
                   Cardinality(twins) - Cardinality({table.rows[i] : i \in twins})

\* A detector that raises takes its own findings away and nothing else, and an
\* analysis that could not look everywhere never trusts a dataset less than
\* one that did: every further finding can only lower the score and the label.
FailureOnlyRaisesTrust ==
    LET NoLessTrusted(full) ==
            /\ trust.score >= full.score
            /\ full.label = "high_confidence" => trust.label = "high_confidence"
            /\ trust.label = "not_reliable_for_decision_making" =>
                   full.label = trust.label
        LessOf(whole) ==
            /\ \A d \in DOMAIN results :
                   results[d].status = "failed" \/ results[d] = whole[d]
            /\ NoLessTrusted(Trust(Findings(whole), table, profile))
    IN trust # NoValue /\ answer = NoValue =>
        LessOf(Results({}, Found(table, profile), Observed(table, profile)))

\* The rule offered for a finding, executed over the file it was found in,
\* fails the very rows the detector flagged, although it reads cells in its own
\* way and its bounds went through the profile and the evidence.  The rule for
\* an empty column fails every row, which its finding does not list; the one
\* for a constant column accepts the constant; and the one for repeated rows
\* skips every row with a missing cell (_duplicate_group_tally).  An offer that
\* is accepted is stored and does the same, but for a column whose name a later
\* column has as well (create_rule).
RuleFailsWhatItFlags ==
    answer # NoValue /\ answer.finding # NoValue =>
        LET f == answer.finding
            meant == Proposal(f, table, profile).columns
            Name(c) == table.columns[c].name
        IN /\ answer.kind # "refused"
           /\ answer.tally.failed \cap answer.tally.skipped = {}
           /\ \/ answer.kind = "stored"
                     /\ \E c \in Range(meant), d \in Cols(table) :
                            d > c /\ Name(d) = Name(c)
              \/ answer.tally.failed =
                     CASE f.detector = "empty_column" -> RowIds(table)
                       [] f.detector = "exact_duplicate_rows" ->
                              {i \in f.rows : \A c \in Cols(table) :
                                  ~ IsMissing(At(table, i, c))}
                       [] OTHER -> f.rows

\* Every rule that may be stored can be executed, so that nobody relies on a
\* rule that only ever reports an error: what ValidationRule refuses covers
\* what the runners assert, except for a pattern that re.compile refuses.
StoredRulesRun ==
    answer # NoValue /\ answer.kind = "stored" =>
        (answer.tally.error <=>
            answer.rule.type = "regex" /\ ~ answer.rule.given.pattern.valid)

\* The rules of other types that say the same as a rule, or a part of it.
Others(rule) ==
    LET g == rule.given
        c == rule.columns[1]
        Other(type, columns, given) ==
            [rule EXCEPT !.type = type, !.columns = columns, !.given = given]
        Comparison(columns, given) == Other("expression_comparison", columns, given)
        WithLiteral(column, operator, value) ==
            Comparison(<<column>>,
                       [comparison_operator |-> operator, comparison_value |-> value])
        InRange == [minimum |-> "greater_than_or_equal",
                    maximum |-> "less_than_or_equal"]
        Turned == [less_than |-> "greater_than", greater_than |-> "less_than",
                   less_than_or_equal |-> "greater_than_or_equal",
                   greater_than_or_equal |-> "less_than_or_equal",
                   equals |-> "equals", not_equals |-> "not_equals"]
    IN CASE rule.type = "numeric_range" ->
                [bound \in DOMAIN g |-> WithLiteral(c, InRange[bound], g[bound])]
         [] rule.type = "conditional_rule" ->
                [when |-> WithLiteral(c, g.condition_operator, g.condition_value),
                 then |-> WithLiteral(rule.columns[2], g.comparison_operator,
                                      g.comparison_value)]
         [] rule.type = "expression_comparison" /\ Len(rule.columns) = 2 ->
                [turned |-> Comparison(Reverse(rule.columns),
                                       [g EXCEPT !.comparison_operator = Turned[@]])]
         [] rule.type = "approximate_equality" /\ Len(rule.columns) = 2
                /\ g.tolerance = 0 ->
                [equal |-> Comparison(rule.columns, [comparison_operator |-> "equals"])]
         [] rule.type = "max_missing_percentage" ->
                [counted |-> Other("not_null", rule.columns, << >>)]
         [] rule.type = "max_duplicate_percentage" ->
                [counted |-> Other("unique", rule.columns, << >>)]
         [] OTHER -> << >>

FailedBy(other) == UNION {other[bound].failed : bound \in DOMAIN other}
NotNumbers(t, c) == {i \in Present(t, c) : Read[At(t, i, c)].nan}

\* What the outcome of a rule has to do with those of its others.
Agrees(rule, tally, other) ==
    LET c == rule.columns[1]
        Cell(i) == Read[At(table, i, c)]
        valued == Present(table, c)
    IN CASE rule.type = "numeric_range" ->
                tally.failed = FailedBy(other) \ NotNumbers(table, c)
         [] DOMAIN other = {"when", "then"} ->
                LET when == other.when
                    then == other.then
                IN /\ when.passed \cap tally.passed = when.passed \cap then.passed
                   /\ tally.skipped = when.skipped \cup (when.passed \cap then.skipped)
                   /\ tally.passed \ when.passed =
                          {i \in valued \ when.passed : Cell(i).shape = "numeric"}
         [] DOMAIN other = {"turned"} -> tally = other.turned
         [] DOMAIN other = {"equal"} ->
                /\ tally.skipped = other.equal.skipped
                /\ tally.passed = {i \in other.equal.passed : Cell(i).finite}
         [] DOMAIN other = {"counted"} -> tally = other.counted
         [] OTHER -> TRUE

\* The same condition said by rules of two types fails the same rows: each
\* runner has its own loop, its own missing cells and its own conversions.  A
\* range is its two comparisons, except that nan is in every range; a
\* conditional rule is its two comparisons, one after the other; a comparison
\* of two columns may be turned round; a total is approximately its only part
\* within 0 if they are equal, except that two infinities are not; and the
\* percentages count what not_null and unique fail.
RunnersAgree ==
    answer # NoValue /\ answer.kind = "stored" /\ ~ answer.tally.error =>
        LET others == Others(answer.rule)
        IN Agrees(answer.rule, answer.tally,
                  [o \in DOMAIN others |-> Execute(others[o], table)])

RulesAreRight == RuleFailsWhatItFlags /\ StoredRulesRun /\ RunnersAgree
=============================================================================
