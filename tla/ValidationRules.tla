--------------------------- MODULE ValidationRules ---------------------------
(***************************************************************************)
(* The rules of an analysis: the rule a finding is answered with           *)
(* (rules/generation.py, the rule types of explanation/guidance.py), the   *)
(* rules that may be stored (domain/rules.py) and their execution over the *)
(* rows (rules/engine.py).  A rule reads cells by position and decides row *)
(* by row: failed, skipped for a missing cell, or passed.  The cap on      *)
(* quoted failures is left out.                                            *)
(*                                                                         *)
(* A rule is [type, columns, nulls, given]: positions, null_handling, and  *)
(* the parameters that are not None, as a function from their names.       *)
(* Numbers are in eighths, the unit of the fences.                         *)
(***************************************************************************)
EXTENDS Detectors

\* The detectors RULE-02 has a mapping for (GENERATABLE_DETECTOR_IDS).
RuleTypes ==
    [exact_duplicate_rows |-> "unique",
     empty_column |-> "not_null",
     excessive_missing_values |-> "max_missing_percentage",
     missing_likely_identifier |-> "not_null",
     future_dates |-> "date_range",
     implausibly_old_dates |-> "date_range",
     negative_likely_non_negative_values |-> "numeric_range",
     invalid_percentages |-> "numeric_range",
     extreme_outliers |-> "numeric_range",
     leading_trailing_whitespace |-> "regex",
     suspiciously_constant_column |-> "accepted_values"]

IsGeneratable(f) == f.detector \in DOMAIN RuleTypes

\* A pattern is its length and whether re.compile takes it; those that it
\* takes stand for _WHITESPACE_PATTERN.
WhitespacePattern == [length |-> 8, valid |-> TRUE]

\* The generators: every bound is read from the finding's evidence, which the
\* detector copied from the profile, or is fixed by what the detector means.
\* constant_value is the first value of the column.
Parameters(f, t, p) ==
    LET c == CHOOSE c \in f.columns : TRUE
    IN CASE f.detector = "future_dates" -> [maximum_date |-> Today]
         [] f.detector = "implausibly_old_dates" -> [minimum_date |-> EarliestPlausible]
         [] f.detector = "negative_likely_non_negative_values" -> [minimum |-> 0]
         [] f.detector = "invalid_percentages" -> [minimum |-> 0, maximum |-> 800]
         [] f.detector = "extreme_outliers" ->
                [minimum |-> p.columns[c].numeric.fence.lower,
                 maximum |-> p.columns[c].numeric.fence.upper]
         [] f.detector = "excessive_missing_values" ->
                [threshold_percentage |-> (800 * p.columns[c].nulls) \div p.rows]
         [] f.detector = "leading_trailing_whitespace" ->
                [pattern |-> WhitespacePattern]
         [] f.detector = "suspiciously_constant_column" ->
                [accepted_values |-> Distinct(t, c)]
         [] OTHER -> << >>

\* generate_rule_proposal
Proposal(f, t, p) ==
    [type |-> RuleTypes[f.detector],
     columns |-> IF f.detector = "exact_duplicate_rows" THEN [c \in Cols(t) |-> c]
                 ELSE <<CHOOSE c \in f.columns : TRUE>>,
     nulls |-> "skip",
     given |-> Parameters(f, t, p)]

-----------------------------------------------------------------------------
(* ValidationRule.__post_init__                                            *)

MaxPatternLength == 200
Operators == {"equals", "not_equals", "less_than", "less_than_or_equal",
              "greater_than", "greater_than_or_equal"}

\* The parameters a type may have (by_type).
Owned ==
    [not_null |-> {}, unique |-> {},
     accepted_values |-> {"accepted_values"},
     numeric_range |-> {"minimum", "maximum"},
     date_range |-> {"minimum_date", "maximum_date"},
     regex |-> {"pattern"},
     max_missing_percentage |-> {"threshold_percentage"},
     max_duplicate_percentage |-> {"threshold_percentage"},
     approximate_equality |-> {"tolerance"},
     expression_comparison |-> {"comparison_operator", "comparison_value"},
     conditional_rule |-> {"condition_operator", "condition_value",
                           "comparison_operator", "comparison_value"}]

\* _check_columns
HasColumns(rule) ==
    LET n == Len(rule.columns)
    IN CASE rule.type \in {"unique", "max_duplicate_percentage"} -> n >= 1
         [] rule.type = "approximate_equality" -> n >= 2
         [] rule.type = "expression_comparison" -> n \in 1 .. 2
         [] rule.type = "conditional_rule" -> n = 2
         [] OTHER -> n = 1

Has(rule, parameter) == parameter \in DOMAIN rule.given

\* Mutation: parameters of other types are refused, missing ones are not.
HasNoOtherParameters(rule) == DOMAIN rule.given \subseteq Owned[rule.type]

\* _check_parameters
HasParameters(rule) ==
    LET g == rule.given
    IN /\ DOMAIN g \subseteq Owned[rule.type]
       /\ CASE rule.type = "numeric_range" ->
                   /\ g # << >>
                   /\ DOMAIN g = Owned.numeric_range => g.minimum <= g.maximum
            [] rule.type = "date_range" ->
                   /\ g # << >>
                   /\ DOMAIN g = Owned.date_range => g.minimum_date <= g.maximum_date
            [] rule.type = "expression_comparison" ->
                   /\ Has(rule, "comparison_operator")
                   /\ Has(rule, "comparison_value") <=> Len(rule.columns) = 1
            [] OTHER -> DOMAIN g = Owned[rule.type]
       /\ Has(rule, "accepted_values") => g.accepted_values # {}
       /\ Has(rule, "pattern") => g.pattern.length \in 1 .. MaxPatternLength
       /\ Has(rule, "threshold_percentage") => g.threshold_percentage \in 0 .. 800
       /\ Has(rule, "tolerance") => g.tolerance >= 0

IsRule(rule) == HasColumns(rule) /\ HasParameters(rule)

-----------------------------------------------------------------------------
(* rules/engine.py                                                         *)

\* float(cell): nan is a number that compares with none.
IsNumber(t, i, c) == Read[At(t, i, c)].shape = "numeric"
Float(t, i, c) ==
    [nan |-> Read[At(t, i, c)].nan, value |-> 8 * Read[At(t, i, c)].number]
Literal(x) == [nan |-> FALSE, value |-> x]

\* Mutation: up to a value means below it.
CompareBelow(left, operator, right) ==
    IF left.nan \/ right.nan THEN operator = "not_equals"
    ELSE CASE operator = "equals" -> left.value = right.value
           [] operator = "not_equals" -> left.value # right.value
           [] operator \in {"less_than", "less_than_or_equal"} ->
                  left.value < right.value
           [] operator = "greater_than" -> left.value > right.value
           [] operator = "greater_than_or_equal" -> left.value >= right.value

\* _compare
Compare(left, operator, right) ==
    IF left.nan \/ right.nan THEN operator = "not_equals"
    ELSE CASE operator = "equals" -> left.value = right.value
           [] operator = "not_equals" -> left.value # right.value
           [] operator = "less_than" -> left.value < right.value
           [] operator = "less_than_or_equal" -> left.value <= right.value
           [] operator = "greater_than" -> left.value > right.value
           [] operator = "greater_than_or_equal" -> left.value >= right.value

\* Mutation: a bound is not itself allowed.
OutsideOrOn(x, given, lower, upper) ==
    \/ lower \in DOMAIN given /\ x <= given[lower]
    \/ upper \in DOMAIN given /\ x >= given[upper]

Outside(x, given, lower, upper) ==
    \/ lower \in DOMAIN given /\ x < given[lower]
    \/ upper \in DOMAIN given /\ x > given[upper]

\* The rows in which a column of the rule has no value.
Incomplete(rule, t) ==
    {i \in RowIds(t) :
        \E k \in DOMAIN rule.columns : IsMissing(At(t, i, rule.columns[k]))}

\* _duplicate_group_tally
Repeated(rule, t) ==
    LET Key(i) == [k \in DOMAIN rule.columns |-> At(t, i, rule.columns[k])]
        whole == RowIds(t) \ Incomplete(rule, t)
    IN {i \in whole : \E j \in whole \ {i} : Key(j) = Key(i)}

\* _run_approximate_equality: a difference that is not finite is never small.
IsApart(rule, t, i) ==
    LET Cell(k) == Read[At(t, i, rule.columns[k])]
        Sum[k \in 1 .. Len(rule.columns)] ==
            IF k = 1 THEN 0 ELSE Sum[k - 1] + Cell(k).number
        difference == 8 * (Cell(1).number - Sum[Len(rule.columns)])
    IN \/ \E k \in DOMAIN rule.columns : ~ IsNumber(t, i, rule.columns[k])
       \/ \E k \in DOMAIN rule.columns : ~ Cell(k).finite
       \/ ~ difference \in - rule.given.tolerance .. rule.given.tolerance

\* _run_expression_comparison: with a literal, or with the other column.
IsFalse(rule, t, i) ==
    LET left == rule.columns[1]
    IN IF Len(rule.columns) = 2
       THEN \/ ~ IsNumber(t, i, left) \/ ~ IsNumber(t, i, rule.columns[2])
            \/ ~ Compare(Float(t, i, left), rule.given.comparison_operator,
                         Float(t, i, rule.columns[2]))
       ELSE \/ ~ IsNumber(t, i, left)
            \/ ~ Compare(Float(t, i, left), rule.given.comparison_operator,
                         Literal(rule.given.comparison_value))

\* _run_conditional_rule: the rows whose WHEN is true.
Applies(rule, t, i) ==
    LET when == rule.columns[1]
    IN /\ ~ IsMissing(At(t, i, when)) /\ IsNumber(t, i, when)
       /\ Compare(Float(t, i, when), rule.given.condition_operator,
                  Literal(rule.given.condition_value))

IsBroken(rule, t, i) ==
    LET then == rule.columns[2]
    IN \/ ~ IsNumber(t, i, rule.columns[1])
       \/ Applies(rule, t, i) /\ ~ IsNumber(t, i, then)
       \/ Applies(rule, t, i)
              /\ ~ Compare(Float(t, i, then), rule.given.comparison_operator,
                           Literal(rule.given.comparison_value))

\* The rows that null_handling decides about.
Unanswered(rule, t) ==
    CASE rule.type \in {"not_null", "max_missing_percentage"} -> {}
      [] rule.type = "conditional_rule" ->
             {i \in RowIds(t) :
                 \/ IsMissing(At(t, i, rule.columns[1]))
                 \/ Applies(rule, t, i) /\ IsMissing(At(t, i, rule.columns[2]))}
      [] OTHER -> Incomplete(rule, t)

\* The _run_... functions: the rows a rule fails for what is in them.
Wrong(rule, t, answered) ==
    LET c == rule.columns[1]
        Cell(i) == Read[At(t, i, c)]
    IN CASE rule.type \in {"not_null", "max_missing_percentage"} ->
                RowIds(t) \ Present(t, c)
         [] rule.type \in {"unique", "max_duplicate_percentage"} -> Repeated(rule, t)
         [] rule.type = "numeric_range" ->
                {i \in answered :
                    \/ ~ IsNumber(t, i, c)
                    \/ /\ ~ Cell(i).nan
                       /\ Outside(8 * Cell(i).number, rule.given,
                                  "minimum", "maximum")}
         [] rule.type = "date_range" ->
                {i \in answered :
                    \/ Cell(i).shape # "date"
                    \/ Outside(Cell(i).day, rule.given, "minimum_date", "maximum_date")}
         [] rule.type = "regex" -> {i \in answered : Cell(i).strip # At(t, i, c)}
         [] rule.type = "accepted_values" ->
                {i \in answered : At(t, i, c) \notin rule.given.accepted_values}
         [] rule.type = "approximate_equality" ->
                {i \in answered : IsApart(rule, t, i)}
         [] rule.type = "expression_comparison" ->
                {i \in answered : IsFalse(rule, t, i)}
         [] rule.type = "conditional_rule" -> {i \in answered : IsBroken(rule, t, i)}

\* What the runners assert, and re.compile.
CanRun(rule) ==
    CASE rule.type = "accepted_values" -> Has(rule, "accepted_values")
      [] rule.type = "regex" -> Has(rule, "pattern") /\ rule.given.pattern.valid
      [] rule.type = "approximate_equality" -> Has(rule, "tolerance")
      [] rule.type = "expression_comparison" ->
             /\ Has(rule, "comparison_operator")
             /\ Has(rule, "comparison_value") <=> Len(rule.columns) # 2
      [] rule.type = "conditional_rule" -> DOMAIN rule.given = Owned[rule.type]
      [] OTHER -> TRUE

\* execute_rule: a runner that raises leaves an empty tally.
Execute(rule, t) ==
    IF CanRun(rule)
    THEN LET missing == Unanswered(rule, t)
             failed == Wrong(rule, t, RowIds(t) \ missing)
                           \cup (IF rule.nulls = "fail" THEN missing ELSE {})
             skipped == IF rule.nulls = "fail" THEN {} ELSE missing
         IN [error |-> FALSE, failed |-> failed, skipped |-> skipped,
             passed |-> RowIds(t) \ (failed \cup skipped)]
    ELSE [error |-> TRUE, failed |-> {}, skipped |-> {}, passed |-> {}]
=============================================================================
