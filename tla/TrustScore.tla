----------------------------- MODULE TrustScore -----------------------------
(***************************************************************************)
(* Priorities of findings and the trust in a dataset (risk/scoring.py), in *)
(* exact arithmetic.  Priorities are in units of 1/(100 * Rows(p)), so     *)
(* that a share of the rows is an integer, and trust in 1000ths of that.   *)
(* The penalty for exposed values is left out: no analysis exposes any.    *)
(***************************************************************************)
EXTENDS Tables

Weight == [critical |-> 100, high |-> 75, medium |-> 50, low |-> 25, informational |-> 10]

Rows(p) == IF p.rows = 0 THEN 1 ELSE p.rows

Least(x, y) == IF x <= y THEN x ELSE y

\* _column_role_bonus: 10 for an identifier or a date, 10 for money, 15 at most.
RoleBonus(f, t, p) ==
    LET keyed == \E c \in f.columns : p.columns[c].type \in {"identifier", "date"}
        money == \E c \in f.columns : ReadName[t.columns[c].name].money
    IN IF keyed /\ money THEN 15 ELSE IF keyed \/ money THEN 10 ELSE 0

\* calculate_finding_priority_score: severity times confidence, up to 15 for
\* the share of rows, and the columns' role.
Priority(f, t, p) ==
    LET base == Weight[f.severity] * f.confidence * Rows(p)
        share == 1500 * Least(Cardinality(f.rows), p.rows)
        role == 100 * Rows(p) * RoleBonus(f, t, p)
    IN Least(100 * 100 * Rows(p), base + share + role)

\* _is_reinforced: another finding has a column in common.
IsReinforced(f, findings) ==
    \E g \in findings \ {f} : f.columns \cap g.columns # {}

Perfect(p) == 100 * 100 * Rows(p) * 1000

\* 15 percent of a priority, and 30 percent more where findings reinforce each
\* other.
Deduction(f, findings, t, p) ==
    15 * Priority(f, t, p) * (IF IsReinforced(f, findings) THEN 13 ELSE 10)

Deductions(findings, t, p) ==
    LET Sum[some \in SUBSET findings] ==
            IF some = {} THEN 0
            ELSE LET f == CHOOSE f \in some : TRUE
                 IN Deduction(f, findings, t, p) + Sum[some \ {f}]
    IN Sum[findings]

\* Mutation: the mean of the deductions, so that a second finding dilutes the
\* first one.
MeanScore(findings, t, p) ==
    IF findings = {} THEN Perfect(p)
    ELSE Perfect(p) - Deductions(findings, t, p) \div Cardinality(findings)

\* calculate_trust_assessment: 0 at least.
Score(findings, t, p) ==
    LET deductions == Deductions(findings, t, p)
    IN IF deductions > Perfect(p) THEN 0 ELSE Perfect(p) - deductions

\* _label_for_score
Label(score, p) ==
    LET AtLeast(n) == score >= n * (Perfect(p) \div 100)
    IN CASE AtLeast(90) -> "high_confidence"
         [] AtLeast(70) /\ ~ AtLeast(90) -> "usable_with_caution"
         [] AtLeast(40) /\ ~ AtLeast(70) -> "material_quality_concerns"
         [] OTHER -> "not_reliable_for_decision_making"

Trust(findings, t, p) ==
    LET score == Score(findings, t, p) IN [score |-> score, label |-> Label(score, p)]
=============================================================================
