------------------------------ MODULE Profiling ------------------------------
(***************************************************************************)
(* Column types and metrics (profiling/type_inference.py and metrics.py).  *)
(* Read[v] is what the code's own conversions make of a cell: Python's     *)
(* strip, lower and isalnum, float and date.fromisoformat, and the pattern *)
(* tables of the detectors.  Metrics no later stage decides by are left    *)
(* out.  A metric that is not computed for a type is 0 or FALSE here: the  *)
(* detectors treat both alike.                                             *)
(***************************************************************************)
EXTENDS Tables

CONSTANTS
    Read,   \* what a cell reads as, for each value that is not missing:
            \*   [strip, lower, key : strings, shape, number, finite, nan,
            \*    day, boolean, amount, email, format, families]
    Today   \* the date of the analysis, in days

TextFamily == {"text", "categorical", "identifier"}
Types == TextFamily \cup {"unknown", "boolean", "date", "numeric", "mixed"}
Shapes == <<"boolean", "date", "numeric", "text">>

\* nan is a number, and reads as 0 here, which no detector flags, as it flags no
\* nan; of two other numbers that are equal both are finite, or neither is.
ASSUME ReadingAssumption ==
    /\ \A v \in DOMAIN Read :
           /\ Read[v].number \in Int
           /\ Read[v].shape \in Range(Shapes)
           /\ Read[v].strip = "" => Read[v].shape = "text"
           /\ Read[v].nan => /\ Read[v].shape = "numeric" /\ Read[v].number = 0
                             /\ ~ Read[v].finite
    /\ \A u, v \in {v \in DOMAIN Read : Read[v].shape = "numeric" /\ ~ Read[v].nan} :
           Read[u].number = Read[v].number => (Read[u].finite <=> Read[v].finite)

IsMissing(v) == v \in {None, ""}

Cols(t) == 1 .. Len(t.columns)
RowIds(t) == 1 .. Len(t.rows)

\* Profiling reads a cell by its column's position ...
At(t, i, c) == t.rows[i][c]

Present(t, c) == {i \in RowIds(t) : ~ IsMissing(At(t, i, c))}
Distinct(t, c) == {At(t, i, c) : i \in Present(t, c)}
OfShape(t, c, s) == {i \in Present(t, c) : Read[At(t, i, c)].shape = s}

\* _classify, with the ratio of distinct values at most one half.
ColumnType(t, c) ==
    LET total == Cardinality(Present(t, c))
        distinct == Cardinality(Distinct(t, c))
        All(s) == Cardinality(OfShape(t, c, s)) = total
        typed == {s \in {"boolean", "date", "numeric"} : OfShape(t, c, s) # {}}
    IN CASE total = 0 -> "unknown"
         [] total > 0 /\ \E s \in typed : All(s) -> CHOOSE s \in typed : All(s)
         [] total > 0 /\ typed # {} /\ \A s \in typed : ~ All(s) -> "mixed"
         [] total >= 2 /\ typed = {} /\ distinct = total -> "identifier"
         [] OTHER -> IF 2 * distinct <= total THEN "categorical" ELSE "text"

\* The numbers of a column in ascending order: the k-th is the least one that
\* k numbers do not exceed.
Sorted(t, c) ==
    LET Number(i) == Read[At(t, i, c)].number
        numbers == {Number(i) : i \in Present(t, c)}
        Upto(x) == Cardinality({i \in Present(t, c) : Number(i) <= x})
    IN [k \in 1 .. Cardinality(Present(t, c)) |->
            CHOOSE x \in numbers :
                /\ k <= Upto(x)
                /\ \A y \in numbers : y < x => Upto(y) < k]

\* statistics.quantiles(values, n=4, method="inclusive"): quarter q, times 4.
Quartile(s, q) ==
    LET j == (q * (Len(s) - 1)) \div 4
        d == (q * (Len(s) - 1)) % 4
    IN IF d = 0 THEN 4 * s[j + 1] ELSE (4 - d) * s[j + 1] + d * s[j + 2]

\* Tukey's fences with factor 1.5, times 8: q1 - 1.5 iqr and q3 + 1.5 iqr.
\* The metric and the detector work them out from the same q1, q3 and iqr.
Fences(s) ==
    LET q1 == Quartile(s, 1) q3 == Quartile(s, 3)
    IN [lower |-> 5 * q1 - 3 * q3, upper |-> 5 * q3 - 3 * q1]

\* _numeric_metrics
Numeric(t, c) ==
    LET fence == Fences(Sorted(t, c))
        Number(i) == Read[At(t, i, c)].number
    IN [fence |-> fence,
        negative |-> Cardinality({i \in Present(t, c) : Number(i) < 0}),
        extreme |-> Cardinality({i \in Present(t, c) :
                        8 * Number(i) < fence.lower \/ 8 * Number(i) > fence.upper})]

NoNumbers == [fence |-> [lower |-> 0, upper |-> 0], negative |-> 0, extreme |-> 0]

\* _column_metrics and _infer_column_profile; likely_identifier is a ratio of
\* distinct values of at least 98 percent.
ColumnProfile(t, c) ==
    LET type == ColumnType(t, c)
        present == Present(t, c)
        distinct == Cardinality(Distinct(t, c))
        isText == type \in TextFamily
    IN [type |-> type,
        nulls |-> Len(t.rows) - Cardinality(present),
        distinct |-> distinct,
        numeric |-> IF type = "numeric" THEN Numeric(t, c) ELSE NoNumbers,
        future |-> IF type = "date"
                   THEN Cardinality({i \in present : Read[At(t, i, c)].day > Today})
                   ELSE 0,
        padded |-> IF isText
                   THEN Cardinality({i \in present :
                            Read[At(t, i, c)].strip # At(t, i, c)})
                   ELSE 0,
        likelyIdentifier |-> /\ isText /\ Cardinality(present) >= 2
                             /\ 100 * distinct >= 98 * Cardinality(present)]

\* compute_dataset_profile and _dataset_metrics
Profile(t) ==
    [columns |-> [c \in Cols(t) |-> ColumnProfile(t, c)],
     rows |-> Len(t.rows),
     duplicates |-> Len(t.rows) - Cardinality({t.rows[i] : i \in RowIds(t)})]

\* statistics.stdev raises on two or more numbers that are not all finite,
\* and so does the whole profile: float() reads "inf" as a number.
CanBeProfiled(t) ==
    \A c \in Cols(t) :
        ColumnType(t, c) = "numeric" /\ Cardinality(Present(t, c)) >= 2 =>
            \A i \in Present(t, c) : Read[At(t, i, c)].finite
=============================================================================
