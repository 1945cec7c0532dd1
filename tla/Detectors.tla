------------------------------ MODULE Detectors ------------------------------
(***************************************************************************)
(* The 26 detectors (detectors/*.py), one operator each: what a detector   *)
(* finds in a table and its profile.  A detector looks a cell up by its    *)
(* column's key in the mapping run_analysis builds, a metric in the        *)
(* profile.  Wording, evidence payloads and the caps on how many rows or   *)
(* columns an observation or a fact quotes are left out.                   *)
(***************************************************************************)
EXTENDS Profiling, SequencesExt

CONSTANTS
    MissingPercent,   \* _EXCESSIVE_MISSING_RATIO, 1 percent in the code
    NegativePercent,  \* _NEGATIVE_MINORITY_RATIO, 10 percent in the code
    MinFailures,      \* minimum_count of unreadable rows or cells, 5
    MinRun,           \* minimum_run_length of a concentrated gap, 5
    EarliestPlausible \* _EARLIEST_PLAUSIBLE_DATE, in days

\* ... and a detector by its column's key.  If two columns had one key, the
\* later one would be read for both.
LookUp(t, i, c) ==
    At(t, i, SetMax({d \in Cols(t) : t.columns[d].key = t.columns[c].key}))

IsBlank(v) == IsMissing(v) \/ Read[v].strip = ""

\* The rows of column c whose cell is there, or not blank, and passes Test.
There(t, c, Test(_)) ==
    {i \in RowIds(t) : ~ IsMissing(LookUp(t, i, c)) /\ Test(Read[LookUp(t, i, c)])}
NotBlank(t, c, Test(_)) == There(t, c, LAMBDA r : r.strip # "" /\ Test(r))
Lacking(t, c) == {i \in RowIds(t) : IsMissing(LookUp(t, i, c))}
CellOf(t, c, i) == Read[LookUp(t, i, c)]

Finding(detector, severity, confidence, columns, rows) ==
    [detector |-> detector, severity |-> severity, confidence |-> confidence,
     columns |-> columns, rows |-> rows]

OfType(p, types) == {c \in DOMAIN p.columns : p.columns[c].type \in types}

\* A finding for each of some columns, with the rows flagged in it.
InEach(detector, severity, confidence, columns, Rows(_)) ==
    {Finding(detector, severity, confidence, {c}, Rows(c)) : c \in columns}

-----------------------------------------------------------------------------
(* structural.py *)

DuplicateNames(t) ==
    LET Name(c) == ReadName[t.columns[c].name].key
        Group(c) == {d \in Cols(t) : Name(d) = Name(c)}
        Identical(g) == Cardinality({t.columns[d].name : d \in g}) = 1
    IN {Finding("duplicate_normalized_column_name", "medium",
                IF Identical(g) THEN 100 ELSE 90, g, {}) :
            g \in {Group(c) : c \in {c \in Cols(t) : Cardinality(Group(c)) >= 2}}}

DuplicateRows(t) ==
    LET Row(i) == [c \in Cols(t) |-> LookUp(t, i, c)]
        again == {i \in RowIds(t) : \E j \in RowIds(t) \ {i} : Row(j) = Row(i)}
    IN {Finding("exact_duplicate_rows", "medium", 100, {}, again) :
            x \in {y \in {again} : y # {}}}

EmptyColumn(p) ==
    InEach("empty_column", "medium", 100, OfType(p, {"unknown"}), LAMBDA c : {})

EmptyDataset(p) ==
    IF p.rows = 0 THEN {Finding("empty_dataset", "high", 100, {}, {})} ELSE {}

UnnamedColumn(t) ==
    IF t.unnamed = {} THEN {}
    ELSE {Finding("unnamed_column", "medium", 100, t.unnamed, {})}

\* Thresholds of 5 percent of the rows and of the cells, HIGH from one half.
ParseFailures(t) ==
    LET rows == Len(t.rows)
        cells == rows * Len(t.columns)
        ragged == Cardinality(t.ragged)
        rowHit == ragged >= MinFailures /\ 20 * ragged >= rows
        cellHit == t.unreadable >= MinFailures /\ 20 * t.unreadable >= cells
        worst == (rowHit /\ 2 * ragged >= rows) \/ (cellHit /\ 2 * t.unreadable >= cells)
    IN IF rows = 0 \/ ~ (rowHit \/ cellHit) THEN {}
       ELSE {Finding("excessive_parse_failures", IF worst THEN "high" ELSE "medium",
                     100, {}, IF rowHit THEN t.ragged ELSE {})}

-----------------------------------------------------------------------------
(* completeness.py *)

EmptyRows(t) ==
    LET blank == {i \in RowIds(t) : \A c \in Cols(t) : IsBlank(LookUp(t, i, c))}
    IN IF blank = {} THEN {}
       ELSE {Finding("fully_empty_rows", "low", 100, {}, blank)}

ExcessiveMissing(t, p) ==
    InEach("excessive_missing_values", "medium", 100,
           {c \in OfType(p, Types \ {"unknown"}) :
               100 * p.columns[c].nulls >= MissingPercent * p.rows},
           LAMBDA c : Lacking(t, c))

MissingIdentifier(t, p) ==
    InEach("missing_likely_identifier", "high", 100,
           {c \in Cols(t) : p.columns[c].likelyIdentifier /\ p.columns[c].nulls > 0},
           LAMBDA c : Lacking(t, c))

-----------------------------------------------------------------------------
(* consistency.py *)

\* Findings for the groups of a column's values that agree in one reading and
\* are at least two in another.
Variants(t, c, detector, confidence, Groupable(_), Key(_), Variant(_)) ==
    LET rows == NotBlank(t, c, Groupable)
        Group(k) == {i \in rows : Key(CellOf(t, c, i)) = k}
    IN {Finding(detector, "low", confidence, {c}, Group(k)) :
            k \in {k \in {Key(CellOf(t, c, i)) : i \in rows} :
                      Cardinality({Variant(CellOf(t, c, i)) : i \in Group(k)}) >= 2}}

Capitalization(t, p) ==
    UNION {Variants(t, c, "inconsistent_capitalization", 100, LAMBDA r : TRUE,
                    LAMBDA r : r.lower, LAMBDA r : r.strip) :
              c \in OfType(p, TextFamily)}

\* Read[v].key is the value without anything but letters and digits, "" where
\* that is shorter than two or all digits.
NearDuplicates(t, p) ==
    UNION {Variants(t, c, "near_duplicate_categories", 80, LAMBDA r : r.key # "",
                    LAMBDA r : r.key, LAMBDA r : r.lower) :
              c \in OfType(p, {"categorical"})}

\* Every value is from the vocabulary, of two families such as yes/no and 1/0.
Booleans(t, p) ==
    LET rows(c) == NotBlank(t, c, LAMBDA r : TRUE)
        families(c) == {CellOf(t, c, i).boolean : i \in rows(c)}
    IN InEach("inconsistent_booleans", "low", 90,
              {c \in OfType(p, {"text", "categorical", "boolean", "mixed"}) :
                  "" \notin families(c) /\ Cardinality(families(c)) >= 2},
              rows)

\* Read[v].amount is "plain" or "decorated" for what reads as a number.
NumbersAsText(t, p) ==
    LET all(c) == NotBlank(t, c, LAMBDA r : TRUE)
        numbers(c) == NotBlank(t, c, LAMBDA r : r.amount # "")
        decorated(c) == NotBlank(t, c, LAMBDA r : r.amount = "decorated")
    IN InEach("numeric_values_stored_as_text", "medium", 90,
              {c \in OfType(p, TextFamily \cup {"mixed"}) :
                  /\ decorated(c) # {}
                  /\ 10 * Cardinality(numbers(c)) >= 9 * Cardinality(all(c))},
              decorated)

Whitespace(t, p) ==
    InEach("leading_trailing_whitespace", "low", 100,
           {c \in OfType(p, TextFamily) : p.columns[c].padded > 0},
           LAMBDA c : {i \in RowIds(t) : LET v == LookUp(t, i, c) IN
                          ~ IsMissing(v) /\ Read[v].strip # v})

-----------------------------------------------------------------------------
(* validity.py, statistical.py, cross_field.py and security.py *)

FutureDates(t, p) ==
    LET rows(c) == There(t, c, LAMBDA r : r.shape = "date" /\ r.day > Today)
    IN InEach("future_dates", "medium", 100,
              {c \in OfType(p, {"date"}) : rows(c) # {}}, rows)

OldDates(t, p) ==
    LET rows(c) == NotBlank(t, c,
                       LAMBDA r : r.shape = "date" /\ r.day < EarliestPlausible)
    IN InEach("implausibly_old_dates", "low", 80,
              {c \in OfType(p, {"date"}) : rows(c) # {}}, rows)

\* Only where at least half of the column's values have the shape.
EmailShape(t, p) ==
    LET all(c) == NotBlank(t, c, LAMBDA r : TRUE)
        bad(c) == NotBlank(t, c, LAMBDA r : ~ r.email)
    IN InEach("invalid_email_shape", "low", 80,
              {c \in OfType(p, TextFamily \cup {"mixed"}) :
                  /\ ReadName[t.columns[c].name].email
                  /\ bad(c) # {}
                  /\ 2 * Cardinality(bad(c)) <= Cardinality(all(c))},
              bad)

Negatives(t, p) ==
    LET rows(c) == There(t, c, LAMBDA r : r.shape = "numeric" /\ r.number < 0)
        present(c) == p.rows - p.columns[c].nulls
    IN InEach("negative_likely_non_negative_values", "medium", 70,
              {c \in OfType(p, {"numeric"}) :
                  /\ p.columns[c].numeric.negative > 0 /\ present(c) > 0
                  /\ 100 * p.columns[c].numeric.negative < NegativePercent * present(c)
                  /\ rows(c) # {}},
              rows)

Percentages(t, p) ==
    LET rows(c) == There(t, c, LAMBDA r : /\ r.shape = "numeric"
                                          /\ (r.number < 0 \/ r.number > 100))
    IN InEach("invalid_percentages", "medium", 100,
              {c \in OfType(p, {"numeric"}) :
                  ReadName[t.columns[c].name].percentage /\ rows(c) # {}},
              rows)

Constant(t, p) ==
    InEach("suspiciously_constant_column", "medium", 100,
           {c \in OfType(p, Types \ {"unknown"}) :
               /\ p.rows - p.columns[c].nulls >= 2 /\ p.columns[c].distinct = 1
               /\ There(t, c, LAMBDA r : TRUE) # {}},
           LAMBDA c : {})

Outliers(t, p) ==
    LET rows(c) == There(t, c, LAMBDA r :
                       /\ r.shape = "numeric"
                       /\ \/ 8 * r.number < p.columns[c].numeric.fence.lower
                          \/ 8 * r.number > p.columns[c].numeric.fence.upper)
    IN InEach("extreme_outliers", "medium", 70,
              {c \in OfType(p, {"numeric"}) :
                  p.columns[c].numeric.extreme > 0 /\ rows(c) # {}},
              rows)

\* quantity * unit_price * (1 - discount/100) * (1 + tax/100) against the line
\* total, in ten-thousandths; a difference that rounds to one cent is allowed.
LineTotals(t, p) ==
    LET roles == <<"quantity", "unit_price", "discount_pct", "tax_pct", "line_total">>
        named(k) == {c \in Cols(t) : ReadName[t.columns[c].name].plain = roles[k]}
        column(k) == SetMax(named(k))
        resolved == \A k \in 1 .. 5 :
                        named(k) # {} /\ p.columns[column(k)].type = "numeric"
        Complete(i) == \A k \in 1 .. 5 : ~ IsMissing(LookUp(t, i, column(k)))
        N(i, k) == CellOf(t, column(k), i).number
        Off(i) == 10000 * N(i, 5) - N(i, 1) * N(i, 2) * (100 - N(i, 3)) * (100 + N(i, 4))
        wrong == {i \in RowIds(t) : Complete(i) /\ (Off(i) >= 150 \/ Off(i) <= -150)}
    IN IF ~ resolved THEN {}
       ELSE {Finding("line_total_mismatch", "high", 100, {column(k) : k \in 1 .. 5}, w) :
                w \in {wrong} \ {{}}}

Heightened == {"disclose_secrets", "exfiltrate_data"}

\* No stored analysis transmits its values (_NO_EXPOSURE), so that the two
\* severities of an exposed value are never given.
PromptInjection(t, p) ==
    LET rows(c) == There(t, c, LAMBDA r : r.families # {})
        families(c) == UNION {CellOf(t, c, i).families : i \in rows(c)}
    IN {Finding("possible_llm_prompt_injection",
                IF families(c) \cap Heightened # {} THEN "high" ELSE "low",
                IF Cardinality(families(c)) >= 2 THEN 75 ELSE 60, {c}, rows(c)) :
            c \in {c \in OfType(p, TextFamily) : rows(c) # {}}}

-----------------------------------------------------------------------------
(* value_evidence.py: observations, which have no severity and no score *)

Observation(detector, c, rows) == [detector |-> detector, column |-> c, rows |-> rows]

\* The most frequent member of an ordered list, the first of equals; the rows
\* of an observation are those that read otherwise.
Dominant(list, Count(_)) ==
    list[CHOOSE k \in DOMAIN list : \A j \in DOMAIN list :
            Count(list[j]) < Count(list[k])
                \/ (Count(list[j]) = Count(list[k]) /\ k <= j)]

MixedTypes(t, p) ==
    LET Of(c, s) == There(t, c, LAMBDA r : r.shape = s)
        present(c) == {s \in Range(Shapes) : Of(c, s) # {}}
        dominant(c) == Dominant(Shapes, LAMBDA s : Cardinality(Of(c, s)))
    IN {Observation("mixed_types", c, There(t, c, LAMBDA r : r.shape # dominant(c))) :
            c \in {c \in OfType(p, {"mixed"}) : Cardinality(present(c)) >= 2}}

DateFormats == <<"iso_year_month_day", "slash_year_first", "slash_numeric", "dot_numeric",
                 "dash_numeric", "day_month_name_year", "month_name_day_year">>

\* Of two formats or more, in at least half of the values.
InconsistentDates(t, p) ==
    LET Of(c, f) == There(t, c, LAMBDA r : r.format = f)
        dates(c) == There(t, c, LAMBDA r : r.format # "")
        all(c) == There(t, c, LAMBDA r : TRUE)
        present(c) == {f \in Range(DateFormats) : Of(c, f) # {}}
        dominant(c) == Dominant(DateFormats, LAMBDA f : Cardinality(Of(c, f)))
    IN {Observation("inconsistent_date_formats", c, dates(c) \ Of(c, dominant(c))) :
            c \in {c \in Cols(t) : /\ Cardinality(present(c)) >= 2
                                   /\ 2 * Cardinality(dates(c)) >= Cardinality(all(c))}}

\* One pass over the rows that are not blank everywhere: the current run of
\* missing cells and the longest one so far, each as its first row and length.
LongestRun(flags) ==
    FoldLeft(LAMBDA s, missing :
                LET start == IF s.length = 0 THEN s.at ELSE s.start
                    length == s.length + 1
                IN IF ~ missing THEN [s EXCEPT !.at = @ + 1, !.length = 0]
                   ELSE [at |-> s.at + 1, start |-> start, length |-> length,
                         best |-> IF length > s.best.length
                                  THEN [start |-> start, length |-> length]
                                  ELSE s.best],
             [at |-> 1, start |-> 1, length |-> 0, best |-> [start |-> 1, length |-> 0]],
             flags).best

ConcentratedGaps(t, p) ==
    LET kept == SelectSeq([i \in RowIds(t) |-> i],
                          LAMBDA i : \E c \in Cols(t) : ~ IsBlank(LookUp(t, i, c)))
        flags(c) == [k \in DOMAIN kept |-> IsMissing(LookUp(t, kept[k], c))]
        missing(c) == Cardinality({k \in DOMAIN kept : flags(c)[k]})
        run(c) == LongestRun(flags(c))
    IN {Observation("concentrated_missingness", c,
                    {kept[k] : k \in run(c).start .. run(c).start + run(c).length - 1}) :
            c \in {c \in Cols(t) : /\ missing(c) >= MinRun /\ missing(c) < Len(kept)
                                   /\ run(c).length >= MinRun
                                   /\ 10 * run(c).length >= 8 * missing(c)}}

-----------------------------------------------------------------------------
\* DETECTORS (catalogue.py), with what each one finds.
Found(t, p) ==
    [exact_duplicate_rows |-> DuplicateRows(t),
     empty_column |-> EmptyColumn(p),
     excessive_missing_values |-> ExcessiveMissing(t, p),
     missing_likely_identifier |-> MissingIdentifier(t, p),
     inconsistent_capitalization |-> Capitalization(t, p),
     leading_trailing_whitespace |-> Whitespace(t, p),
     future_dates |-> FutureDates(t, p),
     negative_likely_non_negative_values |-> Negatives(t, p),
     invalid_percentages |-> Percentages(t, p),
     line_total_mismatch |-> LineTotals(t, p),
     suspiciously_constant_column |-> Constant(t, p),
     extreme_outliers |-> Outliers(t, p),
     possible_llm_prompt_injection |-> PromptInjection(t, p),
     fully_empty_rows |-> EmptyRows(t),
     inconsistent_booleans |-> Booleans(t, p),
     implausibly_old_dates |-> OldDates(t, p),
     invalid_email_shape |-> EmailShape(t, p),
     numeric_values_stored_as_text |-> NumbersAsText(t, p),
     near_duplicate_categories |-> NearDuplicates(t, p),
     duplicate_normalized_column_name |-> DuplicateNames(t),
     empty_dataset |-> EmptyDataset(p),
     unnamed_column |-> UnnamedColumn(t),
     excessive_parse_failures |-> ParseFailures(t),
     mixed_types |-> {}, inconsistent_date_formats |-> {},
     concentrated_missingness |-> {}]

Observed(t, p) ==
    [mixed_types |-> MixedTypes(t, p),
     inconsistent_date_formats |-> InconsistentDates(t, p),
     concentrated_missingness |-> ConcentratedGaps(t, p)]
=============================================================================
