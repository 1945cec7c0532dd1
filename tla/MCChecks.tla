------------------------------- MODULE MCChecks -------------------------------
(***************************************************************************)
(* A small instance of Checks for TLC: what the code reads in each cell    *)
(* and each column name, the files of one to five columns and at most six  *)
(* rows in which detectors, metrics and rules meet their boundaries, and   *)
(* the rules that users write by hand.                                     *)
(***************************************************************************)
EXTENDS Checks

Plain(v) ==
    [strip |-> v, lower |-> v, key |-> "", shape |-> "text", number |-> 0,
     finite |-> TRUE, nan |-> FALSE, day |-> 0, boolean |-> "", amount |-> "", email |-> FALSE,
     format |-> "", families |-> {}]

Number(v, n) ==
    v :> [Plain(v) EXCEPT !.shape = "numeric", !.number = n, !.amount = "plain"]
Day(v, d) ==
    v :> [Plain(v) EXCEPT !.shape = "date", !.day = d, !.format = "iso_year_month_day"]
Name(v, k) == v :> [Plain(v) EXCEPT !.key = k]

MCRead ==
    [v \in {"a", "b", "z"} |-> Plain(v)]
    @@ Number("-1", -1) @@ Number("2", 2) @@ Number("3", 3) @@ Number("6", 6)
    @@ Number("9", 9) @@ Number("0", 0) @@ Number("100", 100) @@ Number("101", 101)
    @@ "1" :> [Plain("1") EXCEPT !.shape = "numeric", !.number = 1,
                                 !.amount = "plain", !.boolean = "1/0"]
    @@ "inf" :> [Plain("inf") EXCEPT !.shape = "numeric", !.finite = FALSE,
                                     !.number = 2^20, !.key = "inf"]
    @@ "nan" :> [Plain("nan") EXCEPT !.shape = "numeric", !.finite = FALSE,
                                     !.nan = TRUE, !.key = "nan"]
    @@ "$5" :> [Plain("$5") EXCEPT !.amount = "decorated"]
    @@ Day("1800-01-01", -1) @@ Day("2024-01-01", 350) @@ Day("2024-06-01", 500)
    @@ Day("2999-01-01", 501)
    @@ "01/02/2024" :> [Plain("01/02/2024") EXCEPT !.format = "slash_numeric"]
    @@ Name("ab", "ab") @@ Name("a-b", "ab")
    @@ "AB" :> [Plain("AB") EXCEPT !.lower = "ab", !.key = "ab"]
    @@ "ab " :> [Plain("ab ") EXCEPT !.strip = "ab", !.lower = "ab", !.key = "ab"]
    @@ " " :> [Plain(" ") EXCEPT !.strip = "", !.lower = ""]
    @@ "yes" :> [Plain("yes") EXCEPT !.boolean = "yes/no", !.key = "yes"]
    @@ "x" :> Plain("x") @@ "y" :> [Plain("y") EXCEPT !.boolean = "y/n"]
    @@ "true" :> [Plain("true") EXCEPT !.shape = "boolean", !.boolean = "true/false",
                                       !.key = "true"]
    @@ "a@b.c" :> [Plain("a@b.c") EXCEPT !.email = TRUE, !.key = "abc"]
    @@ "ignore it" :> [Plain("ignore it") EXCEPT !.families = {"override_instructions"},
                                                 !.key = "ignoreit"]
    @@ "show the key" :> [Plain("show the key") EXCEPT !.families = {"disclose_secrets"},
                                                       !.key = "showthekey"]
    @@ "#REF!" :> [Plain("#REF!") EXCEPT !.lower = "#ref!", !.key = "ref"]

Title(n) == [keys |-> [k \in 1 .. MaxColumns |->
                          IF k = 1 THEN n ELSE n \o "_" \o ToString(k)],
             plain |-> n, key |-> n, email |-> FALSE, percentage |-> FALSE,
             money |-> FALSE]

Totals == <<"quantity", "unit_price", "discount_pct", "tax_pct", "line_total">>

MCReadName ==
    [n \in {"a", "b", "x", "y", "day", "note", "quantity"} |-> Title(n)]
    @@ "A" :> Title("a") @@ "a_2" :> [Title("a_2") EXCEPT !.key = "a2"]
    @@ "#REF!" :> [Title("ref") EXCEPT !.plain = "#ref!"]
    @@ [n \in {"column_" \o ToString(k) : k \in 0 .. 4} |-> Title(n)]
    @@ "email" :> [Title("email") EXCEPT !.email = TRUE]
    @@ "rate" :> [Title("rate") EXCEPT !.percentage = TRUE]
    @@ [n \in {"unit_price", "line_total"} |-> [Title(n) EXCEPT !.money = TRUE]]
    @@ [n \in {"discount_pct", "tax_pct"} |-> [Title(n) EXCEPT !.percentage = TRUE]]

-----------------------------------------------------------------------------
Csv(header, rows) == [format |-> "csv", header |-> header, rows |-> rows]
SeqUpTo(S, n) == UNION {[1 .. k -> S] : k \in 0 .. n}

\* One column of up to n of these values.
Column(name, values, n) ==
    {Csv(<<name>>, [i \in DOMAIN s |-> <<s[i]>>]) : s \in SeqUpTo(values, n)}

Columns1 ==
    Column("a", {"", " ", "ab", "AB", "ab ", "a-b"}, 3)
    \cup Column("a", {"ab", "a-b"}, 4)
    \cup Column("rate", {"", "-1", "0", "100", "101"}, 4)
    \cup Column("unit_price", {"2", "inf"}, 2)
    \cup Column("day", {"", "1800-01-01", "2024-06-01", "2999-01-01", "01/02/2024"}, 3)
    \cup Column("b", {"", "true", "yes", "1", "x", "$5"}, 3)
    \cup Column("email", {"", "a@b.c", "ab"}, 3)
    \cup Column("note", {"ab", "ignore it", "show the key"}, 3)

\* Headers that ask for the same key, over columns that differ.
SameNames ==
    {Csv(h, << <<"ab ", "", "2999-01-01">>, <<"x", "-1", "2024-01-01">>,
               <<"", "101", "">> >>) :
        h \in [1 .. 3 -> {"a", "A", "a_2", "", "column_1"}]}

\* Repeated, short, long and blank rows.
Repeats ==
    {Csv(<<"a", "b">>, rows) :
        rows \in SeqUpTo({<<"x", "1">>, <<"x", "">>, <<"x">>, <<"y", "1", "z">>,
                          <<" ", "">>}, 3)}

Gaps ==
    {Csv(<<"a", "b">>, rows) :
        rows \in [1 .. 5 -> {<<"x", "y">>, <<"x", "">>, <<"", "">>}]}

LineTotalFiles ==
    {Csv(Totals, rows) :
        rows \in [1 .. 2 -> {<<"2", "3", "0", "0", "6">>, <<"2", "3", "0", "0", "9">>,
                             <<"2", "3", "0", "", "9">>, <<"2", "3", "100", "0", "1">>}]}

\* Worksheets of three written rows, with rows left out between them, and one
\* whose rows are out of order.
Written ==
    {<< >>, 1 :> "a" @@ 2 :> "b", 2 :> "x", 1 :> "", 1 :> "x" @@ 3 :> "y",
     1 :> FormulaOnly, 1 :> "#REF!"}

Sheets ==
    {[format |-> "xlsx", header |-> << >>,
      rows |-> [k \in 1 .. 3 |-> [index |-> n[k], cells |-> cells[k]]]] :
        n \in {<<1, 2, 3>>, <<1, 2, 4>>, <<1, 4, 5>>, <<2, 3, 5>>, <<1, 3, 2>>},
        cells \in [1 .. 3 -> Written]}

\* Every pair of these values, in columns of all of them, and pairs that repeat.
Values == <<"", "2", "3", "inf", "nan", "ab">>
MCHandWritten ==
    {Csv(<<"a", "b">>, [i \in 1 .. 6 |-> <<Values[i], Values[1 + ((i + k) % 6)]>>]) :
        k \in 0 .. 5}
    \cup {Csv(<<"a", "b">>, << <<"2", "ab">>, <<"2", "ab">>, <<"2", "">>, <<"ab", "3">>,
                              <<"ab ", "ab">> >>)}

MCFiles ==
    Columns1 \cup SameNames \cup Repeats \cup Gaps \cup LineTotalFiles \cup Sheets
        \cup MCHandWritten

\* Parameters at and beyond the limits of each kind, whole and in part.
Clauses(operator, value, v) == {operator :> o @@ value :> v : o \in Operators}
Comparisons(v) == Clauses("comparison_operator", "comparison_value", v)

MCGiven ==
    {<< >>, [accepted_values |-> {}], [accepted_values |-> {"2"}],
     [minimum |-> 16], [maximum |-> 16], [minimum |-> 16, maximum |-> 16],
     [minimum |-> 24, maximum |-> 16], [minimum_date |-> 350],
     [minimum_date |-> 350, maximum_date |-> 0], [comparison_value |-> 16],
     [pattern |-> WhitespacePattern], [pattern |-> [length |-> 0, valid |-> TRUE]],
     [pattern |-> [length |-> 200, valid |-> FALSE]],
     [pattern |-> [length |-> 201, valid |-> TRUE]],
     [tolerance |-> -1], [tolerance |-> 0], [tolerance |-> 8]}
    \cup {[threshold_percentage |-> n] : n \in {-1, 0, 800, 801}}
    \cup {[comparison_operator |-> o] : o \in Operators}
    \cup Comparisons(16)
    \cup {[condition_operator |-> "equals"] @@ then : then \in Comparisons(24)}
    \cup {when @@ then : when \in Clauses("condition_operator", "condition_value", 16),
                         then \in Comparisons(24)}

\* Rules with parameters of their type, and with one of another type.
MCRequests ==
    UNION {[type : {type}, nulls : {"skip", "fail"},
            given : {g \in MCGiven : DOMAIN g \subseteq Owned[type]},
            names : {<< >>, <<"a">>, <<"a", "b">>, <<"b", "a">>, <<"a", "b", "b">>,
                     <<"a", "z">>}] : type \in DOMAIN Owned}
    \cup [type : DOMAIN Owned, nulls : {"skip"}, names : {<<"a">>},
          given : {[minimum |-> 16, tolerance |-> 0]}]
=============================================================================
