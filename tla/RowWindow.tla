------------------------------- MODULE RowWindow -------------------------------
(***************************************************************************)
(* The rows of a file that are shown around one of them                    *)
(* (_build_row_window and _fit_window_to_size_bound, analysis/service.py): *)
(* at most MaxSide on each side, at most MaxChars characters, and without  *)
(* a gap.  Each turn of the loop's body is two steps, one for each side.   *)
(*                                                                         *)
(* A file is given by the characters up to each of its rows, so that what  *)
(* any window of it holds is a difference of two of them.                  *)
(***************************************************************************)
EXTENDS Integers

CONSTANTS
    MaxSide,    \* _MAX_ROW_CONTEXT_WINDOW_PER_SIDE
    MaxChars,   \* _MAX_ROW_CONTEXT_WINDOW_CHARS
    MaxFileRows,    \* bound: the rows of a file
    MaxTotal,   \* bound: the characters of a file
    MaxAsked    \* bound: the rows asked for on a side

ASSUME WindowLimits == MaxSide \in Nat /\ MaxChars \in Nat
ASSUME WindowModelBounds ==
    MaxFileRows \in Nat /\ MaxTotal \in Nat /\ MaxAsked \in Nat

VARIABLES
    rowCount,   \* how many rows the stored file has
    upto,       \* [0 .. rowCount -> Nat]: the characters before each row
    anchor,     \* the row the window is centred on
    asked,      \* [Sides -> Nat]: before and after, as asked for
    shown,      \* [Sides -> Nat]: before and after, as they are
    open,       \* [Sides -> BOOLEAN]: before_open and after_open
    budget,     \* the characters that are left
    pc          \* where the computation is: a side while it is that side's turn

input == <<rowCount, upto, anchor, asked>>
windowVars  == <<input, shown, open, budget, pc>>

Sides == {"before", "after"}

\* Every row costs a character for each of its cells at least.
WindowFiles(n) ==
    {u \in [0 .. n -> 0 .. MaxTotal] :
         u[0] = 0 /\ \A i, j \in 0 .. n : i < j => u[i] < u[j]}

WindowInit ==
    /\ rowCount \in 0 .. MaxFileRows
    /\ upto \in WindowFiles(rowCount)
    /\ anchor \in 0 .. MaxFileRows
    /\ asked \in [Sides -> 0 .. MaxAsked]
    /\ shown = [s \in Sides |-> 0]
    /\ open = [s \in Sides |-> FALSE]
    /\ budget = MaxChars
    /\ pc = "start"

\* _row_characters
Characters(i) == upto[i + 1] - upto[i]

AtMost(x, y) == IF x <= y THEN x ELSE y

\* The rows there are on a side of the anchor.
Room(s) == IF s = "before" THEN anchor ELSE rowCount - 1 - anchor

\* wanted_before and wanted_after
Wanted(s) == AtMost(AtMost(asked[s], MaxSide), Room(s))

Start ==
    /\ pc = "start"
    /\ anchor < rowCount
    /\ budget' = MaxChars - Characters(anchor)
    /\ open' = [s \in Sides |-> Wanted(s) > 0]
    /\ pc' = "before"
    /\ UNCHANGED <<input, shown>>

\* NoRowsToShowError
Refuse ==
    /\ pc = "start"
    /\ anchor >= rowCount
    /\ pc' = "refused"
    /\ UNCHANGED <<input, shown, open, budget>>

\* The next row outward on a side.
Neighbour(s) ==
    IF s = "before" THEN anchor - shown["before"] - 1
                    ELSE anchor + shown["after"] + 1

\* while before_open or after_open: the test is made before "before".
HasTurn(s) ==
    /\ pc = s
    /\ s = "before" => \E t \in Sides : open[t]

PassesTurn(s) == pc' = IF s = "before" THEN "after" ELSE "before"

\* Mutation: the row is taken although it needs one character too many.
AddOver(s) ==
    LET cost == Characters(Neighbour(s)) IN
    /\ HasTurn(s) /\ open[s]
    /\ cost <= budget + 1
    /\ budget' = budget - cost
    /\ shown' = [shown EXCEPT ![s] = @ + 1]
    /\ open' = [open EXCEPT ![s] = shown[s] + 1 < Wanted(s)]
    /\ PassesTurn(s)
    /\ UNCHANGED input

Add(s) ==
    LET cost == Characters(Neighbour(s)) IN
    /\ HasTurn(s) /\ open[s]
    /\ cost <= budget
    /\ budget' = budget - cost
    /\ shown' = [shown EXCEPT ![s] = @ + 1]
    /\ open' = [open EXCEPT ![s] = shown[s] + 1 < Wanted(s)]
    /\ PassesTurn(s)
    /\ UNCHANGED input

\* Mutation: the first row that does not fit closes both sides.
CloseBoth(s) ==
    /\ HasTurn(s) /\ open[s]
    /\ Characters(Neighbour(s)) > budget
    /\ open' = [t \in Sides |-> FALSE]
    /\ PassesTurn(s)
    /\ UNCHANGED <<input, shown, budget>>

\* Mutation: a side is passed over, and not closed, by a row that does not fit.
LeaveOpen(s) ==
    /\ HasTurn(s) /\ open[s]
    /\ Characters(Neighbour(s)) > budget
    /\ PassesTurn(s)
    /\ UNCHANGED <<input, shown, open, budget>>

\* Mutation: the row that does not fit takes the one before it with it.
CloseAndUndo(s) ==
    /\ HasTurn(s) /\ open[s]
    /\ Characters(Neighbour(s)) > budget
    /\ shown' = [shown EXCEPT ![s] = @ - 1]
    /\ open' = [open EXCEPT ![s] = FALSE]
    /\ PassesTurn(s)
    /\ UNCHANGED <<input, budget>>

\* The first row that does not fit closes its side for good.
Close(s) ==
    /\ HasTurn(s) /\ open[s]
    /\ Characters(Neighbour(s)) > budget
    /\ open' = [open EXCEPT ![s] = FALSE]
    /\ PassesTurn(s)
    /\ UNCHANGED <<input, shown, budget>>

Skip(s) ==
    /\ HasTurn(s) /\ ~ open[s]
    /\ PassesTurn(s)
    /\ UNCHANGED <<input, shown, open, budget>>

Finish ==
    /\ pc = "before"
    /\ \A s \in Sides : ~ open[s]
    /\ pc' = "done"
    /\ UNCHANGED <<input, shown, open, budget>>

WindowNext ==
    \/ Start \/ Refuse \/ Finish
    \/ \E s \in Sides : Add(s) \/ Close(s) \/ Skip(s)

WindowSpec == WindowInit /\ [][WindowNext]_windowVars

\* One thread runs one function.
WindowFairSpec == WindowSpec /\ WF_windowVars(WindowNext)

\* Mutation: only one side is compared.
SizeLimitedBefore == shown["before"] # Wanted("before")

\* size_limited
SizeLimited == \E s \in Sides : shown[s] # Wanted(s)
-----------------------------------------------------------------------------
(* Properties.                                                             *)

\* Types, and: no row outside the file is ever shown.
WindowTypeOK ==
    /\ rowCount \in Nat
    /\ upto \in [0 .. rowCount -> Nat]
    /\ anchor \in Nat
    /\ asked \in [Sides -> Nat]
    /\ shown \in [Sides -> Nat]
    /\ open \in [Sides -> BOOLEAN]
    /\ budget \in Int
    /\ pc \in Sides \cup {"start", "refused", "done"}
    /\ pc \notin {"start", "refused"} => \A s \in Sides : shown[s] <= Room(s)

\* The characters of a window of b rows before the anchor and a after it.
Size(b, a) == upto[anchor + a + 1] - upto[anchor - b]

\* A window of more than its anchor holds MaxChars characters at most (D-073).
WithinSize ==
    (\E s \in Sides : shown[s] > 0) =>
        Size(shown["before"], shown["after"]) <= MaxChars

\* A finished window cannot be made larger: on each side it holds the rows
\* that were wanted, or one more would exceed the bound.  The order in which
\* the sides took from the budget never costs a row that would still fit.
NothingMoreFits ==
    pc = "done" => \A s \in Sides :
        shown[s] < Wanted(s) =>
            Size(shown["before"], shown["after"]) + Characters(Neighbour(s))
                > MaxChars

\* A window is reported as limited by its size just when the rows that were
\* wanted do not all fit: never for the ends of the file or the row limit.
SizeLimitedIsHonest ==
    pc = "done" =>
        (SizeLimited <=> /\ \E s \in Sides : Wanted(s) > 0
                         /\ Size(Wanted("before"), Wanted("after")) > MaxChars)

\* The window a client is shown is the one it may be shown: small enough, as
\* large as it can be, and honest about why it is not larger.
WindowIsRight == WithinSize /\ NothingMoreFits /\ SizeLimitedIsHonest

\* The loop ends.
WindowEnds == <>(pc \in {"done", "refused"})
=============================================================================
