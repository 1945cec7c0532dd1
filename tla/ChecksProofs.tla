---------------------------- MODULE ChecksProofs ----------------------------
(***************************************************************************)
(* Proofs about what is calculated from the rows of one analysis: about    *)
(* Checks, for any files, readings of cells and rules, and about           *)
(* RowWindow, for any file, anchor and limits.                             *)
(*                                                                         *)
(* The invariant of Checks, ChecksInvariant, is that what a stage holds is *)
(* what its file determines, whichever detectors failed and whatever was   *)
(* asked.  The rest is about the calculations: what a reader makes of a    *)
(* file (row by row), what the metrics count and the detectors collect     *)
(* (column by column), what the scores add up (finding by finding), and    *)
(* what the runners of rules fail (cell by cell).  What is defined by      *)
(* recursion is reasoned about by its least counterexample, a natural      *)
(* number or a finite set that no other is below.                          *)
(*                                                                         *)
(* The invariant of RowWindow is WindowIInv.                               *)
(***************************************************************************)
EXTENDS Checks, RowWindow, FiniteSetTheorems, TLAPS
-----------------------------------------------------------------------------
(* Least counterexamples.                                                  *)

\* Every nonempty set of natural numbers has a least one.
LEMMA LeastNatural ==
  ASSUME NEW S \in SUBSET Nat, S # {}
  PROVE  \E n \in S : \A m \in S : n <= m
<1> DEFINE Below(n) == 0 .. n - 1
           T == {Below(n) : n \in S}
<1>1. IsWellFoundedOn(StrictSubsetOrdering(Nat), FiniteSubsetsOf(Nat))
  BY FS_StrictSubsetOrderingWellFounded
<1>2. T \subseteq FiniteSubsetsOf(Nat)
  <2>1. \A n \in S : IsFiniteSet(Below(n)) /\ Below(n) \subseteq Nat
    BY FS_Interval
  <2> QED BY <2>1 DEF FiniteSubsetsOf
<1>3. T # {}
  OBVIOUS
<1> HIDE DEF T
<1>4. \E x \in T : \A y \in T : ~ (<<y, x>> \in StrictSubsetOrdering(Nat))
  BY ONLY <1>1, <1>2, <1>3, WFMin
<1>5. PICK n \in S : \A y \in T : ~ (<<y, Below(n)>> \in StrictSubsetOrdering(Nat))
  BY <1>4 DEF T
<1>6. ASSUME NEW m \in S PROVE n <= m
  <2>1. <<Below(m), Below(n)>> \notin StrictSubsetOrdering(Nat)
    BY <1>5 DEF T
  <2>2. SUFFICES ASSUME m < n PROVE FALSE
    OBVIOUS
  <2>3. m \in Below(n) /\ m \notin Below(m)
    BY <2>2
  <2>4. Below(m) \subseteq Below(n)
    BY <2>2
  <2>5. Below(m) \in SUBSET Nat /\ Below(n) \in SUBSET Nat
    OBVIOUS
  <2> HIDE DEF Below
  <2> QED BY <2>1, <2>3, <2>4, <2>5 DEF StrictSubsetOrdering
<1> QED BY <1>6

\* Among sets of finite sets there is one that none of the others is part of.
LEMMA MinimalFiniteSet ==
  ASSUME NEW S, NEW F \in SUBSET FiniteSubsetsOf(S), F # {}
  PROVE  \E A \in F : \A B \in F : B \subseteq A => B = A
<1>1. IsWellFoundedOn(StrictSubsetOrdering(S), FiniteSubsetsOf(S))
  BY FS_StrictSubsetOrderingWellFounded
<1>2. F \subseteq FiniteSubsetsOf(S)
  OBVIOUS
<1>3. \E A \in F : \A B \in F : ~ (<<B, A>> \in StrictSubsetOrdering(S))
  BY ONLY <1>1, <1>2, F # {}, WFMin
<1>4. F \subseteq SUBSET S
  BY DEF FiniteSubsetsOf
<1> QED BY <1>3, <1>4 DEF StrictSubsetOrdering

\* A finite set of natural numbers has a largest one, and SetMax is that.
LEMMA Largest ==
  ASSUME NEW S \in SUBSET Nat, IsFiniteSet(S), S # {}
  PROVE  SetMax(S) \in S /\ \A n \in S : n <= SetMax(S)
<1> DEFINE Above(n) == {m \in S : n <= m}
           F == {Above(n) : n \in S}
<1>1. F \subseteq FiniteSubsetsOf(S)
  BY FS_Subset DEF FiniteSubsetsOf
<1>2. F # {}
  OBVIOUS
<1> HIDE DEF F
<1>3. \E A \in F : \A B \in F : B \subseteq A => B = A
  BY <1>1, <1>2, MinimalFiniteSet
<1>4. PICK n \in S : \A B \in F : B \subseteq Above(n) => B = Above(n)
  BY <1>3 DEF F
<1>5. \A m \in S : m <= n
  <2>1. SUFFICES ASSUME NEW m \in S, m > n PROVE FALSE
    OBVIOUS
  <2>2. Above(m) \in F
    BY DEF F
  <2>3. Above(m) \subseteq Above(n) /\ n \notin Above(m) /\ n \in Above(n)
    <3>1. m \in Nat /\ n \in Nat
      OBVIOUS
    <3>2. ASSUME NEW k \in Above(m) PROVE k \in Above(n)
      <4>1. k \in Nat /\ k \in S /\ m <= k
        OBVIOUS
      <4> QED BY <2>1, <3>1, <4>1
    <3>3. n \notin Above(m) /\ n \in Above(n)
      BY <2>1, <3>1
    <3> QED BY <3>2, <3>3
  <2> QED BY <1>4, <2>2, <2>3
<1> QED BY <1>5 DEF SetMax

\* A function of nothing is the empty sequence.
LEMMA NoArguments ==
  ASSUME NEW f, f = [x \in DOMAIN f |-> f[x]]
  PROVE  f = << >> <=> DOMAIN f = {}
<1>1. << >> = [x \in {} |-> f[x]]
  OBVIOUS
<1> QED BY <1>1

\* Of a finite set and a part of it with as many members.
LEMMA AsManyIsAll ==
  ASSUME NEW S, IsFiniteSet(S), NEW T \in SUBSET S,
         Cardinality(T) = Cardinality(S)
  PROVE  T = S
BY FS_Subset

\* What a function makes of finitely many arguments are as many things at most,
\* and as many exactly where no two arguments give the same.
LEMMA FiniteImage ==
  ASSUME NEW f, IsFiniteSet(DOMAIN f), f = [x \in DOMAIN f |-> f[x]]
  PROVE  /\ IsFiniteSet({f[x] : x \in DOMAIN f})
         /\ Cardinality({f[x] : x \in DOMAIN f}) <= Cardinality(DOMAIN f)
         /\ (\A x, y \in DOMAIN f : f[x] = f[y] => x = y)
            => Cardinality({f[x] : x \in DOMAIN f}) = Cardinality(DOMAIN f)
<1> DEFINE T == {f[x] : x \in DOMAIN f}
<1>1. f \in Surjection(DOMAIN f, T)
  BY DEF Surjection
<1>2. ASSUME \A x, y \in DOMAIN f : f[x] = f[y] => x = y
      PROVE  f \in Injection(DOMAIN f, T)
  BY <1>2 DEF Injection, IsInjective
<1> HIDE DEF T
<1>3. /\ IsFiniteSet(T)
      /\ Cardinality(T) <= Cardinality(DOMAIN f)
      /\ Cardinality(T) = Cardinality(DOMAIN f) <=> f \in Injection(DOMAIN f, T)
  BY <1>1, FS_Surjection
<1> QED BY <1>2, <1>3 DEF T

\* A set of numbers up to n is finite.
LEMMA FiniteUpTo ==
  ASSUME NEW n \in Nat, NEW S \in SUBSET (1 .. n)
  PROVE  IsFiniteSet(S) /\ Cardinality(S) \in 0 .. n
<1>1. IsFiniteSet(1 .. n) /\ Cardinality(1 .. n) = n
  BY FS_Interval
<1>2. IsFiniteSet(S) /\ Cardinality(S) <= n
  BY <1>1, FS_Subset
<1>3. Cardinality(S) \in Nat
  BY <1>2, FS_CardinalityType
<1> QED BY <1>2, <1>3

\* Induction over the numbers up to N, for the members of a set.
LEMMA Stepwise ==
  ASSUME NEW N \in Nat, NEW G, 0 \in G, \A m \in 1 .. N : m - 1 \in G => m \in G
  PROVE  \A m \in 0 .. N : m \in G
<1> DEFINE S == {m \in 0 .. N : m \notin G}
<1>1. SUFFICES ASSUME S # {} PROVE FALSE
  OBVIOUS
<1>2. PICK m \in S : \A k \in S : m <= k
  <2>1. S \in SUBSET Nat
    OBVIOUS
  <2> HIDE DEF S
  <2> QED BY <1>1, <2>1, LeastNatural
<1>3. m \in 1 .. N /\ m - 1 \in 0 .. N
  <2>1. m # 0
    BY <1>2
  <2> QED BY <2>1
<1>4. m - 1 \notin S
  <2>1. ~ m <= m - 1
    BY <1>3
  <2> HIDE DEF S
  <2> QED BY <1>2, <2>1
<1> QED BY <1>3, <1>4

\* Induction over the subsets of a finite set.
LEMMA OneByOne ==
  ASSUME NEW S, IsFiniteSet(S), NEW G,
         \A T \in SUBSET S : (\A x \in T : T \ {x} \in G) => T \in G
  PROVE  \A T \in SUBSET S : T \in G
<1> DEFINE F == {T \in SUBSET S : T \notin G}
<1>1. SUFFICES ASSUME F # {} PROVE FALSE
  OBVIOUS
<1>2. F \in SUBSET FiniteSubsetsOf(S)
  BY FS_Subset DEF FiniteSubsetsOf
<1>3. PICK A \in F : \A B \in F : B \subseteq A => B = A
  <2> HIDE DEF F
  <2> QED BY <1>1, <1>2, MinimalFiniteSet
<1>4. \A x \in A : A \ {x} \notin F /\ A \ {x} \in SUBSET S
  BY <1>3
<1> QED BY <1>3, <1>4
-----------------------------------------------------------------------------
(* Keys of columns.                                                        *)

\* The limits of a table are numbers.
LEMMA LimitsAreNatural == MaxRows \in Nat /\ MaxColumns \in Nat
BY TablesAssumption

DistinctKeys(keys) ==
    \A j, k \in 1 .. MaxColumns : keys[j] = keys[k] => j = k

\* While there are fewer keys than columns may be, one of a name's keys is free.
LEMMA FreeKeyIsFree ==
  ASSUME NEW keys, DistinctKeys(keys),
         NEW used, IsFiniteSet(used), Cardinality(used) < MaxColumns
  PROVE  FreeKey(keys, used) \notin used
<1> USE LimitsAreNatural
<1> DEFINE S == {k \in 1 .. MaxColumns : keys[k] \notin used}
           f == [k \in 1 .. MaxColumns |-> keys[k]]
<1>1. S # {}
  <2>1. SUFFICES ASSUME S = {} PROVE FALSE
    OBVIOUS
  <2>2. f \in [1 .. MaxColumns -> used]
    BY <2>1
  <2>3. IsFiniteSet(1 .. MaxColumns) /\ Cardinality(1 .. MaxColumns) = MaxColumns
    BY FS_Interval, MaxColumns \in Nat
  <2> HIDE DEF f
  <2>4. \E x, y \in 1 .. MaxColumns : x # y /\ f[x] = f[y]
    BY <2>2, <2>3, FS_PigeonHole
  <2> QED BY <2>4 DEF f, DistinctKeys
<1>2. S \in SUBSET Nat
  OBVIOUS
<1>3. PICK k \in S : \A m \in S : k <= m
  <2> HIDE DEF S
  <2> QED BY <1>1, <1>2, LeastNatural
<1>4. \A j \in 1 .. k - 1 : keys[j] \in used
  BY <1>3
<1> QED BY <1>3, <1>4 DEF FreeKey

\* Keys are handed out one after the other: g[n] are the first n of them.
HandsOut(g, names) ==
    /\ InternalKeys(names) = g[Len(names)]
    /\ g[0] = << >>
    /\ \A n \in 1 .. Len(names) :
           g[n] = Append(g[n - 1], FreeKey(ReadName[names[n]].keys, Range(g[n - 1])))

\* The keys are handed out name by name.
LEMMA InternalKeysUnfold ==
  ASSUME NEW names, NEW N \in Nat, Len(names) = N
  PROVE  \E g : HandsOut(g, names)
<1> DEFINE Next1(n, k) == Append(k, FreeKey(ReadName[names[n]].keys, Range(k)))
           Is(g, m) == g = [n \in 0 .. m |->
                               IF n = 0 THEN << >> ELSE Next1(n, g[n - 1])]
           G == {m \in 0 .. N : \E g : Is(g, m)}
<1> HIDE DEF Next1
<1>1. \A m \in 0 .. N : m \in G
  <2>1. \E g : Is(g, 0)
    <3>1. Is([n \in 0 .. 0 |-> << >>], 0)
      OBVIOUS
    <3> QED BY <3>1
  <2>2. ASSUME NEW m \in 1 .. N, NEW g, Is(g, m - 1) PROVE \E h : Is(h, m)
    <3> DEFINE h == [n \in 0 .. m |-> IF n = m THEN Next1(m, g[m - 1]) ELSE g[n]]
    <3>1. Is(h, m)
      BY <2>2
    <3> QED BY <3>1
  <2> HIDE DEF Is
  <2>3. 0 \in G /\ \A m \in 1 .. N : m - 1 \in G => m \in G
    BY <2>1, <2>2
  <2> HIDE DEF G
  <2> QED BY <2>3, Stepwise
<1>2. PICK g : Is(g, N)
  BY <1>1
<1>3. \E h : Is(h, N) /\ InternalKeys(names) = h[N]
  BY <1>2 DEF InternalKeys, Next1
<1>4. PICK h : Is(h, N) /\ InternalKeys(names) = h[N]
  BY <1>3
<1>5. h[0] = << >> /\ \A n \in 1 .. N : h[n] = Next1(n, h[n - 1])
  BY <1>4
<1> QED BY <1>4, <1>5 DEF Next1, HandsOut

\* No two columns share a key.
LEMMA InternalKeysDistinct ==
  ASSUME NEW names, NEW N \in 0 .. MaxColumns, Len(names) = N,
         \A n \in 1 .. N : DistinctKeys(ReadName[names[n]].keys)
  PROVE  \A c, d \in 1 .. N : InternalKeys(names)[c] = InternalKeys(names)[d] => c = d
<1> USE LimitsAreNatural
<1> DEFINE Key(n, used) == FreeKey(ReadName[names[n]].keys, used)
<1>1. PICK g : /\ InternalKeys(names) = g[N]
               /\ g[0] = << >>
               /\ \A n \in 1 .. N : g[n] = Append(g[n - 1], Key(n, Range(g[n - 1])))
  <2>1. N \in Nat
    OBVIOUS
  <2>2. \E g : HandsOut(g, names)
    BY <2>1, InternalKeysUnfold
  <2> QED BY <2>2 DEF HandsOut
<1> DEFINE U == {Key(n, Range(g[n - 1])) : n \in 1 .. N}
           Good(m) == /\ g[m] \in Seq(U) /\ Len(g[m]) = m
                      /\ \A c, d \in 1 .. m : g[m][c] = g[m][d] => c = d
           G == {m \in 0 .. N : Good(m)}
<1> HIDE DEF Key
<1>2. \A m \in 0 .. N : m \in G
  <2>1. Good(0)
    BY <1>1
  <2>2. ASSUME NEW m \in 1 .. N, Good(m - 1) PROVE Good(m)
    <3> DEFINE old == g[m - 1]
               used == Range(old)
    <3>1. IsFiniteSet(used) /\ Cardinality(used) < MaxColumns
      <4>1. DOMAIN old = 1 .. m - 1 /\ old = [x \in DOMAIN old |-> old[x]]
        BY <2>2
      <4>2. IsFiniteSet(1 .. m - 1) /\ Cardinality(1 .. m - 1) = m - 1
        BY <2>2, FS_Interval
      <4> HIDE DEF old
      <4>3. IsFiniteSet({old[x] : x \in DOMAIN old})
            /\ Cardinality({old[x] : x \in DOMAIN old}) <= m - 1
        BY <4>1, <4>2, FiniteImage
      <4>4. Cardinality(used) \in Nat
        BY <4>3, FS_CardinalityType DEF Range
      <4> QED BY <2>2, <4>3, <4>4 DEF Range
    <3>2. Key(m, used) \notin used
      BY <2>2, <3>1, FreeKeyIsFree DEF Key
    <3>3. g[m] = Append(old, Key(m, used)) /\ Key(m, used) \in U
      BY <1>1, <2>2
    <3>4. \A c \in 1 .. m - 1 : old[c] \in used
      BY <2>2 DEF Range
    <3> HIDE DEF U, used
    <3>5. g[m] \in Seq(U) /\ Len(g[m]) = m /\ g[m][m] = Key(m, used)
          /\ \A c \in 1 .. m - 1 : g[m][c] = old[c]
      BY <2>2, <3>3
    <3>6. \A c, d \in 1 .. m : g[m][c] = g[m][d] => c = d
      BY <2>2, <3>2, <3>4, <3>5
    <3> QED BY <3>5, <3>6
  <2> HIDE DEF Good
  <2>3. 0 \in G /\ \A m \in 1 .. N : m - 1 \in G => m \in G
    BY <2>1, <2>2
  <2>4. N \in Nat
    OBVIOUS
  <2> HIDE DEF G
  <2> QED BY <2>3, <2>4, Stepwise
<1>3. Good(N)
  <2> HIDE DEF Good
  <2> QED BY <1>2
<1> QED BY <1>1, <1>3
-----------------------------------------------------------------------------
(* Worksheets.                                                             *)

\* What a cell of a table can hold, and a row of a worksheet.
CellValues == DOMAIN Read \cup {"", None}

IsSheetRow(row) ==
    /\ row.index \in Nat
    /\ DOMAIN row.cells \in SUBSET (Nat \ {0})
    /\ IsFiniteSet(DOMAIN row.cells)
    /\ row.cells \in [DOMAIN row.cells -> DOMAIN Read \cup {"", FormulaOnly}]

SheetStates ==
    [header : Seq(CellValues), rows : Seq(Seq(CellValues)), last : Nat, blank : Int,
     ragged : SUBSET Int, ordered : BOOLEAN]

\* The cells of a row that are kept have a value, and columns with a last one.
LEMMA KeptCells ==
  ASSUME NEW row, IsSheetRow(row)
  PROVE  LET cells == Kept(row.cells)
         IN /\ DOMAIN cells \in SUBSET (Nat \ {0})
            /\ cells \in [DOMAIN cells -> DOMAIN Read]
            /\ cells = << >> <=> DOMAIN cells = {}
            /\ cells # << >> => SetMax(DOMAIN cells) \in Nat \ {0}
<1> DEFINE cells == Kept(row.cells)
           D == {c \in DOMAIN row.cells : row.cells[c] \notin {"", FormulaOnly}}
<1>1. cells = [c \in D |-> row.cells[c]] /\ DOMAIN cells = D
  BY DEF Kept, Restrict
<1>2. \A c \in D : row.cells[c] \in DOMAIN Read
  BY DEF IsSheetRow
<1>3. D \in SUBSET (Nat \ {0}) /\ D \in SUBSET Nat /\ IsFiniteSet(D)
  BY FS_Subset DEF IsSheetRow
<1>4. cells = << >> <=> DOMAIN cells = {}
  <2>1. cells = [c \in DOMAIN cells |-> cells[c]]
    BY <1>1
  <2> HIDE DEF cells
  <2> QED BY <2>1, NoArguments
<1>5. ASSUME D # {} PROVE SetMax(D) \in D
  <2> HIDE DEF D
  <2> QED BY <1>3, <1>5, Largest
<1> HIDE DEF D
<1> QED BY <1>1, <1>2, <1>3, <1>4, <1>5

\* A row as wide as the header.
LEMMA FilledRow ==
  ASSUME NEW row, IsSheetRow(row), NEW width \in Nat
  PROVE  /\ Filled(Kept(row.cells), width) \in Seq(CellValues)
         /\ Len(Filled(Kept(row.cells), width)) = width
<1> DEFINE cells == Kept(row.cells)
<1>1. cells \in [DOMAIN cells -> DOMAIN Read]
  BY KeptCells
<1> HIDE DEF cells
<1>2. Filled(cells, width) \in [1 .. width -> CellValues]
  BY <1>1 DEF Filled, CellValues
<1> QED BY <1>2 DEF cells

\* What a row changes, by what it holds.
LEMMA RowRead ==
  ASSUME NEW sheet \in SheetStates, NEW row, IsSheetRow(row)
  PROVE  LET cells == Kept(row.cells)
             width == Len(sheet.header)
             blank == sheet.blank + row.index - sheet.last - 1
             new == ReadRow(sheet, row)
         IN /\ new \in SheetStates
            /\ new.last = row.index
            /\ new.ordered <=> sheet.ordered /\ row.index > sheet.last
            /\ cells = << >> =>
                   /\ new.header = sheet.header /\ new.rows = sheet.rows
                   /\ new.ragged = sheet.ragged
                   /\ new.blank = IF width = 0 THEN sheet.blank ELSE blank + 1
            /\ cells # << >> /\ width = 0 =>
                   /\ new.header # << >> /\ Len(new.header) = SetMax(DOMAIN cells)
                   /\ new.rows = sheet.rows
                   /\ new.ragged = sheet.ragged /\ new.blank = sheet.blank
            /\ cells # << >> /\ width # 0 =>
                   /\ new.header = sheet.header /\ new.blank = 0
                   /\ new.ragged \subseteq sheet.ragged
                          \cup {Len(sheet.rows) + blank + 1}
                   /\ new.rows = sheet.rows
                          \o [i \in 1 .. blank |-> [c \in 1 .. width |-> None]]
                          \o << Filled(cells, width) >>
<1> DEFINE cells == Kept(row.cells)
           width == Len(sheet.header)
           blank == sheet.blank + row.index - sheet.last - 1
           gap == [i \in 1 .. blank |-> [c \in 1 .. width |-> None]]
           moved == [sheet EXCEPT !.last = row.index,
                                  !.ordered = @ /\ row.index > sheet.last]
           header == [c \in 1 .. SetMax(DOMAIN cells) |->
                         IF c \in DOMAIN cells THEN cells[c] ELSE ""]
           wide == {Len(sheet.rows) + blank + 1 : c \in {c \in DOMAIN cells : c > width}}
           new == ReadRow(sheet, row)
<1>1. /\ DOMAIN cells \in SUBSET (Nat \ {0})
      /\ cells \in [DOMAIN cells -> DOMAIN Read]
      /\ cells # << >> => SetMax(DOMAIN cells) \in Nat \ {0}
  BY KeptCells
<1>2. row.index \in Nat /\ width \in Nat /\ blank \in Int
  <2>1. row.index \in Nat
    BY DEF IsSheetRow
  <2>2. sheet.header \in Seq(CellValues) /\ sheet.last \in Nat /\ sheet.blank \in Int
    BY DEF SheetStates
  <2> QED BY <2>1, <2>2
<1>3. sheet.header = << >> <=> width = 0
  BY DEF SheetStates
<1>4. gap \in Seq(Seq(CellValues))
  <2>1. [c \in 1 .. width |-> None] \in Seq(CellValues)
    BY <1>2 DEF CellValues
  <2>2. CASE blank \in Nat
    BY <2>1, <2>2
  <2>3. CASE blank \notin Nat
    <3>1. 1 .. blank = {}
      BY <1>2, <2>3
    <3>2. gap = [x \in DOMAIN gap |-> gap[x]] /\ DOMAIN gap = {}
      BY <3>1
    <3> HIDE DEF gap
    <3>3. gap = << >>
      BY <3>2, NoArguments
    <3> QED BY <3>3
  <2> QED BY <2>2, <2>3
<1>5. Filled(cells, width) \in Seq(CellValues)
  BY <1>2, FilledRow
<1>6. cells # << >> => /\ header \in Seq(CellValues) /\ header # << >>
                       /\ Len(header) = SetMax(DOMAIN cells)
  <2> SUFFICES ASSUME cells # << >>
               PROVE  /\ header \in Seq(CellValues) /\ header # << >>
                      /\ Len(header) = SetMax(DOMAIN cells)
    OBVIOUS
  <2>1. SetMax(DOMAIN cells) \in Nat \ {0}
    BY <1>1
  <2> DEFINE m == SetMax(DOMAIN cells)
  <2> HIDE DEF m, cells
  <2>2. header \in [1 .. m -> CellValues]
    BY <1>1 DEF m, CellValues
  <2>3. header \in Seq(CellValues) /\ Len(header) = m
    <3> HIDE DEF header
    <3> QED BY <2>1, <2>2 DEF m
  <2> HIDE DEF header
  <2> QED BY <2>1, <2>3 DEF m
<1>7. wide \subseteq {Len(sheet.rows) + blank + 1} /\ Len(sheet.rows) + blank + 1 \in Int
  BY <1>2 DEF SheetStates
<1>8. new = IF width = 0
            THEN IF cells = << >> THEN moved ELSE [moved EXCEPT !.header = header]
            ELSE IF cells = << >> THEN [moved EXCEPT !.blank = blank + 1]
            ELSE [moved EXCEPT !.blank = 0,
                               !.rows = @ \o gap \o << Filled(cells, width) >>,
                               !.ragged = @ \cup wide]
  BY <1>3 DEF ReadRow
<1> HIDE DEF cells, width, blank, gap, header, wide, new
<1>9. /\ moved \in SheetStates /\ moved.last = row.index
      /\ moved.ordered <=> sheet.ordered /\ row.index > sheet.last
      /\ moved.header = sheet.header /\ moved.rows = sheet.rows
      /\ moved.ragged = sheet.ragged /\ moved.blank = sheet.blank
  BY <1>2 DEF SheetStates
<1> HIDE DEF moved
<1>10. CASE cells = << >> /\ width = 0
  BY <1>8, <1>9, <1>10 DEF cells, width, blank, new
<1>11. CASE cells # << >> /\ width = 0
  <2>1. new = [moved EXCEPT !.header = header]
    BY <1>8, <1>11
  <2>2. new \in SheetStates
    BY <1>6, <1>9, <1>11, <2>1 DEF SheetStates
  <2> QED BY <1>6, <1>9, <1>11, <2>1, <2>2 DEF cells, width, blank, new, SheetStates
<1>12. CASE cells = << >> /\ width # 0
  <2>1. new = [moved EXCEPT !.blank = blank + 1]
    BY <1>8, <1>12
  <2>2. new \in SheetStates
    BY <1>2, <1>9, <2>1 DEF SheetStates
  <2> QED BY <1>9, <1>12, <2>1, <2>2 DEF cells, width, blank, new, SheetStates
<1>13. CASE cells # << >> /\ width # 0
  <2> DEFINE rows == sheet.rows \o gap \o << Filled(cells, width) >>
  <2>1. rows \in Seq(Seq(CellValues))
    BY <1>4, <1>5 DEF SheetStates
  <2>2. new = [moved EXCEPT !.blank = 0, !.rows = rows, !.ragged = sheet.ragged \cup wide]
    BY <1>8, <1>9, <1>13
  <2>3. sheet.ragged \cup wide \in SUBSET Int
    BY <1>7 DEF SheetStates
  <2> HIDE DEF rows
  <2>4. new \in SheetStates /\ new.blank = 0 /\ new.rows = rows
        /\ new.ragged = sheet.ragged \cup wide
        /\ new.header = moved.header /\ new.last = moved.last
        /\ new.ordered = moved.ordered
    <3> DEFINE ragged == sheet.ragged \cup wide
    <3>1. moved \in SheetStates /\ ragged \in SUBSET Int
      BY <1>9, <2>3
    <3> HIDE DEF ragged
    <3>2. new = [moved EXCEPT !.blank = 0, !.rows = rows, !.ragged = ragged]
      BY <2>2 DEF ragged
    <3>3. new.blank = 0 /\ new.rows = rows /\ new.ragged = ragged
          /\ new.header = moved.header /\ new.last = moved.last
          /\ new.ordered = moved.ordered
      BY <3>1, <3>2 DEF SheetStates
    <3>4. new = [header |-> moved.header, rows |-> rows, last |-> moved.last,
                 blank |-> 0, ragged |-> ragged, ordered |-> moved.ordered]
      BY <3>1, <3>2 DEF SheetStates
    <3>5. /\ moved.header \in Seq(CellValues) /\ moved.last \in Nat
          /\ moved.ordered \in BOOLEAN
      BY <3>1 DEF SheetStates
    <3>6. new \in SheetStates
      BY <2>1, <3>1, <3>4, <3>5 DEF SheetStates
    <3> QED BY <3>3, <3>6 DEF ragged
  <2> QED BY <1>7, <1>9, <1>13, <2>4 DEF rows, gap, cells, width, blank, new
<1> QED BY <1>10, <1>11, <1>12, <1>13

IsSheet(f) ==
    f.rows \in Seq(Range(f.rows)) /\ \A i \in DOMAIN f.rows : IsSheetRow(f.rows[i])

\* A worksheet is read row by row: g[n] is what is known after n of them.
ReadsOn(g, f) ==
    /\ ReadSheet(f) = g[Len(f.rows)]
    /\ g[0] = Unread
    /\ \A n \in 1 .. Len(f.rows) : g[n] = ReadRow(g[n - 1], f.rows[n])

\* A worksheet is read row by row.
LEMMA ReadSheetUnfold ==
  ASSUME NEW f, NEW N \in Nat, Len(f.rows) = N
  PROVE  \E g : ReadsOn(g, f)
<1> DEFINE Is(g, m) == g = [n \in 0 .. m |-> IF n = 0 THEN Unread
                                             ELSE ReadRow(g[n - 1], f.rows[n])]
           G == {m \in 0 .. N : \E g : Is(g, m)}
<1>1. \A m \in 0 .. N : m \in G
  <2>1. \E g : Is(g, 0)
    <3>1. Is([n \in 0 .. 0 |-> Unread], 0)
      OBVIOUS
    <3> QED BY <3>1
  <2>2. ASSUME NEW m \in 1 .. N, NEW g, Is(g, m - 1) PROVE \E h : Is(h, m)
    <3> DEFINE h == [n \in 0 .. m |-> IF n = m THEN ReadRow(g[m - 1], f.rows[m])
                                      ELSE g[n]]
    <3>1. Is(h, m)
      BY <2>2
    <3> QED BY <3>1
  <2> HIDE DEF Is
  <2>3. 0 \in G /\ \A m \in 1 .. N : m - 1 \in G => m \in G
    BY <2>1, <2>2
  <2> HIDE DEF G
  <2> QED BY <2>3, Stepwise
<1>2. PICK g : Is(g, N)
  BY <1>1
<1>3. \E h : Is(h, N) /\ ReadSheet(f) = h[N]
  BY <1>2 DEF ReadSheet
<1>4. PICK h : Is(h, N) /\ ReadSheet(f) = h[N]
  BY <1>3
<1>5. h[0] = Unread /\ \A n \in 1 .. N : h[n] = ReadRow(h[n - 1], f.rows[n])
  BY <1>4
<1> QED BY <1>4, <1>5 DEF ReadsOn

\* The rows with data among the first n.
FilledUpTo(f, n) == {i \in 1 .. n : Kept(f.rows[i].cells) # << >>}

\* What the reader knows after n rows in their order: every row lies as far below
\* the first with data as in the worksheet, and the blank rows since the last one
\* with data are counted.
Shape(f, n, s) ==
    /\ s.blank \in Nat
    /\ s.header = << >> <=> FilledUpTo(f, n) = {}
    /\ s.header = << >> => s.rows = << >> /\ s.blank = 0 /\ s.ragged = {}
    /\ s.ragged \subseteq 1 .. Len(s.rows)
    /\ \A k \in 1 .. Len(s.rows) : Len(s.rows[k]) = Len(s.header)

Ascending(f, n, s) ==
    /\ \A i \in 1 .. n : f.rows[i].index <= s.last
    /\ \A i, j \in 1 .. n : i < j => f.rows[i].index < f.rows[j].index

Places(f, n, s, top) ==
    /\ top \in FilledUpTo(f, n) /\ \A i \in FilledUpTo(f, n) : top <= i
    /\ Len(s.rows) + s.blank = s.last - f.rows[top].index
    /\ \E end \in FilledUpTo(f, n) :
           /\ \A i \in FilledUpTo(f, n) : i <= end
           /\ Len(s.rows) = f.rows[end].index - f.rows[top].index
    /\ \A i \in FilledUpTo(f, n) \ {top} :
           /\ f.rows[i].index - f.rows[top].index \in 1 .. Len(s.rows)
           /\ s.rows[f.rows[i].index - f.rows[top].index] =
                  Filled(Kept(f.rows[i].cells), Len(s.header))

Progress(f, n, s) ==
    /\ s \in SheetStates
    /\ s.ordered => /\ Shape(f, n, s)
                    /\ Ascending(f, n, s)
                    /\ s.header # << >> => \E top : Places(f, n, s, top)

\* Before the first row nothing is known of a worksheet.
LEMMA NothingRead ==
  ASSUME NEW f
  PROVE  Progress(f, 0, Unread)
<1>1. Unread \in SheetStates
  <2>1. << >> \in Seq(CellValues) /\ << >> \in Seq(Seq(CellValues))
    OBVIOUS
  <2> QED BY <2>1 DEF Unread, SheetStates
<1>2. Shape(f, 0, Unread)
  BY DEF Unread, Shape, FilledUpTo
<1>3. Ascending(f, 0, Unread)
  BY DEF Ascending
<1> QED BY <1>1, <1>2, <1>3 DEF Progress, Unread

\* What is counted while a worksheet is read are numbers.
LEMMA RowNumbers ==
  ASSUME NEW f, IsSheet(f), NEW n \in 1 .. Len(f.rows), NEW s, Progress(f, n - 1, s),
         Shape(f, n - 1, s)
  PROVE  /\ n \in Nat /\ f.rows[n].index \in Nat /\ s.last \in Nat /\ s.blank \in Nat
         /\ Len(s.rows) \in Nat /\ Len(s.header) \in Nat
         /\ \A i \in 1 .. n : f.rows[i].index \in Nat
<1>1. Len(f.rows) \in Nat /\ DOMAIN f.rows = 1 .. Len(f.rows)
  BY DEF IsSheet
<1>2. \A i \in 1 .. n : i \in DOMAIN f.rows
  BY <1>1
<1>3. \A i \in 1 .. n : f.rows[i].index \in Nat
  BY <1>2 DEF IsSheet, IsSheetRow
<1>4. s.last \in Nat /\ s.rows \in Seq(Seq(CellValues)) /\ s.header \in Seq(CellValues)
  BY DEF Progress, SheetStates
<1>5. s.blank \in Nat
  BY DEF Shape
<1> QED BY <1>1, <1>3, <1>4, <1>5

\* The rows after a gap and a row are put below those there are.
LEMMA AppendGap ==
  ASSUME NEW S, NEW old \in Seq(S), NEW n \in Nat, NEW empty \in S, NEW last \in S
  PROVE  LET rows == old \o [i \in 1 .. n |-> empty] \o << last >>
         IN /\ Len(rows) = Len(old) + n + 1
            /\ \A k \in 1 .. Len(old) : rows[k] = old[k]
            /\ \A k \in Len(old) + 1 .. Len(old) + n : rows[k] = empty
            /\ rows[Len(old) + n + 1] = last
<1> DEFINE gap == [i \in 1 .. n |-> empty]
           first == old \o gap
           rows == first \o << last >>
<1>1. gap \in Seq(S) /\ Len(gap) = n /\ \A i \in 1 .. n : gap[i] = empty
  OBVIOUS
<1> HIDE DEF gap
<1>2. /\ first \in Seq(S) /\ Len(first) = Len(old) + n
      /\ \A k \in 1 .. Len(old) : first[k] = old[k]
  BY <1>1
<1>3. \A k \in Len(old) + 1 .. Len(old) + n : first[k] = empty
  <2> SUFFICES ASSUME NEW k \in Len(old) + 1 .. Len(old) + n PROVE first[k] = empty
    OBVIOUS
  <2>1. first[k] = gap[k - Len(old)]
    BY <1>1
  <2>2. k - Len(old) \in 1 .. n
    OBVIOUS
  <2> QED BY <1>1, <2>1, <2>2
<1>4. << last >> \in Seq(S) /\ Len(<< last >>) = 1 /\ << last >>[1] = last
  OBVIOUS
<1> HIDE DEF first
<1>5. /\ Len(rows) = Len(first) + 1
      /\ \A k \in 1 .. Len(first) : rows[k] = first[k]
      /\ rows[Len(first) + 1] = last
  BY <1>2, <1>4
<1> HIDE DEF rows
<1>6. /\ \A k \in 1 .. Len(old) : rows[k] = old[k]
      /\ \A k \in Len(old) + 1 .. Len(old) + n : rows[k] = empty
  BY <1>2, <1>3, <1>5
<1> QED BY <1>2, <1>5, <1>6 DEF rows, first, gap

\* A row with a higher number comes after all of those before it.
LEMMA StillAscending ==
  ASSUME NEW f, NEW n \in Nat \ {0}, NEW s, NEW new, Ascending(f, n - 1, s),
         \A i \in 1 .. n : f.rows[i].index \in Nat, s.last \in Nat,
         new.last = f.rows[n].index, f.rows[n].index > s.last
  PROVE  Ascending(f, n, new)
<1> DEFINE Index(i) == f.rows[i].index
<1> HIDE DEF Index
<1>1. \A i \in 1 .. n : Index(i) \in Nat
  BY DEF Index
<1>2. \A i \in 1 .. n : i = n \/ i \in 1 .. n - 1
  OBVIOUS
<1>3. /\ \A i \in 1 .. n - 1 : Index(i) <= s.last
      /\ \A i, j \in 1 .. n - 1 : i < j => Index(i) < Index(j)
  BY DEF Ascending, Index
<1>4. \A i \in 1 .. n - 1 : i \in 1 .. n /\ Index(i) < Index(n)
  BY <1>1, <1>3 DEF Index
<1>5. \A i, j \in 1 .. n : i < j => i \in 1 .. n - 1
  OBVIOUS
<1>6. \A i, j \in 1 .. n : i < j => Index(i) < Index(j)
  BY <1>2, <1>3, <1>4, <1>5
<1>7. \A i \in 1 .. n : Index(i) <= Index(n)
  BY <1>1, <1>2, <1>4
<1> QED BY <1>6, <1>7 DEF Ascending, Index

\* The first row with data is the header.
LEMMA HeaderRow ==
  ASSUME NEW f, IsSheet(f), NEW n \in 1 .. Len(f.rows), NEW s, Progress(f, n - 1, s),
         s.header = << >>
  PROVE  Progress(f, n, ReadRow(s, f.rows[n]))
<1> DEFINE row == f.rows[n]
           new == ReadRow(s, row)
           Index(i) == f.rows[i].index
<1>1. IsSheetRow(row) /\ s \in SheetStates
  BY DEF IsSheet, Progress
<1>2. /\ new \in SheetStates /\ new.last = Index(n)
      /\ new.ordered <=> s.ordered /\ Index(n) > s.last
  BY <1>1, RowRead
<1>3. SUFFICES ASSUME s.ordered, Index(n) > s.last
              PROVE  /\ Shape(f, n, new) /\ Ascending(f, n, new)
                     /\ new.header # << >> => \E top : Places(f, n, new, top)
  BY <1>2 DEF Progress
<1>4. /\ Shape(f, n - 1, s) /\ Ascending(f, n - 1, s)
      /\ s.header # << >> => \E top : Places(f, n - 1, s, top)
  BY <1>3 DEF Progress
<1>5. /\ n \in Nat /\ Index(n) \in Nat /\ s.last \in Nat /\ s.blank \in Nat
      /\ Len(s.rows) \in Nat /\ Len(s.header) \in Nat
      /\ \A i \in 1 .. n : Index(i) \in Nat
  BY <1>4, RowNumbers
<1>6. FilledUpTo(f, n) = FilledUpTo(f, n - 1)
                           \cup (IF Kept(row.cells) = << >> THEN {} ELSE {n})
  BY <1>5 DEF FilledUpTo
<1>7. Ascending(f, n, new)
  <2>1. n \in Nat \ {0}
    BY <1>5
  <2> HIDE DEF new
  <2> QED BY <1>2, <1>3, <1>4, <1>5, <2>1, StillAscending
<1>8. s.rows = << >> /\ s.blank = 0 /\ s.ragged = {} /\ FilledUpTo(f, n - 1) = {}
      /\ Len(s.header) = 0
  BY <1>4 DEF Shape
<1>9. CASE Kept(row.cells) = << >>
  <2>1. new.header = s.header /\ new.rows = s.rows /\ new.ragged = s.ragged
        /\ new.blank = 0
    BY <1>1, <1>8, <1>9, RowRead
  <2>2. Shape(f, n, new)
    BY <1>6, <1>8, <1>9, <2>1 DEF Shape
  <2> QED BY <1>7, <2>1, <2>2
<1>10. CASE Kept(row.cells) # << >>
  <2>1. new.header # << >> /\ new.rows = << >> /\ new.ragged = {} /\ new.blank = 0
    BY <1>1, <1>8, <1>10, RowRead
  <2>2. FilledUpTo(f, n) = {n}
    BY <1>6, <1>8, <1>10
  <2>3. Shape(f, n, new)
    BY <2>1, <2>2 DEF Shape
  <2>4. Places(f, n, new, n)
    BY <1>2, <1>5, <2>1, <2>2 DEF Places
  <2> QED BY <1>7, <2>3, <2>4
<1> QED BY <1>9, <1>10

\* A blank row waits.
LEMMA BlankRow ==
  ASSUME NEW f, IsSheet(f), NEW n \in 1 .. Len(f.rows), NEW s, Progress(f, n - 1, s),
         s.header # << >>, Kept(f.rows[n].cells) = << >>
  PROVE  Progress(f, n, ReadRow(s, f.rows[n]))
<1> DEFINE row == f.rows[n]
           new == ReadRow(s, row)
           Index(i) == f.rows[i].index
<1>1. IsSheetRow(row) /\ s \in SheetStates
  BY DEF IsSheet, Progress
<1>2. /\ new \in SheetStates /\ new.last = Index(n)
      /\ new.ordered <=> s.ordered /\ Index(n) > s.last
  BY <1>1, RowRead
<1>3. SUFFICES ASSUME s.ordered, Index(n) > s.last
              PROVE  /\ Shape(f, n, new) /\ Ascending(f, n, new)
                     /\ new.header # << >> => \E top : Places(f, n, new, top)
  BY <1>2 DEF Progress
<1>4. /\ Shape(f, n - 1, s) /\ Ascending(f, n - 1, s)
      /\ s.header # << >> => \E top : Places(f, n - 1, s, top)
  BY <1>3 DEF Progress
<1>5. /\ n \in Nat /\ Index(n) \in Nat /\ s.last \in Nat /\ s.blank \in Nat
      /\ Len(s.rows) \in Nat /\ Len(s.header) \in Nat
      /\ \A i \in 1 .. n : Index(i) \in Nat
  BY <1>4, RowNumbers
<1>6. FilledUpTo(f, n) = FilledUpTo(f, n - 1)
                           \cup (IF Kept(row.cells) = << >> THEN {} ELSE {n})
  BY <1>5 DEF FilledUpTo
<1>7. Ascending(f, n, new)
  <2>1. n \in Nat \ {0}
    BY <1>5
  <2> HIDE DEF new
  <2> QED BY <1>2, <1>3, <1>4, <1>5, <2>1, StillAscending
<1>8. PICK top : Places(f, n - 1, s, top)
  BY <1>4
<1>9. s.header # << >> /\ Len(s.header) # 0
  BY <1>1 DEF SheetStates
<1>10. /\ new.header = s.header /\ new.rows = s.rows /\ new.ragged = s.ragged
       /\ new.blank = s.blank + Index(n) - s.last
  <2>1. new.blank = s.blank + Index(n) - s.last - 1 + 1
    BY <1>1, <1>9, RowRead
  <2>2. new.header = s.header /\ new.rows = s.rows /\ new.ragged = s.ragged
    BY <1>1, <1>9, RowRead
  <2> HIDE DEF new, Index
  <2> QED BY <1>5, <2>1, <2>2
<1>11. FilledUpTo(f, n) = FilledUpTo(f, n - 1)
  BY <1>6
<1>12. Shape(f, n, new)
  BY <1>3, <1>4, <1>5, <1>10, <1>11 DEF Shape
<1>13. Places(f, n, new, top)
  <2>1. Index(top) \in Nat
    BY <1>5, <1>8 DEF Places, FilledUpTo
  <2>2. Len(s.rows) + s.blank = s.last - Index(top)
    BY <1>8 DEF Places
  <2>3. Len(new.rows) + new.blank = new.last - Index(top)
    <3>1. Len(s.rows) + (s.blank + Index(n) - s.last) = Index(n) - Index(top)
      <4> DEFINE end == Index(n)
                 first == Index(top)
                 rows == Len(s.rows)
                 waiting == s.blank
                 last == s.last
      <4>1. rows \in Nat /\ waiting \in Nat /\ last \in Nat /\ first \in Nat
            /\ end \in Nat /\ rows + waiting = last - first
        BY <1>5, <2>1, <2>2
      <4> HIDE DEF end, first, rows, waiting, last, Index
      <4>2. rows + (waiting + end - last) = end - first
        BY ONLY <4>1
      <4> QED BY <4>2 DEF end, first, rows, waiting, last
    <3> QED BY <1>2, <1>10, <3>1
  <2> QED BY <1>8, <1>10, <1>11, <2>3 DEF Places
<1> QED BY <1>7, <1>12, <1>13

\* A row with data goes below the blank rows before it.
LEMMA DataRow ==
  ASSUME NEW f, IsSheet(f), NEW n \in 1 .. Len(f.rows), NEW s, Progress(f, n - 1, s),
         s.header # << >>, Kept(f.rows[n].cells) # << >>
  PROVE  Progress(f, n, ReadRow(s, f.rows[n]))
<1> DEFINE row == f.rows[n]
           new == ReadRow(s, row)
           Index(i) == f.rows[i].index
<1>1. IsSheetRow(row) /\ s \in SheetStates
  BY DEF IsSheet, Progress
<1>2. /\ new \in SheetStates /\ new.last = Index(n)
      /\ new.ordered <=> s.ordered /\ Index(n) > s.last
  BY <1>1, RowRead
<1>3. SUFFICES ASSUME s.ordered, Index(n) > s.last
              PROVE  /\ Shape(f, n, new) /\ Ascending(f, n, new)
                     /\ new.header # << >> => \E top : Places(f, n, new, top)
  BY <1>2 DEF Progress
<1>4. /\ Shape(f, n - 1, s) /\ Ascending(f, n - 1, s)
      /\ s.header # << >> => \E top : Places(f, n - 1, s, top)
  BY <1>3 DEF Progress
<1>5. /\ n \in Nat /\ Index(n) \in Nat /\ s.last \in Nat /\ s.blank \in Nat
      /\ Len(s.rows) \in Nat /\ Len(s.header) \in Nat
      /\ \A i \in 1 .. n : Index(i) \in Nat
  BY <1>4, RowNumbers
<1>6. FilledUpTo(f, n) = FilledUpTo(f, n - 1)
                           \cup (IF Kept(row.cells) = << >> THEN {} ELSE {n})
  BY <1>5 DEF FilledUpTo
<1>7. Ascending(f, n, new)
  <2>1. n \in Nat \ {0}
    BY <1>5
  <2> HIDE DEF new
  <2> QED BY <1>2, <1>3, <1>4, <1>5, <2>1, StillAscending
<1>8. PICK top : Places(f, n - 1, s, top)
  BY <1>4
<1>9. s.header # << >> /\ Len(s.header) # 0
  BY <1>1 DEF SheetStates
<1> DEFINE blank == s.blank + Index(n) - s.last - 1
           width == Len(s.header)
           gap == [i \in 1 .. blank |-> [c \in 1 .. width |-> None]]
           last == Filled(Kept(row.cells), width)
<1>10. /\ new.header = s.header /\ new.blank = 0
       /\ new.ragged \subseteq s.ragged \cup {Len(s.rows) + blank + 1}
       /\ new.rows = s.rows \o gap \o << last >>
  BY <1>1, <1>9, RowRead
<1>11. FilledUpTo(f, n) = FilledUpTo(f, n - 1) \cup {n}
  BY <1>6
<1>12. blank \in Nat /\ width \in Nat /\ Len(s.rows) \in Nat
  BY <1>3, <1>5
<1>13. /\ Len(new.rows) = Len(s.rows) + blank + 1
       /\ \A k \in 1 .. Len(s.rows) : new.rows[k] = s.rows[k]
       /\ \A k \in Len(s.rows) + 1 .. Len(s.rows) + blank :
              new.rows[k] = [c \in 1 .. width |-> None]
       /\ new.rows[Len(s.rows) + blank + 1] = last
  <2> DEFINE empty == [c \in 1 .. width |-> None]
  <2>1. empty \in Seq(CellValues)
    BY <1>12 DEF CellValues
  <2>2. last \in Seq(CellValues)
    BY <1>1, <1>12, FilledRow
  <2>3. s.rows \in Seq(Seq(CellValues))
    BY <1>1 DEF SheetStates
  <2>4. gap = [i \in 1 .. blank |-> empty]
    OBVIOUS
  <2> HIDE DEF empty, last, gap, blank, new
  <2>5. new.rows = s.rows \o [i \in 1 .. blank |-> empty] \o << last >>
    BY <1>10, <2>4
  <2>6. /\ Len(new.rows) = Len(s.rows) + blank + 1
        /\ \A k \in 1 .. Len(s.rows) : new.rows[k] = s.rows[k]
        /\ \A k \in Len(s.rows) + 1 .. Len(s.rows) + blank : new.rows[k] = empty
        /\ new.rows[Len(s.rows) + blank + 1] = last
    BY <1>12, <2>1, <2>2, <2>3, <2>5, AppendGap
  <2> QED BY <2>6 DEF empty
<1>14. Len(last) = width
  BY <1>1, <1>12, FilledRow
<1> HIDE DEF last, gap
<1>15. Shape(f, n, new)
  <2>1. \A k \in 1 .. Len(new.rows) : Len(new.rows[k]) = width
    <3>1. \A k \in 1 .. Len(s.rows) : Len(s.rows[k]) = width
      BY <1>4 DEF Shape
    <3>2. Len([c \in 1 .. width |-> None]) = width
      BY <1>12
    <3>3. \A k \in 1 .. Len(s.rows) + blank + 1 :
              \/ k \in 1 .. Len(s.rows) \/ k \in Len(s.rows) + 1 .. Len(s.rows) + blank
              \/ k = Len(s.rows) + blank + 1
      <4> HIDE DEF blank
      <4> QED BY ONLY <1>12
    <3> DEFINE empty == [c \in 1 .. width |-> None]
    <3> HIDE DEF blank, width, empty, new
    <3> QED BY <1>13, <1>14, <3>1, <3>2, <3>3 DEF empty
  <2>2. new.ragged \subseteq 1 .. Len(new.rows)
    <3>1. s.ragged \subseteq 1 .. Len(s.rows)
      BY <1>4 DEF Shape
    <3>2. Len(new.rows) = Len(s.rows) + blank + 1
      BY <1>13
    <3>3. \A k \in 1 .. Len(s.rows) : k \in 1 .. Len(s.rows) + blank + 1
      <4> HIDE DEF blank
      <4> QED BY ONLY <1>12
    <3>4. Len(s.rows) + blank + 1 \in 1 .. Len(s.rows) + blank + 1
      <4> HIDE DEF blank
      <4> QED BY ONLY <1>12
    <3> HIDE DEF blank, width, new
    <3> QED BY <1>10, <3>1, <3>2, <3>3, <3>4
  <2>3. FilledUpTo(f, n) # {} /\ new.header # << >> /\ new.blank = 0
    BY <1>9, <1>10, <1>11
  <2>4. \A k \in 1 .. Len(new.rows) : Len(new.rows[k]) = Len(new.header)
    BY <1>10, <2>1
  <2> HIDE DEF blank, width, new
  <2>5. new.blank \in Nat
    BY <2>3
  <2> QED BY <2>2, <2>3, <2>4, <2>5 DEF Shape
<1>16. Places(f, n, new, top)
  <2>1. Index(top) \in Nat /\ top \in 1 .. n - 1
    BY <1>5, <1>8 DEF Places, FilledUpTo
  <2>2. Len(s.rows) + s.blank = s.last - Index(top)
    BY <1>8 DEF Places
  <2>3. Len(new.rows) = Index(n) - Index(top)
    <3>1. Len(s.rows) + (s.blank + Index(n) - s.last - 1) + 1 = Index(n) - Index(top)
      <4> DEFINE end == Index(n)
                 first == Index(top)
                 rows == Len(s.rows)
                 seen == s.last
                 empty == s.blank
      <4>1. rows \in Nat /\ empty \in Nat /\ seen \in Nat /\ end \in Nat
        BY ONLY <1>5
      <4>2. first \in Nat /\ rows + empty = seen - first
        BY ONLY <2>1, <2>2
      <4> HIDE DEF end, first, rows, seen, empty, Index
      <4>3. rows + (empty + end - seen - 1) + 1 = end - first
        BY ONLY <4>1, <4>2
      <4> QED BY <4>3 DEF end, first, rows, seen, empty
    <3> QED BY <1>13, <3>1
  <2>4. \A i \in FilledUpTo(f, n) : i \in 1 .. n
    BY DEF FilledUpTo
  <2>5. \A i \in FilledUpTo(f, n) : top <= i /\ i <= n
    BY <1>8, <1>11, <2>1, <2>4 DEF Places
  <2>6. ASSUME NEW i \in FilledUpTo(f, n) \ {top}
        PROVE  /\ Index(i) - Index(top) \in 1 .. Len(new.rows)
               /\ new.rows[Index(i) - Index(top)] = Filled(Kept(f.rows[i].cells), width)
    <3>1. CASE i = n
      <4>1. Index(n) - Index(top) = Len(s.rows) + blank + 1
        BY <1>13, <2>3
      <4>2. Len(new.rows) = Len(s.rows) + blank + 1
            /\ new.rows[Len(s.rows) + blank + 1] = last
        BY <1>13
      <4>3. Len(s.rows) + blank + 1 \in 1 .. Len(s.rows) + blank + 1
        <5> HIDE DEF blank
        <5> QED BY ONLY <1>12
      <4> HIDE DEF new, blank, width
      <4> QED BY <3>1, <4>1, <4>2, <4>3 DEF last
    <3>2. CASE i # n
      <4>1. i \in FilledUpTo(f, n - 1) \ {top}
        BY <1>11, <3>2
      <4>2. /\ Index(i) - Index(top) \in 1 .. Len(s.rows)
            /\ s.rows[Index(i) - Index(top)] = Filled(Kept(f.rows[i].cells), width)
        BY <1>8, <4>1 DEF Places
      <4> DEFINE k == Index(i) - Index(top)
      <4> HIDE DEF blank, width, new, k
      <4>3. k \in 1 .. Len(s.rows) /\ s.rows[k] = Filled(Kept(f.rows[i].cells), width)
        BY <4>2 DEF k
      <4>4. k \in 1 .. Len(new.rows) /\ new.rows[k] = s.rows[k]
        BY ONLY <1>12, <1>13, <4>3
      <4> QED BY <4>3, <4>4 DEF k
    <3> QED BY <3>1, <3>2
  <2>7. n \in FilledUpTo(f, n) /\ top \in FilledUpTo(f, n)
    BY <1>8, <1>11 DEF Places
  <2>8. Len(new.rows) + new.blank = new.last - Index(top)
    BY <1>2, <1>5, <1>10, <2>1, <2>3
  <2> QED BY <1>10, <2>3, <2>5, <2>6, <2>7, <2>8 DEF Places
<1> QED BY <1>7, <1>15, <1>16

\* After the last row, what was known grew row by row.
LEMMA SheetProgress ==
  ASSUME NEW f, IsSheet(f)
  PROVE  Progress(f, Len(f.rows), ReadSheet(f))
<1> DEFINE N == Len(f.rows)
<1>1. N \in Nat
  BY DEF IsSheet
<1>2. PICK g : ReadsOn(g, f)
  BY <1>1, ReadSheetUnfold
<1> DEFINE G == {m \in 0 .. N : Progress(f, m, g[m])}
<1>3. \A m \in 0 .. N : m \in G
  <2>1. Progress(f, 0, g[0])
    BY <1>2, NothingRead DEF ReadsOn
  <2>2. ASSUME NEW m \in 1 .. N, Progress(f, m - 1, g[m - 1])
        PROVE  Progress(f, m, g[m])
    <3>1. g[m] = ReadRow(g[m - 1], f.rows[m])
      BY <1>2 DEF ReadsOn
    <3> QED BY <2>2, <3>1, HeaderRow, BlankRow, DataRow
  <2>3. 0 \in G /\ \A m \in 1 .. N : m - 1 \in G => m \in G
    BY <2>1, <2>2
  <2> HIDE DEF G
  <2> QED BY <1>1, <2>3, Stepwise
<1>4. Progress(f, N, g[N])
  BY <1>1, <1>3
<1> QED BY <1>2, <1>4 DEF ReadsOn
-----------------------------------------------------------------------------
(* Tables.                                                                 *)

\* A row of a file that has as many columns as may be, makes a header of them.
LEMMA NarrowHeader ==
  ASSUME NEW f, IsSheet(f),
         \A i \in DOMAIN f.rows : DOMAIN Kept(f.rows[i].cells) \subseteq 1 .. MaxColumns
  PROVE  /\ ReadSheet(f) \in SheetStates
         /\ Len(ReadSheet(f).header) <= MaxColumns
<1> DEFINE N == Len(f.rows)
           Good(s) == s \in SheetStates /\ Len(s.header) <= MaxColumns
<1>1. N \in Nat /\ DOMAIN f.rows = 1 .. N
  BY DEF IsSheet
<1>2. PICK g : ReadsOn(g, f)
  BY <1>1, ReadSheetUnfold
<1> DEFINE G == {m \in 0 .. N : Good(g[m])}
<1>3. Good(g[0])
  <2>1. g[0] = Unread /\ Unread.header = << >>
    BY <1>2 DEF ReadsOn, Unread
  <2>2. Unread \in SheetStates
    BY NothingRead DEF Progress
  <2> QED BY <2>1, <2>2, LimitsAreNatural
<1>4. ASSUME NEW m \in 1 .. N, Good(g[m - 1]) PROVE Good(g[m])
  <2> DEFINE s == g[m - 1]
             row == f.rows[m]
             cells == Kept(row.cells)
             new == ReadRow(s, row)
  <2>1. g[m] = new
    BY <1>2, <1>4 DEF ReadsOn
  <2>2. IsSheetRow(row) /\ DOMAIN cells \subseteq 1 .. MaxColumns
    BY <1>1, <1>4 DEF IsSheet
  <2>3. s \in SheetStates /\ Len(s.header) \in Nat /\ Len(s.header) <= MaxColumns
    BY <1>4 DEF SheetStates
  <2>4. cells # << >> => SetMax(DOMAIN cells) <= MaxColumns
    <3>1. SUFFICES ASSUME cells # << >> PROVE SetMax(DOMAIN cells) <= MaxColumns
      OBVIOUS
    <3>2. DOMAIN cells # {}
      BY <2>2, <3>1, KeptCells
    <3> DEFINE D == DOMAIN cells
    <3>3. D \in SUBSET Nat /\ IsFiniteSet(D) /\ D # {} /\ D \subseteq 1 .. MaxColumns
      BY <2>2, <3>2, FiniteUpTo, LimitsAreNatural
    <3> HIDE DEF D
    <3>4. SetMax(D) \in D
      BY <3>3, Largest
    <3> QED BY <3>3, <3>4, LimitsAreNatural DEF D
  <2>5. new \in SheetStates
    BY <2>2, <2>3, RowRead
  <2>6. new.header = s.header \/ (cells # << >> /\ Len(new.header) = SetMax(DOMAIN cells))
    BY <2>2, <2>3, RowRead
  <2> HIDE DEF new, cells, s
  <2>7. Good(new)
    BY <2>3, <2>4, <2>5, <2>6
  <2> QED BY <2>1, <2>7
<1> HIDE DEF Good
<1>5. 0 \in G /\ \A m \in 1 .. N : m - 1 \in G => m \in G
  BY <1>1, <1>3, <1>4
<1>6. \A m \in 0 .. N : m \in G
  <2> HIDE DEF G
  <2> QED BY <1>1, <1>5, Stepwise
<1> QED BY <1>1, <1>2, <1>6 DEF ReadsOn, Good

\* A table of rows as wide as its columns, whose keys are all different.
IsTable(t) ==
    /\ Len(t.columns) \in Nat \ {0} /\ DOMAIN t.columns = Cols(t)
    /\ \A c, d \in Cols(t) : t.columns[c].key = t.columns[d].key => c = d
    /\ Len(t.rows) \in Nat /\ DOMAIN t.rows = RowIds(t)
    /\ \A i \in RowIds(t) : t.rows[i] \in [Cols(t) -> CellValues]
    /\ t.unnamed \subseteq Cols(t)
    /\ t.ragged \subseteq RowIds(t)

\* A header makes as many columns as it has names, each with its own key.
LEMMA HeaderColumns ==
  ASSUME NEW header, Len(header) \in 1 .. MaxColumns,
         \A c \in 1 .. Len(header) : Columns(header)[c].name \in DOMAIN ReadName
  PROVE  LET columns == Columns(header)
         IN /\ Len(columns) = Len(header) /\ DOMAIN columns = 1 .. Len(header)
            /\ \A c, d \in 1 .. Len(header) : columns[c].key = columns[d].key => c = d
<1> DEFINE N == Len(header)
           names == [c \in 1 .. N |-> DisplayName(header, c)]
           keys == InternalKeys(names)
<1>1. N \in 0 .. MaxColumns /\ N \in Nat
  BY LimitsAreNatural
<1>2. Columns(header) = [c \in 1 .. N |-> [name |-> names[c], key |-> keys[c]]]
  BY DEF Columns
<1> HIDE DEF N
<1>3. Len(names) = N /\ \A n \in 1 .. N : names[n] = Columns(header)[n].name
  BY <1>1, <1>2
<1>4. \A n \in 1 .. N : DistinctKeys(ReadName[names[n]].keys)
  <2>1. \A n \in 1 .. N : names[n] \in DOMAIN ReadName
    BY <1>3 DEF N
  <2> HIDE DEF names
  <2> QED BY <2>1, KeysAreDistinct DEF DistinctKeys
<1> HIDE DEF names
<1>5. \A c, d \in 1 .. N : InternalKeys(names)[c] = InternalKeys(names)[d] => c = d
  BY <1>1, <1>3, <1>4, InternalKeysDistinct
<1> HIDE DEF keys
<1>6. Len(Columns(header)) = N
  BY <1>1, <1>2
<1> QED BY <1>2, <1>5, <1>6 DEF N, keys

Texts == DOMAIN Read \cup {""}
IsCsv(f) == f.rows \in Seq(Seq(Texts))

\* A readable text file makes a table.
LEMMA CsvTable ==
  ASSUME NEW f, IsCsv(f),
         CsvIsReadable(f),
         \A c \in DOMAIN ParseCsv(f).columns :
             ParseCsv(f).columns[c].name \in DOMAIN ReadName
  PROVE  IsTable(ParseCsv(f))
<1> DEFINE t == ParseCsv(f)
           width == Len(f.header)
<1>1. width \in 1 .. MaxColumns
  BY DEF CsvIsReadable
<1>2. t.columns = Columns(f.header) /\ t.unnamed = Unnamed(f.header)
  BY DEF ParseCsv
<1>3. /\ t.rows = [i \in 1 .. Len(f.rows) |-> FitRow(f.rows[i], width)]
      /\ t.ragged = {i \in 1 .. Len(f.rows) : Len(f.rows[i]) # width}
  BY DEF ParseCsv
<1> HIDE DEF t
<1>4. DOMAIN Columns(f.header) = 1 .. width
  BY DEF Columns
<1>5. /\ Len(t.columns) = width /\ DOMAIN t.columns = 1 .. width
      /\ \A c, d \in 1 .. width : t.columns[c].key = t.columns[d].key => c = d
  BY <1>1, <1>2, <1>4, HeaderColumns DEF t
<1> DEFINE rows == f.rows
<1>6. /\ Len(rows) \in Nat /\ DOMAIN rows = 1 .. Len(rows)
      /\ \A i \in 1 .. Len(rows) : rows[i] \in Seq(Texts)
  <2>1. rows \in Seq(Seq(Texts))
    BY DEF IsCsv
  <2> HIDE DEF rows
  <2> QED BY <2>1
<1>7. ASSUME NEW i \in 1 .. Len(rows)
      PROVE  FitRow(rows[i], width) \in [1 .. width -> CellValues]
  <2>1. rows[i] \in Seq(Texts)
    BY <1>6
  <2> DEFINE row == rows[i]
  <2> HIDE DEF rows, row
  <2>2. \A c \in 1 .. width : c <= Len(row) => row[c] \in Texts
    BY <2>1 DEF row
  <2>3. Texts \subseteq CellValues /\ None \in CellValues
    BY DEF CellValues, Texts
  <2>4. FitRow(row, width) = [c \in 1 .. width |-> IF c <= Len(row) THEN row[c] ELSE None]
    BY DEF FitRow
  <2> QED BY <2>2, <2>3, <2>4 DEF row
<1> HIDE DEF rows
<1>8. t.unnamed \subseteq 1 .. width
  BY <1>2 DEF Unnamed
<1>9. /\ Len(t.rows) = Len(rows) /\ DOMAIN t.rows = 1 .. Len(rows)
      /\ \A i \in 1 .. Len(rows) : t.rows[i] = FitRow(rows[i], width)
  BY <1>3, <1>6 DEF rows
<1>10. t.ragged \subseteq 1 .. Len(rows)
  BY <1>3 DEF rows
<1> HIDE DEF width
<1>11. width \in Nat \ {0}
  BY <1>1, LimitsAreNatural
<1> QED BY <1>5, <1>6, <1>7, <1>8, <1>9, <1>10, <1>11 DEF IsTable, Cols, RowIds, t

\* A readable worksheet makes a table.
LEMMA XlsxTable ==
  ASSUME NEW f, IsSheet(f), XlsxIsReadable(f),
         \A c \in DOMAIN ParseXlsx(f).columns :
             ParseXlsx(f).columns[c].name \in DOMAIN ReadName
  PROVE  IsTable(ParseXlsx(f))
<1> DEFINE t == ParseXlsx(f)
           sheet == ReadSheet(f)
           width == Len(sheet.header)
<1>1. t.columns = Columns(sheet.header) /\ t.unnamed = Unnamed(sheet.header)
      /\ t.rows = sheet.rows /\ t.ragged = sheet.ragged
  BY DEF ParseXlsx
<1>2. sheet.ordered /\ sheet.header # << >>
  BY DEF XlsxIsReadable
<1>3. sheet \in SheetStates /\ Len(sheet.header) <= MaxColumns
  BY NarrowHeader DEF XlsxIsReadable
<1>4. Shape(f, Len(f.rows), sheet)
  BY <1>2, SheetProgress DEF Progress
<1> HIDE DEF t, sheet
<1>5. /\ width \in Nat \ {0} /\ width \in 1 .. MaxColumns
      /\ sheet.rows \in Seq(Seq(CellValues))
  BY <1>2, <1>3, LimitsAreNatural DEF SheetStates
<1>6. DOMAIN Columns(sheet.header) = 1 .. width
  BY DEF Columns
<1>7. /\ Len(t.columns) = width /\ DOMAIN t.columns = 1 .. width
      /\ \A c, d \in 1 .. width : t.columns[c].key = t.columns[d].key => c = d
  BY <1>1, <1>5, <1>6, HeaderColumns DEF t
<1>8. ASSUME NEW i \in 1 .. Len(t.rows) PROVE t.rows[i] \in [1 .. width -> CellValues]
  <2>1. t.rows[i] \in Seq(CellValues) /\ Len(t.rows[i]) = width
    BY <1>1, <1>4, <1>5 DEF Shape
  <2> QED BY <2>1
<1>9. t.unnamed \subseteq 1 .. width
  BY <1>1 DEF Unnamed
<1>10. Len(t.rows) \in Nat /\ DOMAIN t.rows = 1 .. Len(t.rows)
       /\ t.ragged \subseteq 1 .. Len(t.rows)
  BY <1>1, <1>4, <1>5 DEF Shape
<1> HIDE DEF width
<1> QED BY <1>5, <1>7, <1>8, <1>9, <1>10 DEF IsTable, Cols, RowIds, t

\* So what a run parses is a table, of named columns.
LEMMA ParsedIsTable ==
  ASSUME NEW f \in Files, IsReadable(f)
  PROVE  /\ IsTable(Parsed(f))
         /\ \A c \in Cols(Parsed(f)) : Parsed(f).columns[c].name \in DOMAIN ReadName
<1>1. \A c \in DOMAIN Parsed(f).columns : Parsed(f).columns[c].name \in DOMAIN ReadName
  BY NamesAreRead
<1>2. CASE f.format = "csv"
  <2>1. IsCsv(f)
    BY <1>2, FilesAreFiles DEF IsCsv, Texts
  <2>2. CsvIsReadable(f) /\ Parsed(f) = ParseCsv(f)
    BY <1>2 DEF IsReadable, Parsed
  <2>3. IsTable(ParseCsv(f))
    BY <1>1, <2>1, <2>2, CsvTable
  <2> QED BY <1>1, <2>2, <2>3 DEF IsTable
<1>3. CASE f.format # "csv"
  <2>1. IsSheet(f)
    BY <1>3, FilesAreFiles DEF IsSheet, IsSheetRow
  <2>2. XlsxIsReadable(f) /\ Parsed(f) = ParseXlsx(f)
    BY <1>3 DEF IsReadable, Parsed
  <2>3. IsTable(ParseXlsx(f))
    BY <1>1, <2>1, <2>2, XlsxTable
  <2> QED BY <1>1, <2>2, <2>3 DEF IsTable
<1> QED BY <1>2, <1>3

\* Of a readable worksheet, every row is where the user sees it.
LEMMA SheetInPlace ==
  ASSUME NEW f \in Files, f.format = "xlsx", IsReadable(f)
  PROVE  InPlace(f)
<1> DEFINE N == Len(f.rows)
           filled == {i \in DOMAIN f.rows : Kept(f.rows[i].cells) # << >>}
           made == ParseXlsx(f)
           sheet == ReadSheet(f)
           Index(i) == f.rows[i].index
<1>1. IsSheet(f) /\ XlsxIsReadable(f)
  BY FilesAreFiles DEF IsSheet, IsSheetRow, IsReadable
<1>2. N \in Nat /\ DOMAIN f.rows = 1 .. N /\ \A i \in 1 .. N : Index(i) \in Nat
  <2>1. N \in Nat /\ DOMAIN f.rows = 1 .. N
    BY <1>1 DEF IsSheet
  <2> HIDE DEF N
  <2> QED BY <1>1, <2>1 DEF IsSheet, IsSheetRow
<1>3. filled = FilledUpTo(f, N)
  BY <1>2 DEF FilledUpTo
<1>4. sheet.ordered /\ sheet.header # << >>
  BY <1>1 DEF XlsxIsReadable
<1>5. /\ Ascending(f, N, sheet) /\ \E top : Places(f, N, sheet, top)
      /\ Shape(f, N, sheet) /\ sheet \in SheetStates
  BY <1>1, <1>4, SheetProgress DEF Progress
<1>6. PICK top : Places(f, N, sheet, top)
  BY <1>5
<1>7. made.rows = sheet.rows /\ made.columns = Columns(sheet.header)
  BY DEF ParseXlsx
<1>8. Len(made.columns) = Len(sheet.header) /\ DOMAIN made.columns = 1 .. Len(sheet.header)
  <2>1. Parsed(f) = made
    BY DEF Parsed
  <2>2. DOMAIN made.columns = 1 .. Len(sheet.header)
    BY <1>7 DEF Columns
  <2>3. Len(made.columns) \in Nat /\ DOMAIN made.columns = 1 .. Len(made.columns)
    BY <2>1, ParsedIsTable DEF IsTable, Cols
  <2>4. Len(sheet.header) \in Nat
    BY <1>5 DEF SheetStates
  <2> HIDE DEF made, sheet
  <2> QED BY <2>2, <2>3, <2>4
<1> HIDE DEF made, sheet, filled
<1>9. top = CHOOSE i \in filled : \A j \in filled : i <= j
  <2>1. top \in filled /\ \A j \in filled : top <= j
    BY <1>3, <1>6 DEF Places
  <2>2. \A i \in filled : i \in Nat
    BY <1>2, <1>3 DEF FilledUpTo
  <2> QED BY <2>1, <2>2
<1>10. PICK end \in filled : /\ \A i \in filled : i <= end
                             /\ Len(sheet.rows) = Index(end) - Index(top)
  BY <1>3, <1>6 DEF Places
<1>11. SetMax({Index(i) : i \in filled}) = Index(end)
  <2>1. \A i \in filled : Index(i) \in Nat /\ i \in 1 .. N
    BY <1>2, <1>3 DEF FilledUpTo
  <2>2. \A i \in filled : Index(i) <= Index(end)
    <3>1. \A i, j \in 1 .. N : i < j => Index(i) < Index(j)
      BY <1>5 DEF Ascending
    <3> HIDE DEF Index
    <3> QED BY <1>2, <1>10, <2>1, <3>1
  <2> DEFINE S == {Index(i) : i \in filled}
  <2>3. Index(end) \in S /\ (\A x \in S : x <= Index(end)) /\ S \subseteq Nat
    BY <2>1, <2>2
  <2> HIDE DEF S, Index
  <2>4. ASSUME NEW m \in S, \A x \in S : x <= m PROVE m = Index(end)
    <3>1. m <= Index(end) /\ Index(end) <= m /\ m \in Nat /\ Index(end) \in Nat
      BY <2>3, <2>4
    <3> QED BY <3>1
  <2> QED BY <2>3, <2>4 DEF SetMax, S
<1>12. \A i \in filled \ {top} :
           sheet.rows[Index(i) - Index(top)] =
               Filled(Kept(f.rows[i].cells), Len(sheet.header))
  BY <1>3, <1>6 DEF Places
<1>13. Len(made.rows) = SetMax({Index(i) : i \in filled}) - Index(top)
  BY <1>7, <1>10, <1>11
<1>14. \A i \in filled \ {top} : \A c \in DOMAIN made.columns :
           made.rows[Index(i) - Index(top)][c] =
               Filled(Kept(f.rows[i].cells), Len(made.columns))[c]
  BY <1>7, <1>8, <1>12
<1> QED BY <1>9, <1>13, <1>14 DEF InPlace, made, filled
-----------------------------------------------------------------------------
(* Cells and the types of columns.                                         *)

\* What is there in a cell can be read.
LEMMA CellsAreRead ==
  ASSUME NEW t, IsTable(t), NEW c \in Cols(t)
  PROVE  /\ \A i \in RowIds(t) : At(t, i, c) \in CellValues
         /\ \A i \in RowIds(t) : ~ IsMissing(At(t, i, c)) =>
                /\ At(t, i, c) \in DOMAIN Read
                /\ Read[At(t, i, c)].shape \in Range(Shapes)
                /\ Read[At(t, i, c)].number \in Int
         /\ Present(t, c) \subseteq RowIds(t)
         /\ IsFiniteSet(Present(t, c)) /\ Cardinality(Present(t, c)) \in 0 .. Len(t.rows)
<1>1. \A i \in RowIds(t) : At(t, i, c) \in CellValues
  BY DEF IsTable, At
<1>2. \A i \in RowIds(t) : ~ IsMissing(At(t, i, c)) => At(t, i, c) \in DOMAIN Read
  BY <1>1 DEF CellValues, IsMissing
<1>3. \A i \in RowIds(t) : ~ IsMissing(At(t, i, c)) =>
          /\ Read[At(t, i, c)].shape \in Range(Shapes)
          /\ Read[At(t, i, c)].number \in Int
  BY <1>2, ReadingAssumption
<1>4. Present(t, c) \subseteq RowIds(t)
  BY DEF Present
<1>5. Len(t.rows) \in Nat /\ Present(t, c) \in SUBSET (1 .. Len(t.rows))
  BY <1>4 DEF IsTable, RowIds
<1>6. IsFiniteSet(Present(t, c)) /\ Cardinality(Present(t, c)) \in 0 .. Len(t.rows)
  BY <1>5, FiniteUpTo
<1> QED BY <1>1, <1>2, <1>3, <1>4, <1>6

\* Since no two columns have one key, a detector reads the cells that profiling
\* and rules read.
LEMMA LookUpIsAt ==
  ASSUME NEW t, IsTable(t), NEW c \in Cols(t), NEW i
  PROVE  LookUp(t, i, c) = At(t, i, c)
<1> DEFINE S == {d \in Cols(t) : t.columns[d].key = t.columns[c].key}
<1>1. S = {c} /\ c \in Nat
  BY DEF IsTable, Cols
<1> HIDE DEF S
<1>2. SetMax(S) = c
  BY <1>1 DEF SetMax
<1> QED BY <1>2 DEF LookUp, S

ShapesAre == {"boolean", "date", "numeric", "text"}

\* The shapes a cell may have, as a set.
LEMMA ShapeNames == Range(Shapes) = ShapesAre
<1>1. DOMAIN Shapes = 1 .. 4
  BY DEF Shapes
<1>2. Shapes[1] = "boolean" /\ Shapes[2] = "date" /\ Shapes[3] = "numeric"
      /\ Shapes[4] = "text"
  BY DEF Shapes
<1>3. \A k \in 1 .. 4 : k \in {1, 2, 3, 4}
  OBVIOUS
<1>4. Range(Shapes) = {Shapes[k] : k \in 1 .. 4}
  BY <1>1 DEF Range
<1> HIDE DEF Shapes
<1>5. 1 \in 1 .. 4 /\ 2 \in 1 .. 4 /\ 3 \in 1 .. 4 /\ 4 \in 1 .. 4
  OBVIOUS
<1> QED BY <1>2, <1>3, <1>4, <1>5 DEF ShapesAre

\* The type of a column and the shapes of what is in it.
LEMMA TypeOfColumn ==
  ASSUME NEW t, IsTable(t), NEW c \in Cols(t)
  PROVE  LET type == ColumnType(t, c)
         IN /\ type \in Types
            /\ type = "unknown" <=> Present(t, c) = {}
            /\ type \in {"boolean", "date", "numeric"} =>
                   OfShape(t, c, type) = Present(t, c)
            /\ type \in TextFamily => OfShape(t, c, "text") = Present(t, c)
            /\ type = "mixed" =>
                   \E s \in {"boolean", "date", "numeric"} :
                       OfShape(t, c, s) # {} /\ OfShape(t, c, s) # Present(t, c)
<1> DEFINE type == ColumnType(t, c)
           present == Present(t, c)
           total == Cardinality(present)
           distinct == Cardinality(Distinct(t, c))
           Of(s) == OfShape(t, c, s)
           All(s) == Cardinality(Of(s)) = total
           typed == {s \in {"boolean", "date", "numeric"} : Of(s) # {}}
<1>1. IsFiniteSet(present) /\ total \in Nat /\ (total = 0 <=> present = {})
  BY CellsAreRead, FS_EmptySet
<1>2. \A s : Of(s) \subseteq present
  BY DEF OfShape
<1>3. \A s : All(s) <=> Of(s) = present
  <2>1. ASSUME NEW s, All(s) PROVE Of(s) = present
    <3>1. Of(s) \in SUBSET present
      BY <1>2
    <3> HIDE DEF present, Of
    <3> QED BY <1>1, <2>1, <3>1, AsManyIsAll
  <2> QED BY <2>1
<1>4. type = CASE total = 0 -> "unknown"
               [] total > 0 /\ \E s \in typed : All(s) -> CHOOSE s \in typed : All(s)
               [] total > 0 /\ typed # {} /\ \A s \in typed : ~ All(s) -> "mixed"
               [] total >= 2 /\ typed = {} /\ distinct = total -> "identifier"
               [] OTHER -> IF 2 * distinct <= total THEN "categorical" ELSE "text"
  BY DEF ColumnType
<1>5. \A i \in present : Read[At(t, i, c)].shape \in ShapesAre
  BY CellsAreRead, ShapeNames DEF Present
<1>6. typed = {} => Of("text") = present
  BY <1>5 DEF OfShape, ShapesAre
<1> HIDE DEF type, total, distinct, Of, All, typed, present
<1>7. CASE total = 0
  <2>1. type = "unknown" /\ present = {}
    BY <1>1, <1>4, <1>7
  <2> QED BY <2>1 DEF type, Types, TextFamily, present
<1>8. CASE total > 0 /\ \E s \in typed : All(s)
  <2>1. type = CHOOSE s \in typed : All(s)
    BY <1>1, <1>4, <1>8
  <2>2. type \in typed /\ All(type)
    BY <1>8, <2>1
  <2>3. type \in {"boolean", "date", "numeric"} /\ Of(type) = present /\ present # {}
    BY <1>1, <1>3, <1>8, <2>2 DEF typed
  <2> QED BY <2>3 DEF type, Types, TextFamily, present, Of
<1>9. CASE total > 0 /\ typed # {} /\ \A s \in typed : ~ All(s)
  <2>1. type = "mixed" /\ present # {}
    BY <1>1, <1>4, <1>9
  <2>2. PICK s \in typed : ~ All(s)
    BY <1>9
  <2>3. Of(s) # {} /\ Of(s) # present /\ s \in {"boolean", "date", "numeric"}
    BY <1>3, <2>2 DEF typed
  <2> QED BY <2>1, <2>3 DEF type, Types, TextFamily, present, Of
<1>10. CASE total > 0 /\ typed = {}
  <2>1. type \in {"identifier", "categorical", "text"}
    BY <1>1, <1>4, <1>10
  <2>2. present # {} /\ Of("text") = present
    BY <1>1, <1>6, <1>10
  <2> QED BY <2>1, <2>2 DEF type, Types, TextFamily, present, Of
<1> QED BY <1>1, <1>7, <1>8, <1>9, <1>10
-----------------------------------------------------------------------------
(* Findings.                                                               *)

FindingsOf(d, t) ==
    [detector : {d}, severity : DOMAIN Weight, confidence : 0 .. 100,
     columns : SUBSET Cols(t), rows : SUBSET RowIds(t)]

\* The severities that have a weight.
LEMMA Severities ==
    DOMAIN Weight = {"critical", "high", "medium", "low", "informational"}
BY DEF Weight

\* What a detector makes is a finding of its own.
LEMMA NewFinding ==
  ASSUME NEW t, NEW detector, NEW severity \in {"high", "medium", "low"},
         NEW confidence \in 0 .. 100, NEW columns \in SUBSET Cols(t),
         NEW rows \in SUBSET RowIds(t)
  PROVE  Finding(detector, severity, confidence, columns, rows) \in FindingsOf(detector, t)
BY Severities DEF FindingsOf, Finding

\* The rows a detector collects are rows of the table.
LEMMA CollectedRows ==
  ASSUME NEW t, NEW c
  PROVE  Lacking(t, c) \subseteq RowIds(t)
BY DEF Lacking

\* A profile has a column for each of the table's.
LEMMA ProfiledColumns ==
  ASSUME NEW t, IsTable(t)
  PROVE  /\ DOMAIN Profile(t).columns = Cols(t)
         /\ Profile(t).rows = Len(t.rows)
         /\ \A c \in Cols(t) : Profile(t).columns[c] = ColumnProfile(t, c)
         /\ \A types : OfType(Profile(t), types) \subseteq Cols(t)
BY DEF Profile, OfType

\* The structural detectors find rows and columns that are there.
LEMMA StructuralFindings ==
  ASSUME NEW t, IsTable(t), NEW p, p = Profile(t)
  PROVE  /\ DuplicateNames(t) \subseteq FindingsOf("duplicate_normalized_column_name", t)
         /\ DuplicateRows(t) \subseteq FindingsOf("exact_duplicate_rows", t)
         /\ EmptyColumn(p) \subseteq FindingsOf("empty_column", t)
         /\ EmptyDataset(p) \subseteq FindingsOf("empty_dataset", t)
         /\ UnnamedColumn(t) \subseteq FindingsOf("unnamed_column", t)
         /\ ParseFailures(t) \subseteq FindingsOf("excessive_parse_failures", t)
<1>1. DuplicateNames(t) \subseteq FindingsOf("duplicate_normalized_column_name", t)
  <2> DEFINE d == "duplicate_normalized_column_name"
  <2>1. SUFFICES ASSUME NEW f \in DuplicateNames(t) PROVE f \in FindingsOf(d, t)
    OBVIOUS
  <2>2. PICK columns \in SUBSET Cols(t), confidence \in {100, 90} :
            f = Finding(d, "medium", confidence, columns, {})
    BY DEF DuplicateNames
  <2> QED BY <2>2, NewFinding
<1>2. DuplicateRows(t) \subseteq FindingsOf("exact_duplicate_rows", t)
  <2>1. SUFFICES ASSUME NEW f \in DuplicateRows(t)
                 PROVE  f \in FindingsOf("exact_duplicate_rows", t)
    OBVIOUS
  <2>2. PICK rows \in SUBSET RowIds(t) :
            f = Finding("exact_duplicate_rows", "medium", 100, {}, rows)
    BY DEF DuplicateRows
  <2> QED BY <2>2, NewFinding
<1>3. EmptyColumn(p) \subseteq FindingsOf("empty_column", t)
  <2>1. SUFFICES ASSUME NEW f \in EmptyColumn(p)
                 PROVE  f \in FindingsOf("empty_column", t)
    OBVIOUS
  <2>2. PICK c \in Cols(t), rows \in SUBSET RowIds(t) :
            f = Finding("empty_column", "medium", 100, {c}, rows)
    BY ProfiledColumns DEF EmptyColumn, InEach
  <2> QED BY <2>2, NewFinding
<1>4. EmptyDataset(p) \subseteq FindingsOf("empty_dataset", t)
  <2>1. Finding("empty_dataset", "high", 100, {}, {}) \in FindingsOf("empty_dataset", t)
    BY NewFinding
  <2> QED BY <2>1 DEF EmptyDataset
<1>5. UnnamedColumn(t) \subseteq FindingsOf("unnamed_column", t)
  <2>1. Finding("unnamed_column", "medium", 100, t.unnamed, {})
            \in FindingsOf("unnamed_column", t)
    BY NewFinding DEF IsTable
  <2> QED BY <2>1 DEF UnnamedColumn
<1>6. ParseFailures(t) \subseteq FindingsOf("excessive_parse_failures", t)
  <2> DEFINE d == "excessive_parse_failures"
  <2>1. SUFFICES ASSUME NEW f \in ParseFailures(t) PROVE f \in FindingsOf(d, t)
    OBVIOUS
  <2>2. PICK rows \in SUBSET RowIds(t), severity \in {"high", "medium"} :
            f = Finding(d, severity, 100, {}, rows)
    BY DEF ParseFailures, IsTable
  <2> QED BY <2>2, NewFinding
<1> QED BY <1>1, <1>2, <1>3, <1>4, <1>5, <1>6

\* So do those of completeness.
LEMMA CompletenessFindings ==
  ASSUME NEW t, IsTable(t), NEW p, p = Profile(t)
  PROVE  /\ EmptyRows(t) \subseteq FindingsOf("fully_empty_rows", t)
         /\ ExcessiveMissing(t, p) \subseteq FindingsOf("excessive_missing_values", t)
         /\ MissingIdentifier(t, p) \subseteq FindingsOf("missing_likely_identifier", t)
<1>1. EmptyRows(t) \subseteq FindingsOf("fully_empty_rows", t)
  <2>1. SUFFICES ASSUME NEW f \in EmptyRows(t)
                 PROVE  f \in FindingsOf("fully_empty_rows", t)
    OBVIOUS
  <2>2. PICK rows \in SUBSET RowIds(t) :
            f = Finding("fully_empty_rows", "low", 100, {}, rows)
    BY DEF EmptyRows
  <2> QED BY <2>2, NewFinding
<1>2. ExcessiveMissing(t, p) \subseteq FindingsOf("excessive_missing_values", t)
  <2>1. SUFFICES ASSUME NEW f \in ExcessiveMissing(t, p)
                 PROVE  f \in FindingsOf("excessive_missing_values", t)
    OBVIOUS
  <2>2. PICK c \in Cols(t), rows \in SUBSET RowIds(t) :
            f = Finding("excessive_missing_values", "medium", 100, {c}, rows)
    BY ProfiledColumns, CollectedRows DEF ExcessiveMissing, InEach
  <2> QED BY <2>2, NewFinding
<1>3. MissingIdentifier(t, p) \subseteq FindingsOf("missing_likely_identifier", t)
  <2>1. SUFFICES ASSUME NEW f \in MissingIdentifier(t, p)
                 PROVE  f \in FindingsOf("missing_likely_identifier", t)
    OBVIOUS
  <2>2. PICK c \in Cols(t), rows \in SUBSET RowIds(t) :
            f = Finding("missing_likely_identifier", "high", 100, {c}, rows)
    BY ProfiledColumns, CollectedRows DEF MissingIdentifier, InEach
  <2> QED BY <2>2, NewFinding
<1> QED BY <1>1, <1>2, <1>3

\* So do those of consistency.
LEMMA ConsistencyFindings ==
  ASSUME NEW t, IsTable(t), NEW p, p = Profile(t)
  PROVE  /\ Capitalization(t, p) \subseteq FindingsOf("inconsistent_capitalization", t)
         /\ NearDuplicates(t, p) \subseteq FindingsOf("near_duplicate_categories", t)
         /\ Booleans(t, p) \subseteq FindingsOf("inconsistent_booleans", t)
         /\ NumbersAsText(t, p) \subseteq FindingsOf("numeric_values_stored_as_text", t)
         /\ Whitespace(t, p) \subseteq FindingsOf("leading_trailing_whitespace", t)
<1>1. Capitalization(t, p) \subseteq FindingsOf("inconsistent_capitalization", t)
  <2>1. SUFFICES ASSUME NEW f \in Capitalization(t, p)
                 PROVE  f \in FindingsOf("inconsistent_capitalization", t)
    OBVIOUS
  <2>2. PICK c \in Cols(t), rows \in SUBSET RowIds(t) :
            f = Finding("inconsistent_capitalization", "low", 100, {c}, rows)
    <3>1. PICK c \in OfType(p, TextFamily) :
              f \in Variants(t, c, "inconsistent_capitalization", 100, LAMBDA r : TRUE,
                             LAMBDA r : r.lower, LAMBDA r : r.strip)
      BY DEF Capitalization
    <3>2. c \in Cols(t)
      BY ProfiledColumns
    <3>3. \E rows \in SUBSET RowIds(t) :
              f = Finding("inconsistent_capitalization", "low", 100, {c}, rows)
      BY <3>1 DEF Variants, NotBlank, There
    <3> QED BY <3>2, <3>3
  <2> QED BY <2>2, NewFinding
<1>2. NearDuplicates(t, p) \subseteq FindingsOf("near_duplicate_categories", t)
  <2>1. SUFFICES ASSUME NEW f \in NearDuplicates(t, p)
                 PROVE  f \in FindingsOf("near_duplicate_categories", t)
    OBVIOUS
  <2>2. PICK c \in Cols(t), rows \in SUBSET RowIds(t) :
            f = Finding("near_duplicate_categories", "low", 80, {c}, rows)
    <3>1. PICK c \in OfType(p, {"categorical"}) :
              f \in Variants(t, c, "near_duplicate_categories", 80, LAMBDA r : r.key # "",
                             LAMBDA r : r.key, LAMBDA r : r.lower)
      BY DEF NearDuplicates
    <3>2. c \in Cols(t)
      BY ProfiledColumns
    <3>3. \E rows \in SUBSET RowIds(t) :
              f = Finding("near_duplicate_categories", "low", 80, {c}, rows)
      BY <3>1 DEF Variants, NotBlank, There
    <3> QED BY <3>2, <3>3
  <2> QED BY <2>2, NewFinding
<1>3. Booleans(t, p) \subseteq FindingsOf("inconsistent_booleans", t)
  <2>1. SUFFICES ASSUME NEW f \in Booleans(t, p)
                 PROVE  f \in FindingsOf("inconsistent_booleans", t)
    OBVIOUS
  <2>2. PICK c \in Cols(t), rows \in SUBSET RowIds(t) :
            f = Finding("inconsistent_booleans", "low", 90, {c}, rows)
    BY ProfiledColumns DEF Booleans, InEach, NotBlank, There
  <2> QED BY <2>2, NewFinding
<1>4. NumbersAsText(t, p) \subseteq FindingsOf("numeric_values_stored_as_text", t)
  <2>1. SUFFICES ASSUME NEW f \in NumbersAsText(t, p)
                 PROVE  f \in FindingsOf("numeric_values_stored_as_text", t)
    OBVIOUS
  <2>2. PICK c \in Cols(t), rows \in SUBSET RowIds(t) :
            f = Finding("numeric_values_stored_as_text", "medium", 90, {c}, rows)
    BY ProfiledColumns DEF NumbersAsText, InEach, NotBlank, There
  <2> QED BY <2>2, NewFinding
<1>5. Whitespace(t, p) \subseteq FindingsOf("leading_trailing_whitespace", t)
  <2>1. SUFFICES ASSUME NEW f \in Whitespace(t, p)
                 PROVE  f \in FindingsOf("leading_trailing_whitespace", t)
    OBVIOUS
  <2>2. PICK c \in Cols(t), rows \in SUBSET RowIds(t) :
            f = Finding("leading_trailing_whitespace", "low", 100, {c}, rows)
    BY ProfiledColumns DEF Whitespace, InEach
  <2> QED BY <2>2, NewFinding
<1> QED BY <1>1, <1>2, <1>3, <1>4, <1>5

\* So do those of validity.
LEMMA ValidityFindings ==
  ASSUME NEW t, IsTable(t), NEW p, p = Profile(t)
  PROVE  /\ FutureDates(t, p) \subseteq FindingsOf("future_dates", t)
         /\ OldDates(t, p) \subseteq FindingsOf("implausibly_old_dates", t)
         /\ EmailShape(t, p) \subseteq FindingsOf("invalid_email_shape", t)
         /\ Negatives(t, p) \subseteq FindingsOf("negative_likely_non_negative_values", t)
         /\ Percentages(t, p) \subseteq FindingsOf("invalid_percentages", t)
         /\ Constant(t, p) \subseteq FindingsOf("suspiciously_constant_column", t)
         /\ Outliers(t, p) \subseteq FindingsOf("extreme_outliers", t)
         /\ LineTotals(t, p) \subseteq FindingsOf("line_total_mismatch", t)
         /\ PromptInjection(t, p) \subseteq FindingsOf("possible_llm_prompt_injection", t)
<1>1. FutureDates(t, p) \subseteq FindingsOf("future_dates", t)
  <2>1. SUFFICES ASSUME NEW f \in FutureDates(t, p)
                 PROVE  f \in FindingsOf("future_dates", t)
    OBVIOUS
  <2>2. PICK c \in Cols(t), rows \in SUBSET RowIds(t) :
            f = Finding("future_dates", "medium", 100, {c}, rows)
    BY ProfiledColumns DEF FutureDates, InEach, There
  <2> QED BY <2>2, NewFinding
<1>2. OldDates(t, p) \subseteq FindingsOf("implausibly_old_dates", t)
  <2>1. SUFFICES ASSUME NEW f \in OldDates(t, p)
                 PROVE  f \in FindingsOf("implausibly_old_dates", t)
    OBVIOUS
  <2>2. PICK c \in Cols(t), rows \in SUBSET RowIds(t) :
            f = Finding("implausibly_old_dates", "low", 80, {c}, rows)
    BY ProfiledColumns DEF OldDates, InEach, NotBlank, There
  <2> QED BY <2>2, NewFinding
<1>3. EmailShape(t, p) \subseteq FindingsOf("invalid_email_shape", t)
  <2>1. SUFFICES ASSUME NEW f \in EmailShape(t, p)
                 PROVE  f \in FindingsOf("invalid_email_shape", t)
    OBVIOUS
  <2>2. PICK c \in Cols(t), rows \in SUBSET RowIds(t) :
            f = Finding("invalid_email_shape", "low", 80, {c}, rows)
    BY ProfiledColumns DEF EmailShape, InEach, NotBlank, There
  <2> QED BY <2>2, NewFinding
<1>4. Negatives(t, p) \subseteq FindingsOf("negative_likely_non_negative_values", t)
  <2>1. SUFFICES ASSUME NEW f \in Negatives(t, p)
                 PROVE  f \in FindingsOf("negative_likely_non_negative_values", t)
    OBVIOUS
  <2>2. PICK c \in Cols(t), rows \in SUBSET RowIds(t) :
            f = Finding("negative_likely_non_negative_values", "medium", 70, {c}, rows)
    BY ProfiledColumns DEF Negatives, InEach, There
  <2> QED BY <2>2, NewFinding
<1>5. Percentages(t, p) \subseteq FindingsOf("invalid_percentages", t)
  <2>1. SUFFICES ASSUME NEW f \in Percentages(t, p)
                 PROVE  f \in FindingsOf("invalid_percentages", t)
    OBVIOUS
  <2>2. PICK c \in Cols(t), rows \in SUBSET RowIds(t) :
            f = Finding("invalid_percentages", "medium", 100, {c}, rows)
    BY ProfiledColumns DEF Percentages, InEach, There
  <2> QED BY <2>2, NewFinding
<1>6. Constant(t, p) \subseteq FindingsOf("suspiciously_constant_column", t)
  <2>1. SUFFICES ASSUME NEW f \in Constant(t, p)
                 PROVE  f \in FindingsOf("suspiciously_constant_column", t)
    OBVIOUS
  <2>2. PICK c \in Cols(t), rows \in SUBSET RowIds(t) :
            f = Finding("suspiciously_constant_column", "medium", 100, {c}, rows)
    BY ProfiledColumns DEF Constant, InEach
  <2> QED BY <2>2, NewFinding
<1>7. Outliers(t, p) \subseteq FindingsOf("extreme_outliers", t)
  <2>1. SUFFICES ASSUME NEW f \in Outliers(t, p)
                 PROVE  f \in FindingsOf("extreme_outliers", t)
    OBVIOUS
  <2>2. PICK c \in Cols(t), rows \in SUBSET RowIds(t) :
            f = Finding("extreme_outliers", "medium", 70, {c}, rows)
    BY ProfiledColumns DEF Outliers, InEach, There
  <2> QED BY <2>2, NewFinding
<1>8. LineTotals(t, p) \subseteq FindingsOf("line_total_mismatch", t)
  <2>1. SUFFICES ASSUME NEW f \in LineTotals(t, p)
                 PROVE  f \in FindingsOf("line_total_mismatch", t)
    OBVIOUS
  <2> DEFINE roles == <<"quantity", "unit_price", "discount_pct", "tax_pct", "line_total">>
             named(k) == {c \in Cols(t) : ReadName[t.columns[c].name].plain = roles[k]}
             columns == {SetMax(named(k)) : k \in 1 .. 5}
  <2>2. /\ \A k \in 1 .. 5 : named(k) # {}
        /\ \E rows \in SUBSET RowIds(t) :
               f = Finding("line_total_mismatch", "high", 100, columns, rows)
    BY ZenonT(60) DEF LineTotals
  <2>3. ASSUME NEW k \in 1 .. 5 PROVE SetMax(named(k)) \in Cols(t)
    <3>1. named(k) \in SUBSET (1 .. Len(t.columns)) /\ Len(t.columns) \in Nat
      BY DEF IsTable, Cols
    <3>2. named(k) \in SUBSET Nat /\ IsFiniteSet(named(k)) /\ named(k) # {}
      <4>1. named(k) # {}
        BY <2>2
      <4>2. IsFiniteSet(named(k))
        <5> DEFINE S == named(k)
                   n == Len(t.columns)
        <5> HIDE DEF named
        <5>1. n \in Nat /\ S \in SUBSET (1 .. n)
          BY <3>1
        <5> HIDE DEF S, n
        <5> QED BY <5>1, FiniteUpTo DEF S
      <4> HIDE DEF named
      <4> QED BY <3>1, <4>1, <4>2
    <3> HIDE DEF named
    <3>3. SetMax(named(k)) \in named(k)
      BY <3>2, Largest
    <3> QED BY <3>1, <3>3 DEF Cols
  <2>4. columns \in SUBSET Cols(t)
    <3> HIDE DEF named
    <3> QED BY <2>3
  <2> HIDE DEF columns
  <2> QED BY <2>2, <2>4, NewFinding
<1>9. PromptInjection(t, p) \subseteq FindingsOf("possible_llm_prompt_injection", t)
  <2> DEFINE d == "possible_llm_prompt_injection"
  <2>1. SUFFICES ASSUME NEW f \in PromptInjection(t, p) PROVE f \in FindingsOf(d, t)
    OBVIOUS
  <2>2. PICK c \in Cols(t), rows \in SUBSET RowIds(t), severity \in {"high", "low"},
             confidence \in {75, 60} :
            f = Finding(d, severity, confidence, {c}, rows)
    <3> DEFINE rows(c) == There(t, c, LAMBDA r : r.families # {})
               families(c) == UNION {CellOf(t, c, i).families : i \in rows(c)}
    <3>1. PICK c \in OfType(p, TextFamily) :
              f = Finding(d, IF families(c) \cap Heightened # {} THEN "high" ELSE "low",
                          IF Cardinality(families(c)) >= 2 THEN 75 ELSE 60, {c}, rows(c))
      BY DEF PromptInjection
    <3>2. c \in Cols(t)
      BY ProfiledColumns
    <3>3. rows(c) \in SUBSET RowIds(t)
      BY DEF There
    <3> HIDE DEF rows, families, d
    <3> QED BY <3>1, <3>2, <3>3
  <2> QED BY <2>2, NewFinding
<1> QED BY <1>1, <1>2, <1>3, <1>4, <1>5, <1>6, <1>7, <1>8, <1>9

\* Five are finitely many.
LEMMA FewAreFinite ==
  ASSUME NEW a, NEW b, NEW c, NEW d, NEW e
  PROVE  IsFiniteSet({a, b, c, d, e})
<1>1. IsFiniteSet({a})
  BY FS_Singleton
<1>2. IsFiniteSet({a, b})
  <2>1. {a, b} = {a} \cup {b}
    OBVIOUS
  <2> QED BY <1>1, <2>1, FS_AddElement
<1>3. IsFiniteSet({a, b, c})
  <2>1. {a, b, c} = {a, b} \cup {c}
    OBVIOUS
  <2> QED BY <1>2, <2>1, FS_AddElement
<1>4. IsFiniteSet({a, b, c, d})
  <2>1. {a, b, c, d} = {a, b, c} \cup {d}
    OBVIOUS
  <2> QED BY <1>3, <2>1, FS_AddElement
<1>5. {a, b, c, d, e} = {a, b, c, d} \cup {e}
  OBVIOUS
<1> QED BY <1>4, <1>5, FS_AddElement

\* There are finitely many findings a detector could make.
LEMMA FiniteFindings ==
  ASSUME NEW t, IsTable(t), NEW d
  PROVE  IsFiniteSet(FindingsOf(d, t))
<1> DEFINE S == DOMAIN Weight
           C == 0 .. 100
           P == SUBSET Cols(t)
           R == SUBSET RowIds(t)
           A == (S \X C) \X (P \X R)
           f == [x \in A |-> Finding(d, x[1][1], x[1][2], x[2][1], x[2][2])]
<1>1. IsFiniteSet(S)
  <2>1. IsFiniteSet({"critical", "high", "medium", "low", "informational"})
    BY ONLY FewAreFinite
  <2> QED BY <2>1, Severities
<1>2. IsFiniteSet(C)
  <2>1. 0 \in Int /\ 100 \in Int
    OBVIOUS
  <2> QED BY ONLY <2>1, FS_Interval
<1>3. IsFiniteSet(P) /\ IsFiniteSet(R)
  <2>1. /\ Len(t.columns) \in Nat /\ Cols(t) \in SUBSET (1 .. Len(t.columns))
        /\ Len(t.rows) \in Nat /\ RowIds(t) \in SUBSET (1 .. Len(t.rows))
    BY DEF IsTable, Cols, RowIds
  <2> HIDE DEF S, C, P, R, A, f
  <2>2. IsFiniteSet(Cols(t)) /\ IsFiniteSet(RowIds(t))
    BY ONLY <2>1, FiniteUpTo
  <2> QED BY <2>2, FS_SUBSET DEF P, R
<1>4. IsFiniteSet(A)
  <2> HIDE DEF S, C, P, R
  <2>1. IsFiniteSet(S \X C) /\ IsFiniteSet(P \X R)
    BY <1>1, <1>2, <1>3, FS_Product
  <2> QED BY <2>1, FS_Product
<1>5. IsFiniteSet({f[x] : x \in DOMAIN f})
  <2>1. DOMAIN f = A /\ f = [x \in DOMAIN f |-> f[x]]
    OBVIOUS
  <2> HIDE DEF f, A
  <2> QED BY <1>4, <2>1, FiniteImage
<1>6. ASSUME NEW y \in FindingsOf(d, t) PROVE y \in {f[x] : x \in DOMAIN f}
  <2>1. /\ y.severity \in S /\ y.confidence \in C /\ y.columns \in P /\ y.rows \in R
        /\ y = Finding(d, y.severity, y.confidence, y.columns, y.rows)
    BY DEF FindingsOf, Finding
  <2> DEFINE x == << <<y.severity, y.confidence>>, <<y.columns, y.rows>> >>
  <2>2. x \in A
    <3> HIDE DEF S, C, P, R
    <3> QED BY <2>1
  <2>3. f[x] = y
    <3>1. f[x] = Finding(d, x[1][1], x[1][2], x[2][1], x[2][2])
      <4> HIDE DEF A, x
      <4> QED BY <2>2
    <3>2. x[1][1] = y.severity /\ x[1][2] = y.confidence /\ x[2][1] = y.columns
          /\ x[2][2] = y.rows
      OBVIOUS
    <3> HIDE DEF x, f
    <3> QED BY <2>1, <3>1, <3>2
  <2> HIDE DEF x, f
  <2>4. DOMAIN f = A
    BY DEF f
  <2> QED BY <2>2, <2>3, <2>4
<1>7. FindingsOf(d, t) \in SUBSET {f[x] : x \in DOMAIN f}
  BY <1>6
<1> HIDE DEF f
<1> QED BY <1>5, <1>7, FS_Subset

DetectorIds ==
    {"exact_duplicate_rows", "empty_column", "excessive_missing_values",
     "missing_likely_identifier", "inconsistent_capitalization"}
    \cup {"leading_trailing_whitespace", "future_dates",
          "negative_likely_non_negative_values", "invalid_percentages",
          "line_total_mismatch"}
    \cup {"suspiciously_constant_column", "extreme_outliers",
          "possible_llm_prompt_injection", "fully_empty_rows", "inconsistent_booleans"}
    \cup {"implausibly_old_dates", "invalid_email_shape",
          "numeric_values_stored_as_text", "near_duplicate_categories",
          "duplicate_normalized_column_name"}
    \cup {"empty_dataset", "unnamed_column", "excessive_parse_failures", "mixed_types",
          "inconsistent_date_formats"}
    \cup {"concentrated_missingness"}

\* Every detector has findings of rows and columns that are there.
LEMMA DetectorsFind ==
  ASSUME NEW t, IsTable(t), NEW p, p = Profile(t)
  PROVE  /\ DOMAIN Found(t, p) = DetectorIds
         /\ \A d \in DetectorIds : Found(t, p)[d] \subseteq FindingsOf(d, t)
         /\ IsFiniteSet(DetectorIds)
<1>1. DOMAIN Found(t, p) = DetectorIds
  BY DEF Found, DetectorIds
<1>2. IsFiniteSet(DetectorIds)
  <2> DEFINE A == {"exact_duplicate_rows", "empty_column", "excessive_missing_values",
                   "missing_likely_identifier", "inconsistent_capitalization"}
             B == {"leading_trailing_whitespace", "future_dates",
                   "negative_likely_non_negative_values", "invalid_percentages",
                   "line_total_mismatch"}
             C == {"suspiciously_constant_column", "extreme_outliers",
                   "possible_llm_prompt_injection", "fully_empty_rows",
                   "inconsistent_booleans"}
             D == {"implausibly_old_dates", "invalid_email_shape",
                   "numeric_values_stored_as_text", "near_duplicate_categories",
                   "duplicate_normalized_column_name"}
             E == {"empty_dataset", "unnamed_column", "excessive_parse_failures",
                   "mixed_types", "inconsistent_date_formats"}
             F == {"concentrated_missingness"}
  <2>1. IsFiniteSet(A) /\ IsFiniteSet(B) /\ IsFiniteSet(C) /\ IsFiniteSet(D)
        /\ IsFiniteSet(E) /\ IsFiniteSet(F)
    BY FewAreFinite, FS_Singleton
  <2>2. DetectorIds = A \cup B \cup C \cup D \cup E \cup F
    BY DEF DetectorIds
  <2> HIDE DEF A, B, C, D, E, F
  <2>3. IsFiniteSet(A \cup B \cup C)
    BY <2>1, FS_Union
  <2>4. IsFiniteSet(A \cup B \cup C \cup D \cup E)
    BY <2>1, <2>3, FS_Union
  <2> QED BY <2>1, <2>2, <2>4, FS_Union
<1>3. \A d \in DetectorIds : Found(t, p)[d] \subseteq FindingsOf(d, t)
  BY StructuralFindings, CompletenessFindings, ConsistencyFindings, ValidityFindings
     DEF Found, DetectorIds
<1> QED BY <1>1, <1>2, <1>3

\* What a run finds is finite, and everything in it is about rows and columns
\* that are there.
LEMMA AllFindings ==
  ASSUME NEW t, IsTable(t), NEW p, p = Profile(t), NEW failing, NEW observed
  PROVE  LET r == Results(failing, Found(t, p), observed)
             whole == Results({}, Found(t, p), observed)
         IN /\ DOMAIN r = DetectorIds /\ DOMAIN whole = DetectorIds
            /\ \A d \in DetectorIds : r[d].findings \subseteq FindingsOf(d, t)
            /\ Findings(r) \subseteq Findings(whole)
            /\ IsFiniteSet(Findings(whole))
            /\ \A f \in Findings(whole) :
                   /\ f.columns \subseteq Cols(t) /\ f.rows \subseteq RowIds(t)
                   /\ f.severity \in DOMAIN Weight /\ f.confidence \in 0 .. 100
            /\ \A d \in DetectorIds : r[d].status = "failed" \/ r[d] = whole[d]
<1> DEFINE found == Found(t, p)
           r == Results(failing, found, observed)
           whole == Results({}, found, observed)
<1>1. DOMAIN r = DetectorIds /\ DOMAIN whole = DetectorIds
  BY DetectorsFind DEF Results
<1>2. ASSUME NEW d \in DetectorIds
      PROVE  /\ whole[d].findings = found[d]
             /\ (r[d].findings = {} /\ r[d].status = "failed") \/ r[d] = whole[d]
  BY DetectorsFind DEF Results
<1>3. \A d \in DetectorIds : found[d] \subseteq FindingsOf(d, t)
  BY DetectorsFind
<1> HIDE DEF found, r, whole
<1>4. Findings(r) \subseteq Findings(whole)
  BY <1>1, <1>2 DEF Findings
<1>5. ASSUME NEW f \in Findings(whole)
      PROVE  /\ f.columns \subseteq Cols(t) /\ f.rows \subseteq RowIds(t)
             /\ f.severity \in DOMAIN Weight /\ f.confidence \in 0 .. 100
  <2>1. PICK d \in DetectorIds : f \in FindingsOf(d, t)
    BY <1>1, <1>2, <1>3 DEF Findings
  <2> QED BY <2>1 DEF FindingsOf
<1>6. IsFiniteSet(Findings(whole))
  <2> DEFINE g == [d \in DetectorIds |-> found[d]]
             S == {g[d] : d \in DOMAIN g}
  <2>1. IsFiniteSet(DOMAIN g) /\ g = [d \in DOMAIN g |-> g[d]]
    BY DetectorsFind
  <2>2. Findings(whole) = UNION S
    BY <1>1, <1>2 DEF Findings
  <2>3. \A T \in S : IsFiniteSet(T)
    <3>1. \A d \in DetectorIds : IsFiniteSet(found[d])
      BY <1>3, FiniteFindings, FS_Subset
    <3> QED BY <3>1
  <2>4. IsFiniteSet(S)
    <3> HIDE DEF g
    <3> QED BY <2>1, FiniteImage
  <2> HIDE DEF S, g
  <2> QED BY <2>2, <2>3, <2>4, FS_UNION
<1>7. \A d \in DetectorIds : r[d].findings \subseteq FindingsOf(d, t)
  BY <1>2, <1>3
<1> QED BY <1>1, <1>2, <1>4, <1>5, <1>6, <1>7 DEF r, whole, found
-----------------------------------------------------------------------------
(* Sums over findings.                                                     *)

\* g adds up what d has for the members of a set, one after the other.
SumsUp(g, d, S) ==
    g = [some \in SUBSET S |->
            IF some = {} THEN 0
            ELSE LET f == CHOOSE f \in some : TRUE IN d[f] + g[some \ {f}]]

First(some) == CHOOSE f \in some : TRUE

\* There is a first of some.
LEMMA FirstIsIn ==
  ASSUME NEW some, some # {}
  PROVE  First(some) \in some /\ some \ {First(some)} # some
BY DEF First

\* A sum is that of the first and of the others.
LEMMA SumStep ==
  ASSUME NEW S, NEW g, NEW d, SumsUp(g, d, S)
  PROVE  /\ g[{}] = 0
         /\ \A T \in SUBSET S :
                T # {} => g[T] = d[First(T)] + g[T \ {First(T)}]
BY DEF SumsUp, First

\* There is one way to add up at most.
LEMMA SumsAgree ==
  ASSUME NEW S, IsFiniteSet(S), NEW d, NEW g, NEW h, NEW U,
         SumsUp(g, d, S), SumsUp(h, d, U)
  PROVE  \A T \in SUBSET S : T \subseteq U => g[T] = h[T]
<1> DEFINE G == {T \in SUBSET S : T \subseteq U => g[T] = h[T]}
<1>1. ASSUME NEW T \in SUBSET S, \A x \in T : T \ {x} \in G PROVE T \in G
  <2>1. SUFFICES ASSUME T \subseteq U PROVE g[T] = h[T]
    OBVIOUS
  <2>2. CASE T = {}
    BY <2>2, SumStep
  <2>3. CASE T # {}
    <3>1. First(T) \in T
      BY <2>3, FirstIsIn
    <3>2. g[T \ {First(T)}] = h[T \ {First(T)}]
      BY <1>1, <2>1, <3>1
    <3> QED BY <2>1, <2>3, <3>2, SumStep
  <2> QED BY <2>2, <2>3
<1> HIDE DEF G
<1>2. \A T \in SUBSET S : T \in G
  BY <1>1, OneByOne
<1> QED BY <1>2 DEF G

\* Finitely many can be added up.
LEMMA SumsExist ==
  ASSUME NEW S, IsFiniteSet(S), NEW d
  PROVE  \E g : SumsUp(g, d, S)
<1> DEFINE G == {T \in SUBSET S : \E g : SumsUp(g, d, T)}
           Sum(T) == CHOOSE g : SumsUp(g, d, T)
<1>1. ASSUME NEW T \in SUBSET S, \A x \in T : T \ {x} \in G PROVE T \in G
  <2>1. \A U \in SUBSET T : U # T => \E g : SumsUp(g, d, U)
    <3>1. SUFFICES ASSUME NEW U \in SUBSET T, NEW x \in T \ U
                   PROVE  \E g : SumsUp(g, d, U)
      OBVIOUS
    <3>2. PICK g : SumsUp(g, d, T \ {x})
      BY <1>1
    <3> DEFINE h == [some \in SUBSET U |-> g[some]]
    <3>3. \A some \in SUBSET U : some \in SUBSET (T \ {x})
      OBVIOUS
    <3>4. \A some \in SUBSET U :
              g[some] = IF some = {} THEN 0 ELSE d[First(some)] + g[some \ {First(some)}]
      <4>1. g[{}] = 0 /\ \A V \in SUBSET (T \ {x}) :
                             V # {} => g[V] = d[First(V)] + g[V \ {First(V)}]
        BY <3>2, SumStep
      <4> QED BY <3>3, <4>1
    <3>5. \A some \in SUBSET U :
              h[some] = IF some = {} THEN 0 ELSE d[First(some)] + h[some \ {First(some)}]
      BY <3>4
    <3>6. h = [some \in SUBSET U |-> IF some = {} THEN 0
                                     ELSE d[First(some)] + h[some \ {First(some)}]]
      BY <3>5
    <3> HIDE DEF h
    <3>7. SumsUp(h, d, U)
      BY <3>6 DEF SumsUp, First
    <3> QED BY <3>7
  <2>2. \A U \in SUBSET T : U # T => SumsUp(Sum(U), d, U)
    BY <2>1
  <2> HIDE DEF Sum
  <2>3. \A U \in SUBSET T : U # T => /\ Sum(U)[{}] = 0
                                     /\ \A V \in SUBSET U : Sum(U)[V] = Sum(V)[V]
    <3>1. SUFFICES ASSUME NEW U \in SUBSET T, U # T, NEW V \in SUBSET U
                   PROVE  Sum(U)[{}] = 0 /\ Sum(U)[V] = Sum(V)[V]
      OBVIOUS
    <3>2. SumsUp(Sum(U), d, U) /\ SumsUp(Sum(V), d, V)
      BY <2>2, <3>1
    <3>3. IsFiniteSet(U)
      BY <1>1, FS_Subset
    <3> QED BY <3>2, <3>3, SumStep, SumsAgree
  <2> DEFINE h == [some \in SUBSET T |->
                      IF some = {} THEN 0
                      ELSE d[First(some)] + Sum(some \ {First(some)})[some \ {First(some)}]]
  <2>4. ASSUME NEW U \in SUBSET T, U # T PROVE h[U] = Sum(U)[U]
    <3>1. CASE U = {}
      BY <2>2, <2>4, <3>1, SumStep
    <3>2. CASE U # {}
      <4>1. Sum(U)[U] = d[First(U)] + Sum(U)[U \ {First(U)}]
        BY <2>2, <2>4, <3>2, SumStep
      <4>2. Sum(U)[U \ {First(U)}] = Sum(U \ {First(U)})[U \ {First(U)}]
        BY <2>3, <2>4
      <4> QED BY <3>2, <4>1, <4>2
    <3> QED BY <3>1, <3>2
  <2>5. \A some \in SUBSET T : some # {} =>
            h[some \ {First(some)}] = Sum(some \ {First(some)})[some \ {First(some)}]
    <3>1. SUFFICES ASSUME NEW some \in SUBSET T, some # {}
                   PROVE  h[some \ {First(some)}]
                              = Sum(some \ {First(some)})[some \ {First(some)}]
      OBVIOUS
    <3>2. First(some) \in some
      BY <3>1, FirstIsIn
    <3>3. some \ {First(some)} \in SUBSET T /\ some \ {First(some)} # T
      BY <3>2
    <3> HIDE DEF h
    <3> QED BY <2>4, <3>3
  <2>6. h = [some \in SUBSET T |-> IF some = {} THEN 0
                                   ELSE d[First(some)] + h[some \ {First(some)}]]
    BY <2>5
  <2> HIDE DEF h
  <2>7. SumsUp(h, d, T)
    BY <2>6 DEF SumsUp, First
  <2> QED BY <2>7
<1> HIDE DEF G
<1>2. \A T \in SUBSET S : T \in G
  BY <1>1, OneByOne
<1> QED BY <1>2 DEF G

\* Sums of natural numbers are natural numbers.
LEMMA SumsAreNatural ==
  ASSUME NEW S, IsFiniteSet(S), NEW d \in [S -> Nat], NEW g, SumsUp(g, d, S)
  PROVE  \A T \in SUBSET S : g[T] \in Nat
<1> DEFINE G == {T \in SUBSET S : g[T] \in Nat}
<1>1. ASSUME NEW T \in SUBSET S, \A x \in T : T \ {x} \in G PROVE T \in G
  <2>1. CASE T = {}
    BY <2>1, SumStep
  <2>2. CASE T # {}
    <3>1. First(T) \in T
      BY <2>2, FirstIsIn
    <3>2. g[T] = d[First(T)] + g[T \ {First(T)}]
      BY <2>2, SumStep
    <3>3. g[T \ {First(T)}] \in Nat /\ d[First(T)] \in Nat
      BY <1>1, <3>1
    <3> QED BY <3>2, <3>3
  <2> QED BY <2>1, <2>2
<1> HIDE DEF G
<1>2. \A T \in SUBSET S : T \in G
  BY <1>1, OneByOne
<1> QED BY <1>2 DEF G

\* The order makes no difference.
LEMMA AnyOrder ==
  ASSUME NEW S, IsFiniteSet(S), NEW d \in [S -> Nat], NEW g, SumsUp(g, d, S),
         NEW T \in SUBSET S, NEW x \in T
  PROVE  g[T] = d[x] + g[T \ {x}]
<1> DEFINE Good(A) == \A z \in A : g[A] = d[z] + g[A \ {z}]
           G == {A \in SUBSET S : Good(A)}
<1>1. ASSUME NEW A \in SUBSET S, \A z \in A : Good(A \ {z}) PROVE Good(A)
  <2>1. SUFFICES ASSUME NEW z \in A PROVE g[A] = d[z] + g[A \ {z}]
    OBVIOUS
  <2> DEFINE y == First(A)
  <2>2. y \in A /\ g[A] = d[y] + g[A \ {y}]
    <3>1. A # {}
      BY <2>1
    <3>2. y \in A
      BY <3>1, FirstIsIn
    <3>3. g[A] = d[y] + g[A \ {y}]
      BY <3>1, SumStep
    <3> QED BY <3>2, <3>3
  <2> HIDE DEF y
  <2>3. CASE z = y
    BY <2>2, <2>3
  <2>4. CASE z # y
    <3> DEFINE rest == A \ {z, y}
    <3>1. (A \ {z}) \ {y} = rest /\ (A \ {y}) \ {z} = rest
      OBVIOUS
    <3>2. g[A \ {z}] = d[y] + g[rest] /\ g[A \ {y}] = d[z] + g[rest]
      BY <1>1, <2>2, <2>4, <3>1
    <3>3. g[rest] \in Nat /\ d[z] \in Nat /\ d[y] \in Nat
      BY <2>2, SumsAreNatural
    <3> HIDE DEF rest
    <3> QED BY <2>2, <3>2, <3>3
  <2> QED BY <2>3, <2>4
<1> HIDE DEF Good
<1>2. \A A \in SUBSET S : (\A z \in A : A \ {z} \in G) => A \in G
  BY <1>1
<1> HIDE DEF G
<1>3. \A A \in SUBSET S : A \in G
  BY <1>2, OneByOne
<1> QED BY <1>3 DEF G, Good

\* Of fewer members, with less for each, no more.
LEMMA SumsGrow ==
  ASSUME NEW S, IsFiniteSet(S), NEW F \in SUBSET S,
         NEW d \in [F -> Nat], NEW e \in [S -> Nat], \A x \in F : d[x] <= e[x],
         NEW g, SumsUp(g, d, F), NEW h, SumsUp(h, e, S)
  PROVE  g[F] <= h[S]
<1> DEFINE G == {T \in SUBSET S : g[T \cap F] <= h[T]}
<1>1. IsFiniteSet(F)
  BY FS_Subset
<1>2. (\A T \in SUBSET S : h[T] \in Nat) /\ (\A T \in SUBSET F : g[T] \in Nat)
  BY <1>1, SumsAreNatural
<1>3. ASSUME NEW T \in SUBSET S, \A x \in T : T \ {x} \in G PROVE T \in G
  <2>1. CASE T = {}
    <3>1. T \cap F = {} /\ g[{}] = 0 /\ h[{}] = 0
      BY <2>1, SumStep
    <3> QED BY <2>1, <3>1
  <2>2. CASE T # {}
    <3>1. PICK x \in T : TRUE
      BY <2>2
    <3> DEFINE rest == T \ {x}
    <3>2. rest \in SUBSET S /\ g[rest \cap F] <= h[rest]
      BY <1>3, <3>1
    <3>3. h[T] = e[x] + h[rest] /\ h[rest] \in Nat /\ e[x] \in Nat
      <4>1. h[T] = e[x] + h[rest]
        BY <1>3, <3>1, AnyOrder
      <4> QED BY <1>2, <1>3, <3>1, <4>1
    <3>4. g[rest \cap F] \in Nat
      BY <1>2
    <3>5. CASE x \in F
      <4>1. g[T \cap F] = d[x] + g[(T \cap F) \ {x}] /\ d[x] \in Nat /\ d[x] <= e[x]
        <5>1. T \cap F \in SUBSET F /\ x \in T \cap F
          BY <3>1, <3>5
        <5>2. g[T \cap F] = d[x] + g[(T \cap F) \ {x}]
          BY <1>1, <5>1, AnyOrder
        <5> QED BY <3>5, <5>2
      <4>2. (T \cap F) \ {x} = rest \cap F
        OBVIOUS
      <4> HIDE DEF rest
      <4> QED BY <3>2, <3>3, <3>4, <4>1, <4>2
    <3>6. CASE x \notin F
      <4>1. T \cap F = rest \cap F
        BY <3>6
      <4> HIDE DEF rest
      <4>2. h[rest] <= h[T] /\ h[T] \in Nat
        BY <3>3
      <4>3. g[rest \cap F] <= h[T]
        BY <3>2, <3>3, <3>4, <4>2
      <4>4. g[T \cap F] <= h[T]
        BY <4>1, <4>3
      <4> QED BY <4>4
    <3> QED BY <3>5, <3>6
  <2> QED BY <2>1, <2>2
<1> HIDE DEF G
<1>4. S \in G
  BY <1>3, OneByOne
<1>5. S \cap F = F
  OBVIOUS
<1> QED BY <1>4, <1>5 DEF G
-----------------------------------------------------------------------------
(* Priorities and trust.                                                   *)

IsScored(f, t) ==
    /\ f.columns \subseteq Cols(t) /\ f.rows \subseteq RowIds(t)
    /\ f.severity \in DOMAIN Weight /\ f.confidence \in 0 .. 100

\* Products of natural numbers are natural numbers.
LEMMA NaturalProduct ==
  ASSUME NEW m \in Nat, NEW n \in Nat
  PROVE  m * n \in Nat
OBVIOUS

\* The priority of a finding is a natural number.
LEMMA PriorityIsNatural ==
  ASSUME NEW t, IsTable(t), NEW p, p.rows = Len(t.rows), NEW f, IsScored(f, t)
  PROVE  /\ Rows(p) \in Nat \ {0} /\ Perfect(p) \in Nat
         /\ Priority(f, t, p) \in Nat
<1>1. p.rows \in Nat /\ Rows(p) \in Nat \ {0}
  BY DEF IsTable, Rows
<1>2. Weight[f.severity] \in Nat /\ f.confidence \in Nat
  <2>1. /\ Weight["critical"] = 100 /\ Weight["high"] = 75 /\ Weight["medium"] = 50
        /\ Weight["low"] = 25 /\ Weight["informational"] = 10
    BY DEF Weight
  <2>2. f.severity \in {"critical", "high", "medium", "low", "informational"}
    BY Severities DEF IsScored
  <2>3. f.confidence \in 0 .. 100
    BY DEF IsScored
  <2>4. Weight[f.severity] \in Nat
    <3> DEFINE s == f.severity
    <3> HIDE DEF s
    <3>1. s = "critical" \/ s = "high" \/ s = "medium" \/ s = "low"
          \/ s = "informational"
      BY <2>2 DEF s
    <3>2. Weight[s] \in Nat
      BY ONLY <2>1, <3>1
    <3> QED BY <3>2 DEF s
  <2>5. f.confidence \in Nat
    BY ONLY <2>3
  <2> QED BY <2>4, <2>5
<1>3. Cardinality(f.rows) \in Nat
  <2>1. f.rows \in SUBSET (1 .. Len(t.rows)) /\ Len(t.rows) \in Nat
    BY DEF IsScored, RowIds, IsTable
  <2>2. Cardinality(f.rows) \in 0 .. Len(t.rows)
    BY <2>1, FiniteUpTo
  <2> QED BY <2>2
<1>4. RoleBonus(f, t, p) \in Nat
  BY DEF RoleBonus
<1> DEFINE base == Weight[f.severity] * f.confidence * Rows(p)
           share == 1500 * Least(Cardinality(f.rows), p.rows)
           role == 100 * Rows(p) * RoleBonus(f, t, p)
<1>5. base \in Nat
  <2>1. Weight[f.severity] * f.confidence \in Nat
    BY <1>2, NaturalProduct
  <2> QED BY <1>1, <2>1, NaturalProduct
<1>6. share \in Nat
  BY <1>1, <1>3 DEF Least
<1>7. role \in Nat
  <2>1. 100 * Rows(p) \in Nat
    BY <1>1
  <2> QED BY <1>4, <2>1, NaturalProduct
<1>8. Priority(f, t, p) = Least(100 * 100 * Rows(p), base + share + role)
  BY DEF Priority
<1> HIDE DEF base, share, role
<1>9. Priority(f, t, p) \in Nat
  BY <1>1, <1>5, <1>6, <1>7, <1>8 DEF Least
<1> QED BY <1>1, <1>9 DEF Perfect

\* A finding that is reinforced takes more away.
LEMMA DeductionGrows ==
  ASSUME NEW t, IsTable(t), NEW p, p.rows = Len(t.rows), NEW f, IsScored(f, t),
         NEW more, NEW some \in SUBSET more
  PROVE  /\ Deduction(f, some, t, p) \in Nat
         /\ Deduction(f, some, t, p) <= Deduction(f, more, t, p)
<1> DEFINE n == Priority(f, t, p)
<1>1. n \in Nat
  BY PriorityIsNatural
<1>2. IsReinforced(f, some) => IsReinforced(f, more)
  BY DEF IsReinforced
<1>3. \A s : Deduction(f, s, t, p) = 15 * n * (IF IsReinforced(f, s) THEN 13 ELSE 10)
  BY DEF Deduction
<1> HIDE DEF n
<1>4. \A s : \/ IsReinforced(f, s) /\ Deduction(f, s, t, p) = 15 * n * 13
             \/ ~ IsReinforced(f, s) /\ Deduction(f, s, t, p) = 15 * n * 10
  BY <1>3
<1> QED BY <1>1, <1>2, <1>4

\* What is deducted for findings adds up.
LEMMA DeductionsUnfold ==
  ASSUME NEW t, NEW p, NEW findings, IsFiniteSet(findings)
  PROVE  \E g : /\ SumsUp(g, [f \in findings |-> Deduction(f, findings, t, p)], findings)
                /\ Deductions(findings, t, p) = g[findings]
<1> DEFINE d == [f \in findings |-> Deduction(f, findings, t, p)]
           Is(g) == g = [some \in SUBSET findings |->
                            IF some = {} THEN 0
                            ELSE LET f == CHOOSE f \in some : TRUE
                                 IN Deduction(f, findings, t, p) + g[some \ {f}]]
<1>1. \A g : SumsUp(g, d, findings) <=> Is(g)
  <2>1. SUFFICES ASSUME NEW g PROVE SumsUp(g, d, findings) <=> Is(g)
    OBVIOUS
  <2>2. \A some \in SUBSET findings :
            (IF some = {} THEN 0
             ELSE LET f == CHOOSE f \in some : TRUE IN d[f] + g[some \ {f}])
            = (IF some = {} THEN 0
               ELSE LET f == CHOOSE f \in some : TRUE
                    IN Deduction(f, findings, t, p) + g[some \ {f}])
    <3>1. \A some \in SUBSET findings : some # {} => (CHOOSE f \in some : TRUE) \in findings
      OBVIOUS
    <3> QED BY <3>1
  <2> QED BY <2>2, ZenonT(40) DEF SumsUp
<1>2. \E g : Is(g)
  <2>1. PICK g : SumsUp(g, d, findings)
    BY SumsExist
  <2> HIDE DEF Is, d
  <2> QED BY <1>1, <2>1
<1>3. \E g : Is(g) /\ Deductions(findings, t, p) = g[findings]
  BY <1>2 DEF Deductions
<1> QED BY <1>1, <1>3

\* The score is on its scale, and further findings never raise it.
LEMMA ScoreFalls ==
  ASSUME NEW t, IsTable(t), NEW p, p.rows = Len(t.rows),
         NEW more, IsFiniteSet(more), NEW some \in SUBSET more,
         \A f \in more : IsScored(f, t)
  PROVE  /\ Score(some, t, p) \in 0 .. Perfect(p)
         /\ Score(more, t, p) \in 0 .. Perfect(p)
         /\ Score(more, t, p) <= Score(some, t, p)
<1>1. IsFiniteSet(some)
  BY FS_Subset
<1> DEFINE d == [f \in some |-> Deduction(f, some, t, p)]
           e == [f \in more |-> Deduction(f, more, t, p)]
<1>2. PICK g : SumsUp(g, d, some) /\ Deductions(some, t, p) = g[some]
  BY <1>1, DeductionsUnfold
<1>3. PICK h : SumsUp(h, e, more) /\ Deductions(more, t, p) = h[more]
  BY DeductionsUnfold
<1>4. d \in [some -> Nat] /\ e \in [more -> Nat] /\ \A f \in some : d[f] <= e[f]
  <2>1. \A f \in some : /\ Deduction(f, some, t, p) \in Nat
                        /\ Deduction(f, some, t, p) <= Deduction(f, more, t, p)
    BY DeductionGrows
  <2>2. \A f \in more : Deduction(f, more, t, p) \in Nat
    BY DeductionGrows
  <2> QED BY <2>1, <2>2
<1> HIDE DEF d, e
<1>5. g[some] \in Nat /\ h[more] \in Nat
  BY <1>1, <1>2, <1>3, <1>4, SumsAreNatural
<1>6. g[some] <= h[more]
  BY <1>2, <1>3, <1>4, SumsGrow
<1>7. Perfect(p) \in Nat
  BY DEF Perfect, Rows, IsTable
<1> HIDE DEF Perfect
<1> QED BY <1>2, <1>3, <1>5, <1>6, <1>7 DEF Score

\* The labels are in the order of the scores.
LEMMA LabelsAreOrdered ==
  ASSUME NEW p, Perfect(p) \in Nat, NEW low \in Nat, NEW high \in Nat, low <= high
  PROVE  /\ Label(low, p) = "high_confidence" => Label(high, p) = "high_confidence"
         /\ Label(high, p) = "not_reliable_for_decision_making" =>
                Label(low, p) = "not_reliable_for_decision_making"
<1> DEFINE k == Perfect(p) \div 100
           AtLeast(score, n) == score >= n * k
<1>1. k \in Nat
  OBVIOUS
<1>2. \A n \in Nat : AtLeast(low, n) => AtLeast(high, n)
  <2> HIDE DEF k
  <2>1. \A n \in Nat : n * k \in Nat
    BY <1>1, NaturalProduct
  <2> QED BY <2>1
<1>3. AtLeast(low, 40) \/ ~ AtLeast(low, 70)
  <2> HIDE DEF k
  <2> QED BY <1>1
<1>4. (AtLeast(low, 90) => AtLeast(low, 70)) /\ (AtLeast(low, 70) => AtLeast(low, 40))
      /\ (AtLeast(high, 90) => AtLeast(high, 70)) /\ (AtLeast(high, 70) => AtLeast(high, 40))
  <2> HIDE DEF k
  <2> QED BY <1>1
<1>5. /\ Label(low, p) = CASE AtLeast(low, 90) -> "high_confidence"
               [] AtLeast(low, 70) /\ ~ AtLeast(low, 90) -> "usable_with_caution"
               [] AtLeast(low, 40) /\ ~ AtLeast(low, 70) -> "material_quality_concerns"
               [] OTHER -> "not_reliable_for_decision_making"
      /\ Label(high, p) = CASE AtLeast(high, 90) -> "high_confidence"
               [] AtLeast(high, 70) /\ ~ AtLeast(high, 90) -> "usable_with_caution"
               [] AtLeast(high, 40) /\ ~ AtLeast(high, 70) -> "material_quality_concerns"
               [] OTHER -> "not_reliable_for_decision_making"
  BY DEF Label
<1> HIDE DEF AtLeast
<1>6. (Label(low, p) = "high_confidence" <=> AtLeast(low, 90))
      /\ (Label(high, p) = "high_confidence" <=> AtLeast(high, 90))
  BY <1>4, <1>5
<1>7. (Label(low, p) = "not_reliable_for_decision_making" <=> ~ AtLeast(low, 40))
      /\ (Label(high, p) = "not_reliable_for_decision_making" <=> ~ AtLeast(high, 40))
  BY <1>4, <1>5
<1>8. (AtLeast(low, 90) => AtLeast(high, 90)) /\ (AtLeast(low, 40) => AtLeast(high, 40))
  BY <1>2
<1> QED BY <1>6, <1>7, <1>8
-----------------------------------------------------------------------------
(* The stages of an analysis.                                              *)

RanWith(failing) == Results(failing, Found(table, profile), Observed(table, profile))

\* Each stage hands on what the one before made of the file.
StagesFit ==
    /\ file \in Files
    /\ state \in {"parsing", "profiling", "detecting", "completed", "failed"}
    /\ state \in {"parsing", "failed"} => table = NoValue
    /\ state \in {"parsing", "profiling", "failed"} =>
           profile = NoValue /\ results = NoValue
    /\ state # "completed" => trust = NoValue /\ answer = NoValue
    /\ state \in {"profiling", "detecting", "completed"} =>
           IsReadable(file) /\ table = Parsed(file)
    /\ state \in {"detecting", "completed"} =>
           /\ CanBeProfiled(table) /\ profile = Profile(table)
           /\ results # NoValue => \E failing : results = RanWith(failing)
    /\ state = "completed" =>
           results # NoValue /\ trust = Trust(Findings(results), table, profile)

\* What create_rule answers.
Created(request, f) ==
    IF Range(request.names) \subseteq {table.columns[c].name : c \in Cols(table)}
    THEN Answer("stored", f,
                [type |-> request.type, nulls |-> request.nulls, given |-> request.given,
                 columns |-> [k \in DOMAIN request.names |->
                                 Named(table, request.names[k])]])
    ELSE [kind |-> "refused", finding |-> f]

AsRequest(rule) ==
    [type |-> rule.type, nulls |-> rule.nulls, given |-> rule.given,
     names |-> [k \in DOMAIN rule.columns |-> table.columns[rule.columns[k]].name]]

\* An answer is an offer for a finding, an offer that was accepted, or a rule that
\* was written by hand.
AnswerFits ==
    answer # NoValue =>
        /\ state = "completed"
        /\ \/ \E f \in Findings(results) :
                  /\ IsGeneratable(f)
                  /\ \/ answer = Answer("offered", f, Proposal(f, table, profile))
                     \/ answer = Created(AsRequest(Proposal(f, table, profile)), f)
           \/ \E request \in Requests : answer = Created(request, NoValue)

ChecksInvariant == StagesFit /\ AnswerFits

\* Nothing is calculated at first.
LEMMA ChecksInit == Init => ChecksInvariant
BY DEF Init, ChecksInvariant, StagesFit, AnswerFits

\* Parsing makes the table of the file.
LEMMA ParseKeeps ==
  ASSUME ChecksInvariant, Parse
  PROVE  ChecksInvariant'
<1>1. CASE IsReadable(file)
  BY <1>1 DEF ChecksInvariant, StagesFit, AnswerFits, Parse
<1>2. CASE ~ IsReadable(file)
  BY <1>2 DEF ChecksInvariant, StagesFit, AnswerFits, Parse, Fail
<1> QED BY <1>1, <1>2

\* Profiling makes the profile of the table.
LEMMA RunProfileKeeps ==
  ASSUME ChecksInvariant, RunProfile
  PROVE  ChecksInvariant'
<1>1. CASE CanBeProfiled(table)
  BY <1>1 DEF ChecksInvariant, StagesFit, AnswerFits, RunProfile
<1>2. CASE ~ CanBeProfiled(table)
  BY <1>2 DEF ChecksInvariant, StagesFit, AnswerFits, RunProfile, Fail
<1> QED BY <1>1, <1>2

\* The detectors' results are those of the table and its profile.
LEMMA RunDetectorsKeeps ==
  ASSUME ChecksInvariant, RunDetectors
  PROVE  ChecksInvariant'
<1>1. \E failing : results' = RanWith(failing)'
  BY DEF RunDetectors, RanWith
<1> QED BY <1>1 DEF ChecksInvariant, StagesFit, AnswerFits, RunDetectors

\* The assessment is that of the findings.
LEMMA CompleteKeeps ==
  ASSUME ChecksInvariant, Complete
  PROVE  ChecksInvariant'
<1>1. /\ UNCHANGED <<file, table, profile, results, answer>> /\ state' = "completed"
      /\ trust' = Trust(Findings(results), table, profile)'
      /\ state = "detecting" /\ results # NoValue
  BY DEF Complete
<1>2. \A failing : RanWith(failing)' = RanWith(failing)
  BY <1>1 DEF RanWith
<1>3. answer = NoValue
  BY <1>1 DEF ChecksInvariant, StagesFit
<1> QED BY <1>1, <1>2, <1>3 DEF ChecksInvariant, StagesFit, AnswerFits

\* What a request changes is the answer.
LEMMA AnswerKeeps ==
  ASSUME ChecksInvariant, state = "completed",
         UNCHANGED <<file, state, table, profile, results, trust>>,
         AnswerFits'
  PROVE  ChecksInvariant'
<1>1. \A failing : RanWith(failing)' = RanWith(failing)
  BY DEF RanWith
<1> QED BY <1>1 DEF ChecksInvariant, StagesFit

\* An offer is the proposal for a finding.
LEMMA OfferRuleKeeps ==
  ASSUME ChecksInvariant, NEW f \in Findings(results), OfferRule(f)
  PROVE  ChecksInvariant'
<1>1. /\ UNCHANGED <<file, state, table, profile, results, trust>>
      /\ state = "completed" /\ IsGeneratable(f)
      /\ answer' = Answer("offered", f, Proposal(f, table, profile))
  BY DEF OfferRule
<1>2. answer' = Answer("offered", f, Proposal(f, table, profile))'
  BY <1>1 DEF Answer
<1>3. AnswerFits'
  BY <1>1, <1>2 DEF AnswerFits
<1> QED BY <1>1, <1>3, AnswerKeeps

\* An offer that is accepted is created from the proposal.
LEMMA AcceptOfferKeeps ==
  ASSUME ChecksInvariant, AcceptOffer
  PROVE  ChecksInvariant'
<1> DEFINE rule == answer.rule
           f == answer.finding
<1>1. CreateRule(AsRequest(rule), f) /\ answer # NoValue /\ answer.kind = "offered"
  BY DEF AcceptOffer, AsRequest
<1>2. /\ UNCHANGED <<file, state, table, profile, results, trust>>
      /\ state = "completed" /\ answer' = Created(AsRequest(rule), f)
  BY <1>1 DEF CreateRule, Created
<1>3. \A request, g : Created(request, g).kind # "offered"
  BY DEF Created, Answer
<1>4. PICK g \in Findings(results) :
          IsGeneratable(g) /\ answer = Answer("offered", g, Proposal(g, table, profile))
  BY <1>1, <1>3 DEF ChecksInvariant, AnswerFits
<1>5. f = g /\ rule = Proposal(g, table, profile)
  BY <1>1, <1>4 DEF Answer
<1> HIDE DEF rule, f
<1>6. answer' = Created(AsRequest(Proposal(g, table, profile)), g)'
  BY <1>2, <1>5 DEF Created, AsRequest, Answer
<1>7. AnswerFits'
  BY <1>2, <1>4, <1>6 DEF AnswerFits, IsGeneratable
<1> QED BY <1>2, <1>7, AnswerKeeps

\* A rule that is written is created from the request.
LEMMA WriteRuleKeeps ==
  ASSUME ChecksInvariant, WriteRule
  PROVE  ChecksInvariant'
<1>1. PICK request \in Requests : CreateRule(request, NoValue)
  BY DEF WriteRule
<1>2. /\ UNCHANGED <<file, state, table, profile, results, trust>>
      /\ state = "completed" /\ answer' = Created(request, NoValue)
  BY <1>1 DEF CreateRule, Created
<1>3. answer' = Created(request, NoValue)'
  BY <1>2 DEF Created, Answer
<1>4. AnswerFits'
  BY <1>2, <1>3 DEF AnswerFits
<1> QED BY <1>2, <1>4, AnswerKeeps

\* Every step keeps what was calculated to what it was calculated from.
LEMMA ChecksStep == ChecksInvariant /\ [Next]_vars => ChecksInvariant'
<1> SUFFICES ASSUME ChecksInvariant, [Next]_vars PROVE ChecksInvariant'
  OBVIOUS
<1>1. CASE Parse
  BY <1>1, ParseKeeps
<1>2. CASE RunProfile
  BY <1>2, RunProfileKeeps
<1>3. CASE RunDetectors
  BY <1>3, RunDetectorsKeeps
<1>4. CASE Complete
  BY <1>4, CompleteKeeps
<1>5. CASE \E f \in Findings(results) : OfferRule(f)
  BY <1>5, OfferRuleKeeps
<1>6. CASE AcceptOffer
  BY <1>6, AcceptOfferKeeps
<1>7. CASE WriteRule
  BY <1>7, WriteRuleKeeps
<1>8. CASE UNCHANGED vars
  <2>1. \A failing : RanWith(failing)' = RanWith(failing)
    BY <1>8 DEF vars, RanWith
  <2>2. \A request, f : /\ Created(request, f)' = Created(request, f)
                        /\ AsRequest(f)' = AsRequest(f)
    BY <1>8 DEF vars, Created, AsRequest, Answer
  <2>3. \A k, f, rule : Answer(k, f, rule)' = Answer(k, f, rule)
    BY <1>8 DEF vars, Answer
  <2> QED BY <1>8, <2>1, <2>2, <2>3 DEF vars, ChecksInvariant, StagesFit, AnswerFits
<1> QED BY <1>1, <1>2, <1>3, <1>4, <1>5, <1>6, <1>7, <1>8 DEF Next

\* What a run holds is what its file determines, but for the detectors that fail.
THEOREM ChecksInvariantHolds == Spec => []ChecksInvariant
BY ChecksInit, ChecksStep, PTL DEF Spec
-----------------------------------------------------------------------------
(* Types, places and trust.                                                *)

\* The table of a run is a table.
LEMMA TableIsTable ==
  ASSUME StagesFit, state \in {"profiling", "detecting", "completed"}
  PROVE  IsTable(table)
BY ParsedIsTable DEF StagesFit

\* What the stages of a run have handed on.
LEMMA RunIsSound ==
  ASSUME StagesFit, results # NoValue
  PROVE  /\ state \in {"detecting", "completed"}
         /\ IsTable(table) /\ profile = Profile(table)
         /\ \E failing : results = RanWith(failing)
<1>1. state \in {"detecting", "completed"}
  BY DEF StagesFit
<1> QED BY <1>1, TableIsTable DEF StagesFit

\* What a stage hands on has the shape the next one relies on.
THEOREM TypesHold == Spec => []TypeOK
<1>1. ASSUME ChecksInvariant PROVE TypeOK
  <2>1. StagesFit
    BY <1>1 DEF ChecksInvariant
  <2>2. state \in {"parsing", "profiling", "detecting", "completed", "failed"}
        /\ (state = "failed" => table = NoValue /\ trust = NoValue /\ results = NoValue)
    BY <2>1 DEF StagesFit
  <2>3. ASSUME table # NoValue
        PROVE  /\ \A i \in RowIds(table) : DOMAIN table.rows[i] = Cols(table)
               /\ table.unnamed \subseteq Cols(table) /\ table.ragged \subseteq RowIds(table)
    <3>1. IsTable(table)
      BY <2>1, <2>3, TableIsTable DEF StagesFit
    <3>2. \A i \in RowIds(table) : table.rows[i] \in [Cols(table) -> CellValues]
      BY <3>1 DEF IsTable
    <3> QED BY <3>1, <3>2 DEF IsTable
  <2>4. ASSUME profile # NoValue, NEW c \in Cols(table)
        PROVE  profile.columns[c].type \in Types
    <3>1. IsTable(table) /\ profile = Profile(table)
      BY <2>1, <2>4, TableIsTable DEF StagesFit
    <3>2. profile.columns[c].type = ColumnType(table, c)
      <4>1. profile.columns[c] = ColumnProfile(table, c)
        BY <2>4, <3>1, ProfiledColumns
      <4>2. ColumnProfile(table, c).type = ColumnType(table, c)
        BY DEF ColumnProfile
      <4> QED BY <4>1, <4>2
    <3> QED BY <2>4, <3>1, <3>2, TypeOfColumn
  <2>5. ASSUME results # NoValue, NEW f \in Findings(results)
        PROVE  /\ f.columns \subseteq Cols(table) /\ f.rows \subseteq RowIds(table)
               /\ f.severity \in DOMAIN Weight /\ f.confidence \in 0 .. 100
    <3>1. IsTable(table) /\ profile = Profile(table)
          /\ \E failing : results = RanWith(failing)
      BY <2>1, <2>5, RunIsSound
    <3>2. PICK failing : results = RanWith(failing)
      BY <3>1
    <3>3. f \in Findings(RanWith({}))
      BY <2>5, <3>1, <3>2, AllFindings DEF RanWith
    <3> QED BY <3>1, <3>3, AllFindings DEF RanWith
  <2>6. ASSUME trust # NoValue PROVE trust.score \in 0 .. Perfect(profile)
    <3>1. /\ state = "completed" /\ results # NoValue
          /\ trust = Trust(Findings(results), table, profile)
      BY <2>1, <2>6 DEF StagesFit
    <3>2. IsTable(table) /\ profile = Profile(table)
          /\ \E failing : results = RanWith(failing)
      BY <2>1, <3>1, RunIsSound
    <3>3. PICK failing : results = RanWith(failing)
      BY <3>2
    <3> DEFINE whole == Findings(RanWith({}))
    <3>4. Findings(results) \in SUBSET whole /\ IsFiniteSet(whole)
          /\ \A f \in whole : IsScored(f, table)
      BY <3>2, <3>3, AllFindings DEF RanWith, IsScored
    <3>5. profile.rows = Len(table.rows)
      BY <3>2, ProfiledColumns
    <3> HIDE DEF whole
    <3>6. Score(Findings(results), table, profile) \in 0 .. Perfect(profile)
      BY <3>2, <3>4, <3>5, ScoreFalls
    <3> QED BY <3>1, <3>6 DEF Trust
  <2> QED BY <2>2, <2>3, <2>4, <2>5, <2>6 DEF TypeOK
<1> QED BY <1>1, ChecksInvariantHolds, PTL

\* No row of a worksheet moves up over a blank one.
THEOREM RowsKeepTheirPlaceHolds == Spec => []RowsKeepTheirPlace
<1>1. ASSUME ChecksInvariant PROVE RowsKeepTheirPlace
  <2>1. table # NoValue => file \in Files /\ IsReadable(file)
    BY <1>1 DEF ChecksInvariant, StagesFit
  <2> QED BY <2>1, SheetInPlace DEF RowsKeepTheirPlace
<1> QED BY <1>1, ChecksInvariantHolds, PTL

\* A detector that fails never makes a dataset less trusted.
THEOREM FailureOnlyRaisesTrustHolds == Spec => []FailureOnlyRaisesTrust
<1>1. ASSUME ChecksInvariant PROVE FailureOnlyRaisesTrust
  <2> DEFINE whole == RanWith({})
             full == Trust(Findings(whole), table, profile)
  <2>1. SUFFICES ASSUME trust # NoValue
                 PROVE  /\ \A d \in DOMAIN results :
                               results[d].status = "failed" \/ results[d] = whole[d]
                        /\ trust.score >= full.score
                        /\ full.label = "high_confidence" =>
                               trust.label = "high_confidence"
                        /\ trust.label = "not_reliable_for_decision_making" =>
                               full.label = trust.label
    BY DEF FailureOnlyRaisesTrust, RanWith
  <2>2. /\ StagesFit /\ state = "completed" /\ results # NoValue
        /\ trust = Trust(Findings(results), table, profile)
    BY <1>1, <2>1 DEF ChecksInvariant, StagesFit
  <2>3. IsTable(table) /\ profile = Profile(table)
        /\ \E failing : results = RanWith(failing)
    BY <2>2, RunIsSound
  <2>4. PICK failing : results = RanWith(failing)
    BY <2>3
  <2> DEFINE more == Findings(whole)
             some == Findings(results)
  <2>5. \A d \in DOMAIN results : results[d].status = "failed" \/ results[d] = whole[d]
    BY <2>3, <2>4, AllFindings DEF RanWith
  <2>6. some \in SUBSET more /\ IsFiniteSet(more) /\ \A f \in more : IsScored(f, table)
    BY <2>3, <2>4, AllFindings DEF RanWith, IsScored
  <2>7. profile.rows = Len(table.rows)
    BY <2>3, ProfiledColumns
  <2> HIDE DEF whole
  <2>8. /\ Score(some, table, profile) \in 0 .. Perfect(profile)
        /\ Score(more, table, profile) \in 0 .. Perfect(profile)
        /\ Score(more, table, profile) <= Score(some, table, profile)
    <3> HIDE DEF some, more
    <3> QED BY <2>3, <2>6, <2>7, ScoreFalls
  <2> DEFINE high == Score(some, table, profile)
             low == Score(more, table, profile)
  <2>9. /\ trust.score = high /\ trust.label = Label(high, profile)
        /\ full.score = low /\ full.label = Label(low, profile)
    BY <2>2 DEF Trust
  <2>10. Perfect(profile) \in Nat
    BY <2>3, <2>7 DEF Perfect, Rows, IsTable
  <2> HIDE DEF some, more, full, high, low
  <2>11. high \in Nat /\ low \in Nat /\ low <= high
    BY <2>8, <2>10 DEF high, low
  <2>12. /\ Label(low, profile) = "high_confidence" =>
                Label(high, profile) = "high_confidence"
         /\ Label(high, profile) = "not_reliable_for_decision_making" =>
                Label(low, profile) = "not_reliable_for_decision_making"
    BY <2>10, <2>11, LabelsAreOrdered
  <2> QED BY <2>5, <2>9, <2>11, <2>12
<1> QED BY <1>1, ChecksInvariantHolds, PTL
-----------------------------------------------------------------------------
(* Counts and rows.                                                        *)

\* Findings of one column each, and the rows that findings flag in a column.
EachOf(S, R, d, severity, confidence) ==
    {Finding(d, severity, confidence, {k}, R[k]) : k \in S}
RowsIn(D, c) == UNION {f.rows : f \in {f \in D : c \in f.columns}}

\* Of findings of one column each, those of a column are its one, if any.
LEMMA OneColumn ==
  ASSUME NEW D, NEW S, NEW R, NEW d, NEW severity, NEW confidence,
         D = EachOf(S, R, d, severity, confidence), NEW c
  PROVE  /\ RowsIn(D, c) = IF c \in S THEN R[c] ELSE {}
         /\ \A f \in {f \in D : c \in f.columns} : c \in S /\ f.rows = R[c]
<1>1. \A f \in D : \E k \in S : f.columns = {k} /\ f.rows = R[k]
  BY DEF Finding, EachOf
<1>2. ASSUME NEW k \in S PROVE \E f \in D : f.columns = {k} /\ f.rows = R[k]
  <2>1. Finding(d, severity, confidence, {k}, R[k]) \in D
    BY DEF EachOf
  <2> QED BY <2>1 DEF Finding
<1>3. \A f \in {f \in D : c \in f.columns} : c \in S /\ f.rows = R[c]
  BY <1>1
<1>4. c \in S => \E f \in {f \in D : c \in f.columns} : f.rows = R[c]
  BY <1>2
<1> DEFINE E == {f \in D : c \in f.columns}
<1>5. UNION {f.rows : f \in E} = IF c \in S THEN R[c] ELSE {}
  <2> HIDE DEF E
  <2>1. (\A f \in E : c \in S /\ f.rows = R[c])
        /\ (c \in S => \E f \in E : f.rows = R[c])
    BY <1>3, <1>4 DEF E
  <2>2. CASE c \in S
    BY <2>1, <2>2
  <2>3. CASE c \notin S
    <3>1. E = {}
      BY <2>1, <2>3
    <3> QED BY <2>3, <3>1
  <2> QED BY <2>2, <2>3
<1> QED BY <1>3, <1>5 DEF RowsIn

\* A detector that ran has found what there is; one that failed has found nothing.
LEMMA RanFinds ==
  ASSUME StagesFit, results # NoValue, NEW d \in DetectorIds
  PROVE  /\ d \in DOMAIN results
         /\ results[d].status = "success" =>
                results[d].findings = Found(table, profile)[d]
         /\ results[d].status = "success" /\ d = "mixed_types" =>
                results[d].observations = MixedTypes(table, profile)
         /\ results[d].findings \subseteq Found(table, profile)[d]
<1>1. PICK failing : results = RanWith(failing)
  BY RunIsSound
<1>2. DOMAIN Found(table, profile) = DetectorIds
  BY RunIsSound, DetectorsFind
<1>3. results[d] = IF d \in failing
                   THEN [status |-> "failed", findings |-> {}, observations |-> {}]
                   ELSE [status |-> "success", findings |-> Found(table, profile)[d],
                         observations |-> IF d \in DOMAIN Observed(table, profile)
                                          THEN Observed(table, profile)[d] ELSE {}]
  BY <1>1, <1>2 DEF RanWith, Results
<1>4. DOMAIN results = DetectorIds
  BY <1>1, <1>2 DEF RanWith, Results
<1>5. "mixed_types" \in DOMAIN Observed(table, profile)
      /\ Observed(table, profile)["mixed_types"] = MixedTypes(table, profile)
  BY DEF Observed
<1>6. CASE d \in failing
  BY <1>3, <1>4, <1>6
<1>7. CASE d \notin failing
  BY <1>3, <1>4, <1>5, <1>7
<1> QED BY <1>6, <1>7

\* The metrics of a column, and what they count.
LEMMA MetricsCount ==
  ASSUME NEW t, IsTable(t), NEW c \in Cols(t)
  PROVE  LET m == Profile(t).columns[c]
             Cell(i) == Read[At(t, i, c)]
         IN /\ m.type = ColumnType(t, c)
            /\ m.nulls = Cardinality(RowIds(t) \ Present(t, c))
            /\ m.nulls = Len(t.rows) - Cardinality(Present(t, c))
            /\ m.padded = Cardinality(IF m.type \in TextFamily
                                      THEN {i \in Present(t, c) : Cell(i).strip # At(t, i, c)}
                                      ELSE {})
            /\ m.future = Cardinality(IF m.type = "date"
                                      THEN {i \in Present(t, c) : Cell(i).day > Today}
                                      ELSE {})
            /\ m.numeric.extreme =
                   Cardinality(IF m.type = "numeric"
                               THEN {i \in Present(t, c) :
                                        \/ 8 * Cell(i).number < m.numeric.fence.lower
                                        \/ 8 * Cell(i).number > m.numeric.fence.upper}
                               ELSE {})
            /\ m.type = "numeric" =>
                   m.numeric.negative =
                       Cardinality({i \in Present(t, c) : Cell(i).number < 0})
<1> DEFINE m == ColumnProfile(t, c)
           Cell(i) == Read[At(t, i, c)]
<1>1. Profile(t).columns[c] = m
  BY ProfiledColumns
<1>2. m.type = ColumnType(t, c)
  BY DEF ColumnProfile
<1>3. m.nulls = Len(t.rows) - Cardinality(Present(t, c))
  BY DEF ColumnProfile
<1>4. m.nulls = Cardinality(RowIds(t) \ Present(t, c))
  <2> DEFINE n == Len(t.rows)
             there == Present(t, c)
             rows == RowIds(t)
  <2>1. n \in Nat /\ rows = 1 .. n
    BY DEF IsTable, RowIds
  <2>2. there \subseteq rows /\ Cardinality(there) \in 0 .. n /\ IsFiniteSet(there)
    BY CellsAreRead
  <2>3. m.nulls = n - Cardinality(there)
    BY <1>3
  <2> HIDE DEF m, n, there, rows
  <2>4. IsFiniteSet(rows) /\ Cardinality(rows) = n
    <3>1. IsFiniteSet(1 .. n) /\ Cardinality(1 .. n) = n
      BY ONLY <2>1, FS_Interval
    <3> QED BY <2>1, <3>1
  <2>5. rows \cap there = there
    BY <2>2
  <2>6. Cardinality(rows \ there) = Cardinality(rows) - Cardinality(rows \cap there)
    BY <2>4, FS_Difference
  <2>7. m.nulls = Cardinality(rows \ there)
    BY <2>3, <2>4, <2>5, <2>6
  <2> QED BY <2>7 DEF rows, there
<1>5. Cardinality({}) = 0
  BY FS_EmptySet
<1>6. m.padded = Cardinality(IF m.type \in TextFamily
                             THEN {i \in Present(t, c) : Cell(i).strip # At(t, i, c)}
                             ELSE {})
  BY <1>5 DEF ColumnProfile
<1>7. m.future = Cardinality(IF m.type = "date"
                             THEN {i \in Present(t, c) : Cell(i).day > Today} ELSE {})
  BY <1>5 DEF ColumnProfile
<1>8. m.numeric = IF m.type = "numeric" THEN Numeric(t, c) ELSE NoNumbers
  BY DEF ColumnProfile
<1>9. m.numeric.extreme =
          Cardinality(IF m.type = "numeric"
                      THEN {i \in Present(t, c) :
                               \/ 8 * Cell(i).number < m.numeric.fence.lower
                               \/ 8 * Cell(i).number > m.numeric.fence.upper}
                      ELSE {})
  <2>1. CASE m.type = "numeric"
    <3>1. m.numeric = Numeric(t, c)
      BY <1>8, <2>1
    <3>2. Numeric(t, c).extreme =
              Cardinality({i \in Present(t, c) :
                               \/ 8 * Cell(i).number < Numeric(t, c).fence.lower
                               \/ 8 * Cell(i).number > Numeric(t, c).fence.upper})
      BY DEF Numeric
    <3> HIDE DEF m
    <3> QED BY <2>1, <3>1, <3>2
  <2>2. CASE m.type # "numeric"
    <3>1. m.numeric.extreme = 0
      BY <1>8, <2>2 DEF NoNumbers
    <3> HIDE DEF m
    <3> QED BY <1>5, <2>2, <3>1
  <2> QED BY <2>1, <2>2
<1>10. m.type = "numeric" =>
           m.numeric.negative = Cardinality({i \in Present(t, c) : Cell(i).number < 0})
  BY <1>8 DEF Numeric
<1> HIDE DEF m
<1> QED BY <1>1, <1>2, <1>3, <1>4, <1>6, <1>7, <1>9, <1>10

\* Findings of one column each count what was counted, where the detector looks
\* at a column and flags the rows that were counted, or there are none.
LEMMA CountedOnce ==
  ASSUME NEW D, NEW S, NEW R, NEW d, NEW severity, NEW confidence,
         D = EachOf(S, R, d, severity, confidence), NEW c, NEW Q,
         c \in S => R[c] = Q, c \notin S => Q = {}
  PROVE  Cardinality(RowsIn(D, c)) = Cardinality(Q)
<1>1. RowsIn(D, c) = IF c \in S THEN R[c] ELSE {}
  BY OneColumn
<1> QED BY <1>1

\* The rows a detector collects are those that profiling counts.
LEMMA CollectedAsCounted ==
  ASSUME NEW t, IsTable(t), NEW c \in Cols(t), NEW Q \in SUBSET Present(t, c)
  PROVE  IsFiniteSet(Q) /\ Cardinality(Q) \in Nat /\ (Cardinality(Q) = 0 <=> Q = {})
<1>1. IsFiniteSet(Q)
  BY CellsAreRead, FS_Subset
<1> QED BY <1>1, FS_CardinalityType, FS_EmptySet

\* Cells with outer whitespace are flagged as they are counted.
LEMMA WhitespaceCounts ==
  ASSUME NEW t, IsTable(t), NEW p, p = Profile(t), NEW c \in Cols(t)
  PROVE  Cardinality(RowsIn(Whitespace(t, p), c))
            = p.columns[c].padded
<1> DEFINE m == p.columns[c]
           Hits(k) == {i \in RowIds(t) : LET v == LookUp(t, i, k) IN
                          ~ IsMissing(v) /\ Read[v].strip # v}
           S == {k \in OfType(p, TextFamily) : p.columns[k].padded > 0}
           R == [k \in S |-> Hits(k)]
           P == {i \in Present(t, c) : Read[At(t, i, c)].strip # At(t, i, c)}
           Q == IF m.type \in TextFamily THEN P ELSE {}
<1>1. Whitespace(t, p)
          = EachOf(S, R, "leading_trailing_whitespace", "low", 100)
  <2>1. Whitespace(t, p)
            = {Finding("leading_trailing_whitespace", "low", 100, {k}, Hits(k)) : k \in S}
    BY DEF Whitespace, InEach
  <2>2. \A k \in S : R[k] = Hits(k)
    OBVIOUS
  <2> HIDE DEF S, R, Hits
  <2> QED BY <2>1, <2>2 DEF EachOf
<1>2. c \in S <=> m.type \in TextFamily /\ m.padded > 0
  BY ProfiledColumns DEF OfType
<1>3. Hits(c) = P
  BY LookUpIsAt DEF Present
<1>4. m.padded = Cardinality(Q)
  BY MetricsCount
<1>5. Cardinality(P) \in Nat /\ (Cardinality(P) = 0 <=> P = {})
  BY CollectedAsCounted
<1>6. c \in S => R[c] = Hits(c)
  OBVIOUS
<1> HIDE DEF S, R, P, m, Hits
<1>7. c \in S => R[c] = Q
  BY <1>2, <1>3, <1>6
<1>8. c \notin S => Q = {}
  BY <1>2, <1>4, <1>5
<1> HIDE DEF Q
<1>9. Cardinality(RowsIn(Whitespace(t, p), c))
          = Cardinality(Q)
  BY <1>1, <1>7, <1>8, CountedOnce
<1> QED BY <1>4, <1>9 DEF m

\* Dates after today are flagged as they are counted.
LEMMA FutureDatesCount ==
  ASSUME NEW t, IsTable(t), NEW p, p = Profile(t), NEW c \in Cols(t)
  PROVE  Cardinality(RowsIn(FutureDates(t, p), c))
            = p.columns[c].future
<1> DEFINE m == p.columns[c]
           Hits(k) == There(t, k, LAMBDA r : r.shape = "date" /\ r.day > Today)
           S == {k \in OfType(p, {"date"}) : Hits(k) # {}}
           R == [k \in S |-> Hits(k)]
           P == {i \in Present(t, c) : Read[At(t, i, c)].day > Today}
           Q == IF m.type = "date" THEN P ELSE {}
<1>1. FutureDates(t, p) = EachOf(S, R, "future_dates", "medium", 100)
  BY DEF FutureDates, InEach, EachOf
<1>2. c \in S <=> m.type = "date" /\ Hits(c) # {}
  BY ProfiledColumns DEF OfType
<1>3. m.type = ColumnType(t, c) /\ m.future = Cardinality(Q)
  BY MetricsCount
<1>4. m.type = "date" => Hits(c) = P
  <2>1. SUFFICES ASSUME m.type = "date" PROVE Hits(c) = P
    OBVIOUS
  <2>2. OfShape(t, c, "date") = Present(t, c)
    BY <1>3, <2>1, TypeOfColumn
  <2>3. \A i \in Present(t, c) : Read[At(t, i, c)].shape = "date"
    BY <2>2 DEF OfShape
  <2> QED BY <2>3, LookUpIsAt DEF There, Present
<1>5. c \in S => R[c] = Hits(c)
  OBVIOUS
<1> HIDE DEF S, R, P, m, Hits
<1>6. c \in S => R[c] = Q
  BY <1>2, <1>4, <1>5
<1>7. c \notin S => Q = {}
  BY <1>2, <1>4
<1> HIDE DEF Q
<1>8. Cardinality(RowsIn(FutureDates(t, p), c))
          = Cardinality(Q)
  BY <1>1, <1>6, <1>7, CountedOnce
<1> QED BY <1>3, <1>8 DEF m

\* Numbers outside the fences are flagged as they are counted.
LEMMA OutliersCount ==
  ASSUME NEW t, IsTable(t), NEW p, p = Profile(t), NEW c \in Cols(t)
  PROVE  Cardinality(RowsIn(Outliers(t, p), c))
            = p.columns[c].numeric.extreme
<1> DEFINE m == p.columns[c]
           Hits(k) == There(t, k, LAMBDA r :
                         /\ r.shape = "numeric"
                         /\ \/ 8 * r.number < p.columns[k].numeric.fence.lower
                            \/ 8 * r.number > p.columns[k].numeric.fence.upper)
           S == {k \in OfType(p, {"numeric"}) :
                    p.columns[k].numeric.extreme > 0 /\ Hits(k) # {}}
           R == [k \in S |-> Hits(k)]
           P == {i \in Present(t, c) :
                    \/ 8 * Read[At(t, i, c)].number < m.numeric.fence.lower
                    \/ 8 * Read[At(t, i, c)].number > m.numeric.fence.upper}
           Q == IF m.type = "numeric" THEN P ELSE {}
<1>1. Outliers(t, p) = EachOf(S, R, "extreme_outliers", "medium", 70)
  <2>1. Outliers(t, p) = {Finding("extreme_outliers", "medium", 70, {k}, Hits(k)) : k \in S}
    BY DEF Outliers, InEach
  <2>2. \A k \in S : R[k] = Hits(k)
    OBVIOUS
  <2> HIDE DEF S, R, Hits
  <2>3. QED
    BY <2>1, <2>2 DEF EachOf
<1>2. c \in S <=> m.type = "numeric" /\ m.numeric.extreme > 0 /\ Hits(c) # {}
  BY ProfiledColumns, ZenonT(40) DEF OfType
<1>3. m.type = ColumnType(t, c) /\ m.numeric.extreme = Cardinality(Q)
  <2> DEFINE o == Profile(t).columns[c]
  <2>1. /\ o.type = ColumnType(t, c)
        /\ o.numeric.extreme =
               Cardinality(IF o.type = "numeric"
                           THEN {i \in Present(t, c) :
                                    \/ 8 * Read[At(t, i, c)].number < o.numeric.fence.lower
                                    \/ 8 * Read[At(t, i, c)].number > o.numeric.fence.upper}
                           ELSE {})
    BY ONLY IsTable(t), c \in Cols(t), MetricsCount
  <2>2. m = o
    OBVIOUS
  <2> HIDE DEF m, o
  <2> QED BY <2>1, <2>2 DEF Q, P
<1>4. m.type = "numeric" => Hits(c) = P
  <2>1. SUFFICES ASSUME m.type = "numeric" PROVE Hits(c) = P
    OBVIOUS
  <2>2. OfShape(t, c, "numeric") = Present(t, c)
    BY <1>3, <2>1, TypeOfColumn
  <2>3. \A i \in Present(t, c) : Read[At(t, i, c)].shape = "numeric"
    BY <2>2 DEF OfShape
  <2> QED BY <2>3, LookUpIsAt DEF There, Present
<1>5. c \in S => R[c] = Hits(c)
  OBVIOUS
<1>6. Cardinality(P) \in Nat /\ (Cardinality(P) = 0 <=> P = {})
  BY CollectedAsCounted
<1> HIDE DEF S, R, P, m, Hits
<1>7. c \in S => R[c] = Q
  BY <1>2, <1>4, <1>5
<1>8. c \notin S => Q = {}
  BY <1>2, <1>3, <1>4, <1>6
<1> HIDE DEF Q
<1>9. Cardinality(RowsIn(Outliers(t, p), c))
          = Cardinality(Q)
  BY <1>1, <1>7, <1>8, CountedOnce
<1> QED BY <1>3, <1>9 DEF m

\* Negative numbers are flagged as they are counted, if they are.
LEMMA NegativesCount ==
  ASSUME NEW t, IsTable(t), NEW p, p = Profile(t), NEW c \in Cols(t),
         NEW f \in Negatives(t, p), c \in f.columns
  PROVE  Cardinality(f.rows) = p.columns[c].numeric.negative
<1> DEFINE m == p.columns[c]
           Hits(k) == There(t, k, LAMBDA r : r.shape = "numeric" /\ r.number < 0)
           P == {i \in Present(t, c) : Read[At(t, i, c)].number < 0}
<1>1. f.rows = Hits(c) /\ m.type = "numeric"
  <2>1. PICK k \in OfType(p, {"numeric"}) :
            f = Finding("negative_likely_non_negative_values", "medium", 70, {k}, Hits(k))
    BY DEF Negatives, InEach
  <2> HIDE DEF Hits
  <2>2. k = c /\ f.rows = Hits(k)
    BY <2>1 DEF Finding
  <2> QED BY <2>2 DEF OfType
<1>2. m.type = ColumnType(t, c) /\ (m.type = "numeric" => m.numeric.negative = Cardinality(P))
  <2>1. m = Profile(t).columns[c]
    OBVIOUS
  <2> HIDE DEF m
  <2> QED BY <2>1, MetricsCount
<1>3. Hits(c) = P
  <2>1. OfShape(t, c, "numeric") = Present(t, c)
    BY <1>1, <1>2, TypeOfColumn
  <2>2. \A i \in Present(t, c) : Read[At(t, i, c)].shape = "numeric"
    BY <2>1 DEF OfShape
  <2> QED BY <2>2, LookUpIsAt DEF There, Present
<1> HIDE DEF m, Hits, P
<1>4. m.numeric.negative = Cardinality(f.rows)
  BY <1>1, <1>2, <1>3
<1> QED BY <1>4 DEF m

\* The rows that lack a cell are those that profiling did not find one in.
LEMMA LackingCounts ==
  ASSUME NEW t, IsTable(t), NEW p, p = Profile(t), NEW c \in Cols(t),
         NEW f \in ExcessiveMissing(t, p) \cup MissingIdentifier(t, p), c \in f.columns
  PROVE  Cardinality(f.rows) = p.columns[c].nulls
<1>1. f.rows = Lacking(t, c)
  <2>1. PICK k, d, severity : f = Finding(d, severity, 100, {k}, Lacking(t, k))
    BY DEF ExcessiveMissing, MissingIdentifier, InEach
  <2> QED BY <2>1 DEF Finding
<1>2. Lacking(t, c) = RowIds(t) \ Present(t, c)
  BY LookUpIsAt DEF Lacking, Present
<1>3. p.columns[c].nulls = Cardinality(RowIds(t) \ Present(t, c))
  BY MetricsCount
<1> QED BY <1>1, <1>2, <1>3

\* A column of mixed type shows two shapes, and whichever of them is held to be the
\* usual one, rows of the other are observed.
LEMMA MixedIsObserved ==
  ASSUME NEW t, IsTable(t), NEW p, p = Profile(t), NEW c \in Cols(t),
         p.columns[c].type = "mixed"
  PROVE  \E o \in MixedTypes(t, p) : o.column = c /\ o.rows # {}
<1> DEFINE Of(k, s) == There(t, k, LAMBDA r : r.shape = s)
           present(k) == {s \in Range(Shapes) : Of(k, s) # {}}
           dominant(k) == Dominant(Shapes, LAMBDA s : Cardinality(Of(k, s)))
           Hits(k) == There(t, k, LAMBDA r : r.shape # dominant(k))
<1>1. ColumnType(t, c) = "mixed" /\ c \in OfType(p, {"mixed"})
  <2>1. p.columns[c].type = ColumnType(t, c)
    BY MetricsCount
  <2>2. c \in DOMAIN p.columns
    BY ProfiledColumns
  <2> QED BY <2>1, <2>2 DEF OfType
<1>2. PICK s \in {"boolean", "date", "numeric"} :
          OfShape(t, c, s) # {} /\ OfShape(t, c, s) # Present(t, c)
  BY <1>1, TypeOfColumn
<1>3. PICK i \in Present(t, c), j \in Present(t, c) :
          Read[At(t, i, c)].shape = s /\ Read[At(t, j, c)].shape # s
  BY <1>2 DEF OfShape
<1> DEFINE u == Read[At(t, j, c)].shape
<1>4. s \in Range(Shapes) /\ u \in Range(Shapes) /\ s # u
  BY <1>3, CellsAreRead, ShapeNames DEF Present, ShapesAre
<1>5. /\ i \in RowIds(t) /\ ~ IsMissing(LookUp(t, i, c)) /\ Read[LookUp(t, i, c)].shape = s
      /\ j \in RowIds(t) /\ ~ IsMissing(LookUp(t, j, c)) /\ Read[LookUp(t, j, c)].shape = u
  BY <1>3, LookUpIsAt DEF Present
<1> HIDE DEF u
<1>6. i \in Of(c, s) /\ j \in Of(c, u)
  BY <1>5 DEF There
<1>7. s \in present(c) /\ u \in present(c)
  <2> HIDE DEF Of
  <2> QED BY <1>4, <1>6
<1>8. Cardinality(present(c)) >= 2
  <2>1. IsFiniteSet(present(c))
    <3>1. present(c) \in SUBSET {"boolean", "date", "numeric", "text", "text"}
      BY ShapeNames DEF ShapesAre
    <3> HIDE DEF present
    <3> QED BY <3>1, FewAreFinite, FS_Subset
  <2> HIDE DEF present
  <2>2. {s, u} \in SUBSET present(c) /\ Cardinality({s, u}) = 2 /\ IsFiniteSet({s, u})
    <3>1. Cardinality({s}) = 1 /\ IsFiniteSet({s})
      BY FS_Singleton
    <3>2. {s, u} = {s} \cup {u} /\ u \notin {s}
      BY <1>4
    <3>3. IsFiniteSet({s} \cup {u}) /\ Cardinality({s} \cup {u}) = Cardinality({s}) + 1
      BY <3>1, <3>2, FS_AddElement
    <3> QED BY <1>7, <3>1, <3>2, <3>3
  <2>3. Cardinality({s, u}) <= Cardinality(present(c))
    BY <2>1, <2>2, FS_Subset
  <2> QED BY <2>1, <2>2, <2>3, FS_CardinalityType
<1>9. Observation("mixed_types", c, Hits(c)) \in MixedTypes(t, p)
  <2>1. MixedTypes(t, p) =
            {Observation("mixed_types", k, Hits(k)) :
                k \in {k \in OfType(p, {"mixed"}) : Cardinality(present(k)) >= 2}}
    BY DEF MixedTypes
  <2> HIDE DEF present, Hits
  <2> QED BY <1>1, <1>8, <2>1
<1>10. Hits(c) # {}
  <2> DEFINE d == dominant(c)
  <2>1. s # d \/ u # d
    BY <1>4
  <2> HIDE DEF d
  <2>2. There(t, c, LAMBDA r : r.shape # d) # {}
    BY <1>5, <2>1 DEF There
  <2> QED BY <2>2 DEF d
<1> HIDE DEF Hits
<1> QED BY <1>9, <1>10 DEF Observation

\* Every row beyond the first of its kind is a duplicate, and the rows that are not
\* flagged are of a kind of their own.
LEMMA DuplicatesCount ==
  ASSUME NEW t, IsTable(t), NEW p, p = Profile(t), NEW twins,
         twins = UNION {f.rows : f \in DuplicateRows(t)}
  PROVE  p.duplicates = Cardinality(twins) - Cardinality({t.rows[i] : i \in twins})
<1> DEFINE Row(i) == [c \in Cols(t) |-> LookUp(t, i, c)]
           again == {i \in RowIds(t) : \E j \in RowIds(t) \ {i} : Row(j) = Row(i)}
           alone == RowIds(t) \ again
           Kinds(rows) == {t.rows[i] : i \in rows}
           n == Len(t.rows)
<1>1. twins = again
  <2>1. DuplicateRows(t) =
            {Finding("exact_duplicate_rows", "medium", 100, {}, again) :
                x \in {y \in {again} : y # {}}}
    BY DEF DuplicateRows
  <2> HIDE DEF again
  <2>2. CASE again = {}
    BY <2>1, <2>2
  <2>3. CASE again # {}
    <3>1. DuplicateRows(t) = {Finding("exact_duplicate_rows", "medium", 100, {}, again)}
      BY <2>1, <2>3
    <3>2. Finding("exact_duplicate_rows", "medium", 100, {}, again).rows = again
      BY DEF Finding
    <3> QED BY <3>1, <3>2
  <2> QED BY <2>2, <2>3
<1>2. \A i \in RowIds(t) : Row(i) = t.rows[i]
  <2>1. ASSUME NEW i \in RowIds(t) PROVE Row(i) = t.rows[i]
    <3>1. t.rows[i] \in [Cols(t) -> CellValues]
      BY DEF IsTable
    <3>2. \A c \in Cols(t) : LookUp(t, i, c) = t.rows[i][c]
      BY LookUpIsAt DEF At
    <3>3. Row(i) = [c \in Cols(t) |-> t.rows[i][c]]
      BY <3>2
    <3> HIDE DEF Row
    <3> QED BY <3>1, <3>3
  <2> QED BY <2>1
<1>3. again \subseteq RowIds(t)
      /\ \A i, j \in RowIds(t) : i # j /\ t.rows[i] = t.rows[j] => i \in again
  <2> HIDE DEF Row
  <2> QED BY <1>2
<1> HIDE DEF Row, again
<1>4. n \in Nat /\ IsFiniteSet(RowIds(t)) /\ Cardinality(RowIds(t)) = n
  <2>1. n \in Nat /\ RowIds(t) = 1 .. n
    BY DEF IsTable, RowIds
  <2> HIDE DEF n
  <2>2. IsFiniteSet(1 .. n) /\ Cardinality(1 .. n) = n
    BY ONLY <2>1, FS_Interval
  <2> QED BY <2>1, <2>2
<1>5. /\ IsFiniteSet(again) /\ IsFiniteSet(alone)
      /\ Cardinality(again) \in Nat /\ Cardinality(alone) \in Nat
      /\ n = Cardinality(again) + Cardinality(alone)
  <2>1. IsFiniteSet(again) /\ IsFiniteSet(alone)
    BY <1>3, <1>4, FS_Subset
  <2>2. RowIds(t) = again \cup alone /\ again \cap alone = {}
    BY <1>3
  <2> HIDE DEF alone, n
  <2>3. Cardinality(again \cup alone)
            = Cardinality(again) + Cardinality(alone) - Cardinality(again \cap alone)
    BY <2>1, FS_Union
  <2>4. Cardinality(again) \in Nat /\ Cardinality(alone) \in Nat
    BY <2>1, FS_CardinalityType
  <2>5. Cardinality(again \cap alone) = 0
    BY <2>2, FS_EmptySet
  <2>6. Cardinality(again \cup alone) = Cardinality(again) + Cardinality(alone)
    BY ONLY <2>3, <2>4, <2>5
  <2> QED BY <1>4, <2>1, <2>2, <2>4, <2>6
<1>6. /\ IsFiniteSet(Kinds(again)) /\ Cardinality(Kinds(again)) \in Nat
      /\ IsFiniteSet(Kinds(alone)) /\ Cardinality(Kinds(alone)) = Cardinality(alone)
  <2> DEFINE f == [i \in again |-> t.rows[i]]
             g == [i \in alone |-> t.rows[i]]
  <2>1. IsFiniteSet({f[i] : i \in DOMAIN f})
    <3>1. f = [i \in DOMAIN f |-> f[i]] /\ DOMAIN f = again
      OBVIOUS
    <3> HIDE DEF f
    <3> QED BY <1>5, <3>1, FiniteImage
  <2>2. IsFiniteSet({g[i] : i \in DOMAIN g})
        /\ Cardinality({g[i] : i \in DOMAIN g}) = Cardinality(DOMAIN g)
    <3>1. g = [i \in DOMAIN g |-> g[i]] /\ DOMAIN g = alone
      OBVIOUS
    <3>2. \A i, j \in DOMAIN g : g[i] = g[j] => i = j
      BY <1>3
    <3> HIDE DEF g
    <3> QED BY <1>5, <3>1, <3>2, FiniteImage
  <2>3. {f[i] : i \in DOMAIN f} = Kinds(again) /\ {g[i] : i \in DOMAIN g} = Kinds(alone)
        /\ DOMAIN g = alone
    OBVIOUS
  <2> HIDE DEF f, g, Kinds
  <2>4. IsFiniteSet(Kinds(again))
    BY <2>1, <2>3
  <2> QED BY <2>2, <2>3, <2>4, FS_CardinalityType
<1>7. Kinds(RowIds(t)) = Kinds(again) \cup Kinds(alone)
      /\ Kinds(again) \cap Kinds(alone) = {}
  <2>1. \A k \in Kinds(RowIds(t)) : k \in Kinds(again) \cup Kinds(alone)
    OBVIOUS
  <2>2. Kinds(again) \cup Kinds(alone) \subseteq Kinds(RowIds(t))
    BY <1>3
  <2>3. ASSUME NEW i \in again, NEW j \in alone PROVE t.rows[i] # t.rows[j]
    BY <1>3, <2>3
  <2>4. Kinds(again) \cap Kinds(alone) = {}
    BY <2>3
  <2> QED BY <2>1, <2>2, <2>4
<1>8. Cardinality(Kinds(RowIds(t))) = Cardinality(Kinds(again)) + Cardinality(alone)
  <2> HIDE DEF Kinds, alone
  <2>1. Cardinality(Kinds(again) \cup Kinds(alone))
            = Cardinality(Kinds(again)) + Cardinality(Kinds(alone))
                - Cardinality(Kinds(again) \cap Kinds(alone))
    BY <1>6, FS_Union
  <2>2. Cardinality(Kinds(again) \cap Kinds(alone)) = 0
    BY <1>7, FS_EmptySet
  <2>3. Cardinality(Kinds(alone)) = Cardinality(alone)
        /\ Cardinality(Kinds(again)) \in Nat /\ Cardinality(alone) \in Nat
    BY <1>5, <1>6
  <2>4. Cardinality(Kinds(again) \cup Kinds(alone))
            = Cardinality(Kinds(again)) + Cardinality(alone)
    BY ONLY <2>1, <2>2, <2>3
  <2> QED BY <1>7, <2>4
<1>9. p.duplicates = n - Cardinality(Kinds(RowIds(t)))
  BY DEF Profile
<1>10. n - Cardinality(Kinds(RowIds(t))) = Cardinality(again) - Cardinality(Kinds(again))
  <2> HIDE DEF Kinds, alone, n
  <2> QED BY <1>5, <1>6, <1>8
<1> QED BY <1>1, <1>9, <1>10

\* What a detector flags on the strength of a metric is what the metric counted.
THEOREM CountsAgreeWithRowsHolds == Spec => []CountsAgreeWithRows
<1>1. ASSUME ChecksInvariant PROVE CountsAgreeWithRows
  <2> DEFINE Of(d, c) == {f \in results[d].findings : c \in f.columns}
             Ran(d) == results[d].status = "success"
             Counted(d, c, n) == Ran(d) => Cardinality(UNION {f.rows : f \in Of(d, c)}) = n
             CountedIfFound(d, c, n) == \A f \in Of(d, c) : Cardinality(f.rows) = n
             twins == UNION {f.rows : f \in results["exact_duplicate_rows"].findings}
  <2>1. SUFFICES ASSUME results # NoValue PROVE CountsAgreeWithRows
    BY DEF CountsAgreeWithRows
  <2>2. StagesFit
    BY <1>1 DEF ChecksInvariant
  <2>3. IsTable(table) /\ profile = Profile(table)
    BY <2>1, <2>2, RunIsSound
  <2>4. \A d \in DetectorIds :
            /\ Ran(d) => results[d].findings = Found(table, profile)[d]
            /\ Ran(d) /\ d = "mixed_types" =>
                   results[d].observations = MixedTypes(table, profile)
            /\ results[d].findings \subseteq Found(table, profile)[d]
    BY <2>1, <2>2, RanFinds
  <2> DEFINE F == Found(table, profile)
  <2>5. /\ F["leading_trailing_whitespace"] = Whitespace(table, profile)
        /\ F["future_dates"] = FutureDates(table, profile)
        /\ F["extreme_outliers"] = Outliers(table, profile)
        /\ F["negative_likely_non_negative_values"] = Negatives(table, profile)
        /\ F["excessive_missing_values"] = ExcessiveMissing(table, profile)
        /\ F["missing_likely_identifier"] = MissingIdentifier(table, profile)
        /\ F["exact_duplicate_rows"] = DuplicateRows(table)
    BY DEF Found
  <2> HIDE DEF F
  <2>6. {"leading_trailing_whitespace", "future_dates", "extreme_outliers",
         "negative_likely_non_negative_values", "excessive_missing_values",
         "missing_likely_identifier", "exact_duplicate_rows", "mixed_types"}
            \subseteq DetectorIds
    BY DEF DetectorIds
  <2>7. ASSUME NEW c \in Cols(table)
        PROVE  LET m == profile.columns[c]
               IN /\ Counted("leading_trailing_whitespace", c, m.padded)
                  /\ Counted("future_dates", c, m.future)
                  /\ Counted("extreme_outliers", c, m.numeric.extreme)
                  /\ CountedIfFound("negative_likely_non_negative_values", c,
                                    m.numeric.negative)
                  /\ CountedIfFound("excessive_missing_values", c, m.nulls)
                  /\ CountedIfFound("missing_likely_identifier", c, m.nulls)
                  /\ m.type = "mixed" /\ Ran("mixed_types") =>
                         \E o \in results["mixed_types"].observations :
                             o.column = c /\ o.rows # {}
    <3> DEFINE m == profile.columns[c]
    <3>1. Counted("leading_trailing_whitespace", c, m.padded)
      <4>1. Cardinality(RowsIn(Whitespace(table, profile), c)) = m.padded
        BY <2>3, WhitespaceCounts
      <4> QED BY <2>4, <2>5, <2>6, <4>1 DEF RowsIn, F
    <3>2. Counted("future_dates", c, m.future)
      <4>1. Cardinality(RowsIn(FutureDates(table, profile), c)) = m.future
        BY <2>3, FutureDatesCount
      <4> QED BY <2>4, <2>5, <2>6, <4>1 DEF RowsIn, F
    <3>3. Counted("extreme_outliers", c, m.numeric.extreme)
      <4>1. Cardinality(RowsIn(Outliers(table, profile), c)) = m.numeric.extreme
        BY <2>3, OutliersCount
      <4> QED BY <2>4, <2>5, <2>6, <4>1 DEF RowsIn, F
    <3>4. CountedIfFound("negative_likely_non_negative_values", c, m.numeric.negative)
      <4>1. results["negative_likely_non_negative_values"].findings
                \subseteq Negatives(table, profile)
        BY <2>4, <2>5, <2>6 DEF F
      <4> QED BY <2>3, <4>1, NegativesCount
    <3>5. CountedIfFound("excessive_missing_values", c, m.nulls)
      <4>1. results["excessive_missing_values"].findings
                \subseteq ExcessiveMissing(table, profile)
        BY <2>4, <2>5, <2>6 DEF F
      <4> QED BY <2>3, <4>1, LackingCounts
    <3>6. CountedIfFound("missing_likely_identifier", c, m.nulls)
      <4>1. results["missing_likely_identifier"].findings
                \subseteq MissingIdentifier(table, profile)
        BY <2>4, <2>5, <2>6 DEF F
      <4> QED BY <2>3, <4>1, LackingCounts
    <3>7. m.type = "mixed" /\ Ran("mixed_types") =>
              \E o \in results["mixed_types"].observations : o.column = c /\ o.rows # {}
      <4>1. Ran("mixed_types") =>
                results["mixed_types"].observations = MixedTypes(table, profile)
        BY <2>4, <2>6
      <4> QED BY <2>3, <4>1, MixedIsObserved
    <3> HIDE DEF m, Counted, CountedIfFound, Ran
    <3> QED BY <3>1, <3>2, <3>3, <3>4, <3>5, <3>6, <3>7 DEF m
  <2>8. Ran("exact_duplicate_rows") =>
            profile.duplicates =
                Cardinality(twins) - Cardinality({table.rows[i] : i \in twins})
    <3>1. Ran("exact_duplicate_rows") =>
              twins = UNION {f.rows : f \in DuplicateRows(table)}
      BY <2>4, <2>5, <2>6 DEF F
    <3> HIDE DEF twins, Ran
    <3> QED BY <2>3, <3>1, DuplicatesCount
  <2> QED BY <2>7, <2>8 DEF CountsAgreeWithRows
<1> QED BY <1>1, ChecksInvariantHolds, PTL
-----------------------------------------------------------------------------
(* The fences of a column.                                                 *)

\* A finite set of integers has a least and a largest member.
LEMMA Extremes ==
  ASSUME NEW S \in SUBSET Int, IsFiniteSet(S), S # {}
  PROVE  /\ \E n \in S : \A m \in S : n <= m
         /\ \E n \in S : \A m \in S : m <= n
<1> DEFINE Below(n) == {m \in S : m <= n}
           Above(n) == {m \in S : n <= m}
           F == {Below(n) : n \in S}
           G == {Above(n) : n \in S}
<1>1. F \subseteq FiniteSubsetsOf(S) /\ G \subseteq FiniteSubsetsOf(S) /\ F # {} /\ G # {}
  <2>1. \A A \in F \cup G : A \in SUBSET S
    OBVIOUS
  <2>2. F # {} /\ G # {}
    OBVIOUS
  <2> HIDE DEF F, G
  <2>3. \A A \in F \cup G : IsFiniteSet(A)
    BY <2>1, FS_Subset
  <2> QED BY <2>1, <2>2, <2>3 DEF FiniteSubsetsOf
<1>2. \A n, m \in S : m < n =>
          /\ Below(m) \subseteq Below(n) /\ Below(m) # Below(n)
          /\ Above(n) \subseteq Above(m) /\ Above(m) # Above(n)
  <2>1. ASSUME NEW n \in S, NEW m \in S, m < n
        PROVE  /\ Below(m) \subseteq Below(n) /\ n \in Below(n) /\ n \notin Below(m)
               /\ Above(n) \subseteq Above(m) /\ m \in Above(m) /\ m \notin Above(n)
    <3>1. n \in Int /\ m \in Int /\ \A k \in S : k \in Int
      OBVIOUS
    <3>2. \A k \in S : (k <= m => k <= n) /\ (n <= k => m <= k)
      BY <2>1, <3>1
    <3>3. n <= n /\ m <= m /\ ~ n <= m
      BY <2>1, <3>1
    <3> QED BY <3>2, <3>3
  <2> HIDE DEF Below, Above
  <2> QED BY <2>1
<1>3. \A n \in S : Below(n) \in F /\ Above(n) \in G
  OBVIOUS
<1>4. \A B \in F : \E n \in S : B = Below(n)
  OBVIOUS
<1>5. \A B \in G : \E n \in S : B = Above(n)
  OBVIOUS
<1> HIDE DEF F, G, Below, Above
<1>6. \E n \in S : \A m \in S : n <= m
  <2>1. PICK A \in F : \A B \in F : B \subseteq A => B = A
    BY <1>1, MinimalFiniteSet
  <2>2. PICK n \in S : A = Below(n)
    BY <1>4, <2>1
  <2>3. \A m \in S : ~ m < n
    BY <1>2, <1>3, <2>1, <2>2
  <2>4. \A m \in S : n \in Int /\ m \in Int
    OBVIOUS
  <2> QED BY <2>3, <2>4
<1>7. \E n \in S : \A m \in S : m <= n
  <2>1. PICK A \in G : \A B \in G : B \subseteq A => B = A
    BY <1>1, MinimalFiniteSet
  <2>2. PICK n \in S : A = Above(n)
    BY <1>5, <2>1
  <2>3. \A m \in S : ~ n < m
    BY <1>2, <1>3, <2>1, <2>2
  <2>4. \A m \in S : n \in Int /\ m \in Int
    OBVIOUS
  <2> QED BY <2>3, <2>4
<1> QED BY <1>6, <1>7

\* What is read of a column in order: as many numbers of it as it has cells, none
\* below an earlier one.
LEMMA SortedIsSorted ==
  ASSUME NEW t, IsTable(t), NEW c \in Cols(t)
  PROVE  LET s == Sorted(t, c)
             n == Cardinality(Present(t, c))
         IN /\ n \in Nat /\ s = [k \in 1 .. n |-> s[k]]
            /\ \A k \in 1 .. n : \E i \in Present(t, c) : s[k] = Read[At(t, i, c)].number
            /\ \A k \in 1 .. n : s[k] \in Int
            /\ \A j, k \in 1 .. n : j <= k => s[j] <= s[k]
<1> DEFINE present == Present(t, c)
           Number(i) == Read[At(t, i, c)].number
           numbers == {Number(i) : i \in present}
           Hits(x) == {i \in present : Number(i) <= x}
           Upto(x) == Cardinality(Hits(x))
           n == Cardinality(present)
           s == Sorted(t, c)
           Is(x, k) == k <= Upto(x) /\ \A y \in numbers : y < x => Upto(y) < k
<1>1. IsFiniteSet(present) /\ n \in Nat /\ \A i \in present : Number(i) \in Int
  BY CellsAreRead DEF Present
<1>2. s = [k \in 1 .. n |-> CHOOSE x \in numbers : Is(x, k)]
  BY SMTT(30) DEF Sorted
<1>3. IsFiniteSet(numbers)
  <2> DEFINE f == [i \in present |-> Number(i)]
  <2>1. f = [i \in DOMAIN f |-> f[i]] /\ DOMAIN f = present
        /\ {f[i] : i \in DOMAIN f} = numbers
    OBVIOUS
  <2> HIDE DEF f, numbers, Number, present
  <2> QED BY <1>1, <2>1, FiniteImage
<1>4. numbers \in SUBSET Int
  BY <1>1
<1>5. \A x \in numbers : Upto(x) \in Nat /\ (Hits(x) = present => Upto(x) = n)
  <2>1. \A x \in numbers : Hits(x) \in SUBSET present
    OBVIOUS
  <2>2. \A x \in numbers : IsFiniteSet(Hits(x))
    <3> HIDE DEF Hits, present, numbers
    <3> QED BY <1>1, <2>1, FS_Subset
  <2> HIDE DEF Hits, numbers
  <2> QED BY <2>2, FS_CardinalityType
<1>6. \A x \in numbers : (\A y \in numbers : y <= x) => Hits(x) = present
  OBVIOUS
<1>7. \A i \in present : Number(i) \in numbers
  OBVIOUS
<1>8. \A x \in numbers : \E i \in present : x = Number(i)
  OBVIOUS
<1> HIDE DEF s, numbers, Number, Hits, Upto, Is
<1>9. ASSUME NEW k \in 1 .. n PROVE \E x \in numbers : Is(x, k)
  <2>1. k \in Nat /\ 1 <= k /\ k <= n
    BY <1>1
  <2>2. present # {}
    BY <2>1, FS_EmptySet
  <2>3. numbers # {}
    BY <1>7, <2>2
  <2> DEFINE S == {x \in numbers : k <= Upto(x)}
  <2>4. S # {}
    <3>1. PICK x \in numbers : \A y \in numbers : y <= x
      BY <1>3, <1>4, <2>3, Extremes
    <3>2. Upto(x) = n
      BY <1>5, <1>6, <3>1
    <3> HIDE DEF n, present
    <3> QED BY <2>1, <3>2
  <2>5. S \in SUBSET numbers /\ IsFiniteSet(S)
    BY <1>3, FS_Subset
  <2>6. S \in SUBSET Int
    BY <1>4, <2>5
  <2>7. PICK x \in S : \A y \in S : x <= y
    <3> HIDE DEF S
    <3> QED BY <2>4, <2>5, <2>6, Extremes
  <2>8. ASSUME NEW y \in numbers, y < x PROVE Upto(y) < k
    <3>1. y \notin S
      <4>1. x \in Int /\ y \in Int
        BY <1>4, <2>6, <2>7
      <4> HIDE DEF S
      <4> QED BY <2>7, <2>8, <4>1
    <3>2. ~ k <= Upto(y)
      BY <3>1
    <3> QED BY <1>5, <2>1, <3>2
  <2> QED BY <2>7, <2>8 DEF Is
<1>10. \A k \in 1 .. n : s[k] \in numbers /\ Is(s[k], k)
  <2> HIDE DEF n
  <2>1. \A k \in 1 .. n : s[k] = CHOOSE x \in numbers : Is(x, k)
    BY <1>2
  <2> QED BY <1>9, <2>1
<1>11. ASSUME NEW j \in 1 .. n, NEW k \in 1 .. n, j <= k PROVE s[j] <= s[k]
  <2>1. j \in Nat /\ k \in Nat
    BY <1>1
  <2>2. /\ s[j] \in numbers /\ s[k] \in numbers /\ k <= Upto(s[k])
        /\ s[k] < s[j] => Upto(s[k]) < j
    BY <1>10 DEF Is
  <2>3. s[j] \in Int /\ s[k] \in Int /\ Upto(s[k]) \in Nat
    BY <1>4, <1>5, <2>2
  <2> HIDE DEF n
  <2> QED BY <1>11, <2>1, <2>2, <2>3
<1>12. \A k \in 1 .. n : \E i \in present : s[k] = Number(i)
  BY <1>8, <1>10
<1>13. s = [k \in 1 .. n |-> s[k]]
  <2> HIDE DEF n
  <2> QED BY <1>2
<1>14. \A k \in 1 .. n : s[k] \in Int
  BY <1>4, <1>10
<1> QED BY <1>1, <1>11, <1>12, <1>13, <1>14 DEF s, Number

\* The quarters of ascending numbers are in order, and so are the fences.
LEMMA FencesAreOrdered ==
  ASSUME NEW s, NEW n \in Nat \ {0}, s = [k \in 1 .. n |-> s[k]], Len(s) = n,
         \A k \in 1 .. n : s[k] \in Int,
         \A j, k \in 1 .. n : j <= k => s[j] <= s[k]
  PROVE  LET fence == Fences(s)
         IN /\ fence.lower \in Int /\ fence.upper \in Int /\ fence.lower <= fence.upper
            /\ n = 1 => fence.lower = 8 * s[1] /\ fence.upper = 8 * s[1]
<1> DEFINE N == n - 1
           j == (1 * N) \div 4
           d == (1 * N) % 4
           k == (3 * N) \div 4
           e == (3 * N) % 4
           q == Quartile(s, 1)
           r == Quartile(s, 3)
<1>1. /\ N \in Nat /\ n = N + 1
      /\ j \in Nat /\ d \in 0 .. 3 /\ N = 4 * j + d
      /\ k \in Nat /\ e \in 0 .. 3 /\ 3 * N = 4 * k + e
  <2>1. N \in Nat /\ n = N + 1
    BY ONLY n \in Nat \ {0}
  <2>2. ASSUME NEW m \in Nat
        PROVE  m \div 4 \in Nat /\ m % 4 \in 0 .. 3 /\ m = 4 * (m \div 4) + (m % 4)
    BY ONLY m \in Nat
  <2> HIDE DEF N
  <2>3. 1 * N = N /\ 3 * N \in Nat
    BY ONLY <2>1
  <2> QED BY <2>1, <2>2, <2>3
<1>2. /\ q = IF d = 0 THEN 4 * s[j + 1] ELSE (4 - d) * s[j + 1] + d * s[j + 2]
      /\ r = IF e = 0 THEN 4 * s[k + 1] ELSE (4 - e) * s[k + 1] + e * s[k + 2]
  BY DEF Quartile
<1> HIDE DEF N, j, d, k, e, q, r
<1>3. /\ j + 1 \in 1 .. n /\ k + 1 \in 1 .. n /\ j <= k
      /\ d # 0 => j + 2 \in 1 .. n
      /\ e # 0 => k + 2 \in 1 .. n
      /\ d # 0 => k > j \/ (k = j /\ N = 1 /\ d = 1 /\ e = 3)
  <2>1. /\ j + 1 \in 1 .. n /\ k + 1 \in 1 .. n /\ j <= k
        /\ d # 0 => j + 2 \in 1 .. n
        /\ e # 0 => k + 2 \in 1 .. n
    BY ONLY <1>1
  <2>2. d # 0 => k > j \/ (k = j /\ N = 1 /\ d = 1 /\ e = 3)
    BY ONLY <1>1
  <2> QED BY <2>1, <2>2
<1> DEFINE a == s[j + 1]
           b == IF d = 0 THEN a ELSE s[j + 2]
           u == s[k + 1]
           v == IF e = 0 THEN u ELSE s[k + 2]
<1>4. /\ a \in Int /\ b \in Int /\ u \in Int /\ v \in Int
      /\ a <= b /\ u <= v /\ a <= u
      /\ d # 0 => b <= u \/ (b = v /\ a = u /\ d = 1 /\ e = 3)
  <2>1. a \in Int /\ b \in Int /\ u \in Int /\ v \in Int
    BY <1>3
  <2>2. a <= b
    BY <1>1, <1>3, <2>1
  <2>3. u <= v
    BY <1>1, <1>3, <2>1
  <2>4. a <= u
    BY <1>1, <1>3, <2>1
  <2>5. d # 0 => b <= u \/ (b = v /\ a = u /\ d = 1 /\ e = 3)
    <3>1. CASE d # 0 /\ k > j
      <4>1. j + 2 \in 1 .. n /\ k + 1 \in 1 .. n /\ j + 2 <= k + 1
        BY <1>1, <1>3, <3>1
      <4> QED BY <3>1, <4>1
    <3>2. CASE d # 0 /\ k = j /\ N = 1 /\ d = 1 /\ e = 3
      BY <3>2
    <3> QED BY <1>3, <3>1, <3>2
  <2> HIDE DEF a, b, u, v
  <2> QED BY ONLY <2>1, <2>2, <2>3, <2>4, <2>5
<1>5. q = (4 - d) * a + d * b /\ r = (4 - e) * u + e * v
  <2>1. d = 0 => q = (4 - d) * a + d * b
    BY <1>2, <1>4
  <2>2. d # 0 => q = (4 - d) * a + d * b
    BY <1>2
  <2>3. e = 0 => r = (4 - e) * u + e * v
    BY <1>2, <1>4
  <2>4. e # 0 => r = (4 - e) * u + e * v
    BY <1>2
  <2> HIDE DEF a, b, u, v
  <2> QED BY ONLY <2>1, <2>2, <2>3, <2>4
<1> HIDE DEF a, b, u, v
<1>6. q \in Int /\ r \in Int /\ q <= r
  <2>1. /\ d = 0 => q = 4 * a
        /\ d = 1 => q = 3 * a + b
        /\ d = 2 => q = 2 * a + 2 * b
        /\ d = 3 => q = a + 3 * b
    BY ONLY <1>1, <1>4, <1>5
  <2>2. /\ e = 0 => r = 4 * u
        /\ e = 1 => r = 3 * u + v
        /\ e = 2 => r = 2 * u + 2 * v
        /\ e = 3 => r = u + 3 * v
    BY ONLY <1>1, <1>4, <1>5
  <2> QED BY ONLY <1>1, <1>4, <2>1, <2>2
<1>7. Fences(s).lower = 5 * q - 3 * r /\ Fences(s).upper = 5 * r - 3 * q
  BY DEF Fences, q, r
<1>8. n = 1 => q = 4 * s[1] /\ r = 4 * s[1]
  <2>1. SUFFICES ASSUME n = 1 PROVE q = 4 * s[1] /\ r = 4 * s[1]
    OBVIOUS
  <2>2. N = 0 /\ j = 0 /\ d = 0 /\ k = 0 /\ e = 0
    BY ONLY <1>1, <2>1
  <2> QED BY <1>2, <2>2
<1> DEFINE low == Fences(s).lower
           high == Fences(s).upper
<1>9. low \in Int /\ high \in Int /\ low <= high
  <2> HIDE DEF low, high
  <2>1. low = 5 * q - 3 * r /\ high = 5 * r - 3 * q
    BY <1>7 DEF low, high
  <2> QED BY ONLY <1>6, <2>1
<1>10. n = 1 => low = 8 * s[1] /\ high = 8 * s[1]
  <2>1. SUFFICES ASSUME n = 1 PROVE low = 8 * s[1] /\ high = 8 * s[1]
    OBVIOUS
  <2> DEFINE x == s[1]
  <2>2. x \in Int /\ q = 4 * x /\ r = 4 * x
    BY <1>8, <2>1
  <2>3. low = 5 * q - 3 * r /\ high = 5 * r - 3 * q
    BY <1>7
  <2> HIDE DEF x, low, high
  <2>4. low = 8 * x /\ high = 8 * x
    BY ONLY <2>2, <2>3
  <2> QED BY <2>4 DEF x
<1> QED BY <1>9, <1>10
-----------------------------------------------------------------------------
(* The rules that are offered.                                             *)

Answered(rule, t) == RowIds(t) \ Unanswered(rule, t)

\* The rows that the rule offered for a finding is to fail.
Meant(f, t) ==
    CASE f.detector = "empty_column" -> RowIds(t)
      [] f.detector = "exact_duplicate_rows" ->
             {i \in f.rows : \A c \in Cols(t) : ~ IsMissing(At(t, i, c))}
      [] OTHER -> f.rows

HasWholeBounds(rule) ==
    /\ DOMAIN rule.given # {}
    /\ \A parameter \in DOMAIN rule.given : rule.given[parameter] \in Int

\* A rule that may be stored, and fails what it is meant to, and skips none of it.
IsRightFor(rule, f, t) ==
    /\ IsRule(rule) /\ rule.nulls = "skip"
    /\ \A k \in DOMAIN rule.columns : rule.columns[k] \in Cols(t)
    /\ rule.type = "regex" => rule.given.pattern.valid
    /\ rule.type = "numeric_range" => HasWholeBounds(rule)
    /\ Wrong(rule, t, Answered(rule, t)) = Meant(f, t)
    /\ Meant(f, t) \cap Unanswered(rule, t) = {}

\* A rule for one column.
IsForColumn(rule, f, t, p, c) ==
    /\ rule.type = RuleTypes[f.detector] /\ rule.nulls = "skip"
    /\ rule.given = Parameters(f, t, p)
    /\ Len(rule.columns) = 1 /\ rule.columns[1] = c
    /\ \A k \in DOMAIN rule.columns : rule.columns[k] = c
    /\ (CHOOSE x \in f.columns : TRUE) = c
    /\ Incomplete(rule, t) = RowIds(t) \ Present(t, c)

\* The rule for a finding of one column is a rule for that column.
LEMMA ColumnRule ==
  ASSUME NEW t, NEW p, NEW c, NEW f, f.columns = {c},
         f.detector # "exact_duplicate_rows", NEW rule, rule = Proposal(f, t, p)
  PROVE  IsForColumn(rule, f, t, p, c)
<1>1. (CHOOSE x \in f.columns : TRUE) = c
  OBVIOUS
<1>2. rule.columns = <<c>>
  BY <1>1 DEF Proposal
<1>3. Len(rule.columns) = 1 /\ rule.columns[1] = c /\ DOMAIN rule.columns = 1 .. 1
      /\ \A k \in DOMAIN rule.columns : rule.columns[k] = c
  BY <1>2
<1>4. Incomplete(rule, t) = RowIds(t) \ Present(t, c)
  <2>1. \A k \in DOMAIN rule.columns : rule.columns[k] = c
    BY <1>2
  <2>2. 1 \in DOMAIN rule.columns
    BY <1>3
  <2>3. \A i \in RowIds(t) :
            (\E k \in DOMAIN rule.columns : IsMissing(At(t, i, rule.columns[k])))
                <=> IsMissing(At(t, i, c))
    BY <1>3, <2>1, <2>2
  <2> QED BY <2>3 DEF Incomplete, Present
<1> QED BY <1>1, <1>3, <1>4 DEF Proposal, IsForColumn

\* A column of one shape.
LEMMA AllOfShape ==
  ASSUME NEW t, IsTable(t), NEW c \in Cols(t), NEW p, p = Profile(t),
         NEW s \in {"boolean", "date", "numeric"}, p.columns[c].type = s
  PROVE  /\ \A i \in Present(t, c) : Read[At(t, i, c)].shape = s
         /\ Present(t, c) # {}
<1>1. ColumnType(t, c) = s
  BY MetricsCount
<1>2. OfShape(t, c, s) = Present(t, c) /\ Present(t, c) # {}
  BY <1>1, TypeOfColumn
<1> QED BY <1>2 DEF OfShape

\* Rules for what is missing.
LEMMA RulesForMissing ==
  ASSUME NEW t, IsTable(t), NEW p, p = Profile(t), NEW c \in Cols(t), NEW f,
         f.columns = {c}, NEW rule, rule = Proposal(f, t, p),
         f.detector \in {"empty_column", "excessive_missing_values",
                         "missing_likely_identifier"},
         Meant(f, t) = RowIds(t) \ Present(t, c),
         f.detector = "excessive_missing_values" => Present(t, c) # {}
  PROVE  IsRightFor(rule, f, t)
<1>1. /\ rule.type = RuleTypes[f.detector] /\ rule.nulls = "skip"
      /\ rule.given = Parameters(f, t, p)
      /\ Len(rule.columns) = 1 /\ rule.columns[1] = c
      /\ (CHOOSE x \in f.columns : TRUE) = c
      /\ \A k \in DOMAIN rule.columns : rule.columns[k] = c
  BY ColumnRule DEF IsForColumn
<1>2. rule.type = IF f.detector = "excessive_missing_values"
                  THEN "max_missing_percentage" ELSE "not_null"
  BY <1>1 DEF RuleTypes
<1>3. HasColumns(rule)
  BY <1>1, <1>2 DEF HasColumns
<1>4. HasParameters(rule)
  <2>1. CASE f.detector = "excessive_missing_values"
    <3> DEFINE share == (800 * p.columns[c].nulls) \div p.rows
    <3>1. rule.given = [threshold_percentage |-> share]
      BY <1>1, <2>1 DEF Parameters
    <3>2. share \in 0 .. 800
      <4> DEFINE nulls == p.columns[c].nulls
                 rows == p.rows
                 there == Cardinality(Present(t, c))
      <4>1. rows = Len(t.rows) /\ rows \in Nat
        BY ProfiledColumns DEF IsTable
      <4>2. nulls = rows - there
        BY <4>1, MetricsCount
      <4>3. there \in 0 .. rows /\ there # 0
        BY <2>1, <4>1, CellsAreRead, FS_EmptySet
      <4> HIDE DEF nulls, rows, there
      <4>4. nulls \in 0 .. rows /\ rows \in Nat \ {0}
        BY <4>1, <4>2, <4>3
      <4>5. ASSUME NEW r \in Nat \ {0}, NEW k \in 0 .. r
            PROVE  (800 * k) \div r \in 0 .. 800
        <5> DEFINE x == 800 * k
                   y == x \div r
                   z == x % r
        <5>1. x \in Nat /\ x <= 800 * r
          OBVIOUS
        <5> HIDE DEF x
        <5>2. y \in Int /\ z \in 0 .. r - 1 /\ x = r * y + z
          BY <5>1
        <5> HIDE DEF y, z
        <5>3. y >= 0
          <6>1. SUFFICES ASSUME y <= -1 PROVE FALSE
            BY <5>2
          <6>2. r * y <= - r
            BY <5>2, <6>1
          <6> QED BY <5>1, <5>2, <6>2
        <5>4. y <= 800
          <6>1. SUFFICES ASSUME y >= 801 PROVE FALSE
            BY <5>2
          <6>2. r * y >= 801 * r
            BY <5>2, <6>1
          <6> QED BY <5>1, <5>2, <6>2
        <5> QED BY <5>2, <5>3, <5>4 DEF y, x
      <4>6. (800 * nulls) \div rows \in 0 .. 800
        BY <4>4, <4>5
      <4> QED BY <4>6 DEF nulls, rows
    <3> HIDE DEF share
    <3>3. DOMAIN rule.given = {"threshold_percentage"}
          /\ rule.given.threshold_percentage \in 0 .. 800
      BY <3>1, <3>2
    <3>4. rule.type = "max_missing_percentage"
      BY <1>2, <2>1
    <3>5. Owned[rule.type] = {"threshold_percentage"}
      BY <3>4 DEF Owned
    <3> QED BY <3>3, <3>4, <3>5 DEF HasParameters, Has
  <2>2. CASE f.detector # "excessive_missing_values"
    <3>1. rule.given = << >>
      BY <1>1, <2>2 DEF Parameters
    <3>2. DOMAIN rule.given = {}
      BY <3>1
    <3> QED BY <1>2, <2>2, <3>2 DEF HasParameters, Has, Owned
  <2> QED BY <2>1, <2>2
<1>5. Unanswered(rule, t) = {}
  BY <1>2 DEF Unanswered
<1>6. Wrong(rule, t, Answered(rule, t)) = RowIds(t) \ Present(t, c)
  BY <1>1, <1>2 DEF Wrong
<1> QED BY <1>1, <1>2, <1>3, <1>4, <1>5, <1>6 DEF IsRightFor, IsRule

\* A range for a column of numbers or of dates.
LEMMA RulesForRanges ==
  ASSUME NEW t, IsTable(t), NEW p, p = Profile(t), NEW c \in Cols(t), NEW f,
         f.columns = {c}, NEW rule, rule = Proposal(f, t, p),
         f.detector \in {"future_dates", "implausibly_old_dates",
                         "negative_likely_non_negative_values", "invalid_percentages",
                         "extreme_outliers"},
         rule.given # << >>, HasParameters(rule),
         RuleTypes[f.detector] = "numeric_range" => HasWholeBounds(rule),
         RuleTypes[f.detector] = "numeric_range" =>
             /\ p.columns[c].type = "numeric"
             /\ f.rows = {i \in Present(t, c) :
                             /\ ~ Read[At(t, i, c)].nan
                             /\ Outside(8 * Read[At(t, i, c)].number, rule.given,
                                        "minimum", "maximum")},
         RuleTypes[f.detector] = "date_range" =>
             /\ p.columns[c].type = "date"
             /\ f.rows = {i \in Present(t, c) :
                             Outside(Read[At(t, i, c)].day, rule.given,
                                     "minimum_date", "maximum_date")}
  PROVE  IsRightFor(rule, f, t)
<1>1. /\ rule.type = RuleTypes[f.detector] /\ rule.nulls = "skip"
      /\ Len(rule.columns) = 1 /\ rule.columns[1] = c
      /\ \A k \in DOMAIN rule.columns : rule.columns[k] = c
      /\ Incomplete(rule, t) = RowIds(t) \ Present(t, c)
  <2>1. f.detector # "exact_duplicate_rows"
    OBVIOUS
  <2>2. IsForColumn(rule, f, t, p, c)
    BY ONLY <2>1, f.columns = {c}, rule = Proposal(f, t, p), ColumnRule
  <2> QED BY <2>2 DEF IsForColumn
<1>2. RuleTypes[f.detector] \in {"numeric_range", "date_range"}
  BY DEF RuleTypes
<1>3. HasColumns(rule)
  BY <1>1, <1>2 DEF HasColumns
<1>4. Meant(f, t) = f.rows
  BY DEF Meant
<1>5. Unanswered(rule, t) = RowIds(t) \ Present(t, c)
  BY <1>1, <1>2 DEF Unanswered
<1>6. Answered(rule, t) = Present(t, c)
  BY <1>5, CellsAreRead DEF Answered
<1>7. CASE RuleTypes[f.detector] = "numeric_range"
  <2>1. \A i \in Present(t, c) : Read[At(t, i, c)].shape = "numeric"
    BY <1>7, AllOfShape
  <2>2. Wrong(rule, t, Answered(rule, t)) =
            {i \in Answered(rule, t) :
                \/ ~ IsNumber(t, i, c)
                \/ /\ ~ Read[At(t, i, c)].nan
                   /\ Outside(8 * Read[At(t, i, c)].number, rule.given,
                              "minimum", "maximum")}
    BY <1>1, <1>7 DEF Wrong
  <2>3. Wrong(rule, t, Answered(rule, t)) = f.rows
    BY <1>6, <1>7, <2>1, <2>2 DEF IsNumber
  <2> QED BY <1>1, <1>3, <1>4, <1>5, <1>7, <2>3 DEF IsRightFor, IsRule
<1>8. CASE RuleTypes[f.detector] = "date_range"
  <2>1. \A i \in Present(t, c) : Read[At(t, i, c)].shape = "date"
    BY <1>8, AllOfShape
  <2>2. Wrong(rule, t, Answered(rule, t)) =
            {i \in Answered(rule, t) :
                \/ Read[At(t, i, c)].shape # "date"
                \/ Outside(Read[At(t, i, c)].day, rule.given,
                           "minimum_date", "maximum_date")}
    BY <1>1, <1>8 DEF Wrong
  <2>3. Wrong(rule, t, Answered(rule, t)) = f.rows
    BY <1>6, <1>8, <2>1, <2>2
  <2> QED BY <1>1, <1>3, <1>4, <1>5, <1>8, <2>3 DEF IsRightFor, IsRule
<1> QED BY <1>2, <1>7, <1>8

\* Rules for dates.
LEMMA RulesForDates ==
  ASSUME NEW t, IsTable(t), NEW p, p = Profile(t), NEW rule, NEW f,
         f \in FutureDates(t, p) \cup OldDates(t, p), rule = Proposal(f, t, p)
  PROVE  IsRightFor(rule, f, t)
<1>1. CASE f \in FutureDates(t, p)
  <2> DEFINE Hits(k) == There(t, k, LAMBDA r : r.shape = "date" /\ r.day > Today)
  <2>1. PICK c \in OfType(p, {"date"}) :
            f = Finding("future_dates", "medium", 100, {c}, Hits(c))
    BY <1>1 DEF FutureDates, InEach
  <2>2. c \in Cols(t) /\ p.columns[c].type = "date"
    BY ProfiledColumns DEF OfType
  <2> HIDE DEF Hits
  <2>3. f.detector = "future_dates" /\ f.columns = {c} /\ f.rows = Hits(c)
    BY <2>1 DEF Finding
  <2>4. Hits(c) = {i \in Present(t, c) : Read[At(t, i, c)].day > Today}
    <3>1. \A i \in Present(t, c) : Read[At(t, i, c)].shape = "date"
      BY <2>2, AllOfShape
    <3> QED BY <2>2, <3>1, LookUpIsAt DEF There, Present, Hits
  <2>5. RuleTypes[f.detector] = "date_range" /\ rule.type = "date_range"
        /\ rule.given = [maximum_date |-> Today]
    <3>1. rule.type = RuleTypes[f.detector] /\ rule.given = Parameters(f, t, p)
      BY DEF Proposal
    <3>2. Parameters(f, t, p) = [maximum_date |-> Today]
      BY <2>3 DEF Parameters
    <3> QED BY <2>3, <3>1, <3>2 DEF RuleTypes
  <2>6. rule.given # << >> /\ DOMAIN rule.given = {"maximum_date"}
        /\ rule.given["maximum_date"] = Today
    <3>1. DOMAIN << >> = {} /\ DOMAIN [maximum_date |-> Today] = {"maximum_date"}
      OBVIOUS
    <3> QED BY <2>5, <3>1
  <2>7. HasParameters(rule)
    BY <2>5, <2>6 DEF HasParameters, Has, Owned
  <2>8. f.rows = {i \in Present(t, c) :
                    Outside(Read[At(t, i, c)].day, rule.given,
                            "minimum_date", "maximum_date")}
    BY <2>3, <2>4, <2>6 DEF Outside
  <2> QED BY <2>2, <2>3, <2>5, <2>6, <2>7, <2>8, RulesForRanges
<1>2. CASE f \in OldDates(t, p)
  <2> DEFINE Hits(k) == NotBlank(t, k,
                           LAMBDA r : r.shape = "date" /\ r.day < EarliestPlausible)
  <2>1. PICK c \in OfType(p, {"date"}) :
            f = Finding("implausibly_old_dates", "low", 80, {c}, Hits(c))
    BY <1>2 DEF OldDates, InEach
  <2>2. c \in Cols(t) /\ p.columns[c].type = "date"
    BY ProfiledColumns DEF OfType
  <2> HIDE DEF Hits
  <2>3. f.detector = "implausibly_old_dates" /\ f.columns = {c} /\ f.rows = Hits(c)
    BY <2>1 DEF Finding
  <2>4. Hits(c) = {i \in Present(t, c) : Read[At(t, i, c)].day < EarliestPlausible}
    <3>1. \A i \in Present(t, c) : Read[At(t, i, c)].shape = "date"
      BY <2>2, AllOfShape
    <3>2. \A i \in Present(t, c) : Read[At(t, i, c)].strip # ""
      BY <2>2, <3>1, CellsAreRead, ReadingAssumption DEF Present
    <3> QED BY <2>2, <3>1, <3>2, LookUpIsAt DEF NotBlank, There, Present, Hits
  <2>5. RuleTypes[f.detector] = "date_range" /\ rule.type = "date_range"
        /\ rule.given = [minimum_date |-> EarliestPlausible]
    <3>1. rule.type = RuleTypes[f.detector] /\ rule.given = Parameters(f, t, p)
      BY DEF Proposal
    <3>2. Parameters(f, t, p) = [minimum_date |-> EarliestPlausible]
      BY <2>3 DEF Parameters
    <3> QED BY <2>3, <3>1, <3>2 DEF RuleTypes
  <2>6. rule.given # << >> /\ DOMAIN rule.given = {"minimum_date"}
        /\ rule.given["minimum_date"] = EarliestPlausible
    <3>1. DOMAIN << >> = {}
          /\ DOMAIN [minimum_date |-> EarliestPlausible] = {"minimum_date"}
      OBVIOUS
    <3> QED BY <2>5, <3>1
  <2>7. HasParameters(rule)
    BY <2>5, <2>6 DEF HasParameters, Has, Owned
  <2>8. f.rows = {i \in Present(t, c) :
                    Outside(Read[At(t, i, c)].day, rule.given,
                            "minimum_date", "maximum_date")}
    BY <2>3, <2>4, <2>6 DEF Outside
  <2> QED BY <2>2, <2>3, <2>5, <2>6, <2>7, <2>8, RulesForRanges
<1> QED BY <1>1, <1>2

\* A column of numbers, whose nan counts for 0.
LEMMA NumbersOf ==
  ASSUME NEW t, IsTable(t), NEW c \in Cols(t), NEW p, p = Profile(t),
         p.columns[c].type = "numeric", NEW i \in Present(t, c)
  PROVE  /\ Read[At(t, i, c)].shape = "numeric"
         /\ Read[At(t, i, c)].number \in Int
         /\ Read[At(t, i, c)].nan => /\ Read[At(t, i, c)].number = 0
                                     /\ ~ Read[At(t, i, c)].finite
<1>1. Read[At(t, i, c)].shape = "numeric"
  BY AllOfShape
<1>2. At(t, i, c) \in DOMAIN Read
  BY CellsAreRead DEF Present
<1> QED BY <1>1, <1>2, ReadingAssumption

\* Rules for negative numbers.
LEMMA RuleForNegatives ==
  ASSUME NEW t, IsTable(t), NEW p, p = Profile(t), NEW f \in Negatives(t, p), NEW rule,
         rule = Proposal(f, t, p)
  PROVE  IsRightFor(rule, f, t)
<1> DEFINE Hits(k) == There(t, k, LAMBDA r : r.shape = "numeric" /\ r.number < 0)
<1>1. PICK c \in OfType(p, {"numeric"}) :
          f = Finding("negative_likely_non_negative_values", "medium", 70, {c}, Hits(c))
  BY DEF Negatives, InEach
<1>2. c \in Cols(t) /\ p.columns[c].type = "numeric"
  BY ProfiledColumns DEF OfType
<1> HIDE DEF Hits
<1>3. f.detector = "negative_likely_non_negative_values"
      /\ f.columns = {c} /\ f.rows = Hits(c)
  BY <1>1 DEF Finding
<1>4. Hits(c) = {i \in Present(t, c) : Read[At(t, i, c)].number < 0}
  BY <1>2, NumbersOf, LookUpIsAt DEF There, Present, Hits
<1>5. RuleTypes[f.detector] = "numeric_range" /\ rule.type = "numeric_range"
      /\ rule.given = [minimum |-> 0]
  <2>1. rule.type = RuleTypes[f.detector] /\ rule.given = Parameters(f, t, p)
    BY DEF Proposal
  <2>2. Parameters(f, t, p) = [minimum |-> 0]
    BY <1>3 DEF Parameters
  <2> QED BY <1>3, <2>1, <2>2 DEF RuleTypes
<1>6. rule.given # << >> /\ DOMAIN rule.given = {"minimum"} /\ rule.given["minimum"] = 0
  <2>1. DOMAIN << >> = {} /\ DOMAIN [minimum |-> 0] = {"minimum"}
    OBVIOUS
  <2> QED BY <1>5, <2>1
<1>7. HasParameters(rule)
  BY <1>5, <1>6 DEF HasParameters, Has, Owned
<1>8. f.rows = {i \in Present(t, c) :
                  /\ ~ Read[At(t, i, c)].nan
                  /\ Outside(8 * Read[At(t, i, c)].number, rule.given,
                             "minimum", "maximum")}
  <2>1. ASSUME NEW i \in Present(t, c)
        PROVE  Read[At(t, i, c)].number < 0
                  <=> /\ ~ Read[At(t, i, c)].nan
                      /\ Outside(8 * Read[At(t, i, c)].number, rule.given,
                                 "minimum", "maximum")
    <3> DEFINE x == Read[At(t, i, c)].number
    <3>1. x \in Int /\ (Read[At(t, i, c)].nan => x = 0)
      BY <1>2, NumbersOf
    <3>2. Outside(8 * x, rule.given, "minimum", "maximum") <=> 8 * x < 0
      BY <1>6 DEF Outside
    <3> HIDE DEF x
    <3>3. 8 * x < 0 <=> x < 0
      BY ONLY <3>1
    <3> QED BY <3>1, <3>2, <3>3 DEF x
  <2> QED BY <1>3, <1>4, <2>1
<1>9. HasWholeBounds(rule)
  BY <1>6 DEF HasWholeBounds
<1> QED BY <1>2, <1>3, <1>5, <1>6, <1>7, <1>8, <1>9, RulesForRanges

\* Rules for percentages.
LEMMA RuleForPercentages ==
  ASSUME NEW t, IsTable(t), NEW p, p = Profile(t), NEW f \in Percentages(t, p), NEW rule,
         rule = Proposal(f, t, p)
  PROVE  IsRightFor(rule, f, t)
<1> DEFINE Hits(k) == There(t, k, LAMBDA r : /\ r.shape = "numeric"
                                             /\ (r.number < 0 \/ r.number > 100))
<1>1. PICK c \in OfType(p, {"numeric"}) :
          f = Finding("invalid_percentages", "medium", 100, {c}, Hits(c))
  BY DEF Percentages, InEach
<1>2. c \in Cols(t) /\ p.columns[c].type = "numeric"
  BY ProfiledColumns DEF OfType
<1> HIDE DEF Hits
<1>3. f.detector = "invalid_percentages" /\ f.columns = {c} /\ f.rows = Hits(c)
  BY <1>1 DEF Finding
<1>4. Hits(c) = {i \in Present(t, c) :
                   Read[At(t, i, c)].number < 0 \/ Read[At(t, i, c)].number > 100}
  BY <1>2, NumbersOf, LookUpIsAt DEF There, Present, Hits
<1>5. RuleTypes[f.detector] = "numeric_range" /\ rule.type = "numeric_range"
      /\ rule.given = [minimum |-> 0, maximum |-> 800]
  <2>1. rule.type = RuleTypes[f.detector] /\ rule.given = Parameters(f, t, p)
    BY DEF Proposal
  <2>2. Parameters(f, t, p) = [minimum |-> 0, maximum |-> 800]
    BY <1>3 DEF Parameters
  <2> QED BY <1>3, <2>1, <2>2 DEF RuleTypes
<1>6. rule.given # << >> /\ DOMAIN rule.given = {"minimum", "maximum"}
      /\ rule.given["minimum"] = 0 /\ rule.given["maximum"] = 800
  <2>1. DOMAIN << >> = {}
        /\ DOMAIN [minimum |-> 0, maximum |-> 800] = {"minimum", "maximum"}
    OBVIOUS
  <2> QED BY <1>5, <2>1
<1>7. HasParameters(rule)
  BY <1>5, <1>6 DEF HasParameters, Has, Owned
<1>8. f.rows = {i \in Present(t, c) :
                  /\ ~ Read[At(t, i, c)].nan
                  /\ Outside(8 * Read[At(t, i, c)].number, rule.given,
                             "minimum", "maximum")}
  <2>1. ASSUME NEW i \in Present(t, c)
        PROVE  Read[At(t, i, c)].number < 0 \/ Read[At(t, i, c)].number > 100
                  <=> /\ ~ Read[At(t, i, c)].nan
                      /\ Outside(8 * Read[At(t, i, c)].number, rule.given,
                                 "minimum", "maximum")
    <3> DEFINE x == Read[At(t, i, c)].number
    <3>1. x \in Int /\ (Read[At(t, i, c)].nan => x = 0)
      BY <1>2, NumbersOf
    <3>2. Outside(8 * x, rule.given, "minimum", "maximum") <=> 8 * x < 0 \/ 8 * x > 800
      BY <1>6 DEF Outside
    <3> HIDE DEF x
    <3>3. (8 * x < 0 <=> x < 0) /\ (8 * x > 800 <=> x > 100)
          /\ (x = 0 => ~ (x < 0 \/ x > 100))
      BY ONLY <3>1
    <3> QED BY <3>1, <3>2, <3>3 DEF x
  <2> QED BY <1>3, <1>4, <2>1
<1> HIDE DEF Hits
<1>9. f.detector \in {"future_dates", "implausibly_old_dates",
                      "negative_likely_non_negative_values", "invalid_percentages",
                      "extreme_outliers"}
      /\ RuleTypes[f.detector] # "date_range"
  BY <1>3, <1>5
<1>10. HasWholeBounds(rule)
  BY <1>6 DEF HasWholeBounds
<1> QED BY <1>2, <1>3, <1>6, <1>7, <1>8, <1>9, <1>10, RulesForRanges

\* Something beyond the fences takes two numbers at least, and then all of them are
\* finite.
LEMMA RuleForOutliers ==
  ASSUME NEW t, IsTable(t), NEW p, p = Profile(t), CanBeProfiled(t),
         NEW f \in Outliers(t, p), NEW rule, rule = Proposal(f, t, p)
  PROVE  IsRightFor(rule, f, t)
<1> DEFINE Hits(k) == There(t, k, LAMBDA r :
                         /\ r.shape = "numeric"
                         /\ \/ 8 * r.number < p.columns[k].numeric.fence.lower
                            \/ 8 * r.number > p.columns[k].numeric.fence.upper)
<1>1. PICK c \in OfType(p, {"numeric"}) :
          /\ f = Finding("extreme_outliers", "medium", 70, {c}, Hits(c))
          /\ Hits(c) # {}
  BY DEF Outliers, InEach
<1>2. c \in Cols(t) /\ p.columns[c].type = "numeric"
  BY ProfiledColumns DEF OfType
<1> HIDE DEF Hits
<1> DEFINE fence == Fences(Sorted(t, c))
           Number(i) == Read[At(t, i, c)].number
           n == Cardinality(Present(t, c))
<1>3. f.detector = "extreme_outliers" /\ f.columns = {c} /\ f.rows = Hits(c)
      /\ p.columns[c].numeric.fence = fence
  <2>1. p.columns[c] = ColumnProfile(t, c)
    BY <1>2, ProfiledColumns
  <2>2. ColumnProfile(t, c).numeric.fence = fence
    BY <1>2, <2>1 DEF ColumnProfile, Numeric
  <2> QED BY <1>1, <2>1, <2>2 DEF Finding
<1>4. Hits(c) = {i \in Present(t, c) :
                   8 * Number(i) < fence.lower \/ 8 * Number(i) > fence.upper}
  <2> HIDE DEF fence
  <2> QED BY <1>2, <1>3, NumbersOf, LookUpIsAt DEF There, Present, Hits
<1>5. /\ IsFiniteSet(Present(t, c)) /\ n \in Nat \ {0}
      /\ \A i \in Present(t, c) : Number(i) \in Int
  <2>1. IsFiniteSet(Present(t, c)) /\ n \in Nat
    BY <1>2, SortedIsSorted, CellsAreRead
  <2>2. Present(t, c) # {}
    BY <1>1, <1>4
  <2>3. n # 0
    BY <2>1, <2>2, FS_EmptySet
  <2> HIDE DEF n
  <2> QED BY <1>2, <2>1, <2>3, NumbersOf
<1>6. /\ fence.lower \in Int /\ fence.upper \in Int /\ fence.lower <= fence.upper
      /\ n = 1 => \A i \in Present(t, c) :
                     fence.lower = 8 * Number(i) /\ fence.upper = 8 * Number(i)
  <2> DEFINE s == Sorted(t, c)
  <2>1. /\ s = [k \in 1 .. n |-> s[k]]
        /\ \A k \in 1 .. n : \E i \in Present(t, c) : s[k] = Number(i)
        /\ \A k \in 1 .. n : s[k] \in Int
        /\ \A j, k \in 1 .. n : j <= k => s[j] <= s[k]
    BY <1>2, SortedIsSorted
  <2> HIDE DEF s, Number
  <2>2. Len(s) = n
    <3> HIDE DEF n
    <3> QED BY <1>5, <2>1
  <2>3. LET g == Fences(s)
        IN /\ g.lower \in Int /\ g.upper \in Int /\ g.lower <= g.upper
           /\ n = 1 => g.lower = 8 * s[1] /\ g.upper = 8 * s[1]
    <3> HIDE DEF n
    <3> QED BY <1>5, <2>1, <2>2, FencesAreOrdered
  <2>4. ASSUME n = 1, NEW i \in Present(t, c) PROVE s[1] = Number(i)
    <3>1. PICK j \in Present(t, c) : s[1] = Number(j)
      BY <2>1, <2>4
    <3>2. {i} \in SUBSET Present(t, c) /\ Cardinality({i}) = 1
      BY FS_Singleton
    <3>3. {i} = Present(t, c)
      BY <1>5, <2>4, <3>2, AsManyIsAll
    <3> QED BY <3>1, <3>3
  <2>5. fence = Fences(s)
    BY DEF s
  <2> HIDE DEF fence, n
  <2> QED BY <2>3, <2>4, <2>5
<1> HIDE DEF fence
<1>7. n >= 2
  <2>1. PICK i \in Present(t, c) :
            8 * Number(i) < fence.lower \/ 8 * Number(i) > fence.upper
    BY <1>1, <1>4
  <2>2. Number(i) \in Int
    BY <1>5
  <2> HIDE DEF n, Number
  <2>3. n # 1
    BY <1>6, <2>1, <2>2
  <2> QED BY <1>5, <2>3
<1>8. \A i \in Present(t, c) : ~ Read[At(t, i, c)].nan
  <2>1. ColumnType(t, c) = "numeric"
    BY <1>2, MetricsCount
  <2>2. \A i \in Present(t, c) : Read[At(t, i, c)].finite
    BY <1>2, <1>7, <2>1 DEF CanBeProfiled
  <2> QED BY <1>2, <2>2, NumbersOf
<1>9. RuleTypes[f.detector] = "numeric_range" /\ rule.type = "numeric_range"
      /\ rule.given = [minimum |-> fence.lower, maximum |-> fence.upper]
  <2>1. rule.type = RuleTypes[f.detector] /\ rule.given = Parameters(f, t, p)
    BY DEF Proposal
  <2>2. (CHOOSE x \in f.columns : TRUE) = c
    BY <1>3
  <2>3. Parameters(f, t, p) = [minimum |-> fence.lower, maximum |-> fence.upper]
    BY <1>3, <2>2 DEF Parameters
  <2> QED BY <1>3, <2>1, <2>3 DEF RuleTypes
<1>10. rule.given # << >> /\ DOMAIN rule.given = {"minimum", "maximum"}
      /\ rule.given["minimum"] = fence.lower /\ rule.given["maximum"] = fence.upper
  <2>1. DOMAIN << >> = {}
        /\ DOMAIN [minimum |-> fence.lower, maximum |-> fence.upper]
              = {"minimum", "maximum"}
    OBVIOUS
  <2> QED BY <1>9, <2>1
<1>11. HasParameters(rule)
  BY <1>6, <1>9, <1>10 DEF HasParameters, Has, Owned
<1>12. f.rows = {i \in Present(t, c) :
                   /\ ~ Read[At(t, i, c)].nan
                   /\ Outside(8 * Read[At(t, i, c)].number, rule.given,
                              "minimum", "maximum")}
  BY <1>3, <1>4, <1>8, <1>10 DEF Outside
<1>13. HasWholeBounds(rule)
  BY <1>6, <1>10 DEF HasWholeBounds
<1> QED BY <1>2, <1>3, <1>9, <1>10, <1>11, <1>12, <1>13, RulesForRanges

\* Rules for outer whitespace.
LEMMA RuleForWhitespace ==
  ASSUME NEW t, IsTable(t), NEW p, p = Profile(t), NEW f \in Whitespace(t, p), NEW rule,
         rule = Proposal(f, t, p)
  PROVE  IsRightFor(rule, f, t)
<1> DEFINE Hits(k) == {i \in RowIds(t) : LET v == LookUp(t, i, k) IN
                          ~ IsMissing(v) /\ Read[v].strip # v}
<1>1. PICK c \in OfType(p, TextFamily) :
          f = Finding("leading_trailing_whitespace", "low", 100, {c}, Hits(c))
  BY DEF Whitespace, InEach
<1>2. c \in Cols(t)
  BY ProfiledColumns DEF OfType
<1> HIDE DEF Hits
<1>3. f.detector = "leading_trailing_whitespace" /\ f.columns = {c} /\ f.rows = Hits(c)
  BY <1>1 DEF Finding
<1>4. Hits(c) = {i \in Present(t, c) : Read[At(t, i, c)].strip # At(t, i, c)}
  BY <1>2, LookUpIsAt DEF Present, Hits
<1>5. f.detector # "exact_duplicate_rows" /\ RuleTypes[f.detector] = "regex"
  BY <1>3 DEF RuleTypes
<1>6. IsForColumn(rule, f, t, p, c)
  BY ONLY <1>3, <1>5, rule = Proposal(f, t, p), ColumnRule
<1>7. /\ rule.type = "regex" /\ rule.nulls = "skip"
      /\ Len(rule.columns) = 1 /\ rule.columns[1] = c
      /\ rule.given = [pattern |-> WhitespacePattern]
      /\ \A k \in DOMAIN rule.columns : rule.columns[k] = c
      /\ Unanswered(rule, t) = RowIds(t) \ Present(t, c)
  BY <1>3, <1>5, <1>6 DEF IsForColumn, Parameters, Unanswered
<1>8. HasColumns(rule)
  BY <1>7 DEF HasColumns
<1>9. DOMAIN rule.given = {"pattern"} /\ rule.given.pattern = WhitespacePattern
      /\ WhitespacePattern.length = 8 /\ WhitespacePattern.valid
  BY <1>7 DEF WhitespacePattern
<1>10. HasParameters(rule)
  BY <1>7, <1>9 DEF HasParameters, Has, Owned, MaxPatternLength
<1>11. Answered(rule, t) = Present(t, c)
  BY <1>2, <1>7, CellsAreRead DEF Answered
<1>12. Wrong(rule, t, Answered(rule, t))
           = {i \in Present(t, c) : Read[At(t, i, c)].strip # At(t, i, c)}
  BY <1>7, <1>11 DEF Wrong
<1>13. Meant(f, t) = {i \in Present(t, c) : Read[At(t, i, c)].strip # At(t, i, c)}
  BY <1>3, <1>4 DEF Meant
<1> QED BY <1>2, <1>7, <1>8, <1>9, <1>10, <1>12, <1>13 DEF IsRightFor, IsRule

\* Rules for constant columns.
LEMMA RuleForConstant ==
  ASSUME NEW t, IsTable(t), NEW p, p = Profile(t), NEW f \in Constant(t, p), NEW rule,
         rule = Proposal(f, t, p)
  PROVE  IsRightFor(rule, f, t)
<1>1. PICK c \in OfType(p, Types \ {"unknown"}) :
          /\ f = Finding("suspiciously_constant_column", "medium", 100, {c}, {})
          /\ There(t, c, LAMBDA r : TRUE) # {}
  BY DEF Constant, InEach
<1>2. c \in Cols(t)
  BY ProfiledColumns DEF OfType
<1>3. f.detector = "suspiciously_constant_column" /\ f.columns = {c} /\ f.rows = {}
  BY <1>1 DEF Finding
<1>4. Present(t, c) # {}
  BY <1>1, <1>2, LookUpIsAt DEF There, Present
<1>5. f.detector # "exact_duplicate_rows" /\ RuleTypes[f.detector] = "accepted_values"
  BY <1>3 DEF RuleTypes
<1>6. IsForColumn(rule, f, t, p, c)
  BY ONLY <1>3, <1>5, rule = Proposal(f, t, p), ColumnRule
<1>7. /\ rule.type = "accepted_values" /\ rule.nulls = "skip"
      /\ Len(rule.columns) = 1 /\ rule.columns[1] = c
      /\ rule.given = [accepted_values |-> Distinct(t, c)]
      /\ \A k \in DOMAIN rule.columns : rule.columns[k] = c
      /\ Unanswered(rule, t) = RowIds(t) \ Present(t, c)
  BY <1>3, <1>5, <1>6 DEF IsForColumn, Parameters, Unanswered
<1>8. HasColumns(rule)
  BY <1>7 DEF HasColumns
<1>9. DOMAIN rule.given = {"accepted_values"}
      /\ rule.given.accepted_values = Distinct(t, c)
      /\ Distinct(t, c) # {}
  BY <1>4, <1>7 DEF Distinct
<1>10. HasParameters(rule)
  BY <1>7, <1>9 DEF HasParameters, Has, Owned
<1>11. Answered(rule, t) = Present(t, c)
  BY <1>2, <1>7, CellsAreRead DEF Answered
<1>12. Wrong(rule, t, Answered(rule, t))
           = {i \in Present(t, c) : At(t, i, c) \notin Distinct(t, c)}
  BY <1>7, <1>9, <1>11 DEF Wrong
<1>13. Wrong(rule, t, Answered(rule, t)) = {}
  BY <1>12 DEF Distinct
<1>14. Meant(f, t) = {}
  BY <1>3 DEF Meant
<1> QED BY <1>2, <1>7, <1>8, <1>10, <1>13, <1>14 DEF IsRightFor, IsRule

\* Rules for missing values.
LEMMA RulesForGaps ==
  ASSUME NEW t, IsTable(t), NEW p, p = Profile(t), NEW rule, NEW f,
         f \in EmptyColumn(p) \cup ExcessiveMissing(t, p) \cup MissingIdentifier(t, p),
         rule = Proposal(f, t, p)
  PROVE  IsRightFor(rule, f, t)
<1>1. \A c \in Cols(t) : /\ p.columns[c].type = ColumnType(t, c)
                         /\ Lacking(t, c) = RowIds(t) \ Present(t, c)
                         /\ p.columns[c].type = "unknown" <=> Present(t, c) = {}
  <2>1. ASSUME NEW c \in Cols(t) PROVE p.columns[c].type = ColumnType(t, c)
    BY MetricsCount
  <2>2. ASSUME NEW c \in Cols(t) PROVE Lacking(t, c) = RowIds(t) \ Present(t, c)
    BY LookUpIsAt DEF Lacking, Present
  <2>3. ASSUME NEW c \in Cols(t)
        PROVE  ColumnType(t, c) = "unknown" <=> Present(t, c) = {}
    BY TypeOfColumn
  <2> QED BY <2>1, <2>2, <2>3
<1>2. CASE f \in EmptyColumn(p)
  <2>1. PICK c \in OfType(p, {"unknown"}) :
            f = Finding("empty_column", "medium", 100, {c}, {})
    BY <1>2 DEF EmptyColumn, InEach
  <2>2. c \in Cols(t) /\ p.columns[c].type = "unknown"
    BY ProfiledColumns DEF OfType
  <2>3. f.detector = "empty_column" /\ f.columns = {c}
    BY <2>1 DEF Finding
  <2>4. Meant(f, t) = RowIds(t) \ Present(t, c)
    BY <1>1, <2>2, <2>3 DEF Meant
  <2> QED BY <2>2, <2>3, <2>4, RulesForMissing
<1>3. CASE f \in ExcessiveMissing(t, p)
  <2>1. PICK c \in OfType(p, Types \ {"unknown"}) :
            f = Finding("excessive_missing_values", "medium", 100, {c}, Lacking(t, c))
    BY <1>3 DEF ExcessiveMissing, InEach
  <2>2. c \in Cols(t) /\ p.columns[c].type # "unknown"
    BY ProfiledColumns DEF OfType
  <2>3. f.detector = "excessive_missing_values" /\ f.columns = {c}
        /\ f.rows = Lacking(t, c)
    BY <2>1 DEF Finding
  <2>4. Meant(f, t) = RowIds(t) \ Present(t, c) /\ Present(t, c) # {}
    BY <1>1, <2>2, <2>3 DEF Meant
  <2> QED BY <2>2, <2>3, <2>4, RulesForMissing
<1>4. CASE f \in MissingIdentifier(t, p)
  <2>1. PICK c \in Cols(t) :
            f = Finding("missing_likely_identifier", "high", 100, {c}, Lacking(t, c))
    BY <1>4 DEF MissingIdentifier, InEach
  <2>2. f.detector = "missing_likely_identifier" /\ f.columns = {c}
        /\ f.rows = Lacking(t, c)
    BY <2>1 DEF Finding
  <2>3. Meant(f, t) = RowIds(t) \ Present(t, c)
    BY <1>1, <2>2 DEF Meant
  <2> QED BY <2>2, <2>3, RulesForMissing
<1> QED BY <1>2, <1>3, <1>4

\* Of the rows that are the same as another, the rule for repeated rows fails those
\* without a missing cell.
LEMMA RuleForDuplicates ==
  ASSUME NEW t, IsTable(t), NEW p, p = Profile(t), NEW f \in DuplicateRows(t), NEW rule,
         rule = Proposal(f, t, p)
  PROVE  IsRightFor(rule, f, t)
<1> DEFINE Row(i) == [c \in Cols(t) |-> LookUp(t, i, c)]
           again == {i \in RowIds(t) : \E j \in RowIds(t) \ {i} : Row(j) = Row(i)}
           Whole(i) == \A c \in Cols(t) : ~ IsMissing(At(t, i, c))
<1>1. f = Finding("exact_duplicate_rows", "medium", 100, {}, again)
  <2>1. DuplicateRows(t) =
            {Finding("exact_duplicate_rows", "medium", 100, {}, again) :
                x \in {y \in {again} : y # {}}}
    BY DEF DuplicateRows
  <2> HIDE DEF again
  <2> QED BY <2>1
<1>2. f.detector = "exact_duplicate_rows" /\ f.rows = again
  <2> HIDE DEF again
  <2> QED BY <1>1 DEF Finding
<1>3. \A i \in RowIds(t) : i \in again <=>
          \E j \in RowIds(t) \ {i} : \A c \in Cols(t) : At(t, j, c) = At(t, i, c)
  <2>1. ASSUME NEW i, NEW j
        PROVE  Row(j) = Row(i) <=> \A c \in Cols(t) : At(t, j, c) = At(t, i, c)
    <3>1. \A c \in Cols(t) : LookUp(t, i, c) = At(t, i, c) /\ LookUp(t, j, c) = At(t, j, c)
      BY LookUpIsAt
    <3> QED BY <3>1
  <2> HIDE DEF Row
  <2> QED BY <2>1
<1> HIDE DEF again, Row
<1>4. /\ rule.type = "unique" /\ rule.nulls = "skip" /\ rule.given = << >>
      /\ rule.columns = [c \in Cols(t) |-> c]
  BY <1>2 DEF Proposal, RuleTypes, Parameters
<1>5. DOMAIN rule.columns = Cols(t) /\ \A c \in Cols(t) : rule.columns[c] = c
  BY <1>4
<1>6. Len(rule.columns) >= 1
  <2> DEFINE n == Len(t.columns)
  <2>1. n \in Nat \ {0} /\ rule.columns = [c \in 1 .. n |-> c]
    BY <1>4 DEF IsTable, Cols
  <2> HIDE DEF n
  <2>2. rule.columns \in Seq(Nat) /\ Len(rule.columns) = n
    BY <2>1
  <2> QED BY <2>1, <2>2
<1>7. IsRule(rule)
  <2>1. HasColumns(rule)
    BY <1>4, <1>6 DEF HasColumns
  <2>2. DOMAIN rule.given = {}
    BY <1>4
  <2>3. HasParameters(rule)
    BY <1>4, <2>2 DEF HasParameters, Has, Owned
  <2> QED BY <2>1, <2>3 DEF IsRule
<1>8. Unanswered(rule, t) = {i \in RowIds(t) : ~ Whole(i)}
  <2>1. Unanswered(rule, t) = Incomplete(rule, t)
    BY <1>4 DEF Unanswered
  <2> QED BY <1>5, <2>1 DEF Incomplete
<1>9. Wrong(rule, t, Answered(rule, t)) = {i \in again : Whole(i)}
  <2> DEFINE Key(i) == [k \in DOMAIN rule.columns |-> At(t, i, rule.columns[k])]
             whole == RowIds(t) \ Incomplete(rule, t)
  <2>1. Wrong(rule, t, Answered(rule, t)) = Repeated(rule, t)
    BY <1>4 DEF Wrong
  <2>2. Repeated(rule, t) = {i \in whole : \E j \in whole \ {i} : Key(j) = Key(i)}
    BY DEF Repeated
  <2>3. ASSUME NEW i, NEW j
        PROVE  Key(j) = Key(i) <=> \A c \in Cols(t) : At(t, j, c) = At(t, i, c)
    BY <1>5
  <2>4. whole = {i \in RowIds(t) : Whole(i)}
    BY <1>5 DEF Incomplete
  <2> HIDE DEF Key, whole
  <2>5. \A i \in RowIds(t) : i \in Repeated(rule, t) <=> i \in again /\ Whole(i)
    BY <1>3, <2>2, <2>3, <2>4
  <2>6. Repeated(rule, t) \subseteq RowIds(t)
    BY <2>2, <2>4
  <2>7. again \subseteq RowIds(t)
    BY DEF again
  <2> HIDE DEF Whole
  <2>8. Repeated(rule, t) = {i \in again : Whole(i)}
    BY <2>5, <2>6, <2>7
  <2> QED BY <2>1, <2>8
<1>10. Meant(f, t) = {i \in again : Whole(i)}
  BY <1>2 DEF Meant
<1> QED BY <1>4, <1>5, <1>7, <1>8, <1>9, <1>10 DEF IsRightFor

\* Whatever a detector found, the rule that is offered for it fails what was found.
LEMMA OffersAreRight ==
  ASSUME NEW t, IsTable(t), CanBeProfiled(t), NEW p, p = Profile(t), NEW d \in DetectorIds,
         NEW f \in Found(t, p)[d], IsGeneratable(f)
  PROVE  IsRightFor(Proposal(f, t, p), f, t)
<1> DEFINE rule == Proposal(f, t, p)
           F == Found(t, p)
<1>1. f.detector = d
  BY DetectorsFind DEF FindingsOf
<1>2. d \in {"exact_duplicate_rows", "empty_column", "excessive_missing_values",
            "missing_likely_identifier", "future_dates", "implausibly_old_dates",
            "negative_likely_non_negative_values", "invalid_percentages",
            "extreme_outliers", "leading_trailing_whitespace",
            "suspiciously_constant_column"}
  BY <1>1 DEF IsGeneratable, RuleTypes
<1>3. /\ F["exact_duplicate_rows"] = DuplicateRows(t)
      /\ F["empty_column"] = EmptyColumn(p)
      /\ F["excessive_missing_values"] = ExcessiveMissing(t, p)
      /\ F["missing_likely_identifier"] = MissingIdentifier(t, p)
      /\ F["future_dates"] = FutureDates(t, p)
      /\ F["implausibly_old_dates"] = OldDates(t, p)
      /\ F["negative_likely_non_negative_values"] = Negatives(t, p)
      /\ F["invalid_percentages"] = Percentages(t, p)
      /\ F["extreme_outliers"] = Outliers(t, p)
      /\ F["leading_trailing_whitespace"] = Whitespace(t, p)
      /\ F["suspiciously_constant_column"] = Constant(t, p)
  BY DEF Found
<1>4. f \in F[d]
  OBVIOUS
<1> HIDE DEF F, rule
<1>5. rule = Proposal(f, t, p)
  BY DEF rule
<1>6. CASE d = "exact_duplicate_rows"
  BY <1>3, <1>4, <1>5, <1>6, RuleForDuplicates
<1>7. CASE d \in {"empty_column", "excessive_missing_values", "missing_likely_identifier"}
  <2>1. f \in EmptyColumn(p) \cup ExcessiveMissing(t, p) \cup MissingIdentifier(t, p)
    BY <1>3, <1>4, <1>7
  <2> QED BY <1>5, <2>1, RulesForGaps
<1>8. CASE d \in {"future_dates", "implausibly_old_dates"}
  <2>1. f \in FutureDates(t, p) \cup OldDates(t, p)
    BY <1>3, <1>4, <1>8
  <2> QED BY <1>5, <2>1, RulesForDates
<1>9. CASE d = "negative_likely_non_negative_values"
  BY <1>3, <1>4, <1>5, <1>9, RuleForNegatives
<1>10. CASE d = "invalid_percentages"
  BY <1>3, <1>4, <1>5, <1>10, RuleForPercentages
<1>11. CASE d = "extreme_outliers"
  BY <1>3, <1>4, <1>5, <1>11, RuleForOutliers
<1>12. CASE d = "leading_trailing_whitespace"
  BY <1>3, <1>4, <1>5, <1>12, RuleForWhitespace
<1>13. CASE d = "suspiciously_constant_column"
  BY <1>3, <1>4, <1>5, <1>13, RuleForConstant
<1> QED BY <1>2, <1>6, <1>7, <1>8, <1>9, <1>10, <1>11, <1>12, <1>13 DEF rule

\* A rule that may be stored can be executed, but for its pattern.
LEMMA RulesRun ==
  ASSUME NEW rule, IsRule(rule), NEW t
  PROVE  /\ CanRun(rule) <=> ~ (rule.type = "regex" /\ ~ rule.given.pattern.valid)
         /\ Execute(rule, t).error <=> ~ CanRun(rule)
<1>1. Execute(rule, t).error <=> ~ CanRun(rule)
  <2>1. CASE CanRun(rule)
    BY <2>1 DEF Execute
  <2>2. CASE ~ CanRun(rule)
    BY <2>2 DEF Execute
  <2> QED BY <2>1, <2>2
<1>2. HasColumns(rule) /\ HasParameters(rule)
  BY DEF IsRule
<1>3. CASE rule.type = "accepted_values"
  BY <1>2, <1>3, <1>1 DEF HasParameters, CanRun, Has, Owned
<1>4. CASE rule.type = "regex"
  BY <1>2, <1>4, <1>1 DEF HasParameters, CanRun, Has, Owned
<1>5. CASE rule.type = "approximate_equality"
  BY <1>2, <1>5, <1>1 DEF HasParameters, CanRun, Has, Owned
<1>6. CASE rule.type = "expression_comparison"
  <2>1. Len(rule.columns) \in 1 .. 2
    BY <1>2, <1>6 DEF HasColumns
  <2>2. Has(rule, "comparison_operator")
        /\ (Has(rule, "comparison_value") <=> Len(rule.columns) = 1)
    BY <1>2, <1>6 DEF HasParameters
  <2> QED BY <1>6, <1>1, <2>1, <2>2 DEF CanRun
<1>7. CASE rule.type = "conditional_rule"
  BY <1>2, <1>7, <1>1 DEF HasParameters, CanRun
<1>8. CASE rule.type \notin {"accepted_values", "regex", "approximate_equality",
                            "expression_comparison", "conditional_rule"}
  BY <1>8, <1>1 DEF CanRun
<1> QED BY <1>3, <1>4, <1>5, <1>6, <1>7, <1>8
-----------------------------------------------------------------------------
(* What is answered.                                                       *)

\* A rule that skips missing cells fails no row it skips.
LEMMA SkippedAreNotFailed ==
  ASSUME NEW rule, NEW t, rule.type \in DOMAIN Owned, rule.nulls = "skip"
  PROVE  Execute(rule, t).failed \cap Execute(rule, t).skipped = {}
<1> DEFINE wrong == Wrong(rule, t, Answered(rule, t))
           missing == Unanswered(rule, t)
<1>1. wrong \cap missing = {}
  <2>1. CASE rule.type \in {"not_null", "max_missing_percentage"}
    BY <2>1 DEF Unanswered
  <2>2. CASE rule.type \in {"unique", "max_duplicate_percentage"}
    <3>1. wrong = Repeated(rule, t) /\ missing = Incomplete(rule, t)
      BY <2>2 DEF Wrong, Unanswered
    <3>2. Repeated(rule, t) \cap Incomplete(rule, t) = {}
      BY DEF Repeated
    <3> QED BY <3>1, <3>2
  <2>3. CASE rule.type \in {"numeric_range", "date_range", "regex", "accepted_values"}
    <3>1. wrong \subseteq Answered(rule, t)
      BY <2>3 DEF Wrong
    <3> QED BY <3>1 DEF Answered
  <2>4. CASE rule.type \in {"approximate_equality", "expression_comparison",
                            "conditional_rule"}
    <3>1. wrong \subseteq Answered(rule, t)
      BY <2>4 DEF Wrong
    <3> QED BY <3>1 DEF Answered
  <2> QED BY <2>1, <2>2, <2>3, <2>4 DEF Owned
<1> HIDE DEF wrong, missing
<1>2. CASE CanRun(rule)
  <2>1. Execute(rule, t).failed = wrong /\ Execute(rule, t).skipped = missing
    BY <1>2 DEF Execute, Answered, wrong, missing
  <2> QED BY <1>1, <2>1
<1>3. CASE ~ CanRun(rule)
  BY <1>3 DEF Execute
<1> QED BY <1>2, <1>3

\* A rule that is right for a finding fails the rows meant.
LEMMA RightTally ==
  ASSUME NEW rule, NEW f, NEW t, IsRightFor(rule, f, t)
  PROVE  Execute(rule, t).failed = Meant(f, t)
<1>1. CanRun(rule)
  BY RulesRun DEF IsRightFor
<1>2. Wrong(rule, t, RowIds(t) \ Unanswered(rule, t)) = Meant(f, t)
      /\ rule.nulls = "skip"
  BY DEF IsRightFor, Answered
<1> QED BY <1>1, <1>2 DEF Execute

\* What a proposal is made of.
IsOffer(rule) ==
    /\ rule = [type |-> rule.type, columns |-> rule.columns, nulls |-> rule.nulls,
               given |-> rule.given]
    /\ rule.type \in DOMAIN Owned /\ rule.nulls = "skip"
    /\ Len(rule.columns) \in Nat /\ DOMAIN rule.columns = 1 .. Len(rule.columns)
    /\ rule.columns = [k \in DOMAIN rule.columns |-> rule.columns[k]]

\* Every proposal has these parts.
LEMMA ProposalIsRule ==
  ASSUME NEW f, IsGeneratable(f), NEW t, IsTable(t), NEW p, NEW rule,
         rule = Proposal(f, t, p)
  PROVE  IsOffer(rule)
<1>1. rule.type \in DOMAIN Owned
  <2>1. rule.type = RuleTypes[f.detector] /\ f.detector \in DOMAIN RuleTypes
    BY DEF Proposal, IsGeneratable
  <2>2. \A d \in DOMAIN RuleTypes : RuleTypes[d] \in DOMAIN Owned
    BY DEF RuleTypes, Owned
  <2> QED BY <2>1, <2>2
<1>2. /\ Len(rule.columns) \in Nat /\ DOMAIN rule.columns = 1 .. Len(rule.columns)
      /\ rule.columns = [k \in DOMAIN rule.columns |-> rule.columns[k]]
  <2>1. CASE f.detector = "exact_duplicate_rows"
    <3> DEFINE n == Len(t.columns)
    <3>1. n \in Nat /\ rule.columns = [c \in 1 .. n |-> c]
      BY <2>1 DEF Proposal, IsTable, Cols
    <3> HIDE DEF n
    <3>2. Len(rule.columns) = n /\ DOMAIN rule.columns = 1 .. n
      BY <3>1
    <3> QED BY <3>1, <3>2
  <2>2. CASE f.detector # "exact_duplicate_rows"
    <3> DEFINE c == CHOOSE c \in f.columns : TRUE
    <3>1. rule.columns = <<c>>
      BY <2>2 DEF Proposal
    <3> HIDE DEF c
    <3> QED BY <3>1
  <2> QED BY <2>1, <2>2
<1> QED BY <1>1, <1>2 DEF Proposal, IsOffer

\* What is asked of a rule depends on how many columns it has, and not on which.
LEMMA OtherColumns ==
  ASSUME NEW rule, IsRule(rule), NEW other, other.type = rule.type,
         other.given = rule.given, Len(other.columns) = Len(rule.columns)
  PROVE  IsRule(other)
<1>1. HasColumns(other)
  BY DEF IsRule, HasColumns
<1>2. \A parameter : Has(other, parameter) <=> Has(rule, parameter)
  BY DEF Has
<1>3. HasParameters(other)
  <2>1. HasParameters(rule)
    BY DEF IsRule
  <2> QED BY <1>2, <2>1 DEF HasParameters
<1> QED BY <1>1, <1>3 DEF IsRule

\* An offer is accepted as it is, unless a later column has the name of one of its own.
AcceptedIsRight(f) ==
    LET rule == Proposal(f, table, profile)
        created == Created(AsRequest(rule), f)
        shared == \E c \in Range(rule.columns), d \in Cols(table) :
                      d > c /\ table.columns[d].name = table.columns[c].name
    IN /\ created.kind = "stored" /\ created.finding = f
       /\ IsRule(created.rule) /\ created.tally = Execute(created.rule, table)
       /\ created.tally.failed \cap created.tally.skipped = {}
       /\ shared \/ created.tally.failed = Meant(f, table)

\* Creating a rule from its offer ends that way.
LEMMA AcceptedOffers ==
  ASSUME NEW f, IsGeneratable(f), IsTable(table),
         IsRightFor(Proposal(f, table, profile), f, table)
  PROVE  AcceptedIsRight(f)
<1> DEFINE rule == Proposal(f, table, profile)
           request == AsRequest(rule)
           columns == [k \in DOMAIN request.names |-> Named(table, request.names[k])]
           other == [type |-> request.type, nulls |-> request.nulls,
                     given |-> request.given, columns |-> columns]
           Name(c) == table.columns[c].name
           shared == \E c \in Range(rule.columns), d \in Cols(table) :
                         d > c /\ Name(d) = Name(c)
<1>1. /\ rule = [type |-> rule.type, columns |-> rule.columns, nulls |-> rule.nulls,
                 given |-> rule.given]
      /\ rule.type \in DOMAIN Owned /\ rule.nulls = "skip"
      /\ Len(rule.columns) \in Nat /\ DOMAIN rule.columns = 1 .. Len(rule.columns)
      /\ rule.columns = [k \in DOMAIN rule.columns |-> rule.columns[k]]
  BY ProposalIsRule DEF IsOffer
<1>2. /\ IsRule(rule) /\ \A k \in DOMAIN rule.columns : rule.columns[k] \in Cols(table)
      /\ IsRightFor(rule, f, table)
  BY DEF IsRightFor
<1> HIDE DEF rule
<1>3. /\ request.type = rule.type /\ request.nulls = rule.nulls
      /\ request.given = rule.given /\ DOMAIN request.names = DOMAIN rule.columns
      /\ \A k \in DOMAIN rule.columns : request.names[k] = Name(rule.columns[k])
  BY DEF AsRequest
<1> HIDE DEF request
<1>4. Range(request.names) \subseteq {Name(c) : c \in Cols(table)}
  BY <1>2, <1>3 DEF Range
<1>5. /\ other.type = rule.type /\ other.nulls = rule.nulls /\ other.given = rule.given
      /\ other.columns = columns /\ DOMAIN columns = DOMAIN rule.columns
      /\ \A k \in DOMAIN rule.columns : columns[k] = Named(table, Name(rule.columns[k]))
  BY <1>3
<1>6. Len(columns) = Len(rule.columns)
  <2> DEFINE n == Len(rule.columns)
  <2>1. columns = [k \in 1 .. n |-> Named(table, request.names[k])] /\ n \in Nat
    BY <1>1, <1>3
  <2> HIDE DEF columns, n
  <2>2. Len(columns) = n
    BY <2>1
  <2> QED BY <2>2 DEF n
<1>7. Created(request, f) = Answer("stored", f, other)
  BY <1>4 DEF Created
<1> HIDE DEF columns, other
<1>8. IsRule(other)
  BY <1>2, <1>5, <1>6, OtherColumns
<1>9. Answer("stored", f, other) = [kind |-> "stored", finding |-> f, rule |-> other,
                                    tally |-> Execute(other, table)]
  BY <1>8 DEF Answer
<1>10. Execute(other, table).failed \cap Execute(other, table).skipped = {}
  BY <1>1, <1>5, SkippedAreNotFailed
<1>11. ~ shared => Execute(other, table).failed = Meant(f, table)
  <2>1. SUFFICES ASSUME ~ shared PROVE Execute(other, table).failed = Meant(f, table)
    OBVIOUS
  <2>2. ASSUME NEW k \in DOMAIN rule.columns PROVE columns[k] = rule.columns[k]
    <3> DEFINE c == rule.columns[k]
               S == {d \in Cols(table) : Name(d) = Name(c)}
    <3>1. c \in Range(rule.columns) /\ c \in Cols(table)
      BY <1>2 DEF Range
    <3>2. c \in S /\ \A d \in S : ~ d > c
      BY <2>1, <3>1
    <3>3. \A d \in Cols(table) : d \in Int
      BY DEF Cols
    <3>4. S \subseteq Cols(table)
      OBVIOUS
    <3>5. Named(table, Name(c)) = SetMax(S)
      BY DEF Named
    <3>6. columns[k] = Named(table, Name(c))
      BY <1>5
    <3> HIDE DEF S, c
    <3>7. \A d \in S : d <= c
      BY <3>1, <3>2, <3>3, <3>4
    <3>8. \A m \in S : (\A d \in S : d <= m) => m = c
      BY <3>1, <3>2, <3>3, <3>4
    <3>9. SetMax(S) = c
      BY <3>2, <3>7, <3>8 DEF SetMax
    <3> QED BY <3>5, <3>6, <3>9 DEF c
  <2>3. columns = rule.columns
    <3>1. columns = [k \in DOMAIN columns |-> columns[k]]
      BY DEF columns
    <3> QED BY <1>1, <1>5, <2>2, <3>1
  <2>4. other = [type |-> rule.type, columns |-> rule.columns, nulls |-> rule.nulls,
                 given |-> rule.given]
    <3>1. other = [type |-> request.type, nulls |-> request.nulls,
                   given |-> request.given, columns |-> columns]
      BY DEF other
    <3> QED BY <1>3, <2>3, <3>1
  <2>5. other = rule
    BY <1>1, <2>4
  <2> QED BY <1>2, <2>5, RightTally
<1> HIDE DEF shared
<1>12. LET created == Created(request, f)
       IN /\ created.kind = "stored" /\ created.finding = f
          /\ IsRule(created.rule) /\ created.tally = Execute(created.rule, table)
          /\ created.tally.failed \cap created.tally.skipped = {}
          /\ shared \/ created.tally.failed = Meant(f, table)
  BY <1>7, <1>8, <1>9, <1>10, <1>11
<1> QED BY <1>12 DEF AcceptedIsRight, request, rule, shared

\* What is answered about a finding is answered for one that a detector made.
LEMMA AnswersAreRight ==
  ASSUME ChecksInvariant, answer # NoValue
  PROVE  /\ IsTable(table) /\ profile = Profile(table)
         /\ \/ \E f \in Findings(results) :
                   /\ IsGeneratable(f)
                   /\ IsRightFor(Proposal(f, table, profile), f, table)
                   /\ AcceptedIsRight(f)
                   /\ \/ answer = Answer("offered", f, Proposal(f, table, profile))
                      \/ answer = Created(AsRequest(Proposal(f, table, profile)), f)
            \/ \E request \in Requests : answer = Created(request, NoValue)
<1>1. StagesFit /\ AnswerFits /\ state = "completed"
  BY DEF ChecksInvariant, AnswerFits
<1>2. results # NoValue /\ CanBeProfiled(table)
  BY <1>1 DEF StagesFit
<1>3. IsTable(table) /\ profile = Profile(table)
  BY <1>1, <1>2, RunIsSound
<1>4. ASSUME NEW f \in Findings(results), IsGeneratable(f)
      PROVE  IsRightFor(Proposal(f, table, profile), f, table)
  <2>1. PICK failing : results = RanWith(failing)
    BY <1>1, <1>2, RunIsSound
  <2>2. DOMAIN results = DetectorIds
    BY <1>3, <2>1, AllFindings DEF RanWith
  <2>3. PICK d \in DetectorIds : f \in results[d].findings
    BY <2>2 DEF Findings
  <2>4. f \in Found(table, profile)[d]
    BY <1>1, <1>2, <2>3, RanFinds
  <2> QED BY <1>2, <1>3, <1>4, <2>4, OffersAreRight
<1>5. ASSUME NEW f \in Findings(results), IsGeneratable(f)
      PROVE  AcceptedIsRight(f)
  BY <1>3, <1>4, <1>5, AcceptedOffers
<1> QED BY <1>1, <1>3, <1>4, <1>5 DEF AnswerFits

\* The rule offered for a finding fails what was flagged, and so does the one stored.
THEOREM RuleFailsWhatItFlagsHolds == Spec => []RuleFailsWhatItFlags
<1>1. ASSUME ChecksInvariant PROVE RuleFailsWhatItFlags
  <2> DEFINE f == answer.finding
             meant == Proposal(f, table, profile).columns
             Name(c) == table.columns[c].name
             shared == \E c \in Range(meant), d \in Cols(table) : d > c /\ Name(d) = Name(c)
  <2>1. SUFFICES ASSUME answer # NoValue, answer.finding # NoValue
                 PROVE  /\ answer.kind # "refused"
                        /\ answer.tally.failed \cap answer.tally.skipped = {}
                        /\ \/ answer.kind = "stored" /\ shared
                           \/ answer.tally.failed = Meant(f, table)
    BY DEF RuleFailsWhatItFlags, Meant
  <2>2. \A request : Created(request, NoValue).finding = NoValue
    BY DEF Created, Answer
  <2>3. IsTable(table)
    BY <1>1, <2>1, AnswersAreRight
  <2>4. PICK g \in Findings(results) :
            /\ IsGeneratable(g)
            /\ IsRightFor(Proposal(g, table, profile), g, table) /\ AcceptedIsRight(g)
            /\ \/ answer = Answer("offered", g, Proposal(g, table, profile))
               \/ answer = Created(AsRequest(Proposal(g, table, profile)), g)
    BY <1>1, <2>1, <2>2, AnswersAreRight
  <2>5. CASE answer = Answer("offered", g, Proposal(g, table, profile))
    <3> DEFINE rule == Proposal(g, table, profile)
    <3>1. IsRule(rule) /\ rule.type \in DOMAIN Owned /\ rule.nulls = "skip"
      BY <2>3, <2>4, ProposalIsRule DEF IsOffer, IsRightFor
    <3>2. answer = [kind |-> "offered", finding |-> g, rule |-> rule,
                    tally |-> Execute(rule, table)]
      BY <2>5, <3>1 DEF Answer
    <3> HIDE DEF rule
    <3>3. answer.kind = "offered" /\ f = g /\ answer.tally = Execute(rule, table)
      BY <3>2
    <3>4. Execute(rule, table).failed = Meant(g, table)
      BY <2>4, RightTally DEF rule
    <3>5. Execute(rule, table).failed \cap Execute(rule, table).skipped = {}
      BY <3>1, SkippedAreNotFailed
    <3> QED BY <3>3, <3>4, <3>5
  <2>6. CASE answer = Created(AsRequest(Proposal(g, table, profile)), g)
    <3>1. /\ answer.kind = "stored" /\ f = g
          /\ answer.tally.failed \cap answer.tally.skipped = {}
      BY <2>4, <2>6 DEF AcceptedIsRight
    <3>2. shared \/ answer.tally.failed = Meant(f, table)
      BY <2>4, <2>6, <3>1 DEF AcceptedIsRight
    <3> QED BY <3>1, <3>2
  <2> QED BY <2>4, <2>5, <2>6
<1> QED BY <1>1, ChecksInvariantHolds, PTL

\* A stored rule comes with the outcome of a rule that may be stored.
LEMMA StoredRules ==
  ASSUME ChecksInvariant, answer # NoValue, answer.kind = "stored"
  PROVE  /\ IsRule(answer.rule) /\ answer.tally = Execute(answer.rule, table)
         /\ answer.tally.error <=> ~ CanRun(answer.rule)
<1>1. \A f, rule : Answer("offered", f, rule).kind # "stored"
  BY DEF Answer
<1>2. PICK request, f : answer = Created(request, f)
  BY <1>1, AnswersAreRight
<1> DEFINE rule == [type |-> request.type, nulls |-> request.nulls, given |-> request.given,
                    columns |-> [k \in DOMAIN request.names |->
                                    Named(table, request.names[k])]]
<1>3. answer = Answer("stored", f, rule)
  BY <1>2 DEF Created
<1> HIDE DEF rule
<1>4. IsRule(rule) /\ answer = [kind |-> "stored", finding |-> f, rule |-> rule,
                                tally |-> Execute(rule, table)]
  BY <1>3 DEF Answer
<1>5. answer.rule = rule /\ answer.tally = Execute(rule, table)
  BY <1>4
<1> QED BY <1>4, <1>5, RulesRun

\* What may be stored can be executed.
THEOREM StoredRulesRunHolds == Spec => []StoredRulesRun
<1>1. ASSUME ChecksInvariant PROVE StoredRulesRun
  <2>1. SUFFICES ASSUME answer # NoValue, answer.kind = "stored"
                 PROVE  answer.tally.error <=>
                            answer.rule.type = "regex"
                                /\ ~ answer.rule.given.pattern.valid
    BY DEF StoredRulesRun
  <2>2. IsRule(answer.rule) /\ (answer.tally.error <=> ~ CanRun(answer.rule))
    BY <1>1, <2>1, StoredRules
  <2> QED BY <2>2, RulesRun
<1> QED BY <1>1, ChecksInvariantHolds, PTL
-----------------------------------------------------------------------------
(* Rules of two types that say the same.                                   *)

\* What the schema of a request, or a detector, makes sure of.
IsTyped(rule, t) ==
    /\ DOMAIN rule = {"type", "columns", "nulls", "given"}
    /\ rule.type \in DOMAIN Owned /\ rule.nulls \in {"skip", "fail"}
    /\ Len(rule.columns) \in Nat /\ DOMAIN rule.columns = 1 .. Len(rule.columns)
    /\ \A k \in DOMAIN rule.columns : rule.columns[k] \in Cols(t)
    /\ rule.type = "numeric_range" => HasWholeBounds(rule)
    /\ rule.type \in {"expression_comparison", "conditional_rule"} =>
           \A parameter \in DOMAIN rule.given :
               IF parameter \in {"comparison_operator", "condition_operator"}
               THEN rule.given[parameter] \in Operators ELSE rule.given[parameter] \in Int

\* The columns a request names.
LEMMA NamedColumns ==
  ASSUME NEW t, IsTable(t), NEW name, NEW c \in Cols(t), t.columns[c].name = name
  PROVE  Named(t, name) \in Cols(t)
<1> DEFINE S == {d \in Cols(t) : t.columns[d].name = name}
           n == Len(t.columns)
<1>1. n \in Nat /\ Cols(t) = 1 .. n
  BY DEF IsTable, Cols
<1>2. S # {} /\ S \in SUBSET Cols(t)
  OBVIOUS
<1> HIDE DEF S, n
<1>3. IsFiniteSet(S) /\ S \in SUBSET Nat
  BY <1>1, <1>2, FiniteUpTo
<1>4. SetMax(S) \in S
  BY <1>2, <1>3, Largest
<1> QED BY <1>2, <1>4 DEF Named, S

\* Whatever is stored is typed.
LEMMA StoredRulesAreTyped ==
  ASSUME ChecksInvariant, answer # NoValue, answer.kind = "stored"
  PROVE  IsTyped(answer.rule, table)
<1>1. IsTable(table) /\ profile = Profile(table)
  BY AnswersAreRight
<1>2. \A f, rule : Answer("offered", f, rule).kind # "stored"
  BY DEF Answer
<1> DEFINE Rule(request) ==
               [type |-> request.type, nulls |-> request.nulls, given |-> request.given,
                columns |-> [k \in DOMAIN request.names |->
                                Named(table, request.names[k])]]
<1>3. ASSUME NEW request, NEW f, answer = Created(request, f)
      PROVE  /\ answer.rule = Rule(request) /\ IsRule(answer.rule)
             /\ Range(request.names) \subseteq {table.columns[c].name : c \in Cols(table)}
  <2>1. answer = Answer("stored", f, Rule(request))
        /\ Range(request.names) \subseteq {table.columns[c].name : c \in Cols(table)}
    BY <1>3 DEF Created
  <2> HIDE DEF Rule
  <2>2. IsRule(Rule(request))
        /\ answer = [kind |-> "stored", finding |-> f, rule |-> Rule(request),
                     tally |-> Execute(Rule(request), table)]
    BY <2>1 DEF Answer
  <2> QED BY <2>1, <2>2
<1>4. ASSUME NEW request, NEW f, answer = Created(request, f), NEW n \in Nat,
             DOMAIN request.names = 1 .. n
      PROVE  LET rule == answer.rule
             IN /\ DOMAIN rule = {"type", "columns", "nulls", "given"}
                /\ rule.type = request.type /\ rule.nulls = request.nulls
                /\ rule.given = request.given
                /\ Len(rule.columns) = n /\ DOMAIN rule.columns = 1 .. n
                /\ \A k \in DOMAIN rule.columns : rule.columns[k] \in Cols(table)
  <2> DEFINE columns == [k \in DOMAIN request.names |-> Named(table, request.names[k])]
             rule == answer.rule
  <2>1. rule = [type |-> request.type, nulls |-> request.nulls, given |-> request.given,
                columns |-> columns]
    BY <1>3, <1>4
  <2>2. columns = [k \in 1 .. n |-> Named(table, request.names[k])]
    BY <1>4
  <2>3. \A k \in 1 .. n : columns[k] \in Cols(table)
    <3>1. ASSUME NEW k \in 1 .. n PROVE Named(table, request.names[k]) \in Cols(table)
      <4>1. request.names[k] \in Range(request.names)
        BY <1>4 DEF Range
      <4>2. PICK c \in Cols(table) : request.names[k] = table.columns[c].name
        BY <1>3, <1>4, <4>1
      <4> QED BY <1>1, <4>2, NamedColumns
    <3> QED BY <2>2, <3>1
  <2> HIDE DEF columns
  <2>4. Len(columns) = n /\ DOMAIN columns = 1 .. n
    BY <2>2
  <2> HIDE DEF rule
  <2>5. /\ DOMAIN rule = {"type", "columns", "nulls", "given"}
        /\ rule.type = request.type /\ rule.nulls = request.nulls
        /\ rule.given = request.given /\ rule.columns = columns
    BY <2>1
  <2> QED BY <2>3, <2>4, <2>5 DEF rule
<1>5. CASE \E request \in Requests : answer = Created(request, NoValue)
  <2>1. PICK request \in Requests : answer = Created(request, NoValue)
    BY <1>5
  <2> DEFINE rule == answer.rule
             given == request.given
             n == Len(request.names)
  <2>2. n \in Nat /\ DOMAIN request.names = 1 .. n
    <3>1. request.names \in Seq(STRING)
      BY RequestsAreRequests
    <3> QED BY ONLY <3>1
  <2>3. /\ request.type \in DOMAIN Owned /\ request.nulls \in {"skip", "fail"}
        /\ given = [parameter \in DOMAIN given |-> given[parameter]]
        /\ \A parameter \in DOMAIN given :
               CASE parameter \in {"comparison_operator", "condition_operator"} ->
                        given[parameter] \in Operators
                 [] parameter \in {"accepted_values", "pattern"} -> TRUE
                 [] OTHER -> given[parameter] \in Int
    BY RequestsAreRequests
  <2> HIDE DEF n
  <2>4. /\ DOMAIN rule = {"type", "columns", "nulls", "given"}
        /\ rule.type = request.type /\ rule.nulls = request.nulls /\ rule.given = given
        /\ Len(rule.columns) = n /\ DOMAIN rule.columns = 1 .. n
        /\ \A k \in DOMAIN rule.columns : rule.columns[k] \in Cols(table)
    BY <1>4, <2>1, <2>2
  <2>5. HasParameters(rule) /\ DOMAIN given \subseteq Owned[rule.type]
    BY <1>3, <2>1, <2>4 DEF IsRule, HasParameters
  <2>6. rule.type = "numeric_range" => HasWholeBounds(rule)
    <3>1. SUFFICES ASSUME rule.type = "numeric_range" PROVE HasWholeBounds(rule)
      OBVIOUS
    <3>2. given # << >> /\ DOMAIN given \subseteq {"minimum", "maximum"}
      BY <2>4, <2>5, <3>1 DEF HasParameters, Owned
    <3>3. DOMAIN given # {}
      BY <2>3, <3>2, NoArguments
    <3>4. \A parameter \in DOMAIN given : given[parameter] \in Int
      BY <2>3, <3>2
    <3> QED BY <2>4, <3>3, <3>4 DEF HasWholeBounds
  <2>7. ASSUME rule.type \in {"expression_comparison", "conditional_rule"},
               NEW parameter \in DOMAIN rule.given
        PROVE  IF parameter \in {"comparison_operator", "condition_operator"}
               THEN rule.given[parameter] \in Operators ELSE rule.given[parameter] \in Int
    <3>1. parameter \in {"comparison_operator", "comparison_value",
                         "condition_operator", "condition_value"}
      BY <2>4, <2>5, <2>7 DEF Owned
    <3> QED BY <2>3, <2>4, <3>1
  <2> HIDE DEF rule, given
  <2>8. IsTyped(rule, table)
    BY <2>2, <2>3, <2>4, <2>6, <2>7 DEF IsTyped
  <2> QED BY <2>8 DEF rule
<1>6. CASE \E f \in Findings(results) :
              /\ IsGeneratable(f)
              /\ IsRightFor(Proposal(f, table, profile), f, table)
              /\ answer = Created(AsRequest(Proposal(f, table, profile)), f)
  <2>1. PICK f \in Findings(results) :
            /\ IsGeneratable(f)
            /\ IsRightFor(Proposal(f, table, profile), f, table)
            /\ answer = Created(AsRequest(Proposal(f, table, profile)), f)
    BY <1>6
  <2> DEFINE offer == Proposal(f, table, profile)
             request == AsRequest(offer)
             rule == answer.rule
             n == Len(offer.columns)
  <2>2. /\ offer.type \in DOMAIN Owned /\ offer.nulls = "skip"
        /\ n \in Nat /\ DOMAIN offer.columns = 1 .. n
    <3>1. IsOffer(offer)
      BY <1>1, <2>1, ProposalIsRule
    <3> HIDE DEF offer
    <3> QED BY <3>1 DEF IsOffer
  <2>3. /\ offer.type = "numeric_range" => HasWholeBounds(offer)
        /\ offer.type \notin {"expression_comparison", "conditional_rule"}
    BY <2>1 DEF IsRightFor, Proposal, RuleTypes, IsGeneratable
  <2> HIDE DEF offer, n
  <2>4. /\ request.type = offer.type /\ request.nulls = offer.nulls
        /\ request.given = offer.given /\ DOMAIN request.names = 1 .. n
    BY <2>2 DEF AsRequest
  <2> HIDE DEF request
  <2>5. answer = Created(request, f)
    BY <2>1 DEF request, offer
  <2>6. /\ DOMAIN rule = {"type", "columns", "nulls", "given"}
        /\ rule.type = request.type /\ rule.nulls = request.nulls
        /\ rule.given = request.given
        /\ Len(rule.columns) = n /\ DOMAIN rule.columns = 1 .. n
        /\ \A k \in DOMAIN rule.columns : rule.columns[k] \in Cols(table)
    BY <1>4, <2>2, <2>4, <2>5
  <2> HIDE DEF rule
  <2>7. rule.type = "numeric_range" => HasWholeBounds(rule)
    BY <2>3, <2>4, <2>6 DEF HasWholeBounds
  <2>8. IsTyped(rule, table)
    BY <2>2, <2>3, <2>4, <2>6, <2>7 DEF IsTyped
  <2> QED BY <2>8 DEF rule
<1> QED BY <1>2, <1>5, <1>6, AnswersAreRight
-----------------------------------------------------------------------------
(* Rules of two types that say the same.                                   *)

\* The rule with another type, and the same rule for missing cells.
Like(rule, type, columns, given) ==
    [rule EXCEPT !.type = type, !.columns = columns, !.given = given]

Versus(rule, c, operator, value) ==
    Like(rule, "expression_comparison", <<c>>,
         [comparison_operator |-> operator, comparison_value |-> value])

\* It has the type, the columns and the parameters it is given.
LEMMA LikeIsLike ==
  ASSUME NEW rule, NEW t, IsTyped(rule, t), NEW type, NEW columns, NEW given,
         NEW other, other = Like(rule, type, columns, given)
  PROVE  /\ other.type = type /\ other.columns = columns /\ other.given = given
         /\ other.nulls = rule.nulls
<1>1. DOMAIN rule = {"type", "columns", "nulls", "given"}
  BY DEF IsTyped
<1> QED BY <1>1 DEF Like

\* Execute, of a rule that can run.
Tallied(tally, rule, t, missing, wrong) ==
    /\ tally.error = FALSE
    /\ tally.failed = wrong \cup (IF rule.nulls = "fail" THEN missing ELSE {})
    /\ tally.skipped = (IF rule.nulls = "fail" THEN {} ELSE missing)
    /\ tally.passed = RowIds(t) \ (tally.failed \cup tally.skipped)
    /\ DOMAIN tally = {"error", "failed", "skipped", "passed"}
    /\ tally = [error |-> tally.error, failed |-> tally.failed,
                skipped |-> tally.skipped, passed |-> tally.passed]

\* Executing a rule that can run makes that tally.
LEMMA Tallies ==
  ASSUME NEW rule, NEW t, CanRun(rule), NEW tally, tally = Execute(rule, t)
  PROVE  Tallied(tally, rule, t, Unanswered(rule, t), Wrong(rule, t, Answered(rule, t)))
<1> DEFINE missing == Unanswered(rule, t)
           wrong == Wrong(rule, t, Answered(rule, t))
           failed == wrong \cup (IF rule.nulls = "fail" THEN missing ELSE {})
           skipped == IF rule.nulls = "fail" THEN {} ELSE missing
<1>1. tally = [error |-> FALSE, failed |-> failed, skipped |-> skipped,
               passed |-> RowIds(t) \ (failed \cup skipped)]
  BY DEF Execute, Answered
<1> HIDE DEF missing, wrong
<1>2. /\ tally.error = FALSE /\ tally.failed = failed /\ tally.skipped = skipped
      /\ tally.passed = RowIds(t) \ (failed \cup skipped)
  BY <1>1
<1>3. Tallied(tally, rule, t, missing, wrong)
  BY <1>1, <1>2 DEF Tallied
<1> QED BY <1>3 DEF missing, wrong

\* Two rules that skip and fail the same have one tally.
LEMMA SameTally ==
  ASSUME NEW rule, NEW other, NEW t, CanRun(rule), CanRun(other),
         rule.nulls = other.nulls, Unanswered(rule, t) = Unanswered(other, t),
         Wrong(rule, t, Answered(rule, t)) = Wrong(other, t, Answered(other, t))
  PROVE  Execute(rule, t) = Execute(other, t)
BY DEF Execute, Answered

\* The percentages count what not_null and unique fail.
LEMMA CountedAgrees ==
  ASSUME NEW rule, NEW t, IsTyped(rule, t), NEW other, NEW type,
         other = Like(rule, type, rule.columns, << >>),
         \/ rule.type = "max_missing_percentage" /\ type = "not_null"
         \/ rule.type = "max_duplicate_percentage" /\ type = "unique"
  PROVE  Execute(rule, t) = Execute(other, t)
<1>1. other.type = type /\ other.columns = rule.columns /\ other.nulls = rule.nulls
  BY LikeIsLike
<1>2. CanRun(rule) /\ CanRun(other)
  BY <1>1 DEF CanRun
<1>3. CASE type = "not_null"
  <2>1. Unanswered(rule, t) = Unanswered(other, t)
    BY <1>1, <1>3 DEF Unanswered
  <2>2. Wrong(rule, t, Answered(rule, t)) = Wrong(other, t, Answered(other, t))
    BY <1>1, <1>3 DEF Wrong
  <2> QED BY <1>1, <1>2, <2>1, <2>2, SameTally
<1>4. CASE type = "unique"
  <2>1. Incomplete(rule, t) = Incomplete(other, t)
    BY <1>1 DEF Incomplete
  <2>2. Repeated(rule, t) = Repeated(other, t)
    BY <1>1, <2>1 DEF Repeated
  <2>3. Unanswered(rule, t) = Unanswered(other, t)
    BY <1>1, <1>4, <2>1 DEF Unanswered
  <2>4. Wrong(rule, t, Answered(rule, t)) = Wrong(other, t, Answered(other, t))
    BY <1>1, <1>4, <2>2 DEF Wrong
  <2> QED BY <1>1, <1>2, <2>3, <2>4, SameTally
<1> QED BY <1>3, <1>4

\* The rows for which a comparison with a literal is true.
HoldsFor(t, c, operator, value) ==
    {i \in Present(t, c) :
        IsNumber(t, i, c) /\ Compare(Float(t, i, c), operator, Literal(value))}

IsComparison(tally, rule, t, c, holds) ==
    LET missing == RowIds(t) \ Present(t, c)
    IN /\ tally.passed = holds
       /\ tally.skipped = (IF rule.nulls = "fail" THEN {} ELSE missing)
       /\ tally.failed = (Present(t, c) \ holds)
                             \cup (IF rule.nulls = "fail" THEN missing ELSE {})

\* The comparison of a column with a literal.
LEMMA Comparing ==
  ASSUME NEW rule, NEW t, IsTyped(rule, t), NEW c, NEW operator, NEW value,
         NEW tally, tally = Execute(Versus(rule, c, operator, value), t)
  PROVE  IsComparison(tally, rule, t, c, HoldsFor(t, c, operator, value))
<1> DEFINE other == Versus(rule, c, operator, value)
           given == [comparison_operator |-> operator, comparison_value |-> value]
           missing == RowIds(t) \ Present(t, c)
           holds == HoldsFor(t, c, operator, value)
<1>1. /\ other.type = "expression_comparison" /\ other.columns = <<c>>
      /\ other.given = given /\ other.nulls = rule.nulls
  BY LikeIsLike DEF Versus
<1> HIDE DEF other
<1>2. Len(other.columns) = 1 /\ other.columns[1] = c /\ DOMAIN other.columns = {1}
  BY <1>1
<1>3. /\ other.given.comparison_operator = operator
      /\ other.given.comparison_value = value
      /\ DOMAIN other.given = {"comparison_operator", "comparison_value"}
  BY <1>1
<1>4. CanRun(other)
  BY <1>1, <1>2, <1>3 DEF CanRun, Has
<1>5. Unanswered(other, t) = missing
  <2>1. Unanswered(other, t) = Incomplete(other, t)
    BY <1>1 DEF Unanswered
  <2>2. \A i \in RowIds(t) :
            (\E k \in DOMAIN other.columns : IsMissing(At(t, i, other.columns[k])))
                <=> IsMissing(At(t, i, c))
    BY <1>2
  <2> QED BY <2>1, <2>2 DEF Incomplete, Present
<1>6. Answered(other, t) = Present(t, c)
  BY <1>5 DEF Answered, Present
<1>7. Wrong(other, t, Answered(other, t)) = Present(t, c) \ holds
  <2>1. Wrong(other, t, Answered(other, t)) =
            {i \in Answered(other, t) : IsFalse(other, t, i)}
    BY <1>1 DEF Wrong
  <2>2. \A i : IsFalse(other, t, i) <=>
            \/ ~ IsNumber(t, i, c)
            \/ ~ Compare(Float(t, i, c), operator, Literal(value))
    BY <1>2, <1>3 DEF IsFalse
  <2> QED BY <1>6, <2>1, <2>2 DEF HoldsFor
<1>8. Tallied(tally, other, t, missing, Present(t, c) \ holds)
  BY <1>4, <1>5, <1>7, Tallies DEF other
<1>9. Present(t, c) \subseteq RowIds(t) /\ holds \subseteq Present(t, c)
  BY DEF Present, HoldsFor
<1> HIDE DEF holds
<1>10. IsComparison(tally, rule, t, c, holds)
  <2>1. CASE rule.nulls = "fail"
    BY <1>1, <1>8, <1>9, <2>1 DEF Tallied, IsComparison
  <2>2. CASE rule.nulls # "fail"
    BY <1>1, <1>8, <1>9, <2>2 DEF Tallied, IsComparison
  <2> QED BY <2>1, <2>2
<1> QED BY <1>10 DEF holds

\* A range is its comparisons, except that nan is in every range.
LEMMA RangeAgrees ==
  ASSUME NEW t, IsTable(t), NEW rule, IsTyped(rule, t), rule.type = "numeric_range",
         HasParameters(rule), NEW c, c = rule.columns[1], Len(rule.columns) = 1,
         NEW other,
         DOMAIN other = DOMAIN rule.given,
         "minimum" \in DOMAIN rule.given => other["minimum"] =
             Execute(Versus(rule, c, "greater_than_or_equal",
                            rule.given["minimum"]), t),
         "maximum" \in DOMAIN rule.given => other["maximum"] =
             Execute(Versus(rule, c, "less_than_or_equal", rule.given["maximum"]), t)
  PROVE  Execute(rule, t).failed = FailedBy(other) \ NotNumbers(t, c)
<1> DEFINE g == rule.given
           missing == RowIds(t) \ Present(t, c)
           Nan(i) == Read[At(t, i, c)].nan
           x(i) == 8 * Read[At(t, i, c)].number
           Operator(b) == IF b = "minimum" THEN "greater_than_or_equal"
                          ELSE "less_than_or_equal"
<1>1. /\ DOMAIN g \subseteq {"minimum", "maximum"} /\ DOMAIN g # {}
      /\ \A b \in DOMAIN g : g[b] \in Int
  BY DEF IsTyped, HasWholeBounds, HasParameters, Owned
<1>2. \A b \in DOMAIN g : other[b] = Execute(Versus(rule, c, Operator(b), g[b]), t)
  BY <1>1
<1>3. \A i \in Present(t, c) :
          /\ Read[At(t, i, c)].number \in Int
          /\ Nan(i) => IsNumber(t, i, c)
  <2>1. c \in Cols(t)
    BY DEF IsTyped
  <2> QED BY <2>1, CellsAreRead, ReadingAssumption DEF Present, IsNumber
<1>4. ASSUME NEW b \in DOMAIN g
      PROVE  \A i : i \in other[b].failed <=>
                 \/ i \in missing /\ rule.nulls = "fail"
                 \/ i \in Present(t, c)
                        /\ i \notin HoldsFor(t, c, Operator(b), g[b])
  <2> DEFINE tally == other[b]
             holds == HoldsFor(t, c, Operator(b), g[b])
  <2>1. IsComparison(tally, rule, t, c, holds)
    BY <1>2, Comparing
  <2> HIDE DEF tally, holds
  <2>2. tally.failed = (Present(t, c) \ holds)
                           \cup (IF rule.nulls = "fail" THEN missing ELSE {})
    BY <2>1 DEF IsComparison
  <2>3. \A i : i \in tally.failed <=>
            \/ i \in missing /\ rule.nulls = "fail"
            \/ i \in Present(t, c) /\ i \notin holds
    <3>1. CASE rule.nulls = "fail"
      BY <2>2, <3>1
    <3>2. CASE rule.nulls # "fail"
      BY <2>2, <3>2
    <3> QED BY <3>1, <3>2
  <2> QED BY <2>3 DEF tally, holds
<1>5. ASSUME NEW b \in DOMAIN g, NEW i \in Present(t, c)
      PROVE  i \in HoldsFor(t, c, Operator(b), g[b]) <=>
                 /\ IsNumber(t, i, c) /\ ~ Nan(i)
                 /\ b = "minimum" => x(i) >= g[b]
                 /\ b = "maximum" => x(i) <= g[b]
  <2>1. Float(t, i, c).nan = Nan(i) /\ Float(t, i, c).value = x(i)
    BY DEF Float
  <2>2. Literal(g[b]).nan = FALSE /\ Literal(g[b]).value = g[b]
    BY DEF Literal
  <2>3. CASE b = "minimum"
    <3>1. Compare(Float(t, i, c), "greater_than_or_equal", Literal(g[b])) <=>
              ~ Nan(i) /\ x(i) >= g[b]
      BY <2>1, <2>2 DEF Compare
    <3> QED BY <2>3, <3>1 DEF HoldsFor
  <2>4. CASE b = "maximum"
    <3>1. Compare(Float(t, i, c), "less_than_or_equal", Literal(g[b])) <=>
              ~ Nan(i) /\ x(i) <= g[b]
      BY <2>1, <2>2 DEF Compare
    <3> QED BY <2>4, <3>1 DEF HoldsFor
  <2> QED BY <1>1, <2>3, <2>4
<1>6. \A i : i \in Execute(rule, t).failed <=>
          \/ i \in missing /\ rule.nulls = "fail"
          \/ /\ i \in Present(t, c)
             /\ \/ ~ IsNumber(t, i, c)
                \/ ~ Nan(i) /\ Outside(x(i), g, "minimum", "maximum")
  <2> DEFINE wrong == Wrong(rule, t, Answered(rule, t))
  <2>1. CanRun(rule)
    BY DEF CanRun
  <2>2. Unanswered(rule, t) = missing
    <3>1. DOMAIN rule.columns = {1}
      BY DEF IsTyped
    <3>2. Unanswered(rule, t) = Incomplete(rule, t)
      BY DEF Unanswered
    <3>3. \A i \in RowIds(t) :
              (\E k \in DOMAIN rule.columns : IsMissing(At(t, i, rule.columns[k])))
                  <=> IsMissing(At(t, i, c))
      BY <3>1
    <3> QED BY <3>2, <3>3 DEF Incomplete, Present
  <2>3. Answered(rule, t) = Present(t, c)
    BY <2>2 DEF Answered, Present
  <2>4. \A i : i \in wrong <=>
            /\ i \in Present(t, c)
            /\ \/ ~ IsNumber(t, i, c)
               \/ ~ Nan(i) /\ Outside(x(i), g, "minimum", "maximum")
    BY <2>3 DEF Wrong
  <2> HIDE DEF wrong
  <2>5. Tallied(Execute(rule, t), rule, t, missing, wrong)
    BY <2>1, <2>2, Tallies DEF wrong
  <2>6. Execute(rule, t).failed =
            wrong \cup (IF rule.nulls = "fail" THEN missing ELSE {})
    BY <2>5 DEF Tallied
  <2>7. CASE rule.nulls = "fail"
    BY <2>4, <2>6, <2>7
  <2>8. CASE rule.nulls # "fail"
    BY <2>4, <2>6, <2>8
  <2> QED BY <2>7, <2>8
<1> DEFINE all == FailedBy(other)
           nans == NotNumbers(t, c)
<1>7. /\ \A i : i \in all <=> \E b \in DOMAIN g : i \in other[b].failed
      /\ \A i : i \in nans <=> i \in Present(t, c) /\ Nan(i)
  BY DEF FailedBy, NotNumbers
<1> HIDE DEF all, nans
<1>8. ASSUME NEW i PROVE i \in Execute(rule, t).failed <=> i \in all \ nans
  <2>1. CASE i \in Present(t, c)
    <3>1. i \notin missing
      BY <2>1
    <3>2. \A b \in DOMAIN g : i \in other[b].failed <=>
              ~ /\ IsNumber(t, i, c) /\ ~ Nan(i)
                /\ b = "minimum" => x(i) >= g[b]
                /\ b = "maximum" => x(i) <= g[b]
      BY <1>4, <1>5, <2>1, <3>1
    <3>3. x(i) \in Int
      BY <1>3, <2>1
    <3>4. CASE ~ IsNumber(t, i, c)
      BY <1>1, <1>3, <1>6, <1>7, <2>1, <3>2, <3>4
    <3>5. CASE IsNumber(t, i, c) /\ Nan(i)
      BY <1>6, <1>7, <2>1, <3>1, <3>5
    <3>6. CASE IsNumber(t, i, c) /\ ~ Nan(i)
      <4> HIDE DEF x, g
      <4>1. (\E b \in DOMAIN g : i \in other[b].failed) <=>
                \/ "minimum" \in DOMAIN g /\ ~ x(i) >= g["minimum"]
                \/ "maximum" \in DOMAIN g /\ ~ x(i) <= g["maximum"]
        BY <1>1, <3>2, <3>6
      <4>2. Outside(x(i), g, "minimum", "maximum") <=>
                \/ "minimum" \in DOMAIN g /\ ~ x(i) >= g["minimum"]
                \/ "maximum" \in DOMAIN g /\ ~ x(i) <= g["maximum"]
        BY <1>1, <3>3 DEF Outside
      <4> QED BY <1>6, <1>7, <2>1, <3>1, <3>6, <4>1, <4>2
    <3> QED BY <3>4, <3>5, <3>6
  <2>2. CASE i \notin Present(t, c)
    <3>1. \A b \in DOMAIN g : i \in other[b].failed <=>
              i \in missing /\ rule.nulls = "fail"
      BY <1>4, <2>2
    <3>2. i \in Execute(rule, t).failed <=> i \in missing /\ rule.nulls = "fail"
      BY <1>6, <2>2
    <3> QED BY <1>1, <1>7, <2>2, <3>1, <3>2
  <2> QED BY <2>1, <2>2
<1>9. Execute(rule, t).failed = all \ nans
  BY <1>8
<1> QED BY <1>9 DEF all, nans

\* The rows of a column that read as numbers.
Numbers(t, c) == {i \in Present(t, c) : IsNumber(t, i, c)}

\* A conditional rule is its comparisons, one after the other.
AreOneAfterTheOther(tally, when, then, t, c) ==
    /\ when.passed \cap tally.passed = when.passed \cap then.passed
    /\ tally.skipped = when.skipped \cup (when.passed \cap then.skipped)
    /\ tally.passed \ when.passed = Numbers(t, c) \ when.passed

\* Its tally is made of theirs.
LEMMA WhenThenAgrees ==
  ASSUME NEW t, NEW rule, IsTyped(rule, t), rule.type = "conditional_rule",
         HasParameters(rule), NEW c, c = rule.columns[1],
         NEW d, d = rule.columns[2], NEW when, NEW then, NEW tally,
         tally = Execute(rule, t),
         when = Execute(Versus(rule, c, rule.given.condition_operator,
                               rule.given.condition_value), t),
         then = Execute(Versus(rule, d, rule.given.comparison_operator,
                               rule.given.comparison_value), t)
  PROVE  AreOneAfterTheOther(tally, when, then, t, c)
<1> DEFINE g == rule.given
           first == HoldsFor(t, c, g.condition_operator, g.condition_value)
           second == HoldsFor(t, d, g.comparison_operator, g.comparison_value)
           Wanting(column) == RowIds(t) \ Present(t, column)
           missing == Unanswered(rule, t)
           wrong == Wrong(rule, t, Answered(rule, t))
<1>1. IsComparison(when, rule, t, c, first)
  BY Comparing
<1>2. IsComparison(then, rule, t, d, second)
  BY Comparing
<1>3. CanRun(rule)
  BY DEF CanRun, HasParameters
<1>4. Tallied(tally, rule, t, missing, wrong)
  BY <1>3, Tallies
<1>5. /\ \A i : i \in first <=>
             /\ i \in Present(t, c) /\ IsNumber(t, i, c)
             /\ Compare(Float(t, i, c), g.condition_operator,
                        Literal(g.condition_value))
      /\ \A i : i \in second <=>
             /\ i \in Present(t, d) /\ IsNumber(t, i, d)
             /\ Compare(Float(t, i, d), g.comparison_operator,
                        Literal(g.comparison_value))
  BY DEF HoldsFor
<1> HIDE DEF first, second
<1>6. \A i \in RowIds(t) : Applies(rule, t, i) <=> i \in first
  BY <1>5 DEF Applies, Present
<1>7. \A i : i \in missing <=>
          /\ i \in RowIds(t)
          /\ i \notin Present(t, c) \/ (i \in first /\ i \notin Present(t, d))
  <2>1. missing = {i \in RowIds(t) :
                      \/ IsMissing(At(t, i, c))
                      \/ Applies(rule, t, i) /\ IsMissing(At(t, i, d))}
    BY DEF Unanswered
  <2> HIDE DEF missing
  <2> QED BY <1>6, <2>1 DEF Present
<1>8. /\ \A i : i \in first => i \in Numbers(t, c)
      /\ \A i : i \in Numbers(t, c) => i \in Present(t, c)
      /\ \A i : i \in second => i \in Present(t, d)
      /\ \A i : i \in Present(t, c) => i \in RowIds(t)
      /\ \A i : i \in Present(t, d) => i \in RowIds(t)
  BY <1>5 DEF Numbers, Present
<1>15. \A i : i \in wrong <=>
           /\ i \in RowIds(t) /\ i \notin missing
           /\ i \notin Numbers(t, c) \/ (i \in first /\ i \notin second)
  <2>1. \A i : i \in wrong <=>
            i \in RowIds(t) /\ i \notin missing /\ IsBroken(rule, t, i)
    BY DEF Wrong, Answered
  <2> HIDE DEF missing, wrong
  <2>2. ASSUME NEW i \in RowIds(t), i \notin missing
        PROVE  IsBroken(rule, t, i) <=>
                   i \notin Numbers(t, c) \/ (i \in first /\ i \notin second)
    <3>1. i \in Present(t, c)
      BY <1>7, <2>2
    <3>2. i \in Numbers(t, c) <=> IsNumber(t, i, c)
      BY <3>1 DEF Numbers
    <3>3. i \in first => i \in Present(t, d)
      BY <1>7, <2>2
    <3>4. IsBroken(rule, t, i) <=>
              \/ ~ IsNumber(t, i, c)
              \/ i \in first /\ ~ IsNumber(t, i, d)
              \/ i \in first /\ ~ Compare(Float(t, i, d), g.comparison_operator,
                                         Literal(g.comparison_value))
      BY <1>6, <2>2 DEF IsBroken
    <3> QED BY <1>5, <3>2, <3>3, <3>4
  <2> QED BY <2>1, <2>2
<1> HIDE DEF missing, wrong
<1>9. /\ when.passed = first /\ then.passed = second
      /\ when.skipped = (IF rule.nulls = "fail" THEN {} ELSE Wanting(c))
      /\ then.skipped = (IF rule.nulls = "fail" THEN {} ELSE Wanting(d))
  BY <1>1, <1>2 DEF IsComparison
<1>10. /\ tally.skipped = (IF rule.nulls = "fail" THEN {} ELSE missing)
       /\ \A i : i \in tally.passed <=>
              i \in RowIds(t) /\ i \notin wrong /\ i \notin missing
  <2>1. CASE rule.nulls = "fail"
    BY <1>4, <2>1 DEF Tallied
  <2>2. CASE rule.nulls # "fail"
    BY <1>4, <2>2 DEF Tallied
  <2> QED BY <2>1, <2>2
<1>11. \A i : i \in tally.passed <=>
           i \in Numbers(t, c) /\ (i \in first => i \in second)
  BY <1>7, <1>8, <1>10, <1>15
<1>12. when.passed \cap tally.passed = when.passed \cap then.passed
  BY <1>8, <1>9, <1>11
<1>13. tally.skipped = when.skipped \cup (when.passed \cap then.skipped)
  <2>1. CASE rule.nulls = "fail"
    BY <1>9, <1>10, <2>1
  <2>2. CASE rule.nulls # "fail"
    <3>1. tally.skipped = missing /\ when.skipped = Wanting(c)
          /\ then.skipped = Wanting(d) /\ when.passed = first
      BY <1>9, <1>10, <2>2
    <3>2. \A i : i \in tally.skipped <=>
                     i \in when.skipped \cup (when.passed \cap then.skipped)
      BY <1>7, <1>8, <3>1
    <3> HIDE DEF Wanting
    <3> QED BY <2>2, <3>1, <3>2
  <2> QED BY <2>1, <2>2
<1>14. tally.passed \ when.passed = Numbers(t, c) \ when.passed
  <2>1. \A i : i \in tally.passed \ when.passed <=> i \in Numbers(t, c) \ when.passed
    BY <1>9, <1>11
  <2> QED BY <2>1
<1> QED BY <1>12, <1>13, <1>14 DEF AreOneAfterTheOther

\* A rule that compares two columns.
LEMMA TwoColumns ==
  ASSUME NEW rule, NEW t, NEW c, NEW d, DOMAIN rule.columns = {1, 2},
         rule.columns[1] = c, rule.columns[2] = d
  PROVE  /\ \A i : i \in Incomplete(rule, t) <=>
                i \in RowIds(t) /\ (i \notin Present(t, c) \/ i \notin Present(t, d))
         /\ \A i : i \in RowIds(t) /\ i \notin Incomplete(rule, t)
                       <=> i \in Present(t, c) /\ i \in Present(t, d)
<1>1. \A i : i \in Incomplete(rule, t) <=>
          i \in RowIds(t) /\ (IsMissing(At(t, i, c)) \/ IsMissing(At(t, i, d)))
  <2>1. \A i : (\E k \in DOMAIN rule.columns : IsMissing(At(t, i, rule.columns[k])))
                   <=> (IsMissing(At(t, i, c)) \/ IsMissing(At(t, i, d)))
    OBVIOUS
  <2> QED BY <2>1 DEF Incomplete
<1> QED BY <1>1 DEF Present

OperatorTurned ==
    [less_than |-> "greater_than", greater_than |-> "less_than",
     less_than_or_equal |-> "greater_than_or_equal",
     greater_than_or_equal |-> "less_than_or_equal",
     equals |-> "equals", not_equals |-> "not_equals"]

\* A comparison may be turned round.
LEMMA TurnedCompares ==
  ASSUME NEW operator \in Operators, NEW a, NEW b,
         a.value \in Int, b.value \in Int
  PROVE  Compare(b, OperatorTurned[operator], a) <=> Compare(a, operator, b)
<1>1. CASE a.nan \/ b.nan
  <2>1. operator = "not_equals" <=> OperatorTurned[operator] = "not_equals"
    BY DEF Operators, OperatorTurned
  <2> QED BY <1>1, <2>1 DEF Compare
<1>2. CASE ~ (a.nan \/ b.nan)
  <2> DEFINE x == a.value
             y == b.value
  <2> HIDE DEF x, y
  <2>1. x \in Int /\ y \in Int
    BY DEF x, y
  <2>2. CASE operator = "equals"
    BY <1>2, <2>1, <2>2 DEF Compare, OperatorTurned, x, y
  <2>3. CASE operator = "not_equals"
    BY <1>2, <2>1, <2>3 DEF Compare, OperatorTurned, x, y
  <2>4. CASE operator = "less_than"
    BY <1>2, <2>1, <2>4 DEF Compare, OperatorTurned, x, y
  <2>5. CASE operator = "less_than_or_equal"
    BY <1>2, <2>1, <2>5 DEF Compare, OperatorTurned, x, y
  <2>6. CASE operator = "greater_than"
    BY <1>2, <2>1, <2>6 DEF Compare, OperatorTurned, x, y
  <2>7. CASE operator = "greater_than_or_equal"
    BY <1>2, <2>1, <2>7 DEF Compare, OperatorTurned, x, y
  <2> QED BY <2>2, <2>3, <2>4, <2>5, <2>6, <2>7 DEF Operators
<1> QED BY <1>1, <1>2

\* Turning a comparison of two columns round changes nothing.
LEMMA TurnedAgrees ==
  ASSUME NEW t, IsTable(t), NEW rule, IsTyped(rule, t),
         rule.type = "expression_comparison",
         HasParameters(rule), Len(rule.columns) = 2, NEW other,
         other = Like(rule, "expression_comparison", Reverse(rule.columns),
                      [rule.given EXCEPT !.comparison_operator = OperatorTurned[@]])
  PROVE  Execute(rule, t) = Execute(other, t)
<1> DEFINE g == rule.given
           c == rule.columns[1]
           d == rule.columns[2]
           operator == g.comparison_operator
<1>1. DOMAIN rule.columns = {1, 2} /\ c \in Cols(t) /\ d \in Cols(t)
  BY DEF IsTyped
<1>2. /\ other.type = rule.type /\ other.nulls = rule.nulls
      /\ other.columns = Reverse(rule.columns)
      /\ other.given = [g EXCEPT !.comparison_operator = OperatorTurned[@]]
  BY LikeIsLike
<1>3. Len(other.columns) = 2 /\ DOMAIN other.columns = {1, 2}
      /\ other.columns[1] = d /\ other.columns[2] = c
  <2>1. other.columns = [i \in 1 .. 2 |-> rule.columns[(2 - i) + 1]]
    BY <1>2 DEF Reverse
  <2> QED BY <2>1
<1>4. "comparison_operator" \in DOMAIN g /\ "comparison_value" \notin DOMAIN g
      /\ operator \in Operators
  <2>1. "comparison_operator" \in DOMAIN g /\ "comparison_value" \notin DOMAIN g
    BY DEF HasParameters, Has
  <2> QED BY <2>1 DEF IsTyped
<1>5. DOMAIN other.given = DOMAIN g
      /\ other.given.comparison_operator = OperatorTurned[operator]
  BY <1>2, <1>4
<1>6. CanRun(rule) /\ CanRun(other)
  <2>1. CanRun(rule)
    BY <1>4 DEF CanRun, Has
  <2>2. CanRun(other)
    BY <1>2, <1>3, <1>4, <1>5 DEF CanRun, Has
  <2> QED BY <2>1, <2>2
<1>7. \A i : i \in Incomplete(rule, t) <=> i \in Incomplete(other, t)
  BY <1>1, <1>3, TwoColumns
<1>8. Incomplete(rule, t) = Incomplete(other, t)
  BY <1>7
<1>9. Unanswered(rule, t) = Incomplete(rule, t)
      /\ Unanswered(other, t) = Incomplete(other, t)
  BY <1>2 DEF Unanswered
<1>10. Answered(rule, t) = Answered(other, t)
  BY <1>8, <1>9 DEF Answered
<1>11. ASSUME NEW i \in Answered(rule, t)
       PROVE  IsFalse(rule, t, i) <=> IsFalse(other, t, i)
  <2>1. i \in Present(t, c) /\ i \in Present(t, d)
    BY <1>1, <1>9, TwoColumns DEF Answered
  <2>2. Float(t, i, c).value \in Int /\ Float(t, i, d).value \in Int
    <3>1. Read[At(t, i, c)].number \in Int /\ Read[At(t, i, d)].number \in Int
      BY <1>1, <2>1, CellsAreRead, ReadingAssumption DEF Present
    <3> QED BY <3>1 DEF Float
  <2>3. Compare(Float(t, i, d), OperatorTurned[operator], Float(t, i, c))
            <=> Compare(Float(t, i, c), operator, Float(t, i, d))
    BY <1>4, <2>2, TurnedCompares
  <2>4. IsFalse(rule, t, i) <=>
            \/ ~ IsNumber(t, i, c) \/ ~ IsNumber(t, i, d)
            \/ ~ Compare(Float(t, i, c), operator, Float(t, i, d))
    BY DEF IsFalse
  <2>5. IsFalse(other, t, i) <=>
            \/ ~ IsNumber(t, i, d) \/ ~ IsNumber(t, i, c)
            \/ ~ Compare(Float(t, i, d), OperatorTurned[operator], Float(t, i, c))
    BY <1>3, <1>5 DEF IsFalse
  <2> QED BY <2>3, <2>4, <2>5
<1>12. Wrong(rule, t, Answered(rule, t)) = Wrong(other, t, Answered(other, t))
  <2>1. Wrong(rule, t, Answered(rule, t)) = {i \in Answered(rule, t) : IsFalse(rule, t, i)}
    BY DEF Wrong
  <2>2. Wrong(other, t, Answered(other, t)) =
            {i \in Answered(other, t) : IsFalse(other, t, i)}
    BY <1>2 DEF Wrong
  <2> QED BY <1>10, <1>11, <2>1, <2>2
<1> QED BY <1>2, <1>6, <1>8, <1>9, <1>12, SameTally

\* The sum that a total of one part is compared with.
LEMMA OnePart ==
  ASSUME NEW t, IsTable(t), NEW rule, DOMAIN rule.columns = {1, 2},
         Len(rule.columns) = 2, rule.given.tolerance = 0, NEW i,
         NEW c, c = rule.columns[1], NEW d, d = rule.columns[2],
         IsNumber(t, i, c), IsNumber(t, i, d), Read[At(t, i, c)].number \in Int,
         Read[At(t, i, d)].number \in Int
  PROVE  IsApart(rule, t, i) <=>
             \/ ~ Read[At(t, i, c)].finite \/ ~ Read[At(t, i, d)].finite
             \/ Read[At(t, i, c)].number # Read[At(t, i, d)].number
<1> DEFINE Cell(k) == Read[At(t, i, rule.columns[k])]
           Sum[k \in 1 .. Len(rule.columns)] ==
               IF k = 1 THEN 0 ELSE Sum[k - 1] + Cell(k).number
           difference == 8 * (Cell(1).number - Sum[Len(rule.columns)])
           x == Cell(1).number
           y == Cell(2).number
<1>1. x \in Int /\ y \in Int
  OBVIOUS
<1>2. Sum[2] = y
  <2> HIDE DEF y
  <2> DEFINE IsSum(s) == s = [k \in 1 .. Len(rule.columns) |->
                                 IF k = 1 THEN 0 ELSE s[k - 1] + Cell(k).number]
             witness == [k \in 1 .. 2 |-> IF k = 1 THEN 0 ELSE y]
  <2>1. IsSum(witness)
    <3>1. \A k \in 1 .. 2 :
              (IF k = 1 THEN 0 ELSE witness[k - 1] + Cell(k).number) =
                  IF k = 1 THEN 0 ELSE y
      BY <1>1 DEF y
    <3> QED BY <3>1
  <2>2. IsSum(Sum)
    <3>1. Sum = CHOOSE s : IsSum(s)
      BY DEF Sum
    <3> HIDE DEF Sum, IsSum
    <3> QED BY <2>1, <3>1
  <2> HIDE DEF Sum
  <2>3. Sum = [k \in 1 .. 2 |-> IF k = 1 THEN 0 ELSE Sum[k - 1] + Cell(k).number]
    BY <2>2
  <2>4. Sum[1] = 0 /\ Sum[2] = Sum[1] + Cell(2).number
    BY <2>3
  <2> QED BY <1>1, <2>4 DEF y
<1> HIDE DEF Sum
<1>3. IsApart(rule, t, i) <=>
          \/ \E k \in DOMAIN rule.columns : ~ IsNumber(t, i, rule.columns[k])
          \/ \E k \in DOMAIN rule.columns : ~ Cell(k).finite
          \/ ~ difference \in - rule.given.tolerance .. rule.given.tolerance
  BY DEF IsApart, Sum
<1>4. difference \in - rule.given.tolerance .. rule.given.tolerance <=> x = y
  <2>1. difference = 8 * (x - y)
    BY <1>2
  <2> HIDE DEF difference, x, y
  <2> QED BY <1>1, <2>1
<1> HIDE DEF difference
<1> QED BY <1>3, <1>4

\* A total of one part, and no tolerance.
AreEqualIfFinite(tally, equal, t, c) ==
    /\ tally.skipped = equal.skipped
    /\ tally.passed = {i \in equal.passed : Read[At(t, i, c)].finite}

\* It says they are equal, and finite.
LEMMA EqualAgrees ==
  ASSUME NEW t, IsTable(t), NEW rule, IsTyped(rule, t),
         rule.type = "approximate_equality", HasParameters(rule),
         Len(rule.columns) = 2, rule.given.tolerance = 0, NEW other,
         other = Like(rule, "expression_comparison", rule.columns,
                      [comparison_operator |-> "equals"])
  PROVE  AreEqualIfFinite(Execute(rule, t), Execute(other, t), t, rule.columns[1])
<1> DEFINE c == rule.columns[1]
           d == rule.columns[2]
           missing == Incomplete(rule, t)
           wrong == Wrong(rule, t, Answered(rule, t))
           unequal == Wrong(other, t, Answered(other, t))
<1>1. DOMAIN rule.columns = {1, 2} /\ c \in Cols(t) /\ d \in Cols(t)
  BY DEF IsTyped
<1>2. /\ other.type = "expression_comparison" /\ other.nulls = rule.nulls
      /\ other.columns = rule.columns
      /\ other.given = [comparison_operator |-> "equals"]
  BY LikeIsLike
<1>3. /\ DOMAIN other.given = {"comparison_operator"}
      /\ other.given.comparison_operator = "equals"
  BY <1>2
<1>4. CanRun(rule) /\ CanRun(other)
  <2>1. CanRun(rule)
    BY DEF HasParameters, Owned, CanRun, Has
  <2>2. CanRun(other)
    BY <1>2, <1>3 DEF CanRun, Has
  <2> QED BY <2>1, <2>2
<1>5. Incomplete(other, t) = missing
  BY <1>2 DEF Incomplete
<1>6. Unanswered(rule, t) = missing /\ Unanswered(other, t) = missing
  BY <1>2, <1>5 DEF Unanswered
<1>7. Tallied(Execute(rule, t), rule, t, missing, wrong)
      /\ Tallied(Execute(other, t), other, t, missing, unequal)
  BY <1>4, <1>6, Tallies
<1>8. \A i \in RowIds(t) \ missing : i \in Present(t, c) /\ i \in Present(t, d)
  BY <1>1, TwoColumns
<1>9. /\ \A i : i \in wrong <=> i \in RowIds(t) \ missing /\ IsApart(rule, t, i)
      /\ \A i : i \in unequal <=> i \in RowIds(t) \ missing /\ IsFalse(other, t, i)
  <2>1. wrong = {i \in RowIds(t) \ missing : IsApart(rule, t, i)}
    BY <1>6 DEF Wrong, Answered
  <2>2. unequal = {i \in RowIds(t) \ missing : IsFalse(other, t, i)}
    BY <1>2, <1>6 DEF Wrong, Answered
  <2> HIDE DEF wrong, unequal, missing
  <2> QED BY <2>1, <2>2
<1> HIDE DEF missing, wrong, unequal
<1>10. ASSUME NEW i \in RowIds(t) \ missing
       PROVE  ~ IsApart(rule, t, i) <=>
                  ~ IsFalse(other, t, i) /\ Read[At(t, i, c)].finite
  <2> DEFINE left == Read[At(t, i, c)]
             right == Read[At(t, i, d)]
  <2>1. /\ At(t, i, c) \in DOMAIN Read /\ At(t, i, d) \in DOMAIN Read
        /\ left.number \in Int /\ right.number \in Int
    BY <1>1, <1>8, CellsAreRead, ReadingAssumption DEF Present
  <2>2. IsFalse(other, t, i) <=>
            \/ ~ IsNumber(t, i, c) \/ ~ IsNumber(t, i, d)
            \/ left.nan \/ right.nan \/ left.number # right.number
    <3>1. IsFalse(other, t, i) <=>
              \/ ~ IsNumber(t, i, c) \/ ~ IsNumber(t, i, d)
              \/ ~ Compare(Float(t, i, c), "equals", Float(t, i, d))
      BY <1>2, <1>3 DEF IsFalse
    <3>2. Compare(Float(t, i, c), "equals", Float(t, i, d)) <=>
              ~ left.nan /\ ~ right.nan /\ left.number = right.number
      BY <2>1 DEF Compare, Float
    <3> QED BY <3>1, <3>2
  <2>3. CASE ~ (IsNumber(t, i, c) /\ IsNumber(t, i, d))
    BY <1>1, <2>2, <2>3 DEF IsApart
  <2>4. CASE IsNumber(t, i, c) /\ IsNumber(t, i, d)
    <3>1. IsApart(rule, t, i) <=>
              ~ left.finite \/ ~ right.finite \/ left.number # right.number
      BY <1>1, <2>1, <2>4, OnePart
    <3>2. /\ left.nan => ~ left.finite
          /\ right.nan => ~ right.finite
          /\ ~ left.nan /\ ~ right.nan /\ left.number = right.number =>
                 (left.finite <=> right.finite)
      BY <2>1, <2>4, ReadingAssumption DEF IsNumber
    <3> HIDE DEF left, right
    <3>3. ~ IsApart(rule, t, i) <=> ~ IsFalse(other, t, i) /\ left.finite
      BY <2>2, <2>4, <3>1, <3>2
    <3> QED BY <3>3 DEF left
  <2> QED BY <2>3, <2>4
<1>11. Execute(rule, t).skipped = Execute(other, t).skipped
  BY <1>2, <1>7 DEF Tallied
<1>12. \A i : i \in Execute(rule, t).passed <=>
           i \in RowIds(t) /\ i \notin missing /\ i \notin wrong
  <2>1. CASE rule.nulls = "fail"
    BY <1>7, <2>1 DEF Tallied
  <2>2. CASE rule.nulls # "fail"
    BY <1>7, <2>2 DEF Tallied
  <2> QED BY <2>1, <2>2
<1>13. \A i : i \in Execute(other, t).passed <=>
           i \in RowIds(t) /\ i \notin missing /\ i \notin unequal
  <2>1. CASE rule.nulls = "fail"
    BY <1>2, <1>7, <2>1 DEF Tallied
  <2>2. CASE rule.nulls # "fail"
    BY <1>2, <1>7, <2>2 DEF Tallied
  <2> QED BY <2>1, <2>2
<1>14. \A i : i \in Execute(rule, t).passed <=>
           i \in Execute(other, t).passed /\ Read[At(t, i, c)].finite
  BY <1>9, <1>10, <1>12, <1>13
<1>15. Execute(rule, t).passed =
           {i \in Execute(other, t).passed : Read[At(t, i, c)].finite}
  <2> DEFINE passed == Execute(rule, t).passed
             equal == Execute(other, t).passed
  <2>1. \A i : i \in passed <=> i \in equal /\ Read[At(t, i, c)].finite
    BY <1>14
  <2> HIDE DEF passed, equal
  <2>2. passed = {i \in equal : Read[At(t, i, c)].finite}
    BY <2>1
  <2> QED BY <2>2 DEF passed, equal
<1> QED BY <1>11, <1>15 DEF AreEqualIfFinite

\* The outcome of a rule and of its others, over the rows of a table.
LEMMA OthersAgree ==
  ASSUME IsTable(table), NEW rule, IsTyped(rule, table), IsRule(rule), NEW tally,
         tally = Execute(rule, table), NEW other,
         other = [o \in DOMAIN Others(rule) |-> Execute(Others(rule)[o], table)]
  PROVE  Agrees(rule, tally, other)
<1> DEFINE g == rule.given
           c == rule.columns[1]
           d == rule.columns[2]
           InRange == [minimum |-> "greater_than_or_equal",
                       maximum |-> "less_than_or_equal"]
<1>1. HasColumns(rule) /\ HasParameters(rule)
  BY DEF IsRule
<1>2. \A o \in DOMAIN Others(rule) : other[o] = Execute(Others(rule)[o], table)
      /\ DOMAIN other = DOMAIN Others(rule)
  OBVIOUS
<1>3. CASE rule.type = "numeric_range"
  <2>1. Others(rule) = [bound \in DOMAIN g |-> Versus(rule, c, InRange[bound], g[bound])]
    BY <1>3 DEF Others, Versus, Like
  <2>2. Len(rule.columns) = 1
    BY <1>1, <1>3 DEF HasColumns
  <2>3. /\ DOMAIN other = DOMAIN g
        /\ "minimum" \in DOMAIN g => other["minimum"] =
               Execute(Versus(rule, c, "greater_than_or_equal", g["minimum"]), table)
        /\ "maximum" \in DOMAIN g => other["maximum"] =
               Execute(Versus(rule, c, "less_than_or_equal", g["maximum"]), table)
    BY <1>2, <2>1
  <2>4. tally.failed = FailedBy(other) \ NotNumbers(table, c)
    BY <1>1, <1>3, <2>2, <2>3, RangeAgrees
  <2>5. /\ DOMAIN other # {"when", "then"} /\ DOMAIN other # {"turned"}
        /\ DOMAIN other # {"equal"} /\ DOMAIN other # {"counted"}
    <3>1. DOMAIN other \subseteq {"minimum", "maximum"}
      BY <1>1, <1>3, <2>3 DEF HasParameters, Owned
    <3> QED BY <3>1
  <2> QED BY <1>3, <2>4, <2>5 DEF Agrees
<1>4. CASE rule.type = "conditional_rule"
  <2> DEFINE first == Versus(rule, c, g.condition_operator, g.condition_value)
             second == Versus(rule, d, g.comparison_operator, g.comparison_value)
  <2>1. Others(rule) = [when |-> first, then |-> second]
    BY <1>4 DEF Others, Versus, Like
  <2> HIDE DEF first, second
  <2>2. /\ DOMAIN other = {"when", "then"}
        /\ other.when = Execute(first, table) /\ other.then = Execute(second, table)
    BY <1>2, <2>1
  <2>3. AreOneAfterTheOther(tally, other.when, other.then, table, c)
    BY <1>1, <1>4, <2>2, WhenThenAgrees DEF first, second
  <2>4. \A when : Numbers(table, c) \ when.passed =
            {i \in Present(table, c) \ when.passed : Read[At(table, i, c)].shape = "numeric"}
    BY DEF Numbers, IsNumber
  <2> QED BY <1>4, <2>2, <2>3, <2>4 DEF Agrees, AreOneAfterTheOther
<1>5. CASE rule.type = "expression_comparison" /\ Len(rule.columns) = 2
  <2> DEFINE turned == Like(rule, "expression_comparison", Reverse(rule.columns),
                            [g EXCEPT !.comparison_operator = OperatorTurned[@]])
  <2>1. Others(rule) = [turned |-> turned]
    BY <1>5 DEF Others, Like, OperatorTurned
  <2> HIDE DEF turned
  <2>2. DOMAIN other = {"turned"} /\ other.turned = Execute(turned, table)
    BY <1>2, <2>1
  <2>3. tally = other.turned
    BY <1>1, <1>5, <2>2, TurnedAgrees DEF turned
  <2> QED BY <1>5, <2>2, <2>3 DEF Agrees
<1>6. CASE rule.type = "approximate_equality" /\ Len(rule.columns) = 2 /\ g.tolerance = 0
  <2> DEFINE equal == Like(rule, "expression_comparison", rule.columns,
                           [comparison_operator |-> "equals"])
  <2>1. Others(rule) = [equal |-> equal]
    BY <1>6 DEF Others, Like
  <2> HIDE DEF equal
  <2>2. DOMAIN other = {"equal"} /\ other.equal = Execute(equal, table)
    BY <1>2, <2>1
  <2>3. AreEqualIfFinite(tally, other.equal, table, c)
    BY <1>1, <1>6, <2>2, EqualAgrees DEF equal
  <2> QED BY <1>6, <2>2, <2>3 DEF Agrees, AreEqualIfFinite
<1>7. CASE rule.type = "max_missing_percentage"
  <2> DEFINE counted == Like(rule, "not_null", rule.columns, << >>)
  <2>1. Others(rule) = [counted |-> counted]
    BY <1>7 DEF Others, Like
  <2> HIDE DEF counted
  <2>2. DOMAIN other = {"counted"} /\ other.counted = Execute(counted, table)
    BY <1>2, <2>1
  <2>3. tally = other.counted
    BY <1>7, <2>2, CountedAgrees DEF counted
  <2> QED BY <1>7, <2>2, <2>3 DEF Agrees
<1>8. CASE rule.type = "max_duplicate_percentage"
  <2> DEFINE counted == Like(rule, "unique", rule.columns, << >>)
  <2>1. Others(rule) = [counted |-> counted]
    BY <1>8 DEF Others, Like
  <2> HIDE DEF counted
  <2>2. DOMAIN other = {"counted"} /\ other.counted = Execute(counted, table)
    BY <1>2, <2>1
  <2>3. tally = other.counted
    BY <1>8, <2>2, CountedAgrees DEF counted
  <2> QED BY <1>8, <2>2, <2>3 DEF Agrees
<1>9. CASE \/ rule.type \in {"not_null", "unique", "accepted_values", "date_range", "regex"}
           \/ rule.type = "expression_comparison" /\ Len(rule.columns) # 2
           \/ rule.type = "approximate_equality"
                  /\ ~ (Len(rule.columns) = 2 /\ g.tolerance = 0)
  <2>1. Others(rule) = << >>
    BY <1>9 DEF Others
  <2>2. DOMAIN other = {}
    <3>1. DOMAIN << >> = {}
      OBVIOUS
    <3> QED BY <1>2, <2>1, <3>1
  <2> QED BY <1>9, <2>2 DEF Agrees
<1> QED BY <1>3, <1>4, <1>5, <1>6, <1>7, <1>8, <1>9 DEF IsTyped, Owned

\* Two runners that a user may ask the same of answer the same.
THEOREM RunnersAgreeHolds == Spec => []RunnersAgree
<1>1. ASSUME ChecksInvariant PROVE RunnersAgree
  <2>1. SUFFICES ASSUME answer # NoValue, answer.kind = "stored"
                 PROVE  Agrees(answer.rule, answer.tally,
                               [o \in DOMAIN Others(answer.rule) |->
                                   Execute(Others(answer.rule)[o], table)])
    BY DEF RunnersAgree
  <2>2. IsRule(answer.rule) /\ answer.tally = Execute(answer.rule, table)
    BY <1>1, <2>1, StoredRules
  <2>3. IsTyped(answer.rule, table) /\ IsTable(table)
    BY <1>1, <2>1, StoredRulesAreTyped, AnswersAreRight
  <2> QED BY <2>2, <2>3, OthersAgree
<1> QED BY <1>1, ChecksInvariantHolds, PTL

\* The rules of an analysis do what they are offered and stored for.
THEOREM RulesAreRightHolds == Spec => []RulesAreRight
<1>1. ASSUME RuleFailsWhatItFlags, StoredRulesRun, RunnersAgree PROVE RulesAreRight
  BY <1>1 DEF RulesAreRight
<1> QED BY <1>1, RuleFailsWhatItFlagsHolds, StoredRulesRunHolds, RunnersAgreeHolds, PTL
-----------------------------------------------------------------------------
(* The window of rows.                                                     *)

\* The characters before a row grow with the row.
UptoGrows == \A i, j \in 0 .. rowCount : i <= j => upto[i] <= upto[j]

WindowWorking == pc \in Sides \cup {"done"}

\* The budget is what the window leaves of the bound.
BudgetIsExact ==
    budget = MaxChars - Size(shown["before"], shown["after"])

\* Only a window that is its anchor alone may exceed the bound.
FitsOrAlone == budget >= 0 \/ \A s \in Sides : shown[s] = 0

\* An open side wants more; a closed one is as wanted, or its next row does
\* not fit.  It never will: the budget only shrinks, and no step of the other
\* side changes which row is next.
SidesAreRight ==
    \A s \in Sides :
        /\ shown[s] <= Wanted(s)
        /\ open[s] => shown[s] < Wanted(s)
        /\ ~ open[s] /\ shown[s] < Wanted(s) => Characters(Neighbour(s)) > budget

WindowIInv ==
    /\ WindowTypeOK
    /\ UptoGrows
    /\ pc = "start" => \A s \in Sides : shown[s] = 0
    /\ pc = "refused" => \A s \in Sides : shown[s] = 0
    /\ WindowWorking => /\ anchor < rowCount
                  /\ BudgetIsExact
                  /\ FitsOrAlone
                  /\ SidesAreRight
    /\ pc = "done" => \A s \in Sides : ~ open[s]
-----------------------------------------------------------------------------
(* What the operators return, where the anchor is a row of the file.       *)

\* A side never wants more rows than there are, and wants at least none.
LEMMA WantedIsWithin ==
    ASSUME WindowTypeOK, anchor < rowCount, NEW s \in Sides
    PROVE  /\ Wanted(s) \in 0 .. Room(s)
           /\ Room(s) \in Nat
  BY WindowLimits DEF WindowTypeOK, Wanted, Room, AtMost, Sides

\* The characters of the rows from i to j, and of one of them, are a number.
LEMMA SizesAreNumbers ==
    ASSUME WindowTypeOK, UptoGrows, NEW i \in 0 .. rowCount, NEW j \in i .. rowCount
    PROVE  /\ upto[i] \in Nat /\ upto[j] \in Nat
           /\ upto[j] - upto[i] \in Nat
  <1>1. j \in 0 .. rowCount /\ i <= j
    BY DEF WindowTypeOK
  <1>2. upto[i] \in Nat /\ upto[j] \in Nat
    BY <1>1 DEF WindowTypeOK
  <1>3. upto[i] <= upto[j]
    BY <1>1 DEF UptoGrows
  <1> QED BY <1>2, <1>3

\* While a side has rows left that it wants, its next row is one of the file.
LEMMA NeighbourIsARow ==
    ASSUME WindowTypeOK, UptoGrows, anchor < rowCount, SidesAreRight,
           NEW s \in Sides, shown[s] < Wanted(s)
    PROVE  /\ Neighbour(s) \in 0 .. rowCount - 1
           /\ Characters(Neighbour(s)) \in Nat
  <1>1. Neighbour(s) \in 0 .. rowCount - 1
    <2>1. Wanted(s) \in Nat /\ Wanted(s) <= Room(s)
      BY WantedIsWithin
    <2>2. shown[s] \in Nat /\ shown[s] < Room(s)
      BY <2>1 DEF WindowTypeOK, Room, Sides
    <2>3. CASE s = "before"
      BY <2>2, <2>3 DEF WindowTypeOK, Neighbour, Room
    <2>4. CASE s = "after"
      BY <2>2, <2>4 DEF WindowTypeOK, Neighbour, Room
    <2> QED BY <2>3, <2>4 DEF Sides
  <1>2. Characters(Neighbour(s)) \in Nat
    <2> DEFINE n == Neighbour(s)
    <2>1. n \in 0 .. rowCount /\ n + 1 \in n .. rowCount
      BY <1>1 DEF WindowTypeOK
    <2> HIDE DEF n
    <2>2. upto[n + 1] - upto[n] \in Nat
      BY <2>1, SizesAreNumbers
    <2> QED BY <2>2 DEF Characters, n
  <1> QED BY <1>1, <1>2

\* The window of b rows before the anchor and a after it.
LEMMA SizeIsMonotone ==
    ASSUME WindowTypeOK, UptoGrows, anchor < rowCount,
           NEW b \in 0 .. anchor, NEW a \in 0 .. rowCount - 1 - anchor,
           NEW c \in 0 .. b, NEW d \in 0 .. a
    PROVE  Size(c, d) \in Nat /\ Size(b, a) \in Nat /\ Size(c, d) <= Size(b, a)
  <1>1. /\ anchor - b \in 0 .. rowCount /\ anchor - c \in 0 .. rowCount
        /\ anchor + d + 1 \in 0 .. rowCount /\ anchor + a + 1 \in 0 .. rowCount
        /\ anchor - b <= anchor - c /\ anchor - c <= anchor + d + 1
        /\ anchor + d + 1 <= anchor + a + 1
    BY DEF WindowTypeOK
  <1>2. /\ upto[anchor - b] \in Nat /\ upto[anchor - c] \in Nat
        /\ upto[anchor + d + 1] \in Nat /\ upto[anchor + a + 1] \in Nat
    BY <1>1 DEF WindowTypeOK
  <1>3. /\ upto[anchor - b] <= upto[anchor - c]
        /\ upto[anchor - c] <= upto[anchor + d + 1]
        /\ upto[anchor + d + 1] <= upto[anchor + a + 1]
    BY <1>1 DEF UptoGrows
  <1> QED BY <1>2, <1>3 DEF Size
-----------------------------------------------------------------------------
(* The invariant is inductive.                                             *)

\* What a step of the loop leaves alone.
LEMMA InputIsKept ==
    ASSUME UNCHANGED input
    PROVE  /\ UptoGrows' <=> UptoGrows
           /\ anchor' = anchor /\ rowCount' = rowCount
           /\ \A s \in Sides : Wanted(s)' = Wanted(s) /\ Room(s)' = Room(s)
           /\ \A i : Characters(i)' = Characters(i)
           /\ \A b, a : Size(b, a)' = Size(b, a)
  BY DEF input, UptoGrows, Wanted, Room, AtMost, Characters, Size

LEMMA InitWindowIInv == WindowInit => WindowIInv
  <1> SUFFICES ASSUME WindowInit PROVE WindowIInv
    OBVIOUS
  <1>1. WindowTypeOK
    BY WindowLimits, WindowModelBounds DEF WindowInit, WindowTypeOK, WindowFiles, Sides
  <1>2. UptoGrows
    <2> SUFFICES ASSUME NEW i \in 0 .. rowCount, NEW j \in 0 .. rowCount, i <= j
                 PROVE  upto[i] <= upto[j]
      BY DEF UptoGrows
    <2>1. upto \in [0 .. rowCount -> Nat] /\ rowCount \in Nat
      BY <1>1 DEF WindowTypeOK
    <2>2. i < j => upto[i] < upto[j]
      BY DEF WindowInit, WindowFiles
    <2>3. upto[i] \in Nat /\ upto[j] \in Nat /\ (i < j \/ i = j)
      BY <2>1
    <2> QED BY <2>2, <2>3
  <1>3. pc = "start" /\ \A s \in Sides : shown[s] = 0
    BY DEF WindowInit
  <1> QED BY <1>1, <1>2, <1>3 DEF WindowIInv, WindowWorking, Sides

\* The first step: the anchor, and nothing else, is in the window.
LEMMA StartWindowIInv == WindowIInv /\ Start => WindowIInv'
  <1> SUFFICES ASSUME WindowIInv, Start PROVE WindowIInv'
    OBVIOUS
  <1>1. WindowTypeOK /\ UptoGrows /\ anchor < rowCount /\ UNCHANGED <<input, shown>>
        /\ pc' = "before" /\ \A s \in Sides : shown[s] = 0
    BY DEF WindowIInv, Start
  <1>2. anchor \in 0 .. rowCount /\ anchor + 1 \in anchor .. rowCount
    BY <1>1 DEF WindowTypeOK
  <1>3. Characters(anchor) \in Nat
    BY <1>1, <1>2, SizesAreNumbers DEF Characters
  <1>4. \A s \in Sides : Wanted(s) \in 0 .. Room(s) /\ Room(s) \in Nat
    BY <1>1, WantedIsWithin
  <1>5. WindowTypeOK'
    BY <1>1, <1>3, <1>4, InputIsKept, WindowLimits DEF WindowTypeOK, Start, input, Sides
  <1>6. UptoGrows' /\ (anchor < rowCount)'
    BY <1>1, InputIsKept
  <1>7. BudgetIsExact'
    <2>1. shown'["before"] = 0 /\ shown'["after"] = 0
      BY <1>1 DEF Sides
    <2>2. Size(0, 0) = Characters(anchor)
      BY <1>1 DEF Size, Characters, WindowTypeOK
    <2>3. Size(0, 0)' = Size(0, 0)
      BY <1>1, InputIsKept
    <2> QED BY <2>1, <2>2, <2>3 DEF BudgetIsExact, Start
  <1>8. FitsOrAlone'
    BY <1>1 DEF FitsOrAlone
  <1>9. SidesAreRight'
    <2> SUFFICES ASSUME NEW s \in Sides
                 PROVE  /\ shown'[s] <= Wanted(s)'
                        /\ open'[s] => shown'[s] < Wanted(s)'
                        /\ ~ open'[s] => ~ shown'[s] < Wanted(s)'
      BY DEF SidesAreRight
    <2>1. shown'[s] = 0 /\ Wanted(s)' = Wanted(s) /\ Wanted(s) \in Nat
      BY <1>1, <1>4, InputIsKept
    <2>2. open'[s] <=> Wanted(s) > 0
      BY DEF Start
    <2> QED BY <2>1, <2>2
  <1> QED BY <1>1, <1>5, <1>6, <1>7, <1>8, <1>9 DEF WindowIInv, WindowWorking, Sides

\* A row more on side s makes the window larger by what the row costs, and
\* leaves the next row of the other side where it was.
LEMMA AddGrowsSize ==
    ASSUME WindowIInv, WindowWorking, NEW s \in Sides, Add(s)
    PROVE  /\ Size(shown'["before"], shown'["after"])
                  = Size(shown["before"], shown["after"]) + Characters(Neighbour(s))
           /\ \A t \in Sides \ {s} : shown'[t] = shown[t]
                                     /\ Neighbour(t)' = Neighbour(t)
  <1>1. /\ WindowTypeOK /\ UptoGrows /\ anchor < rowCount /\ SidesAreRight
        /\ shown[s] < Wanted(s) /\ UNCHANGED input
        /\ shown' = [shown EXCEPT ![s] = @ + 1]
    BY DEF WindowIInv, Add, SidesAreRight
  <1>2. /\ shown["before"] \in Nat /\ shown["after"] \in Nat
        /\ anchor \in Nat /\ rowCount \in Nat
        /\ \A i \in 0 .. rowCount : upto[i] \in Nat
    BY <1>1 DEF WindowTypeOK, Sides
  <1>3. shown["before"] <= anchor /\ anchor + shown["after"] < rowCount
    <2>1. \A t \in Sides : shown[t] <= Wanted(t) /\ Wanted(t) \in 0 .. Room(t)
                           /\ Room(t) \in Nat
      BY <1>1, WantedIsWithin DEF SidesAreRight
    <2> QED BY <1>2, <2>1 DEF Sides, Room
  <1>4. Neighbour(s) \in 0 .. rowCount - 1
    BY <1>1, NeighbourIsARow
  <1>5. CASE s = "before"
    <2>1. shown'["before"] = shown["before"] + 1 /\ shown'["after"] = shown["after"]
      BY <1>1, <1>5 DEF WindowTypeOK, Sides
    <2>2. Neighbour(s) = anchor - shown["before"] - 1
      BY <1>5 DEF Neighbour
    <2>3. /\ anchor - (shown["before"] + 1) = Neighbour(s)
          /\ anchor - shown["before"] = Neighbour(s) + 1
      BY <1>2, <2>2
    <2>4. /\ upto[Neighbour(s)] \in Nat /\ upto[Neighbour(s) + 1] \in Nat
          /\ upto[anchor + shown["after"] + 1] \in Nat
      <3> DEFINE n == Neighbour(s)
                 m == anchor + shown["after"] + 1
      <3>1. n \in 0 .. rowCount /\ n + 1 \in 0 .. rowCount
        BY <1>2, <1>4
      <3>2. m \in 0 .. rowCount
        BY <1>2, <1>3
      <3> QED BY <1>2, <3>1, <3>2
    <2>5. \A t \in Sides \ {s} : t = "after" /\ shown'[t] = shown[t]
      BY <1>5, <2>1 DEF Sides
    <2> QED BY <1>1, <2>1, <2>3, <2>4, <2>5 DEF Size, Characters, Neighbour, input
  <1>6. CASE s = "after"
    <2>1. shown'["after"] = shown["after"] + 1 /\ shown'["before"] = shown["before"]
      BY <1>1, <1>6 DEF WindowTypeOK, Sides
    <2>2. Neighbour(s) = anchor + shown["after"] + 1
      BY <1>6 DEF Neighbour
    <2>3. anchor + (shown["after"] + 1) + 1 = Neighbour(s) + 1
      BY <1>2, <2>2
    <2>4. /\ upto[Neighbour(s)] \in Nat /\ upto[Neighbour(s) + 1] \in Nat
          /\ upto[anchor - shown["before"]] \in Nat
      <3> DEFINE n == Neighbour(s)
                 m == anchor - shown["before"]
      <3>1. n \in 0 .. rowCount /\ n + 1 \in 0 .. rowCount
        BY <1>2, <1>4
      <3>2. m \in 0 .. rowCount
        BY <1>2, <1>3
      <3> QED BY <1>2, <3>1, <3>2
    <2>5. \A t \in Sides \ {s} : t = "before" /\ shown'[t] = shown[t]
      BY <1>6, <2>1 DEF Sides
    <2> QED BY <1>1, <2>1, <2>2, <2>3, <2>4, <2>5
            DEF Size, Characters, Neighbour, input
  <1> QED BY <1>5, <1>6 DEF Sides
\* A row is added: the window still fits, and its side is open just while it
\* wants more.
LEMMA AddWindowIInv ==
    ASSUME NEW s \in Sides
    PROVE  WindowIInv /\ Add(s) => WindowIInv'
  <1> SUFFICES ASSUME WindowIInv, Add(s) PROVE WindowIInv'
    OBVIOUS
  <1> DEFINE cost == Characters(Neighbour(s))
  <1>1. /\ WindowTypeOK /\ UptoGrows /\ WindowWorking /\ pc \in Sides
        /\ UNCHANGED input /\ open[s] /\ cost <= budget
        /\ budget' = budget - cost
        /\ shown' = [shown EXCEPT ![s] = @ + 1]
        /\ open' = [open EXCEPT ![s] = shown[s] + 1 < Wanted(s)]
        /\ pc' \in Sides
    BY DEF WindowIInv, Add, HasTurn, PassesTurn, WindowWorking, Sides
  <1>2. anchor < rowCount /\ BudgetIsExact /\ SidesAreRight
    BY <1>1 DEF WindowIInv
  <1>3. shown[s] < Wanted(s)
    BY <1>1, <1>2 DEF SidesAreRight
  <1>4. cost \in Nat
    BY <1>1, <1>2, <1>3, NeighbourIsARow
  <1>5. \A t \in Sides : Wanted(t) \in 0 .. Room(t) /\ Room(t) \in Nat
    BY <1>1, <1>2, WantedIsWithin
  <1>6. /\ shown'[s] = shown[s] + 1
        /\ \A t \in Sides \ {s} : shown'[t] = shown[t] /\ open'[t] = open[t]
        /\ shown \in [Sides -> Nat] /\ shown' \in [Sides -> Nat]
        /\ open'[s] = (shown[s] + 1 < Wanted(s))
        /\ open' \in [Sides -> BOOLEAN]
        /\ budget \in Int /\ budget' \in Int
    BY <1>1, <1>4 DEF WindowTypeOK
  <1>7. UptoGrows' /\ (anchor < rowCount)'
    BY <1>1, <1>2, InputIsKept
  <1>8. \A t \in Sides : shown'[t] <= Wanted(t)
    BY <1>2, <1>3, <1>5, <1>6 DEF SidesAreRight
  <1>9. WindowTypeOK'
    <2>1. \A t \in Sides : shown'[t] <= Room(t)
      BY <1>5, <1>6, <1>8
    <2>2. \A t \in Sides : shown'[t] <= Room(t)'
      BY <2>1, <1>1, InputIsKept
    <2> QED BY <1>1, <1>6, <2>2 DEF WindowTypeOK, input
  <1>10. BudgetIsExact'
    <2>1. Size(shown'["before"], shown'["after"])
              = Size(shown["before"], shown["after"]) + cost
      BY <1>1, AddGrowsSize
    <2>2. Size(shown["before"], shown["after"]) \in Nat
      <3>1. shown["before"] \in 0 .. anchor
            /\ shown["after"] \in 0 .. rowCount - 1 - anchor
        BY <1>1 DEF WindowTypeOK, Room, Sides, WindowWorking
      <3>2. shown["before"] \in 0 .. shown["before"]
            /\ shown["after"] \in 0 .. shown["after"]
        BY <3>1
      <3> QED BY <3>1, <3>2, <1>1, <1>2, SizeIsMonotone
    <2>3. Size(shown["before"], shown["after"])' =
              Size(shown'["before"], shown'["after"])
      BY <1>1 DEF Size, input
    <2>4. budget = MaxChars - Size(shown["before"], shown["after"])
      BY <1>2 DEF BudgetIsExact
    <2>5. budget' = MaxChars - Size(shown'["before"], shown'["after"])
      BY <1>1, <1>4, <2>1, <2>2, <2>4, WindowLimits
    <2> QED BY <2>3, <2>5 DEF BudgetIsExact
  <1>11. FitsOrAlone'
    BY <1>1, <1>4, <1>6 DEF FitsOrAlone
  <1>12. SidesAreRight'
    <2> SUFFICES ASSUME NEW t \in Sides
                 PROVE  /\ shown'[t] <= Wanted(t)'
                        /\ open'[t] => shown'[t] < Wanted(t)'
                        /\ ~ open'[t] /\ shown'[t] < Wanted(t)' =>
                               Characters(Neighbour(t))' > budget'
      BY DEF SidesAreRight
    <2>1. Wanted(t)' = Wanted(t)
      BY <1>1, InputIsKept
    <2>2. CASE t = s
      BY <2>1, <2>2, <1>6, <1>8
    <2>3. CASE t # s
      <3>1. shown'[t] = shown[t] /\ open'[t] = open[t]
        BY <1>6, <2>3
      <3>2. Characters(Neighbour(t))' = Characters(Neighbour(t))
        <4>1. Neighbour(t)' = Neighbour(t)
          BY <1>1, <2>3, AddGrowsSize
        <4> QED BY <4>1, <1>1 DEF Characters, input
      <3>3. ~ open[t] /\ shown[t] < Wanted(t) =>
                Characters(Neighbour(t)) \in Nat
                /\ Characters(Neighbour(t)) > budget
        BY <1>1, <1>2, NeighbourIsARow DEF SidesAreRight
      <3>4. shown[t] <= Wanted(t) /\ (open[t] => shown[t] < Wanted(t))
        BY <1>2 DEF SidesAreRight
      <3> QED BY <2>1, <3>1, <3>2, <3>3, <3>4, <1>1, <1>4, <1>6
    <2> QED BY <2>2, <2>3
  <1> QED BY <1>1, <1>7, <1>9, <1>10, <1>11, <1>12 DEF WindowIInv, WindowWorking, Sides

\* The window stays as it is: what WindowIInv says of it stays true.
LEMMA WindowIsKept ==
    ASSUME WindowIInv, WindowWorking, UNCHANGED <<input, shown, budget>>
    PROVE  /\ UptoGrows' /\ (anchor < rowCount)' /\ BudgetIsExact' /\ FitsOrAlone'
           /\ \A t \in Sides : /\ Wanted(t)' = Wanted(t) /\ shown'[t] = shown[t]
                               /\ Characters(Neighbour(t))' = Characters(Neighbour(t))
  <1>1. UptoGrows /\ anchor < rowCount /\ BudgetIsExact /\ FitsOrAlone
    BY DEF WindowIInv
  <1>2. UptoGrows' /\ (anchor < rowCount)' /\ \A t \in Sides : Wanted(t)' = Wanted(t)
    BY <1>1, InputIsKept
  <1>3. BudgetIsExact'
    BY <1>1 DEF BudgetIsExact, Size, input
  <1>4. FitsOrAlone'
    BY <1>1 DEF FitsOrAlone
  <1>5. \A t \in Sides :
            Characters(Neighbour(t))' = Characters(Neighbour(t)) /\ shown'[t] = shown[t]
    BY DEF Characters, Neighbour, input
  <1> QED BY <1>2, <1>3, <1>4, <1>5

\* A side is closed by a row that does not fit.
LEMMA CloseWindowIInv ==
    ASSUME NEW s \in Sides
    PROVE  WindowIInv /\ Close(s) => WindowIInv'
  <1> SUFFICES ASSUME WindowIInv, Close(s) PROVE WindowIInv'
    OBVIOUS
  <1>1. /\ WindowTypeOK /\ WindowWorking /\ SidesAreRight /\ pc \in Sides
        /\ UNCHANGED <<input, shown, budget>> /\ pc' \in Sides
        /\ Characters(Neighbour(s)) > budget
        /\ open' = [open EXCEPT ![s] = FALSE]
    BY DEF WindowIInv, Close, HasTurn, PassesTurn, WindowWorking, Sides
  <1>2. WindowTypeOK'
    <2>1. \A t \in Sides : shown'[t] <= Room(t)'
      BY <1>1, InputIsKept DEF WindowTypeOK, Sides
    <2> QED BY <1>1, <2>1 DEF WindowTypeOK, input
  <1>3. SidesAreRight'
    <2>1. \A t \in Sides : open'[t] = IF t = s THEN FALSE ELSE open[t]
      BY <1>1 DEF WindowTypeOK
    <2> QED BY <1>1, <2>1, WindowIsKept DEF SidesAreRight
  <1> QED BY <1>1, <1>2, <1>3, WindowIsKept DEF WindowIInv, WindowWorking, Sides

\* A turn that is passed, and the end of the loop, change pc alone.
LEMMA TurnWindowIInv ==
    ASSUME WindowIInv, pc \in Sides, UNCHANGED <<input, shown, open, budget>>,
           \/ pc' \in Sides
           \/ pc' = "done" /\ \A s \in Sides : ~ open[s]
    PROVE  WindowIInv'
  <1>1. WindowTypeOK /\ WindowWorking /\ SidesAreRight
    BY DEF WindowIInv, WindowWorking
  <1>2. WindowTypeOK'
    <2>1. \A t \in Sides : shown'[t] <= Room(t)'
      BY <1>1, InputIsKept DEF WindowTypeOK, WindowWorking, Sides
    <2> QED BY <1>1, <2>1 DEF WindowTypeOK, input
  <1>3. SidesAreRight'
    BY <1>1, WindowIsKept DEF SidesAreRight
  <1> QED BY <1>1, <1>2, <1>3, WindowIsKept DEF WindowIInv, WindowWorking, Sides

LEMMA NextWindowIInv == WindowIInv /\ [WindowNext]_windowVars => WindowIInv'
  <1> SUFFICES ASSUME WindowIInv, [WindowNext]_windowVars PROVE WindowIInv'
    OBVIOUS
  <1>1. CASE Start
    BY <1>1, StartWindowIInv
  <1>2. CASE Refuse
    <2>1. WindowTypeOK /\ UptoGrows /\ UNCHANGED <<input, shown, open, budget>>
          /\ pc' = "refused" /\ \A s \in Sides : shown[s] = 0
      BY <1>2 DEF WindowIInv, Refuse
    <2>2. WindowTypeOK' /\ UptoGrows'
      BY <2>1, InputIsKept DEF WindowTypeOK, input
    <2> QED BY <2>1, <2>2 DEF WindowIInv, WindowWorking, Sides
  <1>3. CASE Finish
    BY <1>3, TurnWindowIInv DEF Finish, Sides
  <1>4. ASSUME NEW s \in Sides, Add(s) PROVE WindowIInv'
    BY <1>4, AddWindowIInv
  <1>5. ASSUME NEW s \in Sides, Close(s) PROVE WindowIInv'
    BY <1>5, CloseWindowIInv
  <1>6. ASSUME NEW s \in Sides, Skip(s) PROVE WindowIInv'
    BY <1>6, TurnWindowIInv DEF Skip, HasTurn, PassesTurn, Sides
  <1>7. CASE UNCHANGED windowVars
    <2>1. UNCHANGED <<rowCount, upto, anchor, asked, shown, open, budget, pc>>
      BY <1>7 DEF windowVars, input
    <2> QED BY <2>1 DEF WindowIInv, WindowTypeOK, UptoGrows, WindowWorking, BudgetIsExact, FitsOrAlone,
                       SidesAreRight, Size, Wanted, Room, AtMost, Characters,
                       Neighbour
  <1> QED BY <1>1, <1>2, <1>3, <1>4, <1>5, <1>6, <1>7 DEF WindowNext

\* In every reachable state the budget is exact, the window fits or is its
\* anchor alone, and a side is closed only when it must be.
THEOREM WindowIInvHolds == WindowSpec => []WindowIInv
  BY InitWindowIInv, NextWindowIInv, PTL DEF WindowSpec
-----------------------------------------------------------------------------
(* What follows from it.                                                   *)

\* Types hold, and no row outside the file is ever shown.
THEOREM WindowTypeCorrect == WindowSpec => []WindowTypeOK
  <1>1. WindowIInv => WindowTypeOK
    BY DEF WindowIInv
  <1> QED BY <1>1, WindowIInvHolds, PTL

\* The window's size is a number, and the wanted window is no smaller.
LEMMA SizesOfTheWindow ==
    ASSUME WindowIInv, WindowWorking
    PROVE  /\ \A s \in Sides : shown[s] \in 0 .. Wanted(s) /\ Wanted(s) \in 0 .. Room(s)
           /\ Size(shown["before"], shown["after"]) \in Nat
           /\ Size(Wanted("before"), Wanted("after")) \in Nat
           /\ Size(shown["before"], shown["after"])
                  <= Size(Wanted("before"), Wanted("after"))
  <1>1. WindowTypeOK /\ UptoGrows /\ anchor < rowCount /\ SidesAreRight
    BY DEF WindowIInv
  <1>2. \A s \in Sides : shown[s] \in 0 .. Wanted(s) /\ Wanted(s) \in 0 .. Room(s)
                         /\ Room(s) \in Nat
    BY <1>1, WantedIsWithin DEF SidesAreRight, WindowTypeOK
  <1>3. /\ Wanted("before") \in 0 .. anchor
        /\ Wanted("after") \in 0 .. rowCount - 1 - anchor
        /\ shown["before"] \in 0 .. Wanted("before")
        /\ shown["after"] \in 0 .. Wanted("after")
    BY <1>2 DEF Sides, Room
  <1> QED BY <1>1, <1>2, <1>3, SizeIsMonotone

\* A window of more than its anchor is within the bound.
THEOREM WithinSizeHolds == WindowSpec => []WithinSize
  <1>1. WindowIInv => WithinSize
    <2> SUFFICES ASSUME WindowIInv, NEW s \in Sides, shown[s] > 0
                 PROVE  Size(shown["before"], shown["after"]) <= MaxChars
      BY DEF WithinSize
    <2>1. WindowWorking
      BY DEF WindowIInv, WindowTypeOK, WindowWorking, Sides
    <2>2. budget \in Int /\ budget >= 0 /\ BudgetIsExact
      BY <2>1 DEF WindowIInv, WindowTypeOK, FitsOrAlone
    <2>3. Size(shown["before"], shown["after"]) \in Nat
      BY <2>1, SizesOfTheWindow
    <2> QED BY <2>2, <2>3, WindowLimits DEF BudgetIsExact
  <1> QED BY <1>1, WindowIInvHolds, PTL

\* A side that ends short of what was wanted has a next row that does not fit.
LEMMA ShortSideIsFull ==
    ASSUME WindowIInv, pc = "done", NEW s \in Sides, shown[s] < Wanted(s)
    PROVE  Size(shown["before"], shown["after"]) + Characters(Neighbour(s)) > MaxChars
  <1>1. WindowWorking /\ WindowTypeOK /\ UptoGrows /\ anchor < rowCount /\ SidesAreRight
        /\ BudgetIsExact /\ ~ open[s]
    BY DEF WindowIInv, WindowWorking
  <1>2. Characters(Neighbour(s)) > budget /\ Characters(Neighbour(s)) \in Nat
    BY <1>1, NeighbourIsARow DEF SidesAreRight
  <1>3. Size(shown["before"], shown["after"]) \in Nat
    BY <1>1, SizesOfTheWindow
  <1> QED BY <1>1, <1>2, <1>3, WindowLimits DEF BudgetIsExact

\* A finished window cannot be made larger on either side.
THEOREM NothingMoreFitsHolds == WindowSpec => []NothingMoreFits
  <1>1. WindowIInv => NothingMoreFits
    BY ShortSideIsFull DEF NothingMoreFits
  <1> QED BY <1>1, WindowIInvHolds, PTL

\* A window short on one side leaves out a row of the wanted window, which is
\* therefore larger than the bound.
LEMMA ShortWindowIsLimited ==
    ASSUME WindowIInv, pc = "done", NEW s \in Sides, shown[s] < Wanted(s)
    PROVE  Size(Wanted("before"), Wanted("after")) > MaxChars
  <1> DEFINE b == IF s = "before" THEN shown["before"] + 1 ELSE shown["before"]
             a == IF s = "after" THEN shown["after"] + 1 ELSE shown["after"]
  <1>1. WindowWorking /\ WindowTypeOK /\ UptoGrows /\ anchor < rowCount /\ SidesAreRight
    BY DEF WindowIInv, WindowWorking
  <1>2. \A t \in Sides : shown[t] \in 0 .. Wanted(t) /\ Wanted(t) \in 0 .. Room(t)
    BY <1>1, SizesOfTheWindow
  <1>3. /\ Wanted("before") \in 0 .. anchor
        /\ Wanted("after") \in 0 .. rowCount - 1 - anchor
        /\ anchor \in Nat /\ rowCount \in Nat
    BY <1>1, <1>2 DEF Sides, Room, WindowTypeOK
  <1>4. /\ b \in 0 .. Wanted("before") /\ a \in 0 .. Wanted("after")
        /\ shown["before"] \in Nat /\ shown["after"] \in Nat
    BY <1>2, <1>3 DEF Sides
  <1>5. Size(b, a) \in Nat /\ Size(Wanted("before"), Wanted("after")) \in Nat
        /\ Size(b, a) <= Size(Wanted("before"), Wanted("after"))
    BY <1>1, <1>3, <1>4, SizeIsMonotone
  <1>6. Size(b, a) = Size(shown["before"], shown["after"]) + Characters(Neighbour(s))
    <2>1. /\ anchor + shown["after"] + 1 \in 0 .. rowCount
          /\ anchor - shown["before"] \in 0 .. rowCount
          /\ Neighbour(s) \in 0 .. rowCount /\ Neighbour(s) + 1 \in 0 .. rowCount
      BY <1>1, <1>3, <1>4, NeighbourIsARow
    <2>2. /\ upto[anchor + shown["after"] + 1] \in Nat
          /\ upto[anchor - shown["before"]] \in Nat
          /\ upto[Neighbour(s)] \in Nat /\ upto[Neighbour(s) + 1] \in Nat
      BY <1>1, <2>1 DEF WindowTypeOK
    <2>3. CASE s = "before"
      <3>1. Neighbour(s) = anchor - (shown["before"] + 1)
            /\ Neighbour(s) + 1 = anchor - shown["before"]
        BY <2>3, <1>3, <1>4 DEF Neighbour
      <3> QED BY <2>2, <2>3, <3>1 DEF Size, Characters
    <2>4. CASE s = "after"
      <3>1. Neighbour(s) = anchor + shown["after"] + 1
            /\ Neighbour(s) + 1 = anchor + (shown["after"] + 1) + 1
        BY <2>4, <1>3, <1>4 DEF Neighbour
      <3> QED BY <2>2, <2>4, <3>1 DEF Size, Characters
    <2> QED BY <2>3, <2>4 DEF Sides
  <1>7. Size(b, a) > MaxChars
    BY <1>6, ShortSideIsFull
  <1> QED BY <1>5, <1>7, WindowLimits

\* size_limited is reported exactly when the wanted rows do not all fit.
THEOREM SizeLimitedIsHonestHolds == WindowSpec => []SizeLimitedIsHonest
  <1>1. WindowIInv => SizeLimitedIsHonest
    <2> SUFFICES ASSUME WindowIInv, pc = "done"
                 PROVE  SizeLimited <=>
                            /\ \E s \in Sides : Wanted(s) > 0
                            /\ Size(Wanted("before"), Wanted("after")) > MaxChars
      BY DEF SizeLimitedIsHonest
    <2>1. WindowWorking
      BY DEF WindowWorking
    <2>2. \A s \in Sides : shown[s] \in 0 .. Wanted(s) /\ Wanted(s) \in Nat
      BY <2>1, SizesOfTheWindow
    <2>3. ASSUME SizeLimited
          PROVE  /\ \E s \in Sides : Wanted(s) > 0
                 /\ Size(Wanted("before"), Wanted("after")) > MaxChars
      <3>1. PICK s \in Sides : shown[s] < Wanted(s)
        BY <2>2, <2>3 DEF SizeLimited
      <3> QED BY <2>2, <3>1, ShortWindowIsLimited
    <2>4. ASSUME ~ SizeLimited, NEW s \in Sides, Wanted(s) > 0
          PROVE  Size(Wanted("before"), Wanted("after")) <= MaxChars
      <3>1. shown["before"] = Wanted("before") /\ shown["after"] = Wanted("after")
            /\ shown[s] > 0
        BY <2>4 DEF SizeLimited, Sides
      <3>2. budget \in Int /\ budget >= 0 /\ BudgetIsExact
        BY <2>1, <2>2, <3>1 DEF WindowIInv, WindowTypeOK, FitsOrAlone
      <3>3. Size(shown["before"], shown["after"]) \in Nat
        BY <2>1, SizesOfTheWindow
      <3> QED BY <3>1, <3>2, <3>3, WindowLimits DEF BudgetIsExact
    <2>5. Size(Wanted("before"), Wanted("after")) \in Nat
      BY <2>1, SizesOfTheWindow
    <2> QED BY <2>3, <2>4, <2>5, WindowLimits
  <1> QED BY <1>1, WindowIInvHolds, PTL

\* The window fits, cannot be made larger, and says why it is not larger.
THEOREM WindowIsRightHolds == WindowSpec => []WindowIsRight
  <1>1. WithinSize /\ NothingMoreFits /\ SizeLimitedIsHonest => WindowIsRight
    BY DEF WindowIsRight
  <1> QED BY <1>1, WithinSizeHolds, NothingMoreFitsHolds,
             SizeLimitedIsHonestHolds, PTL
=============================================================================
