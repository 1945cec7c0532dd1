--------------------------------- MODULE Json ---------------------------------
(***************************************************************************)
(* JSON values.  A value carries its type, so that values of different     *)
(* types can be compared; a string is a word, never its characters.        *)
(***************************************************************************)
EXTENDS Integers, Sequences, FiniteSets, Functions

Null    == [type |-> "null"]
Bool(b) == [type |-> "boolean", truth |-> b]
Num(n)  == [type |-> "number", number |-> n]
Str(w)  == [type |-> "string", word |-> w]
List(s) == [type |-> "list", items |-> s]
Obj(f)  == [type |-> "object", members |-> f]

Strings(s) == List([i \in DOMAIN s |-> Str(s[i])])

IsString(v) == v.type = "string"
IsNumber(v) == v.type = "number"
IsList(v)   == v.type = "list"
IsObject(v) == v.type = "object"

Items(v) == Range(v.items)
Keys(v)  == DOMAIN v.members

IsListOfStrings(v) == IsList(v) /\ \A x \in Items(v) : IsString(x)

\* A walk through a value, as far as the answers and the evidence of the
\* program reach: four steps down.
Parts(v) == IF IsList(v) THEN Items(v)
            ELSE IF IsObject(v) THEN Range(v.members) ELSE {}

PartsOf(S) == UNION {Parts(v) : v \in S}

Within(v) ==
    LET one   == Parts(v)
        two   == PartsOf(one)
        three == PartsOf(two)
        four  == PartsOf(three)
    IN  {v} \cup one \cup two \cup three \cup four

IsWalked(v) == PartsOf(Within(v)) \subseteq Within(v)

\* What makes a value one of JSON.
IsJson(v) ==
    \A x \in Within(v) :
        /\ IsString(x) => x = Str(x.word)
        /\ IsList(x) => x.items \in Seq(Items(x))

\* What is found on the walk: keys count as strings.
Scalars(v) ==
    {x \in Within(v) : ~IsList(x) /\ ~IsObject(x)} \cup
    UNION {{Str(k) : k \in Keys(x)} : x \in {y \in Within(v) : IsObject(y)}}

Words(v)   == {x.word : x \in {y \in Scalars(v) : IsString(y)}}
Numbers(v) == {x.number : x \in {y \in Scalars(v) : IsNumber(y)}}
=============================================================================
