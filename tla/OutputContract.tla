---------------------------- MODULE OutputContract ----------------------------
(***************************************************************************)
(* The part of JSON Schema that the output contracts of the program use    *)
(* (ai_boundary/output_contract.py): what a runtime that honours the       *)
(* contract of a request can answer, and what the validators read.         *)
(***************************************************************************)
EXTENDS PromptEvidence

IsTextOf(v, min, max) == IsString(v) /\ Facts(v.word).length \in min .. max
IsOneOf(v, S)         == IsString(v) /\ v.word \in S
IsListOf(v, min, max) == IsList(v) /\ Len(v.items) \in min .. max

\* _enum_list_schema: members of S; of none, the list can only be empty.
IsSomeOf(v, S, min, max) ==
    /\ IF S = {} THEN IsListOf(v, 0, 0) ELSE IsListOf(v, min, max)
    /\ \A x \in Items(v) : IsOneOf(x, S)

\* An object with these fields and no other.
HasFields(v, required, optional) ==
    /\ IsObject(v)
    /\ required \subseteq Keys(v) /\ Keys(v) \subseteq required \cup optional
-----------------------------------------------------------------------------
(* What the validators share.                                              *)

Has(v, k)    == k \in Keys(v)
Field(v, k)  == v.members[k]
Word(v, k)   == v.members[k].word
Named(v, k)  == {x.word : x \in Items(v.members[k])}

When(b, reason) == IF b THEN {reason} ELSE {}

\* _bounded_text, a blank text being none.
IsText(v, max) ==
    IsString(v) /\ ~Facts(v.word).blank /\ Facts(v.word).length <= max

\* The texts of the mock provider: short, and with nothing to object to.
MockText == "mock text"

ASSUME MockTextAssumption ==
    LET facts == Facts(MockText) IN
    /\ facts.length \in 1 .. 60 /\ ~facts.blank
    /\ facts.numbers = {} /\ facts.terms = {}
    /\ ~facts.claims /\ ~facts.advises /\ ~facts.acts

\* Mutation: one name more than the contract allows is accepted.
IsNamesOneMore(v, min, max) ==
    IsListOfStrings(v) /\ Len(v.items) \in min .. max + 1

\* _string_list
IsNames(v, min, max) == IsListOfStrings(v) /\ Len(v.items) \in min .. max
=============================================================================
