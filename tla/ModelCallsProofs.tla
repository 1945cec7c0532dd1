--------------------------- MODULE ModelCallsProofs ---------------------------
(***************************************************************************)
(* Proofs about ModelCalls, for any cases, any evidence and any answers.   *)
(*                                                                         *)
(* The lemmas go from the inside to the outside: walks through values,     *)
(* what a prompt shows, what a validator has made sure of when it gives no *)
(* reason, what an explanation is made of, the contract and the validator  *)
(* against each other, the answers of the mock provider, the context of a  *)
(* dataset; then the inductive invariant IInv, what keeps it, and the      *)
(* theorems.                                                               *)
(***************************************************************************)
EXTENDS ModelCalls, TLAPS

-------------------------------------------------------------------------------
(* Values, walks and words.                                                *)

\* What a value is.
LEMMA Kinds ==
    ASSUME NEW f, NEW s, NEW w
    PROVE  /\ IsObject(Obj(f)) /\ ~IsList(Obj(f)) /\ ~IsString(Obj(f))
           /\ IsList(List(s)) /\ ~IsObject(List(s)) /\ ~IsString(List(s))
           /\ IsString(Str(w)) /\ ~IsObject(Str(w)) /\ ~IsList(Str(w))
           /\ Obj(f).members = f /\ List(s).items = s /\ Str(w).word = w
           /\ ~IsString(Null) /\ ~IsList(Null) /\ ~IsObject(Null)
BY DEF IsObject, IsList, IsString, Obj, List, Str, Null

\* A walk goes through the value, its parts, theirs and so on.
LEMMA WithinSteps ==
    ASSUME NEW v
    PROVE  /\ v \in Within(v)
           /\ \A x \in Parts(v) : x \in Within(v)
           /\ \A x \in Parts(v) : \A y \in Parts(x) :
                  /\ y \in Within(v)
                  /\ \A z \in Parts(y) :
                         z \in Within(v) /\ \A u \in Parts(z) : u \in Within(v)
BY DEF Within, PartsOf

\* What is within a value is the value, or within one of its parts.
LEMMA WithinParts ==
    ASSUME NEW v, NEW x \in Within(v), x # v
    PROVE  \E y \in Parts(v) : x \in Within(y)
<1> DEFINE One   == Parts(v)
           Two   == PartsOf(One)
           Three == PartsOf(Two)
           Four  == PartsOf(Three)
<1>1. x \in One \cup Two \cup Three \cup Four
  BY DEF Within
<1>2. CASE x \in One
  BY <1>2, WithinSteps
<1>3. CASE x \in Two
  BY <1>3, WithinSteps DEF PartsOf
<1>4. CASE x \in Three
  BY <1>4, WithinSteps DEF PartsOf
<1>5. CASE x \in Four
  <2>1. PICK y \in Three : x \in Parts(y)
    BY <1>5 DEF PartsOf
  <2>2. PICK z \in Two : y \in Parts(z)
    BY <2>1 DEF PartsOf
  <2>3. PICK u \in One : z \in Parts(u)
    BY <2>2 DEF PartsOf
  <2> QED BY <2>1, <2>2, <2>3, WithinSteps
<1> QED BY <1>1, <1>2, <1>3, <1>4, <1>5

\* The parts of an object are its members.
LEMMA ObjectParts ==
  ASSUME NEW f PROVE Parts(Obj(f)) = {f[k] : k \in DOMAIN f}
BY Kinds DEF Parts, Range

\* The parts of a list are its items.
LEMMA ListParts ==
  ASSUME NEW s PROVE Parts(List(s)) = {s[i] : i \in DOMAIN s}
BY Kinds DEF Parts, Items, Range

\* A string has no parts.
LEMMA StringParts ==
  ASSUME NEW w PROVE Parts(Str(w)) = {}
BY Kinds DEF Parts

\* The words of a value are its strings and its keys.
LEMMA WordsAre ==
    ASSUME NEW v, NEW w
    PROVE  w \in Words(v) <=>
              \/ \E x \in Within(v) : IsString(x) /\ x.word = w
              \/ \E x \in Within(v) : IsObject(x) /\ w \in Keys(x)
<1>1. ASSUME NEW x, IsString(x) PROVE ~ IsList(x) /\ ~ IsObject(x)
  BY <1>1 DEF IsString, IsList, IsObject
<1>2. \A k : IsString(Str(k)) /\ Str(k).word = k
  BY Kinds
<1>3. \A x : IsString(x) => (x \in Scalars(v) <=>
        \/ x \in Within(v)
        \/ \E y \in Within(v) : IsObject(y) /\ \E k \in Keys(y) : x = Str(k))
  BY <1>1 DEF Scalars
<1>4. w \in Words(v) <=> \E x \in Scalars(v) : IsString(x) /\ x.word = w
  BY DEF Words
<1> HIDE DEF Words
<1>5. ASSUME w \in Words(v) PROVE 
              \/ \E x \in Within(v) : IsString(x) /\ x.word = w
              \/ \E x \in Within(v) : IsObject(x) /\ w \in Keys(x)
  BY <1>2, <1>3, <1>4, <1>5
<1>6. ASSUME NEW x \in Within(v), IsString(x), x.word = w PROVE w \in Words(v)
  BY <1>3, <1>4, <1>6
<1>7. ASSUME NEW x \in Within(v), IsObject(x), w \in Keys(x) PROVE w \in Words(v)
  BY <1>2, <1>3, <1>4, <1>7
<1> QED BY <1>5, <1>6, <1>7

\* A JSON object of JSON
LEMMA JsonObject ==
    ASSUME NEW f, \A k \in DOMAIN f : IsJson(f[k])
    PROVE  IsJson(Obj(f))
BY WithinParts, ObjectParts, Kinds DEF IsJson

\* A list of JSON values is one.
LEMMA JsonList ==
    ASSUME NEW S, NEW s \in Seq(S), \A x \in S : IsJson(x)
    PROVE  IsJson(List(s))
<1>1. \A i \in DOMAIN s : IsJson(s[i])
  OBVIOUS
<1>2. Items(List(s)) = {s[i] : i \in DOMAIN s} /\ s \in Seq({s[i] : i \in DOMAIN s})
  BY Kinds DEF Items, Range
<1> QED
BY <1>1, <1>2, WithinParts, ListParts, Kinds DEF IsJson

\* A string is a JSON value.
LEMMA JsonString ==
    ASSUME NEW w PROVE IsJson(Str(w))
BY WithinParts, StringParts, Kinds DEF IsJson

\* The words of an object are its keys and the words of its members.
LEMMA WordsOfObject ==
    ASSUME NEW f, NEW w \in Words(Obj(f))
    PROVE  w \in DOMAIN f \/ \E k \in DOMAIN f : w \in Words(f[k])
<1>1. \A x \in Within(Obj(f)) : x = Obj(f) \/ \E k \in DOMAIN f : x \in Within(f[k])
  BY WithinParts, ObjectParts
<1>2. Keys(Obj(f)) = DOMAIN f
  BY Kinds DEF Keys
<1> QED BY <1>1, <1>2, WordsAre, Kinds

\* The keys of an object are words of it.
LEMMA KeysAreWords ==
    ASSUME NEW f PROVE DOMAIN f \subseteq Words(Obj(f))
BY WithinSteps, WordsAre, Kinds DEF Keys

-------------------------------------------------------------------------------
(* What a prompt shows.                                                    *)

\* The evidence a provider sees, piece by piece.
LEMMA SentPiece ==
    ASSUME NEW e, NEW alias, EvidenceParts \subseteq DOMAIN e
    PROVE  LET x == Sent([e EXCEPT !.id = alias]) IN
           /\ x.id = alias /\ x.columns = e.columns
           /\ x.summary = e.summary /\ x.rows = e.rows
           /\ DOMAIN x.payload \subseteq DOMAIN e.payload
           /\ \A k \in DOMAIN x.payload :
                 /\ x.payload[k] = e.payload[k]
                 /\ IsComputedFact(e.payload[k], k \in SafeStringPayloadKeys)
<1> DEFINE y == [e EXCEPT !.id = alias]
           kept == {k \in DOMAIN y.payload :
                      /\ Facts(k).token
                      /\ IsComputedFact(y.payload[k], k \in SafeStringPayloadKeys)}
           x == [y EXCEPT !.payload = Restrict(y.payload, kept)]
<1>1. x = Sent([e EXCEPT !.id = alias])
  BY DEF Sent
<1>2. /\ y.id = alias /\ y.columns = e.columns /\ y.summary = e.summary
      /\ y.payload = e.payload /\ y.rows = e.rows /\ DOMAIN y = DOMAIN e
  BY DEF EvidenceParts
<1> HIDE DEF y
<1>3. /\ x.id = y.id /\ x.columns = y.columns /\ x.summary = y.summary
      /\ x.payload = Restrict(y.payload, kept) /\ x.rows = y.rows
  BY <1>2 DEF EvidenceParts
<1>4. /\ DOMAIN x.payload = kept
      /\ \A k \in kept : x.payload[k] = y.payload[k]
  BY <1>3 DEF Restrict
<1> HIDE DEF x
<1> QED BY <1>1, <1>2, <1>3, <1>4

\* A string in a computed fact is under one of the safe keys.
LEMMA ComputedFactWords ==
    ASSUME NEW v, NEW k, IsComputedFact(v, k \in SafeStringPayloadKeys),
           NEW w \in Words(v)
    PROVE  k \in SafeStringPayloadKeys
BY WordsAre DEF IsComputedFact

\* The words sent of a piece of evidence: its alias, the text the program wrote
\* about it, its columns, the names of its facts and the two safe facts that are text
\* (serialize_evidence_for_provider).
LEMMA SentWords ==
    ASSUME NEW e, NEW alias, EvidenceParts \subseteq DOMAIN e,
           NEW w \in EvidenceWords(Sent([e EXCEPT !.id = alias]))
    PROVE  \/ w = alias \/ w = e.summary \/ w \in Range(e.columns)
           \/ w \in DOMAIN e.payload
           \/ \E k \in DOMAIN e.payload \cap SafeStringPayloadKeys :
                  w \in Words(e.payload[k])
<1> DEFINE x == Sent([e EXCEPT !.id = alias])
<1>1. /\ x.id = alias /\ x.columns = e.columns
           /\ x.summary = e.summary
           /\ DOMAIN x.payload \subseteq DOMAIN e.payload
           /\ \A k \in DOMAIN x.payload :
                 /\ x.payload[k] = e.payload[k]
                 /\ IsComputedFact(e.payload[k], k \in SafeStringPayloadKeys)
  BY SentPiece
<1> HIDE DEF x
<1>2. w \in EvidenceWords(x)
  BY DEF x
<1>3. CASE w \in Words(Obj(x.payload))
  <2>1. w \in DOMAIN x.payload \/ \E k \in DOMAIN x.payload : w \in Words(x.payload[k])
    BY <1>3, WordsOfObject
  <2>2. ASSUME NEW k \in DOMAIN x.payload, w \in Words(x.payload[k])
        PROVE  k \in SafeStringPayloadKeys
    BY <1>1, <2>2, ComputedFactWords
  <2> QED BY <1>1, <2>1, <2>2
<1> QED BY <1>1, <1>2, <1>3 DEF EvidenceWords

\* Every envelope holds the evidence under its aliases.
LEMMA EnvelopeIs ==
    ASSUME NEW c \in DOMAIN Cases
    PROVE  Envelopes[c].evidence = ProviderView(Cases[c].evidence)
BY DEF Envelopes, ContextEnvelope, Envelope

Piece(c, i) == Sent([Cases[c].evidence[i] EXCEPT !.id = Alias(i)])

\* What is sent is a piece for every piece of evidence.
LEMMA SentEvidenceIs ==
    ASSUME NEW c \in DOMAIN Cases
    PROVE  SentEvidence(Envelopes[c]) =
               {Piece(c, i) : i \in DOMAIN Cases[c].evidence}
<1> DEFINE view == ProviderView(Cases[c].evidence)
<1>1. DOMAIN view = DOMAIN Cases[c].evidence
  BY DEF ProviderView
<1>2. \A i \in DOMAIN view : Sent(view[i]) = Piece(c, i)
  BY DEF ProviderView, Piece
<1>3. Envelopes[c].evidence = view
  BY EnvelopeIs
<1> HIDE DEF view
<1>4. SentEvidence(Envelopes[c]) = {Sent(view[i]) : i \in DOMAIN view}
  BY <1>3 DEF SentEvidence
<1> QED BY <1>1, <1>2, <1>4

\* A piece of evidence has all its parts.
LEMMA EvidenceIsWhole ==
    ASSUME NEW c \in DOMAIN Cases, NEW i \in DOMAIN Cases[c].evidence
    PROVE  /\ Cases[c].evidence[i] \in Range(Cases[c].evidence)
           /\ EvidenceParts \subseteq DOMAIN Cases[c].evidence[i]
BY CasesAssumption DEF Range

\* No prompt holds more than metadata (build_safe_prompt).
LEMMA PromptIsMetadata ==
    ASSUME NEW c \in DOMAIN Cases
    PROVE  PromptWords(Envelopes[c]) \subseteq Metadata(c)
<1> SUFFICES ASSUME NEW w \in PromptWords(Envelopes[c]) PROVE w \in Metadata(c)
  OBVIOUS
<1>1. CASE w \in Words(Obj(Envelopes[c].context))
  BY <1>1 DEF Metadata
<1>2. ASSUME NEW i \in DOMAIN Cases[c].evidence,
             w \in EvidenceWords(Piece(c, i))
      PROVE  w \in Metadata(c)
  <2> DEFINE e == Cases[c].evidence[i]
  <2>1. e \in Range(Cases[c].evidence)
    BY EvidenceIsWhole
  <2>2. \/ w = Alias(i) \/ w = e.summary \/ w \in Range(e.columns)
           \/ w \in DOMAIN e.payload
           \/ \E k \in DOMAIN e.payload \cap SafeStringPayloadKeys :
                  w \in Words(e.payload[k])
    BY <1>2, EvidenceIsWhole, SentWords DEF Piece
  <2> HIDE DEF e
  <2> QED BY <2>1, <2>2 DEF Metadata
<1>3. \/ w \in Words(Obj(Envelopes[c].context))
      \/ \E i \in DOMAIN Cases[c].evidence :
            w \in EvidenceWords(Piece(c, i))
  BY SentEvidenceIs DEF PromptWords
<1> QED BY <1>1, <1>2, <1>3

\* A prompt says something.
LEMMA PromptIsNotEmpty ==
    ASSUME NEW c \in DOMAIN Cases
    PROVE  Shown(c).words # {}
<1>1. Shown(c).words = PromptWords(Envelopes[c]) \cup ContractWords(c)
  BY DEF Shown, Told
<1>2. ASSUME NEW i \in DOMAIN Cases[c].evidence PROVE PromptWords(Envelopes[c]) # {}
  <2> DEFINE x == Piece(c, i)
  <2>1. x.id \in EvidenceWords(x)
    BY DEF EvidenceWords
  <2> HIDE DEF x
  <2>2. x \in SentEvidence(Envelopes[c])
    BY SentEvidenceIs DEF x
  <2> QED BY <2>1, <2>2 DEF PromptWords
<1>3. CASE Cases[c].kind = "finding"
  <2> DEFINE s == Cases[c].evidence
  <2>1. s \in Seq(Range(s)) /\ s # <<>>
    BY <1>3, CasesAssumption
  <2> HIDE DEF s
  <2>2. 1 \in DOMAIN s
    BY <2>1
  <2> QED BY <1>1, <1>2, <2>2 DEF s
<1>4. CASE Cases[c].kind = "rule"
  <2>1. Spellings[c] # <<>>
    BY <1>4, CasesAssumption
  <2>2. Spellings[c] = Candidates(Cases[c].finding, Cases[c].evidence)
    BY <1>4 DEF Spellings, CasesOf
  <2>3. Range(Cases[c].evidence) # {}
    BY <2>1, <2>2 DEF Candidates
  <2> QED BY <1>1, <1>2, <2>3 DEF Range
<1>5. CASE Cases[c].kind = "context"
  <2>1. Envelopes[c].context = SerializedContext(Inferred[c])
    BY <1>5 DEF Envelopes, ContextEnvelope, Envelope
  <2>2. DOMAIN Inferred[c] = ContextFields
    BY <1>5 DEF Inferred, CasesOf, InferredContext, Consolidated
  <2>3. DOMAIN Envelopes[c].context # {}
    BY <2>1, <2>2 DEF SerializedContext, ContextFields
  <2> QED BY <1>1, <2>3, KeysAreWords DEF PromptWords
<1> QED BY <1>3, <1>4, <1>5, CasesAssumption

-------------------------------------------------------------------------------
(* What a validator has made sure of.                                      *)

\* A reason is given or it is not.
LEMMA WhenIs ==
    ASSUME NEW b, NEW r, b \in BOOLEAN
    PROVE  (When(b, r) = {} <=> ~b) /\ When(b, r) \subseteq {r}
BY DEF When

\* What an answer to a rule request is when there is no reason against it.
LEMMA RuleAccepted ==
    ASSUME NEW a, NEW candidates, RuleAnswerReasons(a, candidates) = {}
    PROVE  /\ Keys(a) = RuleAnswerKeys
           /\ Field(a, "schema_version") = Str(RuleVersion)
           /\ Field(a, "provenance") = Str("ai_interpretation")
           /\ IsOneOf(Field(a, "canonical_value"), Range(candidates))
<1>1. Keys(a) = RuleAnswerKeys
  BY DEF RuleAnswerReasons, When
<1>2. /\ Field(a, "schema_version") = Str(RuleVersion)
      /\ Field(a, "provenance") = Str("ai_interpretation")
      /\ ValueReasons(Field(a, "canonical_value"), candidates) = {}
  BY <1>1 DEF RuleAnswerReasons, When
<1>3. IsOneOf(Field(a, "canonical_value"), Range(candidates))
  BY <1>2 DEF ValueReasons, When, IsOneOf
<1> QED BY <1>1, <1>2, <1>3

\* For a rule, the validator accepts what the schema allows, and no more.
LEMMA RuleAgrees ==
    ASSUME NEW a, NEW candidates, IsObject(a), IsJson(a)
    PROVE  RuleAnswerReasons(a, candidates) = {}
               <=> RuleSchemaAllows(a, candidates)
<1>1. ASSUME NEW k \in Keys(a), IsString(Field(a, k))
      PROVE  Field(a, k) = Str(Word(a, k))
  <2>1. Field(a, k) \in Within(a)
    BY <1>1, WithinSteps DEF Parts, Keys, Field, Range, IsObject, IsList
  <2> QED BY <1>1, <2>1 DEF IsJson, Word, Field
<1>2. ASSUME RuleAnswerReasons(a, candidates) = {}
      PROVE  RuleSchemaAllows(a, candidates)
  BY <1>2, RuleAccepted, Kinds DEF RuleSchemaAllows, HasFields, IsOneOf
<1>3. ASSUME RuleSchemaAllows(a, candidates)
      PROVE  RuleAnswerReasons(a, candidates) = {}
  <2>1. Keys(a) = RuleAnswerKeys
    BY <1>3 DEF RuleSchemaAllows, HasFields
  <2>2. /\ Field(a, "schema_version") = Str(RuleVersion)
        /\ Field(a, "provenance") = Str("ai_interpretation")
    BY <1>1, <1>3, <2>1 DEF RuleSchemaAllows, IsOneOf, RuleAnswerKeys, Word, Field
  <2>3. ValueReasons(Field(a, "canonical_value"), candidates) = {}
    BY <1>3 DEF RuleSchemaAllows, IsOneOf, ValueReasons, When
  <2> QED BY <2>1, <2>2, <2>3 DEF RuleAnswerReasons, When
<1> QED BY <1>2, <1>3

\* The members of an answer without a reason have none.
LEMMA NoReasonsAtAll ==
    ASSUME NEW a, NEW req, FindingReasons(a, req) = {}
    PROVE  /\ IsObject(a) /\ RequiredKeys \subseteq Keys(a)
           /\ \A k \in Keys(a) : MemberReasons(Field(a, k), k, req) = {}
<1>1. IsObject(a)
  BY DEF FindingReasons
<1>2. RequiredKeys \subseteq Keys(a)
  BY <1>1 DEF FindingReasons, When
<1>3. UNION {MemberReasons(Field(a, k), k, req) : k \in Keys(a)} = {}
  BY <1>1 DEF FindingReasons
<1> QED BY <1>1, <1>2, <1>3

\* What is said of each member.
LEMMA MembersAre ==
    ASSUME NEW v, NEW req
    PROVE  /\ MemberReasons(v, "schema_version", req) =
                 When(v # Str(FindingVersion), "schema_invalid")
           /\ MemberReasons(v, "provenance", req) = ProvenanceReasons(v)
           /\ MemberReasons(v, "explanation", req) = ExplanationReasons(v, req)
           /\ MemberReasons(v, "business_impact", req) =
                 IF IsShortList(v) THEN UNION {ImpactReasons(x, req) : x \in Items(v)}
                 ELSE {"schema_invalid"}
           /\ MemberReasons(v, "remediation", req) =
                 IF IsShortList(v)
                 THEN UNION {RemediationReasons(x, req) : x \in Items(v)}
                 ELSE {"schema_invalid"}
           /\ MemberReasons(v, "validation_rule", req) = RuleReasons(v, req)
           /\ MemberReasons(v, "referenced_evidence_ids", req) =
                 ReferenceReasons(v, req.ids, IF req.ids = {} THEN 0 ELSE 1,
                                  MaxReferences, "unknown_evidence_id")
           /\ MemberReasons(v, "referenced_columns", req) =
                 ReferenceReasons(v, req.columns, 0, MaxReferences,
                                  "unknown_column")
           /\ MemberReasons(v, "numeric_claims", req) =
                 NumericClaimReasons(v, req.facts)
BY DEF MemberReasons

\* A member no answer may have is a reason.
LEMMA OtherMembers ==
    ASSUME NEW v, NEW req, NEW k, k \notin RequiredKeys \cup {"numeric_claims"}
    PROVE  MemberReasons(v, k, req) = {"unsupported_control_field"}
BY DEF MemberReasons, RequiredKeys

\* An entry without a reason is an object with its keys, well formed, and with
\* content that may be said.
LEMMA EntryAccepted ==
    ASSUME NEW v, NEW keys, NEW wellFormed \in BOOLEAN, NEW content,
           EntryReasons(v, keys, wellFormed, content) = {}
    PROVE  /\ IsObject(v) /\ Keys(v) \subseteq keys
           /\ wellFormed /\ content = {}
BY DEF EntryReasons, When

\* What a statement of impact is when there is no reason against it.
LEMMA ImpactAccepted ==
    ASSUME NEW v, NEW req, ImpactReasons(v, req) = {}
    PROVE  /\ IsObject(v) /\ Keys(v) \subseteq ImpactKeys /\ IsImpact(v)
           /\ Named(v, "evidence_ids") \subseteq req.ids
           /\ Named(v, "context_fields") \subseteq req.context
           /\ \A w \in ImpactWords(v) :
                 ~Ungrounded(w, req.grounding, {}) /\ ~Facts(w).claims
<1> DEFINE content ==
        When(~(Named(v, "evidence_ids") \subseteq req.ids),
             "unknown_evidence_id") \cup
        When(~(Named(v, "context_fields") \subseteq req.context),
             "unknown_context_field") \cup
        When(\E w \in ImpactWords(v) : Ungrounded(w, req.grounding, {}),
             "unknown_numeric_claim") \cup
        When(\E w \in ImpactWords(v) : Facts(w).claims, "unsupported_claim")
<1>1. EntryReasons(v, ImpactKeys, IsImpact(v), content) = {}
  BY DEF ImpactReasons
<1>2. IsImpact(v) \in BOOLEAN
  BY DEF IsImpact
<1>3. /\ IsObject(v) /\ Keys(v) \subseteq ImpactKeys /\ IsImpact(v)
      /\ content = {}
  <2> HIDE DEF content
  <2> QED BY <1>1, <1>2, EntryAccepted
<1> QED BY <1>3 DEF When

\* What a text of advice is when there is no reason against it.
LEMMA AdviceAccepted ==
    ASSUME NEW w, NEW req, NEW structural, AdviceReasons(w, req, structural) = {}
    PROVE  /\ ~Facts(w).acts /\ ~Facts(w).advises
           /\ ~Ungrounded(w, req.grounding, structural)
BY DEF AdviceReasons, When

\* What a remediation is when there is no reason against it.
LEMMA RemediationAccepted ==
    ASSUME NEW v, NEW req, RemediationReasons(v, req) = {}
    PROVE  /\ IsObject(v) /\ Keys(v) \subseteq RemediationKeys
           /\ IsRemediation(v)
           /\ Named(v, "evidence_ids") \subseteq req.ids
           /\ \A w \in AdviceWords(v) : AdviceReasons(w, req, {}) = {}
<1> DEFINE advice == UNION {AdviceReasons(w, req, {}) : w \in AdviceWords(v)}
           content ==
             When(~(Named(v, "evidence_ids") \subseteq req.ids),
                  "unknown_evidence_id") \cup advice
<1>1. EntryReasons(v, RemediationKeys, IsRemediation(v), content) = {}
  BY DEF RemediationReasons
<1>2. IsRemediation(v) \in BOOLEAN
  BY DEF IsRemediation
<1>3. /\ IsObject(v) /\ Keys(v) \subseteq RemediationKeys /\ IsRemediation(v)
      /\ content = {}
  <2> HIDE DEF content
  <2> QED BY <1>1, <1>2, EntryAccepted
<1>4. advice = {} /\ Named(v, "evidence_ids") \subseteq req.ids
  BY <1>3 DEF When
<1>5. \A w \in AdviceWords(v) : AdviceReasons(w, req, {}) = {}
  BY <1>4
<1> QED BY <1>3, <1>4, <1>5

\* What the rule of an answer is when there is no reason against it.
LEMMA RuleMemberAccepted ==
    ASSUME NEW v, NEW req, RuleReasons(v, req) = {}
    PROVE  /\ IsObject(v) /\ Keys(v) = RuleKeys
           /\ IsOneOf(Field(v, "rule_type"), RuleTypes)
           /\ IsNames(Field(v, "columns"), 0, MaxRuleColumns)
           /\ Named(v, "columns") \subseteq req.columns
           /\ IsText(Field(v, "description"), MaxRuleDescription)
           /\ AdviceReasons(Word(v, "description"), req, StructuralNumbers) = {}
<1> DEFINE type == When(~IsOneOf(Field(v, "rule_type"), RuleTypes),
                        "schema_invalid")
           columns == ReferenceReasons(Field(v, "columns"), req.columns,
                         0, MaxRuleColumns, "unknown_column")
           text == IF IsText(Field(v, "description"), MaxRuleDescription)
                   THEN AdviceReasons(Word(v, "description"), req, StructuralNumbers)
                   ELSE {"schema_invalid"}
           content == type \cup columns \cup text
<1>1. EntryReasons(v, RuleKeys, RuleKeys \subseteq Keys(v), content) = {}
  BY DEF RuleReasons
<1>2. /\ IsObject(v) /\ Keys(v) \subseteq RuleKeys /\ RuleKeys \subseteq Keys(v)
      /\ content = {}
  <2> HIDE DEF content
  <2> QED BY <1>1, EntryAccepted
<1>3. type = {} /\ columns = {} /\ text = {}
  BY <1>2
<1>4. IsOneOf(Field(v, "rule_type"), RuleTypes)
  BY <1>3 DEF When
<1>5. /\ IsNames(Field(v, "columns"), 0, MaxRuleColumns)
      /\ Named(v, "columns") \subseteq req.columns
  BY <1>3 DEF ReferenceReasons, When, Named, Field
<1>6. /\ IsText(Field(v, "description"), MaxRuleDescription)
      /\ AdviceReasons(Word(v, "description"), req, StructuralNumbers) = {}
  BY <1>3
<1> QED BY <1>2, <1>4, <1>5, <1>6

\* What the text of an answer is when there is no reason against it.
LEMMA ExplanationAccepted ==
    ASSUME NEW v, NEW req, ExplanationReasons(v, req) = {}
    PROVE  /\ IsText(v, MaxExplanation)
           /\ Facts(v.word).terms \subseteq req.grounding.stems
           /\ ~Ungrounded(v.word, req.grounding, {})
           /\ ~Facts(v.word).claims
BY DEF ExplanationReasons, When

\* An accepted answer, member by member.
LEMMA FindingAccepted ==
    ASSUME NEW a, NEW req, FindingReasons(a, req) = {}
    PROVE  /\ IsObject(a) /\ RequiredKeys \subseteq Keys(a)
           /\ Keys(a) \subseteq RequiredKeys \cup {"numeric_claims"}
           /\ Field(a, "schema_version") = Str(FindingVersion)
           /\ ProvenanceReasons(Field(a, "provenance")) = {}
           /\ ExplanationReasons(Field(a, "explanation"), req) = {}
           /\ IsShortList(Field(a, "business_impact"))
           /\ \A x \in Items(Field(a, "business_impact")) :
                 ImpactReasons(x, req) = {}
           /\ IsShortList(Field(a, "remediation"))
           /\ \A x \in Items(Field(a, "remediation")) :
                 RemediationReasons(x, req) = {}
           /\ RuleReasons(Field(a, "validation_rule"), req) = {}
           /\ ReferenceReasons(Field(a, "referenced_evidence_ids"), req.ids,
                  IF req.ids = {} THEN 0 ELSE 1,
                  MaxReferences, "unknown_evidence_id") = {}
           /\ ReferenceReasons(Field(a, "referenced_columns"), req.columns,
                  0, MaxReferences, "unknown_column") = {}
           /\ Has(a, "numeric_claims") =>
                  NumericClaimReasons(Field(a, "numeric_claims"), req.facts) = {}
<1>1. /\ IsObject(a) /\ RequiredKeys \subseteq Keys(a)
      /\ \A k \in Keys(a) : MemberReasons(Field(a, k), k, req) = {}
  BY NoReasonsAtAll
<1>2. Keys(a) \subseteq RequiredKeys \cup {"numeric_claims"}
  BY <1>1, OtherMembers
<1>3. \A k \in RequiredKeys : MemberReasons(Field(a, k), k, req) = {}
  BY <1>1
<1>4. Field(a, "schema_version") = Str(FindingVersion)
  BY <1>3, MembersAre DEF RequiredKeys, When
<1>5. /\ ProvenanceReasons(Field(a, "provenance")) = {}
      /\ ExplanationReasons(Field(a, "explanation"), req) = {}
      /\ RuleReasons(Field(a, "validation_rule"), req) = {}
  BY <1>3, MembersAre DEF RequiredKeys
<1>6. /\ ReferenceReasons(Field(a, "referenced_evidence_ids"), req.ids,
                  IF req.ids = {} THEN 0 ELSE 1,
                  MaxReferences, "unknown_evidence_id") = {}
      /\ ReferenceReasons(Field(a, "referenced_columns"), req.columns,
                  0, MaxReferences, "unknown_column") = {}
  BY <1>3, MembersAre DEF RequiredKeys
<1>7. /\ IsShortList(Field(a, "business_impact"))
      /\ \A x \in Items(Field(a, "business_impact")) : ImpactReasons(x, req) = {}
  <2> DEFINE v == Field(a, "business_impact")
             all == UNION {ImpactReasons(x, req) : x \in Items(v)}
  <2>1. (IF IsShortList(v) THEN all ELSE {"schema_invalid"}) = {}
    BY <1>3, MembersAre DEF RequiredKeys
  <2> HIDE DEF v
  <2>2. IsShortList(v) /\ all = {}
    BY <2>1
  <2> QED BY <2>2 DEF v
<1>8. /\ IsShortList(Field(a, "remediation"))
      /\ \A x \in Items(Field(a, "remediation")) : RemediationReasons(x, req) = {}
  <2> DEFINE v == Field(a, "remediation")
             all == UNION {RemediationReasons(x, req) : x \in Items(v)}
  <2>1. (IF IsShortList(v) THEN all ELSE {"schema_invalid"}) = {}
    BY <1>3, MembersAre DEF RequiredKeys
  <2> HIDE DEF v
  <2>2. IsShortList(v) /\ all = {}
    BY <2>1
  <2> QED BY <2>2 DEF v
<1>9. Has(a, "numeric_claims") =>
          NumericClaimReasons(Field(a, "numeric_claims"), req.facts) = {}
  BY <1>1, MembersAre DEF Has
<1> QED BY <1>1, <1>2, <1>4, <1>5, <1>6, <1>7, <1>8, <1>9

\* A text that may be kept is not empty.
LEMMA TextIsNotEmpty ==
    ASSUME NEW v, NEW max, IsText(v, max)
    PROVE  v.word # NoText /\ ~Facts(v.word).blank
BY ProseAssumption DEF IsText, Facts
-----------------------------------------------------------------------------
\* The request of a finding.
LEMMA RequestIs ==
    ASSUME NEW c \in DOMAIN Cases, Cases[c].kind = "finding"
    PROVE  /\ Request[c].evidence = Cases[c].evidence
           /\ Request[c].ids = EvidenceIds(Envelopes[c])
           /\ Request[c].columns = EvidenceColumns(Cases[c].evidence)
           /\ Request[c].context = DOMAIN Envelopes[c].context
           /\ Request[c].facts = KnownNumericFacts(Cases[c].evidence)
           /\ Request[c].grounding = Grounding(Envelopes[c], Request[c].facts)
           /\ Envelopes[c].context = Context[c]
<1>1. Request[c] = FindingRequest(Cases[c].evidence, Context[c])
  BY DEF Request, CasesOf
<1>2. Envelopes[c] = Envelope(Cases[c].evidence, Context[c])
  BY DEF Envelopes
<1>3. Envelopes[c].context = Context[c]
  BY <1>2 DEF Envelope
<1> QED BY <1>1, <1>2, <1>3 DEF FindingRequest

\* An alias stands for a piece of the evidence.
LEMMA AliasesAreReal ==
    ASSUME NEW c \in DOMAIN Cases, Cases[c].kind = "finding",
           NEW x \in Request[c].ids
    PROVE  RealId(x, Request[c]) \in {e.id : e \in Range(Cases[c].evidence)}
<1> DEFINE evidence == Cases[c].evidence
           view == ProviderView(evidence)
<1>1. x \in {e.id : e \in Range(view)}
  BY RequestIs, EnvelopeIs DEF EvidenceIds
<1>2. PICK i \in DOMAIN evidence : x = view[i].id
  BY <1>1 DEF Range, ProviderView
<1>3. view[i].id = Alias(i)
  BY EvidenceIsWhole DEF ProviderView, EvidenceParts
<1>4. Request[c].evidence = evidence
  BY RequestIs
<1> DEFINE j == CHOOSE k \in DOMAIN evidence : Alias(k) = x
<1>5. j \in DOMAIN evidence
  BY <1>2, <1>3
<1>6. RealId(x, Request[c]) = evidence[j].id
  BY <1>4 DEF RealId
<1> HIDE DEF j, evidence, view
<1> QED BY <1>5, <1>6 DEF Range, evidence

-------------------------------------------------------------------------------
(* What an explanation is made of.                                         *)

\* The numbers that an explanation may use.
NumbersAllowed(c) ==
    NumbersTold \cup Range(KnownNumericFacts(Cases[c].evidence))

\* What an answer may rest on is what was shown.
LEMMA GroundingWasShown ==
    ASSUME NEW c \in DOMAIN Cases, Cases[c].kind = "finding", told = Shown(c)
    PROVE  /\ Request[c].grounding.numbers \subseteq NumbersAllowed(c)
           /\ Request[c].grounding.stems \subseteq StemsTold
           /\ Request[c].context = told.fields
<1> DEFINE words == PromptWords(Envelopes[c])
<1>1. /\ words \subseteq told.words /\ PromptNumbers(Envelopes[c]) = told.numbers
      /\ told.fields = DOMAIN Envelopes[c].context
  BY DEF Shown, Told
<1>2. /\ Request[c].grounding.numbers =
             Range(Request[c].facts) \cup PromptNumbers(Envelopes[c]) \cup
                 UNION {Facts(w).numbers : w \in words}
      /\ Request[c].grounding.stems = UNION {Facts(w).stems : w \in words}
  <2> DEFINE facts == Request[c].facts
             numbers == Range(facts) \cup PromptNumbers(Envelopes[c]) \cup
                            UNION {Facts(w).numbers : w \in words}
             stems == UNION {Facts(w).stems : w \in words}
  <2>1. Grounding(Envelopes[c], facts) = [numbers |-> numbers, stems |-> stems]
    BY DEF Grounding
  <2>2. Request[c].grounding = Grounding(Envelopes[c], facts)
    BY RequestIs
  <2> HIDE DEF facts, numbers, stems
  <2>3. Request[c].grounding.numbers = numbers /\ Request[c].grounding.stems = stems
    BY <2>1, <2>2
  <2> QED BY <2>3 DEF facts, numbers, stems
<1>3. Request[c].facts = KnownNumericFacts(Cases[c].evidence)
  BY RequestIs
<1> HIDE DEF words
<1> QED BY <1>1, <1>2, <1>3, RequestIs DEF NumbersAllowed, NumbersTold, StemsTold

\* Grounded
LEMMA GroundedIs ==
    ASSUME NEW w, NEW grounding, NEW structural
    PROVE  ~Ungrounded(w, grounding, structural) <=>
               Facts(w).numbers \subseteq grounding.numbers \cup structural
BY DEF Ungrounded

\* One statement of impact of an accepted answer.
KeptImpact(v, req) ==
    [statement |-> Word(v, "statement"), assumption |-> Word(v, "assumption"),
     basis |-> ImpactBasis(Named(v, "context_fields")),
     context |-> Named(v, "context_fields"), evidence |-> RealIds(v, req)]

KeptAdvice(v, req) ==
    [texts |-> [k \in DOMAIN RemediationTexts |-> Word(v, k)],
     example |-> IF Facts(Word(v, "technical_example")).blank THEN {}
                 ELSE {Word(v, "technical_example")},
     evidence |-> RealIds(v, req)]

\* A kept statement of impact is well made and grounded.
LEMMA KeptImpactIsGrounded ==
    ASSUME NEW c \in DOMAIN Cases, Cases[c].kind = "finding", told = Shown(c),
           NEW v, ImpactReasons(v, Request[c]) = {},
           NEW i, i = KeptImpact(v, Request[c])
    PROVE  /\ i.statement # NoText /\ ~Facts(i.assumption).blank
           /\ (i.basis = "confirmed_context") <=> (i.context # {})
           /\ Facts(i.statement).numbers \subseteq NumbersAllowed(c)
           /\ Facts(i.assumption).numbers \subseteq NumbersAllowed(c)
           /\ i.evidence \subseteq {e.id : e \in Range(Cases[c].evidence)}
           /\ i.context \subseteq told.fields
<1> DEFINE req == Request[c]
<1>1. /\ i.statement = Word(v, "statement")
      /\ i.assumption = Word(v, "assumption")
      /\ i.basis = ImpactBasis(Named(v, "context_fields"))
      /\ i.context = Named(v, "context_fields")
      /\ i.evidence = RealIds(v, req)
  BY DEF KeptImpact
<1> HIDE DEF req
<1>2. /\ IsImpact(v)
      /\ Named(v, "evidence_ids") \subseteq req.ids
      /\ Named(v, "context_fields") \subseteq req.context
      /\ \A w \in ImpactWords(v) : ~Ungrounded(w, req.grounding, {})
  BY ImpactAccepted DEF req
<1>3. /\ Word(v, "statement") \in ImpactWords(v)
      /\ Word(v, "assumption") \in ImpactWords(v)
  BY DEF ImpactWords, ImpactTexts
<1>4. /\ Word(v, "statement") # NoText /\ ~Facts(Word(v, "statement")).blank
      /\ Word(v, "assumption") # NoText /\ ~Facts(Word(v, "assumption")).blank
  <2> DEFINE s == Field(v, "statement")
             t == Field(v, "assumption")
  <2>1. IsText(s, 400) /\ IsText(t, 300)
    BY <1>2 DEF IsImpact, TextsAreBounded, ImpactTexts
  <2>2. Word(v, "statement") = s.word /\ Word(v, "assumption") = t.word
    BY DEF Word, Field
  <2> HIDE DEF s, t
  <2>3. /\ s.word # NoText /\ ~Facts(s.word).blank
        /\ t.word # NoText /\ ~Facts(t.word).blank
    BY <2>1, TextIsNotEmpty
  <2> QED BY <2>2, <2>3
<1>5. /\ Facts(i.statement).numbers \subseteq NumbersAllowed(c)
      /\ Facts(i.assumption).numbers \subseteq NumbersAllowed(c)
  BY <1>1, <1>2, <1>3, GroundedIs, GroundingWasShown DEF req
<1>6. i.evidence \subseteq {e.id : e \in Range(Cases[c].evidence)}
  BY <1>1, <1>2, AliasesAreReal DEF RealIds, req
<1>7. i.context \subseteq told.fields
  BY <1>1, <1>2, GroundingWasShown DEF req
<1>8. (i.basis = "confirmed_context") <=> (i.context # {})
  BY <1>1 DEF ImpactBasis
<1>9. i.statement # NoText /\ ~Facts(i.assumption).blank
  BY <1>1, <1>4
<1> HIDE DEF KeptImpact
<1> QED BY <1>5, <1>6, <1>7, <1>8, <1>9

\* A kept remediation is well made and grounded.
LEMMA KeptAdviceIsGrounded ==
    ASSUME NEW c \in DOMAIN Cases, Cases[c].kind = "finding", told = Shown(c),
           NEW v, RemediationReasons(v, Request[c]) = {},
           NEW o, o = KeptAdvice(v, Request[c])
    PROVE  /\ \A k \in DOMAIN o.texts : ~Facts(o.texts[k]).blank
           /\ \A k \in DOMAIN o.texts \ {"responsible_role", "urgency"} :
                  Facts(o.texts[k]).numbers \subseteq NumbersAllowed(c)
           /\ \A w \in o.example : Facts(w).numbers \subseteq NumbersAllowed(c)
           /\ o.evidence \subseteq {e.id : e \in Range(Cases[c].evidence)}
<1> DEFINE req == Request[c]
           example == Word(v, "technical_example")
<1>1. /\ DOMAIN o.texts = DOMAIN RemediationTexts
      /\ \A k \in DOMAIN o.texts : o.texts[k] = Word(v, k)
      /\ o.example = IF Facts(example).blank THEN {} ELSE {example}
      /\ o.evidence = RealIds(v, req)
  BY DEF KeptAdvice
<1> HIDE DEF req, example
<1>2. /\ IsRemediation(v)
      /\ Named(v, "evidence_ids") \subseteq req.ids
      /\ \A w \in AdviceWords(v) : AdviceReasons(w, req, {}) = {}
  BY RemediationAccepted DEF req
<1>3. \A w \in AdviceWords(v) : Facts(w).numbers \subseteq NumbersAllowed(c)
  BY <1>2, AdviceAccepted, GroundedIs, GroundingWasShown DEF req
<1>4. \A k \in DOMAIN RemediationTexts : ~Facts(Word(v, k)).blank
  BY <1>2, TextIsNotEmpty DEF IsRemediation, TextsAreBounded, Word, Field
<1>5. \A k \in DOMAIN o.texts \ {"responsible_role", "urgency"} :
          o.texts[k] \in AdviceWords(v)
  BY <1>1 DEF AdviceWords
<1>6. \A w \in o.example : w \in AdviceWords(v)
  <2>1. Facts(NoText).blank
    BY ProseAssumption DEF Facts
  <2> QED BY <1>1, <2>1 DEF AdviceWords, example
<1>7. o.evidence \subseteq {e.id : e \in Range(Cases[c].evidence)}
  BY <1>1, <1>2, AliasesAreReal DEF RealIds, req
<1> QED BY <1>1, <1>3, <1>4, <1>5, <1>6, <1>7

\* An explanation made of an accepted answer rests on what was shown.
LEMMA AcceptedExplanationIsGrounded ==
    ASSUME NEW a, call.case \in DOMAIN Cases, Cases[call.case].kind = "finding",
           told = Shown(call.case), FindingReasons(a, Request[call.case]) = {}
    PROVE  ExplanationIsGrounded(Explanation(a, Request[call.case]))
<1> DEFINE c == call.case
           req == Request[c]
           x == Explanation(a, req)
           rule == Field(a, "validation_rule")
           numbers == NumbersAllowed(c)
           ids == {e.id : e \in Range(Cases[c].evidence)}
<1>1. /\ x.narrative = Word(a, "explanation")
      /\ x.impact = {KeptImpact(v, req) : v \in Items(Field(a, "business_impact"))}
      /\ x.remediation = {KeptAdvice(v, req) : v \in Items(Field(a, "remediation"))}
      /\ x.rule.type = Word(rule, "rule_type")
      /\ x.rule.columns = Named(rule, "columns") \cap req.columns
      /\ x.rule.description = Word(rule, "description")
  BY DEF Explanation, KeptImpact, KeptAdvice
<1> HIDE DEF x, req, numbers, ids, rule
<1>2. /\ ExplanationReasons(Field(a, "explanation"), req) = {}
      /\ \A v \in Items(Field(a, "business_impact")) : ImpactReasons(v, req) = {}
      /\ \A v \in Items(Field(a, "remediation")) : RemediationReasons(v, req) = {}
      /\ RuleReasons(rule, req) = {}
  BY FindingAccepted DEF req, rule
<1>3. /\ req.grounding.numbers \subseteq numbers
      /\ req.grounding.stems \subseteq StemsTold
      /\ req.columns = EvidenceColumns(Cases[c].evidence)
  BY GroundingWasShown, RequestIs DEF req, numbers
<1>4. /\ x.narrative # NoText
      /\ Facts(x.narrative).numbers \subseteq numbers
      /\ Facts(x.narrative).terms \subseteq StemsTold
  <2> DEFINE v == Field(a, "explanation")
  <2>1. x.narrative = v.word
    BY <1>1 DEF Word, Field
  <2> HIDE DEF v
  <2>2. /\ IsText(v, MaxExplanation)
        /\ Facts(v.word).terms \subseteq req.grounding.stems
        /\ ~Ungrounded(v.word, req.grounding, {})
    BY <1>2, ExplanationAccepted DEF v
  <2>3. Facts(v.word).numbers \subseteq req.grounding.numbers
    BY <2>2, GroundedIs
  <2> QED BY <1>3, <2>1, <2>2, <2>3, TextIsNotEmpty
<1>5. \A i \in x.impact :
           /\ i.statement # NoText /\ ~Facts(i.assumption).blank
           /\ (i.basis = "confirmed_context") <=> (i.context # {})
           /\ Facts(i.statement).numbers \subseteq numbers
           /\ Facts(i.assumption).numbers \subseteq numbers
           /\ i.evidence \subseteq ids
           /\ i.context \subseteq told.fields
  <2> TAKE i \in x.impact
  <2>1. PICK v \in Items(Field(a, "business_impact")) : i = KeptImpact(v, Request[c])
    BY <1>1 DEF req
  <2>2. ImpactReasons(v, Request[c]) = {}
    BY <1>2 DEF req
  <2> QED BY <2>1, <2>2, KeptImpactIsGrounded DEF ids, numbers
<1>6. \A o \in x.remediation :
           /\ \A k \in DOMAIN o.texts : ~Facts(o.texts[k]).blank
           /\ \A k \in DOMAIN o.texts \ {"responsible_role", "urgency"} :
                  Facts(o.texts[k]).numbers \subseteq numbers
           /\ \A w \in o.example : Facts(w).numbers \subseteq numbers
           /\ o.evidence \subseteq ids
  <2> TAKE o \in x.remediation
  <2>1. PICK v \in Items(Field(a, "remediation")) : o = KeptAdvice(v, Request[c])
    BY <1>1 DEF req
  <2>2. RemediationReasons(v, Request[c]) = {}
    BY <1>2 DEF req
  <2> QED BY <2>1, <2>2, KeptAdviceIsGrounded DEF ids, numbers
<1>7. /\ x.rule.description # NoText /\ x.rule.type \in RuleTypes
      /\ Facts(x.rule.description).numbers \subseteq numbers \cup StructuralNumbers
      /\ x.rule.columns \subseteq EvidenceColumns(Cases[c].evidence)
  <2>1. /\ IsOneOf(Field(rule, "rule_type"), RuleTypes)
        /\ IsText(Field(rule, "description"), MaxRuleDescription)
        /\ AdviceReasons(Word(rule, "description"), req, StructuralNumbers) = {}
    BY <1>2, RuleMemberAccepted
  <2>2. ~Ungrounded(Word(rule, "description"), req.grounding, StructuralNumbers)
    BY <2>1, AdviceAccepted
  <2>3. Word(rule, "description") # NoText /\ Word(rule, "rule_type") \in RuleTypes
    BY <2>1, TextIsNotEmpty DEF IsOneOf, Word, Field
  <2> QED BY <1>1, <1>3, <2>2, <2>3, GroundedIs
<1>8. IsWellMade(x)
  BY <1>4, <1>5, <1>6, <1>7 DEF IsWellMade
<1>9. ExplanationIsGrounded(x)
  <2> DEFINE advice(o) == {o.texts[k] : k \in DOMAIN o.texts
                                       \ {"responsible_role", "urgency"}}
             texts   == {x.narrative}
                \cup {i.statement : i \in x.impact} \cup {i.assumption : i \in x.impact}
                \cup UNION {advice(o) \cup o.example : o \in x.remediation}
  <2>1. \A w \in texts : Facts(w).numbers \subseteq numbers
    BY <1>4, <1>5, <1>6
  <2>2. \A y \in x.impact \cup x.remediation : y.evidence \subseteq ids
    BY <1>5, <1>6
  <2>3. \A i \in x.impact : i.context \subseteq told.fields
    BY <1>5
  <2> QED BY <1>4, <1>7, <1>8, <2>1, <2>2, <2>3
         DEF ExplanationIsGrounded, NumbersAllowed, numbers, ids
<1> QED BY <1>9 DEF x, req

-------------------------------------------------------------------------------
(* The contract and the validator.                                         *)

\* How long a text is.
LEMMA LengthIs ==
    ASSUME NEW w
    PROVE  Facts(w).length \in Nat /\ (Facts(w).length = 0 => Facts(w).blank)
<1>1. CASE w \in DOMAIN Prose
  BY <1>1, ProseAssumption DEF Facts
<1>2. CASE w \notin DOMAIN Prose
  BY <1>2 DEF Facts, Plain
<1> QED BY <1>1, <1>2

\* A text the validator takes is one the schema allows.
LEMMA TextAllowed ==
    ASSUME NEW v, NEW max \in Nat, IsText(v, max)
    PROVE  IsTextOf(v, 1, max)
BY LengthIs DEF IsText, IsTextOf

\* The same of a text that may be empty.
LEMMA ShortTextAllowed ==
    ASSUME NEW v, NEW max \in Nat, IsString(v), Facts(v.word).length <= max
    PROVE  IsTextOf(v, 0, max)
BY LengthIs DEF IsTextOf

\* A text the schema allows is taken, unless it is blank.
LEMMA TextIsText ==
    ASSUME NEW v, NEW max \in Nat, IsTextOf(v, 1, max), ~Facts(v.word).blank
    PROVE  IsText(v, max)
BY LengthIs DEF IsText, IsTextOf

\* A list of names of S.
LEMMA NamesAllowed ==
    ASSUME NEW v, NEW S, NEW min, NEW max, IsNames(v, min, max),
           v.items \in Seq(Items(v)), {x.word : x \in Items(v)} \subseteq S
    PROVE  IsSomeOf(v, S, min, max)
<1>1. \A x \in Items(v) : IsOneOf(x, S)
  BY DEF IsNames, IsListOfStrings, IsOneOf
<1>2. ASSUME S = {} PROVE Len(v.items) \in 0 .. 0
  <2>1. Items(v) = {}
    BY <1>2
  <2>2. Len(v.items) = 0
    BY <2>1
  <2> QED BY <2>2
<1> QED BY <1>1, <1>2 DEF IsNames, IsListOfStrings, IsSomeOf, IsListOf

\* Names the schema allows are names the validator knows.
LEMMA SomeAreNames ==
    ASSUME NEW v, NEW S, NEW min \in Nat, NEW max \in Nat,
           IsSomeOf(v, S, min, max), min = 0 \/ S # {}
    PROVE  IsNames(v, min, max) /\ {x.word : x \in Items(v)} \subseteq S
BY DEF IsNames, IsListOfStrings, IsSomeOf, IsListOf, IsOneOf

\* Members and items are parts.
LEMMA MembersAreParts ==
    ASSUME NEW v
    PROVE  /\ IsObject(v) => \A k \in Keys(v) : Field(v, k) \in Parts(v)
           /\ IsList(v) => \A x \in Items(v) : x \in Parts(v)
BY DEF Parts, Keys, Field, Range, IsObject, IsList

\* What the walk through an answer comes by.
LEMMA AnswerIsWalked ==
    ASSUME NEW a, IsObject(a), IsJson(a)
    PROVE  \A k \in Keys(a) : LET v == Field(a, k) IN
           /\ v \in Within(a)
           /\ IsObject(v) => \A j \in Keys(v) : Field(v, j) \in Within(a)
           /\ IsList(v) => \A x \in Items(v) :
                 /\ x \in Within(a)
                 /\ IsObject(x) => \A j \in Keys(x) : Field(x, j) \in Within(a)
BY MembersAreParts, WithinSteps

\* What is within a JSON value is one.
LEMMA JsonParts ==
    ASSUME NEW a, IsJson(a), NEW x \in Within(a)
    PROVE  /\ IsString(x) => x = Str(x.word) /\ x.word \in Words(a)
           /\ IsList(x) => x.items \in Seq(Items(x))
BY WordsAre DEF IsJson
-----------------------------------------------------------------------------
\* An accepted entry is one the contract allows.
LEMMA ImpactAllowed ==
    ASSUME NEW v, NEW req, ImpactReasons(v, req) = {},
           \A k \in Keys(v) : IsList(Field(v, k)) =>
               Field(v, k).items \in Seq(Items(Field(v, k)))
    PROVE  ImpactIsAllowed(v, req)
<1>1. /\ IsObject(v) /\ Keys(v) \subseteq ImpactKeys /\ IsImpact(v)
      /\ Named(v, "evidence_ids") \subseteq req.ids
      /\ Named(v, "context_fields") \subseteq req.context
  BY ImpactAccepted
<1>2. HasFields(v, ImpactKeys, {})
  BY <1>1 DEF HasFields, IsImpact
<1>3. TextsAreAllowed(v, ImpactTexts)
  <2>1. \A k \in DOMAIN ImpactTexts : ImpactTexts[k] \in Nat
    BY DEF ImpactTexts
  <2> QED BY <1>1, <2>1, TextAllowed DEF IsImpact, TextsAreBounded, TextsAreAllowed
<1>4. ASSUME NEW k \in {"evidence_ids", "context_fields"}, NEW S,
             Named(v, k) \subseteq S
      PROVE  IsSomeOf(Field(v, k), S, 0, MaxReferences)
  <2>1. IsNames(Field(v, k), 0, MaxReferences) /\ k \in Keys(v)
    BY <1>1 DEF IsImpact, ImpactKeys
  <2>2. Field(v, k).items \in Seq(Items(Field(v, k)))
    BY <2>1 DEF IsNames, IsListOfStrings
  <2>3. Named(v, k) = {x.word : x \in Items(Field(v, k))}
    BY DEF Named, Field
  <2> QED BY <1>4, <2>1, <2>2, <2>3, NamesAllowed
<1> QED BY <1>1, <1>2, <1>3, <1>4 DEF ImpactIsAllowed

\* The same of a remediation.
LEMMA RemediationAllowed ==
    ASSUME NEW v, NEW req, RemediationReasons(v, req) = {},
           \A k \in Keys(v) : IsList(Field(v, k)) =>
               Field(v, k).items \in Seq(Items(Field(v, k)))
    PROVE  RemediationIsAllowed(v, req)
<1>1. /\ IsObject(v) /\ Keys(v) \subseteq RemediationKeys /\ IsRemediation(v)
      /\ Named(v, "evidence_ids") \subseteq req.ids
  BY RemediationAccepted
<1>2. HasFields(v, RemediationKeys, {})
  BY <1>1 DEF HasFields, IsRemediation
<1>3. TextsAreAllowed(v, RemediationTexts)
  <2>1. \A k \in DOMAIN RemediationTexts : RemediationTexts[k] \in Nat
    BY DEF RemediationTexts
  <2> QED BY <1>1, <2>1, TextAllowed
          DEF IsRemediation, TextsAreBounded, TextsAreAllowed
<1>4. IsTextOf(Field(v, "technical_example"), 0, MaxExample)
  <2>1. IsExample(Field(v, "technical_example"))
    BY <1>1 DEF IsRemediation
  <2>2. MaxExample \in Nat
    BY DEF MaxExample
  <2> QED BY <2>1, <2>2, ShortTextAllowed DEF IsExample
<1>5. IsSomeOf(Field(v, "evidence_ids"), req.ids, 0, MaxReferences)
  <2>1. /\ IsNames(Field(v, "evidence_ids"), 0, MaxReferences)
        /\ "evidence_ids" \in Keys(v)
    BY <1>1 DEF IsRemediation, RemediationKeys
  <2>2. Field(v, "evidence_ids").items \in Seq(Items(Field(v, "evidence_ids")))
    BY <2>1 DEF IsNames, IsListOfStrings
  <2>3. Named(v, "evidence_ids") = {x.word : x \in Items(Field(v, "evidence_ids"))}
    BY DEF Named, Field
  <2> QED BY <1>1, <2>1, <2>2, <2>3, NamesAllowed
<1> QED BY <1>2, <1>3, <1>4, <1>5 DEF RemediationIsAllowed

\* The same of the rule of an answer.
LEMMA RuleAllowed ==
    ASSUME NEW v, NEW req, RuleReasons(v, req) = {},
           \A k \in Keys(v) : IsList(Field(v, k)) =>
               Field(v, k).items \in Seq(Items(Field(v, k)))
    PROVE  RuleIsAllowed(v, req)
<1>1. /\ IsObject(v) /\ Keys(v) = RuleKeys
      /\ IsOneOf(Field(v, "rule_type"), RuleTypes)
      /\ IsNames(Field(v, "columns"), 0, MaxRuleColumns)
      /\ Named(v, "columns") \subseteq req.columns
      /\ IsText(Field(v, "description"), MaxRuleDescription)
  BY RuleMemberAccepted
<1>2. HasFields(v, RuleKeys, {})
  BY <1>1 DEF HasFields
<1>3. IsTextOf(Field(v, "description"), 1, MaxRuleDescription)
  BY <1>1, TextAllowed DEF MaxRuleDescription
<1>4. IsSomeOf(Field(v, "columns"), req.columns, 0, MaxRuleColumns)
  <2>1. Field(v, "columns").items \in Seq(Items(Field(v, "columns")))
    BY <1>1 DEF IsNames, IsListOfStrings, RuleKeys
  <2>2. Named(v, "columns") = {x.word : x \in Items(Field(v, "columns"))}
    BY DEF Named, Field
  <2> QED BY <1>1, <2>1, <2>2, NamesAllowed
<1> QED BY <1>1, <1>2, <1>3, <1>4 DEF RuleIsAllowed

\* The same of its numeric claims.
LEMMA ClaimsAllowed ==
    ASSUME NEW v, NEW req, NumericClaimReasons(v, req.facts) = {}
    PROVE  ClaimsAreAllowed(v, req)
<1>1. IsObject(v)
  BY DEF NumericClaimReasons
<1>2. \A k \in Keys(v) : k \in DOMAIN req.facts /\ IsNumber(Field(v, k))
  BY <1>1 DEF NumericClaimReasons, When
<1> QED BY <1>1, <1>2 DEF ClaimsAreAllowed, HasFields

\* An accepted answer is one that the contract of its request allows.
LEMMA AcceptedIsAllowed ==
    ASSUME NEW a, NEW req, IsJson(a), FindingReasons(a, req) = {}
    PROVE  FindingSchemaAllows(a, req)
<1>1. /\ IsObject(a) /\ RequiredKeys \subseteq Keys(a)
      /\ Keys(a) \subseteq RequiredKeys \cup {"numeric_claims"}
      /\ Field(a, "schema_version") = Str(FindingVersion)
      /\ ProvenanceReasons(Field(a, "provenance")) = {}
      /\ ExplanationReasons(Field(a, "explanation"), req) = {}
      /\ RuleReasons(Field(a, "validation_rule"), req) = {}
      /\ ReferenceReasons(Field(a, "referenced_evidence_ids"), req.ids,
             IF req.ids = {} THEN 0 ELSE 1,
             MaxReferences, "unknown_evidence_id") = {}
      /\ ReferenceReasons(Field(a, "referenced_columns"), req.columns,
             0, MaxReferences, "unknown_column") = {}
      /\ Has(a, "numeric_claims") =>
             NumericClaimReasons(Field(a, "numeric_claims"), req.facts) = {}
  BY FindingAccepted
<1>2. /\ IsShortList(Field(a, "business_impact"))
      /\ \A x \in Items(Field(a, "business_impact")) : ImpactReasons(x, req) = {}
      /\ IsShortList(Field(a, "remediation"))
      /\ \A x \in Items(Field(a, "remediation")) : RemediationReasons(x, req) = {}
  BY FindingAccepted
<1>3. \A x \in Within(a) : IsList(x) => x.items \in Seq(Items(x))
  BY JsonParts
<1>4. HasFields(a, RequiredKeys, {"numeric_claims"})
  BY <1>1 DEF HasFields
<1>5. IsOneOf(Field(a, "schema_version"), {FindingVersion})
  BY <1>1, Kinds DEF IsOneOf
<1>6. IsOneOf(Field(a, "provenance"), {AiInterpretation})
  BY <1>1 DEF ProvenanceReasons, When, IsOneOf
<1>7. IsTextOf(Field(a, "explanation"), 1, MaxExplanation)
  <2>1. MaxExplanation \in Nat
    BY DEF MaxExplanation
  <2> QED BY <1>1, <2>1, ExplanationAccepted, TextAllowed
<1>8. ASSUME NEW k \in {"business_impact", "remediation"},
             NEW x \in Items(Field(a, k)), IsObject(x)
      PROVE  \A j \in Keys(x) : IsList(Field(x, j)) =>
                 Field(x, j).items \in Seq(Items(Field(x, j)))
  <2>1. k \in Keys(a) /\ IsList(Field(a, k))
    BY <1>1, <1>2 DEF RequiredKeys, IsShortList
  <2>2. \A j \in Keys(x) : Field(x, j) \in Within(a)
    BY <1>1, <1>8, <2>1, AnswerIsWalked
  <2> QED BY <1>3, <2>2
<1>9. /\ IsListOf(Field(a, "business_impact"), 1, MaxEntries)
      /\ \A v \in Items(Field(a, "business_impact")) : ImpactIsAllowed(v, req)
  <2>1. \A v \in Items(Field(a, "business_impact")) : IsObject(v)
    BY <1>2, ImpactAccepted
  <2> QED BY <1>2, <1>8, <2>1, ImpactAllowed DEF IsShortList, IsListOf
<1>10. /\ IsListOf(Field(a, "remediation"), 1, MaxEntries)
       /\ \A v \in Items(Field(a, "remediation")) : RemediationIsAllowed(v, req)
  <2>1. \A v \in Items(Field(a, "remediation")) : IsObject(v)
    BY <1>2, RemediationAccepted
  <2> QED BY <1>2, <1>8, <2>1, RemediationAllowed DEF IsShortList, IsListOf
<1>11. RuleIsAllowed(Field(a, "validation_rule"), req)
  <2> DEFINE v == Field(a, "validation_rule")
  <2>1. IsObject(v) /\ "validation_rule" \in Keys(a)
    BY <1>1, RuleMemberAccepted DEF RequiredKeys
  <2>2. \A j \in Keys(v) : Field(v, j) \in Within(a)
    BY <1>1, <2>1, AnswerIsWalked
  <2> HIDE DEF v
  <2>3. RuleReasons(v, req) = {}
    BY <1>1 DEF v
  <2>4. RuleIsAllowed(v, req)
    BY <1>3, <2>2, <2>3, RuleAllowed
  <2> QED BY <2>4 DEF v
<1>12. ASSUME NEW k \in Keys(a), NEW known, NEW min, NEW reason,
              ReferenceReasons(Field(a, k), known, min, MaxReferences, reason) = {}
       PROVE  IsSomeOf(Field(a, k), known, min, MaxReferences)
  <2> DEFINE v == Field(a, k)
  <2>1. /\ IsNames(v, min, MaxReferences)
        /\ {x.word : x \in Items(v)} \subseteq known
    BY <1>12 DEF ReferenceReasons, When
  <2>2. v.items \in Seq(Items(v))
    BY <1>1, <1>3, <2>1, AnswerIsWalked DEF IsNames, IsListOfStrings
  <2> QED BY <2>1, <2>2, NamesAllowed
<1>13. /\ IsSomeOf(Field(a, "referenced_evidence_ids"), req.ids, 1, MaxReferences)
       /\ IsSomeOf(Field(a, "referenced_columns"), req.columns, 0, MaxReferences)
  <2>1. /\ "referenced_evidence_ids" \in Keys(a)
        /\ "referenced_columns" \in Keys(a)
    BY <1>1 DEF RequiredKeys
  <2>2. IsSomeOf(Field(a, "referenced_evidence_ids"), req.ids,
                 IF req.ids = {} THEN 0 ELSE 1, MaxReferences)
    BY <1>1, <1>12, <2>1
  <2>3. IsSomeOf(Field(a, "referenced_columns"), req.columns, 0, MaxReferences)
    BY <1>1, <1>12, <2>1
  <2> QED BY <2>2, <2>3 DEF IsSomeOf
<1>14. Has(a, "numeric_claims") => ClaimsAreAllowed(Field(a, "numeric_claims"), req)
  BY <1>1, ClaimsAllowed
<1> QED
  BY <1>4, <1>5, <1>6, <1>7, <1>9, <1>10, <1>11, <1>13, <1>14
     DEF FindingSchemaAllows
-----------------------------------------------------------------------------
\* What may be said of an answer that the contract of its request allows.
ContentOr(a) ==
    ReasonsOfContent \cup
        (IF \E w \in Words(a) : Facts(w).blank THEN {"schema_invalid"} ELSE {})

\* A text that is allowed and not taken is blank.
LEMMA TextOrBlank ==
    ASSUME NEW a, IsJson(a), NEW v \in Within(a), NEW max \in Nat,
           IsTextOf(v, 1, max), ~IsText(v, max)
    PROVE  "schema_invalid" \in ContentOr(a)
<1>1. v.word \in Words(a)
  BY JsonParts DEF IsTextOf
<1>2. Facts(v.word).blank
  BY TextIsText
<1> QED BY <1>1, <1>2 DEF ContentOr

\* A statement that is allowed is only rejected for its content.
LEMMA ImpactContent ==
    ASSUME NEW a, IsJson(a), NEW v, NEW req, ImpactIsAllowed(v, req),
           \A k \in Keys(v) : Field(v, k) \in Within(a)
    PROVE  ImpactReasons(v, req) \subseteq ContentOr(a)
<1>1. /\ IsObject(v) /\ Keys(v) = ImpactKeys
      /\ TextsAreAllowed(v, ImpactTexts)
      /\ IsSomeOf(Field(v, "evidence_ids"), req.ids, 0, MaxReferences)
      /\ IsSomeOf(Field(v, "context_fields"), req.context, 0, MaxReferences)
  BY DEF ImpactIsAllowed, HasFields
<1>2. /\ IsNames(Field(v, "evidence_ids"), 0, MaxReferences)
      /\ Named(v, "evidence_ids") \subseteq req.ids
      /\ IsNames(Field(v, "context_fields"), 0, MaxReferences)
      /\ Named(v, "context_fields") \subseteq req.context
  <2>1. MaxReferences \in Nat
    BY DEF MaxReferences
  <2>2. \A k : Named(v, k) = {x.word : x \in Items(Field(v, k))}
    BY DEF Named, Field
  <2> QED BY <1>1, <2>1, <2>2, SomeAreNames
<1>3. ~TextsAreBounded(v, ImpactTexts) => "schema_invalid" \in ContentOr(a)
  <2>1. \A k \in DOMAIN ImpactTexts : ImpactTexts[k] \in Nat /\ k \in ImpactKeys
    BY DEF ImpactTexts, ImpactKeys
  <2> QED BY <1>1, <2>1, TextOrBlank DEF TextsAreBounded, TextsAreAllowed
<1>4. ~IsImpact(v) => "schema_invalid" \in ContentOr(a)
  BY <1>1, <1>2, <1>3 DEF IsImpact
<1>5. /\ "unknown_numeric_claim" \in ContentOr(a)
      /\ "unsupported_claim" \in ContentOr(a)
  BY DEF ContentOr, ReasonsOfContent
<1> QED BY <1>1, <1>2, <1>4, <1>5 DEF ImpactReasons, EntryReasons, When

\* The reasons against a text of advice are of its content.
LEMMA AdviceContent ==
    ASSUME NEW a, NEW w, NEW req, NEW structural
    PROVE  AdviceReasons(w, req, structural) \subseteq ContentOr(a)
BY DEF AdviceReasons, When, ContentOr, ReasonsOfContent

\* A remediation that is allowed is only rejected for its content.
LEMMA RemediationContent ==
    ASSUME NEW a, IsJson(a), NEW v, NEW req, RemediationIsAllowed(v, req),
           \A k \in Keys(v) : Field(v, k) \in Within(a)
    PROVE  RemediationReasons(v, req) \subseteq ContentOr(a)
<1>1. /\ IsObject(v) /\ Keys(v) = RemediationKeys
      /\ TextsAreAllowed(v, RemediationTexts)
      /\ IsTextOf(Field(v, "technical_example"), 0, MaxExample)
      /\ IsSomeOf(Field(v, "evidence_ids"), req.ids, 0, MaxReferences)
  BY DEF RemediationIsAllowed, HasFields
<1>2. /\ IsNames(Field(v, "evidence_ids"), 0, MaxReferences)
      /\ Named(v, "evidence_ids") \subseteq req.ids
  <2>1. MaxReferences \in Nat
    BY DEF MaxReferences
  <2>2. Named(v, "evidence_ids") = {x.word : x \in Items(Field(v, "evidence_ids"))}
    BY DEF Named, Field
  <2> QED BY <1>1, <2>1, <2>2, SomeAreNames
<1>3. ~TextsAreBounded(v, RemediationTexts) => "schema_invalid" \in ContentOr(a)
  <2>1. \A k \in DOMAIN RemediationTexts :
            RemediationTexts[k] \in Nat /\ k \in RemediationKeys
    BY DEF RemediationTexts, RemediationKeys
  <2> QED BY <1>1, <2>1, TextOrBlank DEF TextsAreBounded, TextsAreAllowed
<1>4. IsExample(Field(v, "technical_example"))
  BY <1>1 DEF IsTextOf, IsExample, MaxExample
<1>5. ~IsRemediation(v) => "schema_invalid" \in ContentOr(a)
  BY <1>1, <1>2, <1>3, <1>4 DEF IsRemediation
<1>6. UNION {AdviceReasons(w, req, {}) : w \in AdviceWords(v)} \subseteq ContentOr(a)
  BY AdviceContent
<1> QED BY <1>1, <1>2, <1>5, <1>6 DEF RemediationReasons, EntryReasons, When

\* A rule that is allowed is only rejected for its content.
LEMMA RuleContent ==
    ASSUME NEW a, IsJson(a), NEW v, NEW req, RuleIsAllowed(v, req),
           \A k \in Keys(v) : Field(v, k) \in Within(a)
    PROVE  RuleReasons(v, req) \subseteq ContentOr(a)
<1>1. /\ IsObject(v) /\ Keys(v) = RuleKeys
      /\ IsOneOf(Field(v, "rule_type"), RuleTypes)
      /\ IsSomeOf(Field(v, "columns"), req.columns, 0, MaxRuleColumns)
      /\ IsTextOf(Field(v, "description"), 1, MaxRuleDescription)
  BY DEF RuleIsAllowed, HasFields
<1>2. ReferenceReasons(Field(v, "columns"), req.columns, 0, MaxRuleColumns,
                       "unknown_column") = {}
  <2>1. MaxRuleColumns \in Nat
    BY DEF MaxRuleColumns
  <2> QED BY <1>1, <2>1, SomeAreNames DEF ReferenceReasons, When
<1>3. ~IsText(Field(v, "description"), MaxRuleDescription)
          => "schema_invalid" \in ContentOr(a)
  <2>1. MaxRuleDescription \in Nat /\ "description" \in RuleKeys
    BY DEF MaxRuleDescription, RuleKeys
  <2> QED BY <1>1, <2>1, TextOrBlank
<1>4. (IF IsText(Field(v, "description"), MaxRuleDescription)
       THEN AdviceReasons(Word(v, "description"), req, StructuralNumbers)
       ELSE {"schema_invalid"}) \subseteq ContentOr(a)
  BY <1>3, AdviceContent
<1> QED BY <1>1, <1>2, <1>4 DEF RuleReasons, EntryReasons, When

\* A text that is allowed is only rejected for its content.
LEMMA ExplanationContent ==
    ASSUME NEW a, IsJson(a), NEW v \in Within(a), NEW req,
           IsTextOf(v, 1, MaxExplanation)
    PROVE  ExplanationReasons(v, req) \subseteq ContentOr(a)
<1>1. MaxExplanation \in Nat
  BY DEF MaxExplanation
<1>2. ~IsText(v, MaxExplanation) => "schema_invalid" \in ContentOr(a)
  BY <1>1, TextOrBlank
<1>3. {"unsupported_impact_claim", "unknown_numeric_claim", "unsupported_claim"}
          \subseteq ContentOr(a)
  BY DEF ContentOr, ReasonsOfContent
<1> QED BY <1>2, <1>3 DEF ExplanationReasons, When

\* An answer that the contract of its request allows is only rejected for what
\* it says, or for a text that is blank.
LEMMA AllowedIsRejectedForContent ==
    ASSUME NEW a, NEW req, IsJson(a), FindingSchemaAllows(a, req)
    PROVE  FindingReasons(a, req) \subseteq ContentOr(a)
<1>1. IsObject(a) /\ RequiredKeys \subseteq Keys(a)
      /\ Keys(a) \subseteq RequiredKeys \cup {"numeric_claims"}
  BY DEF FindingSchemaAllows, HasFields
<1>2. \A k \in Keys(a) : Field(a, k) \in Within(a)
  BY <1>1, AnswerIsWalked
<1>3. \A k \in Keys(a) :
          IsString(Field(a, k)) => Field(a, k) = Str(Field(a, k).word)
  BY <1>2, JsonParts
<1>4. \A k \in {"business_impact", "remediation"} : IsList(Field(a, k)) =>
          \A x \in Items(Field(a, k)) : IsObject(x) =>
              \A j \in Keys(x) : Field(x, j) \in Within(a)
  BY <1>1, AnswerIsWalked DEF RequiredKeys
<1>5. SUFFICES ASSUME NEW k \in Keys(a)
               PROVE  MemberReasons(Field(a, k), k, req) \subseteq ContentOr(a)
  BY <1>1 DEF FindingReasons, When
<1>6. CASE k = "schema_version"
  <2>1. Field(a, k) = Str(FindingVersion)
    BY <1>3, <1>6 DEF FindingSchemaAllows, IsOneOf
  <2> QED BY <1>6, <2>1, MembersAre DEF When
<1>7. CASE k = "provenance"
  <2>1. IsString(Field(a, k)) /\ Field(a, k).word = AiInterpretation
    BY <1>7 DEF FindingSchemaAllows, IsOneOf
  <2> QED BY <1>7, <2>1, MembersAre DEF ProvenanceReasons, When
<1>8. CASE k = "explanation"
  BY <1>2, <1>8, MembersAre, ExplanationContent DEF FindingSchemaAllows
<1>9. CASE k = "business_impact"
  <2> DEFINE v == Field(a, k)
             all == UNION {ImpactReasons(x, req) : x \in Items(v)}
  <2>1. IsShortList(v) /\ \A x \in Items(v) : ImpactIsAllowed(x, req)
    BY <1>9 DEF FindingSchemaAllows, IsListOf, IsShortList
  <2>2. \A x \in Items(v) : IsObject(x)
    BY <2>1 DEF ImpactIsAllowed, HasFields
  <2>3. \A x \in Items(v) : \A j \in Keys(x) : Field(x, j) \in Within(a)
    BY <1>4, <1>9, <2>1, <2>2 DEF IsShortList
  <2> HIDE DEF v
  <2>4. \A x \in Items(v) : ImpactReasons(x, req) \subseteq ContentOr(a)
    BY <2>1, <2>3, ImpactContent
  <2>5. MemberReasons(v, "business_impact", req) = all
    BY <2>1, MembersAre
  <2> QED BY <1>9, <2>4, <2>5 DEF v
<1>10. CASE k = "remediation"
  <2> DEFINE v == Field(a, k)
             all == UNION {RemediationReasons(x, req) : x \in Items(v)}
  <2>1. IsShortList(v) /\ \A x \in Items(v) : RemediationIsAllowed(x, req)
    BY <1>10 DEF FindingSchemaAllows, IsListOf, IsShortList
  <2>2. \A x \in Items(v) : IsObject(x)
    BY <2>1 DEF RemediationIsAllowed, HasFields
  <2>3. \A x \in Items(v) : \A j \in Keys(x) : Field(x, j) \in Within(a)
    BY <1>4, <1>10, <2>1, <2>2 DEF IsShortList
  <2> HIDE DEF v
  <2>4. \A x \in Items(v) : RemediationReasons(x, req) \subseteq ContentOr(a)
    BY <2>1, <2>3, RemediationContent
  <2>5. MemberReasons(v, "remediation", req) = all
    BY <2>1, MembersAre
  <2> QED BY <1>10, <2>4, <2>5 DEF v
<1>11. CASE k = "validation_rule"
  <2>1. RuleIsAllowed(Field(a, k), req)
    BY <1>11 DEF FindingSchemaAllows
  <2>2. IsObject(Field(a, k))
    BY <2>1 DEF RuleIsAllowed, HasFields
  <2>3. \A j \in Keys(Field(a, k)) : Field(Field(a, k), j) \in Within(a)
    BY <1>1, <2>2, AnswerIsWalked
  <2> QED BY <1>11, <2>1, <2>3, MembersAre, RuleContent
<1>12. ASSUME NEW known, NEW min \in Nat, min = 0 \/ known # {}, NEW reason,
              IsSomeOf(Field(a, k), known, min, MaxReferences)
       PROVE  ReferenceReasons(Field(a, k), known, min, MaxReferences, reason) = {}
  <2>1. MaxReferences \in Nat
    BY DEF MaxReferences
  <2> QED BY <1>12, <2>1, SomeAreNames DEF ReferenceReasons, When
<1>13. CASE k = "referenced_evidence_ids"
  <2> DEFINE min == IF req.ids = {} THEN 0 ELSE 1
  <2>1. IsSomeOf(Field(a, k), req.ids, min, MaxReferences)
    BY <1>13 DEF FindingSchemaAllows, IsSomeOf
  <2>2. min \in Nat /\ (min = 0 \/ req.ids # {})
    OBVIOUS
  <2> HIDE DEF min
  <2>3. ReferenceReasons(Field(a, k), req.ids, min, MaxReferences,
                         "unknown_evidence_id") = {}
    BY <1>12, <2>1, <2>2
  <2> QED BY <1>13, <2>3, MembersAre DEF min
<1>14. CASE k = "referenced_columns"
  <2>1. IsSomeOf(Field(a, k), req.columns, 0, MaxReferences)
    BY <1>14 DEF FindingSchemaAllows
  <2>2. ReferenceReasons(Field(a, k), req.columns, 0, MaxReferences,
                         "unknown_column") = {}
    BY <1>12, <2>1
  <2> QED BY <1>14, <2>2, MembersAre
<1>15. CASE k = "numeric_claims"
  <2>1. ClaimsAreAllowed(Field(a, k), req)
    BY <1>15 DEF FindingSchemaAllows, Has
  <2>2. NumericClaimReasons(Field(a, k), req.facts) \subseteq {"numeric_claim_mismatch"}
    BY <2>1 DEF ClaimsAreAllowed, HasFields, NumericClaimReasons, When
  <2> QED BY <1>15, <2>2, MembersAre DEF ContentOr, ReasonsOfContent
<1> QED
  BY <1>1, <1>6, <1>7, <1>8, <1>9, <1>10, <1>11, <1>13, <1>14, <1>15
     DEF RequiredKeys

-------------------------------------------------------------------------------
(* The answers of the mock provider.                                       *)

\* A list of strings made of a sequence of words.
LEMMA StringsAre ==
    ASSUME NEW S, NEW s \in Seq(S)
    PROVE  /\ IsList(Strings(s)) /\ IsListOfStrings(Strings(s))
           /\ Len(Strings(s).items) = Len(s)
           /\ {x.word : x \in Items(Strings(s))} \subseteq S
           /\ IsJson(Strings(s))
<1> DEFINE t == [i \in DOMAIN s |-> Str(s[i])]
           T == {Str(x) : x \in S}
<1>1. Strings(s) = List(t) /\ Strings(s).items = t /\ IsList(Strings(s))
  BY Kinds DEF Strings
<1>2. t \in Seq(T) /\ Len(t) = Len(s)
  OBVIOUS
<1>3. Items(Strings(s)) = {Str(s[i]) : i \in DOMAIN s}
  BY <1>1 DEF Items, Range
<1>4. \A x \in T : IsJson(x) /\ IsString(x)
  BY JsonString, Kinds
<1>5. \A i \in DOMAIN s : s[i] \in S
  OBVIOUS
<1> HIDE DEF t, T
<1>6. IsJson(Strings(s))
  BY <1>1, <1>2, <1>4, JsonList
<1>7. IsListOfStrings(Strings(s))
  BY <1>1, <1>3, Kinds DEF IsListOfStrings
<1>8. \A x \in Items(Strings(s)) : x.word \in S
  BY <1>3, <1>5, Kinds
<1> QED BY <1>1, <1>2, <1>6, <1>7, <1>8

\* The start of a sequence.
LEMMA UptoIs ==
    ASSUME NEW S, NEW s \in Seq(S), NEW n \in Nat
    PROVE  Upto(s, n) \in Seq(S) /\ Len(Upto(s, n)) \in 0 .. n
<1> DEFINE m == IF Len(s) < n THEN Len(s) ELSE n
<1>1. m \in 0 .. n /\ m \in 0 .. Len(s)
  OBVIOUS
<1>2. Upto(s, n) = SubSeq(s, 1, m)
  BY DEF Upto
<1> HIDE DEF m
<1>3. SubSeq(s, 1, m) \in Seq(S) /\ Len(SubSeq(s, 1, m)) = m
  BY <1>1
<1> QED BY <1>1, <1>2, <1>3

\* The empty list.
LEMMA NothingGiven ==
    /\ IsJson(List(<< >>)) /\ Items(List(<< >>)) = {}
    /\ IsListOfStrings(List(<< >>)) /\ Len(List(<< >>).items) = 0
<1>1. List(<< >>).items = << >> /\ IsList(List(<< >>))
  BY Kinds
<1>2. Items(List(<< >>)) = {}
  BY <1>1 DEF Items, Range
<1>3. << >> \in Seq({})
  OBVIOUS
<1>4. IsJson(List(<< >>))
  <2> DEFINE s == << >>
             S == {}
  <2>1. s \in Seq(S) /\ \A x \in S : IsJson(x)
    BY <1>3
  <2> HIDE DEF s, S
  <2>2. IsJson(List(s))
    BY <2>1, JsonList
  <2> QED BY <2>2 DEF s
<1> QED BY <1>1, <1>2, <1>4 DEF IsListOfStrings

\* A list of one.
LEMMA OneItem ==
    ASSUME NEW v, IsJson(v)
    PROVE  /\ IsJson(List(<< v >>)) /\ Items(List(<< v >>)) = {v}
           /\ IsShortList(List(<< v >>))
<1>1. List(<< v >>).items = << v >> /\ IsList(List(<< v >>))
  BY Kinds
<1>2. Items(List(<< v >>)) = {v}
  <2>1. Range(<< v >>) = {v}
    BY DEF Range
  <2> QED BY <1>1, <2>1 DEF Items
<1>3. << v >> \in Seq({v})
  OBVIOUS
<1>4. IsJson(List(<< v >>))
  <2> DEFINE s == << v >>
             S == {v}
  <2>1. s \in Seq(S) /\ \A x \in S : IsJson(x)
    BY <1>3
  <2> HIDE DEF s, S
  <2>2. IsJson(List(s))
    BY <2>1, JsonList
  <2> QED BY <2>2 DEF s
<1> QED BY <1>1, <1>2, <1>4 DEF IsShortList, MaxEntries
-----------------------------------------------------------------------------
\* The texts of the mock provider are ones nobody objects to.
LEMMA MockTextIs ==
    /\ \A max : max \in Nat /\ max >= 60 => IsText(Str(MockText), max)
    /\ \A grounding, structural : ~Ungrounded(MockText, grounding, structural)
    /\ Facts(MockText).terms = {}
    /\ ~Facts(MockText).claims /\ ~Facts(MockText).advises /\ ~Facts(MockText).acts
    /\ IsJson(Str(MockText)) /\ Str(MockText).word = MockText
    /\ IsString(Str(MockText))
<1>1. Str(MockText).word = MockText /\ IsString(Str(MockText))
  BY Kinds
<1>2. \A max : max \in Nat /\ max >= 60 => IsText(Str(MockText), max)
  BY <1>1, MockTextAssumption DEF IsText
<1>3. \A grounding, structural : ~Ungrounded(MockText, grounding, structural)
  BY MockTextAssumption DEF Ungrounded
<1> QED BY <1>1, <1>2, <1>3, MockTextAssumption, JsonString

\* The aliases of the evidence of a request, in order.
AliasesOf(req) == [i \in DOMAIN req.evidence |-> Alias(i)]

\* A finding has evidence, and an alias for each piece of it.
LEMMA AliasesAre ==
    ASSUME NEW c \in DOMAIN Cases, Cases[c].kind = "finding"
    PROVE  /\ AliasesOf(Request[c]) \in Seq(Request[c].ids)
           /\ Len(AliasesOf(Request[c])) = Len(Cases[c].evidence)
           /\ Len(Cases[c].evidence) \in Nat \ {0}
<1> DEFINE evidence == Cases[c].evidence
           view == ProviderView(evidence)
<1>1. evidence \in Seq(Range(evidence)) /\ evidence # << >>
  BY CasesAssumption
<1>2. \A i \in DOMAIN evidence : EvidenceParts \subseteq DOMAIN evidence[i]
  BY EvidenceIsWhole
<1>3. Request[c].ids = {e.id : e \in Range(view)} /\ Request[c].evidence = evidence
  BY RequestIs, EnvelopeIs DEF EvidenceIds
<1> HIDE DEF evidence
<1>4. DOMAIN view = DOMAIN evidence /\ \A i \in DOMAIN evidence : view[i].id = Alias(i)
  BY <1>2 DEF ProviderView, EvidenceParts
<1> HIDE DEF view
<1>5. \A i \in DOMAIN evidence : Alias(i) \in Request[c].ids
  BY <1>3, <1>4 DEF Range
<1>6. Len(evidence) \in Nat \ {0} /\ DOMAIN evidence = 1 .. Len(evidence)
  BY <1>1
<1>7. [i \in DOMAIN evidence |-> Alias(i)] \in [1 .. Len(evidence) -> Request[c].ids]
  BY <1>5, <1>6
<1>8. /\ [i \in DOMAIN evidence |-> Alias(i)] \in Seq(Request[c].ids)
      /\ Len([i \in DOMAIN evidence |-> Alias(i)]) = Len(evidence)
  BY <1>6, <1>7
<1> QED BY <1>3, <1>6, <1>8 DEF AliasesOf, evidence

\* An object of the mock answer: its members, and that it is JSON.
LEMMA ObjectIs ==
    ASSUME NEW f
    PROVE  /\ IsObject(Obj(f)) /\ Keys(Obj(f)) = DOMAIN f
           /\ \A k : Field(Obj(f), k) = f[k] /\ Word(Obj(f), k) = f[k].word
           /\ (\A k \in DOMAIN f : IsJson(f[k])) => IsJson(Obj(f))
<1>1. IsObject(Obj(f)) /\ Obj(f).members = f
  BY Kinds
<1>2. (\A k \in DOMAIN f : IsJson(f[k])) => IsJson(Obj(f))
  BY JsonObject
<1> QED BY <1>1, <1>2 DEF Keys, Field, Word

\* The statement of impact of the mock provider is accepted.
LEMMA MockImpactIs ==
    ASSUME NEW v, NEW f, v = Obj(f), DOMAIN f = ImpactKeys, NEW ids, NEW req,
           \A k \in DOMAIN ImpactTexts : f[k] = Str(MockText),
           f["evidence_ids"] = Strings(ids), f["context_fields"] = List(<< >>),
           ids \in Seq(req.ids), Len(ids) <= MaxReferences
    PROVE  IsJson(v) /\ ImpactReasons(v, req) = {}
<1>1. /\ IsObject(v) /\ Keys(v) = ImpactKeys
      /\ \A k : Field(v, k) = f[k] /\ Word(v, k) = f[k].word
  BY ObjectIs
<1>2. /\ IsListOfStrings(Strings(ids)) /\ Len(Strings(ids).items) = Len(ids)
      /\ {x.word : x \in Items(Strings(ids))} \subseteq req.ids
      /\ IsJson(Strings(ids))
  BY StringsAre
<1>3. \A k \in ImpactKeys : IsJson(f[k])
  BY <1>2, NothingGiven, MockTextIs DEF ImpactKeys
<1>4. IsJson(v)
  BY <1>3, ObjectIs
<1>5. TextsAreBounded(v, ImpactTexts)
  <2>1. \A k \in DOMAIN ImpactTexts : ImpactTexts[k] \in Nat /\ ImpactTexts[k] >= 60
    BY DEF ImpactTexts
  <2>2. \A k \in DOMAIN ImpactTexts : Field(v, k) = Str(MockText)
    BY <1>1
  <2> QED BY <2>1, <2>2, MockTextIs DEF TextsAreBounded
<1>6. IsNames(Field(v, "evidence_ids"), 0, MaxReferences)
  <2>1. Len(ids) \in 0 .. MaxReferences
    <3>1. Len(ids) \in Nat /\ MaxReferences \in Nat
      BY DEF MaxReferences
    <3> QED BY <3>1
  <2> QED BY <1>1, <1>2, <2>1 DEF IsNames
<1>7. IsNames(Field(v, "context_fields"), 0, MaxReferences)
  <2>1. 0 \in 0 .. MaxReferences
    BY DEF MaxReferences
  <2> QED BY <1>1, <2>1, NothingGiven DEF IsNames
<1>8. IsImpact(v)
  BY <1>1, <1>5, <1>6, <1>7 DEF IsImpact
<1>9. /\ Named(v, "evidence_ids") \subseteq req.ids
      /\ Named(v, "context_fields") = {}
  <2>1. \A k : Named(v, k) = {x.word : x \in Items(Field(v, k))}
    BY DEF Named, Field
  <2> QED BY <1>1, <1>2, <2>1, NothingGiven
<1>10. ImpactWords(v) = {MockText}
  <2>1. \A k \in DOMAIN ImpactTexts : Word(v, k) = MockText
    BY <1>1, MockTextIs
  <2>2. "statement" \in DOMAIN ImpactTexts
    BY DEF ImpactTexts
  <2> HIDE DEF ImpactTexts
  <2> QED BY <2>1, <2>2 DEF ImpactWords
<1>11. /\ ~ \E w \in ImpactWords(v) : Ungrounded(w, req.grounding, {})
       /\ ~ \E w \in ImpactWords(v) : Facts(w).claims
  BY <1>10, MockTextIs
<1>12. ImpactReasons(v, req) = {}
  BY <1>1, <1>8, <1>9, <1>11 DEF ImpactReasons, EntryReasons, When
<1> QED BY <1>4, <1>12

\* The text of the mock provider is accepted as advice.
LEMMA MockAdviceIs ==
    ASSUME NEW req, NEW structural
    PROVE  AdviceReasons(MockText, req, structural) = {}
BY MockTextIs DEF AdviceReasons, When

\* The remediation of the mock provider is accepted.
LEMMA MockRemediationIs ==
    ASSUME NEW v, NEW f, v = Obj(f), DOMAIN f = RemediationKeys, NEW ids, NEW req,
           \A k \in DOMAIN RemediationTexts : f[k] = Str(MockText),
           f["evidence_ids"] = Strings(ids), f["technical_example"] = Str(NoText),
           ids \in Seq(req.ids), Len(ids) <= MaxReferences
    PROVE  IsJson(v) /\ RemediationReasons(v, req) = {}
<1>1. /\ IsObject(v) /\ Keys(v) = RemediationKeys
      /\ \A k : Field(v, k) = f[k] /\ Word(v, k) = f[k].word
  BY ObjectIs
<1>2. /\ IsListOfStrings(Strings(ids)) /\ Len(Strings(ids).items) = Len(ids)
      /\ {x.word : x \in Items(Strings(ids))} \subseteq req.ids
      /\ IsJson(Strings(ids))
  BY StringsAre
<1>3. \A k \in RemediationKeys : IsJson(f[k])
  BY <1>2, JsonString, MockTextIs DEF RemediationKeys
<1>4. IsJson(v)
  BY <1>3, ObjectIs
<1>5. TextsAreBounded(v, RemediationTexts)
  <2>1. \A k \in DOMAIN RemediationTexts :
            RemediationTexts[k] \in Nat /\ RemediationTexts[k] >= 60
    <3>1. \A k \in DOMAIN RemediationTexts :
              RemediationTexts[k] \in {400, 300, 80, 60}
      BY DEF RemediationTexts
    <3> HIDE DEF RemediationTexts
    <3> QED BY <3>1
  <2>2. \A k \in DOMAIN RemediationTexts : Field(v, k) = Str(MockText)
    BY <1>1
  <2> QED BY <2>1, <2>2, MockTextIs DEF TextsAreBounded
<1>6. IsNames(Field(v, "evidence_ids"), 0, MaxReferences)
  <2>1. Len(ids) \in 0 .. MaxReferences
    <3>1. Len(ids) \in Nat /\ MaxReferences \in Nat
      BY DEF MaxReferences
    <3> QED BY <3>1
  <2> QED BY <1>1, <1>2, <2>1 DEF IsNames
<1>7. IsExample(Field(v, "technical_example"))
  <2>1. Field(v, "technical_example") = Str(NoText)
    BY <1>1
  <2>2. IsString(Str(NoText)) /\ Str(NoText).word = NoText
    BY Kinds
  <2>3. Facts(NoText).length = 0
    BY ProseAssumption DEF Facts
  <2>4. 0 <= MaxExample
    BY DEF MaxExample
  <2> QED BY <2>1, <2>2, <2>3, <2>4 DEF IsExample
<1>8. IsRemediation(v)
  BY <1>1, <1>5, <1>6, <1>7 DEF IsRemediation
<1>9. Named(v, "evidence_ids") \subseteq req.ids
  BY <1>1, <1>2 DEF Named, Field
<1>10. AdviceWords(v) \subseteq {MockText}
  <2>1. \A k \in DOMAIN RemediationTexts : Word(v, k) = MockText
    BY <1>1, MockTextIs
  <2>2. Word(v, "technical_example") = NoText
    <3>1. Word(v, "technical_example") = Str(NoText).word
      BY <1>1
    <3> QED BY <3>1, Kinds
  <2> HIDE DEF RemediationTexts
  <2> QED BY <2>1, <2>2 DEF AdviceWords
<1>11. UNION {AdviceReasons(w, req, {}) : w \in AdviceWords(v)} = {}
  BY <1>10, MockAdviceIs
<1>12. RemediationReasons(v, req) = {}
  BY <1>1, <1>8, <1>9, <1>11 DEF RemediationReasons, EntryReasons, When
<1> QED BY <1>4, <1>12

\* The rule of the mock provider is accepted.
LEMMA MockRuleIs ==
    ASSUME NEW v, NEW f, v = Obj(f), DOMAIN f = RuleKeys, NEW columns, NEW req,
           f["rule_type"] = Str("not_null"), f["columns"] = Strings(columns),
           f["description"] = Str(MockText),
           columns \in Seq(req.columns), Len(columns) <= MaxRuleColumns
    PROVE  IsJson(v) /\ RuleReasons(v, req) = {}
<1>1. /\ IsObject(v) /\ Keys(v) = RuleKeys
      /\ \A k : Field(v, k) = f[k] /\ Word(v, k) = f[k].word
  BY ObjectIs
<1>2. /\ IsListOfStrings(Strings(columns))
      /\ Len(Strings(columns).items) = Len(columns)
      /\ {x.word : x \in Items(Strings(columns))} \subseteq req.columns
      /\ IsJson(Strings(columns))
  BY StringsAre
<1>3. \A k \in RuleKeys : IsJson(f[k])
  BY <1>2, JsonString, MockTextIs DEF RuleKeys
<1>4. IsJson(v)
  BY <1>3, ObjectIs
<1>5. IsOneOf(Field(v, "rule_type"), RuleTypes)
  BY <1>1, Kinds DEF IsOneOf, RuleTypes
<1>6. ReferenceReasons(Field(v, "columns"), req.columns, 0, MaxRuleColumns,
                       "unknown_column") = {}
  <2>1. Len(columns) \in 0 .. MaxRuleColumns
    <3>1. Len(columns) \in Nat /\ MaxRuleColumns \in Nat
      BY DEF MaxRuleColumns
    <3> QED BY <3>1
  <2>2. IsNames(Field(v, "columns"), 0, MaxRuleColumns)
    BY <1>1, <1>2, <2>1 DEF IsNames
  <2> QED BY <1>1, <1>2, <2>2 DEF ReferenceReasons, When
<1>7. IsText(Field(v, "description"), MaxRuleDescription)
  <2>1. MaxRuleDescription \in Nat /\ MaxRuleDescription >= 60
    BY DEF MaxRuleDescription
  <2> QED BY <1>1, <2>1, MockTextIs
<1>8. AdviceReasons(Word(v, "description"), req, StructuralNumbers) = {}
  BY <1>1, MockTextIs, MockAdviceIs
<1>9. RuleReasons(v, req) = {}
  BY <1>1, <1>5, <1>6, <1>7, <1>8 DEF RuleReasons, EntryReasons, When
<1> QED BY <1>4, <1>9

\* The answer of the mock provider to a finding: JSON, and accepted unless there
\* is more to refer to than an answer may.
LEMMA MockFindingIs ==
    ASSUME NEW c \in DOMAIN Cases, Cases[c].kind = "finding"
    PROVE  LET a == MockFindingAnswer(Request[c], Cases[c].columns) IN
           /\ IsObject(a) /\ IsJson(a)
           /\ \/ FindingReasons(a, Request[c]) = {}
              \/ Len(Cases[c].evidence) > MaxReferences
              \/ Len(Cases[c].columns) > MaxReferences
<1> DEFINE req == Request[c]
           columns == Cases[c].columns
           ids == AliasesOf(req)
           text == Str(MockText)
           impact == Obj([k \in ImpactKeys |->
                     CASE k = "evidence_ids"   -> Strings(Upto(ids, 1))
                       [] k = "context_fields" -> List(<<>>)
                       [] OTHER -> text])
           remediation == Obj([k \in RemediationKeys |->
                     CASE k = "evidence_ids"      -> Strings(Upto(ids, 1))
                       [] k = "technical_example" -> Str(NoText)
                       [] OTHER -> text])
           rule == Obj([rule_type |-> Str("not_null"),
                        columns |-> Strings(Upto(columns, MaxRuleColumns)),
                        description |-> text])
           f == [schema_version |-> Str(FindingVersion),
             provenance |-> Str(AiInterpretation),
             explanation |-> text,
             business_impact |-> List(<< impact >>),
             remediation |-> List(<< remediation >>),
             validation_rule |-> rule,
             referenced_evidence_ids |-> Strings(ids),
             referenced_columns |-> Strings(columns)]
           a == Obj(f)
<1>1. a = MockFindingAnswer(Request[c], Cases[c].columns)
  BY DEF MockFindingAnswer, AliasesOf
<1>2. /\ ids \in Seq(req.ids) /\ Len(ids) = Len(Cases[c].evidence)
      /\ Len(ids) \in Nat \ {0} /\ req.ids # {}
  <2>1. /\ ids \in Seq(req.ids) /\ Len(ids) = Len(Cases[c].evidence)
        /\ Len(ids) \in Nat \ {0}
    BY AliasesAre
  <2> HIDE DEF ids
  <2> QED BY <2>1
<1>3. columns \in Seq(req.columns)
  BY CasesAssumption, RequestIs
<1> HIDE DEF req, ids
<1>4. /\ Upto(ids, 1) \in Seq(req.ids) /\ Len(Upto(ids, 1)) <= MaxReferences
      /\ Upto(columns, MaxRuleColumns) \in Seq(req.columns)
      /\ Len(Upto(columns, MaxRuleColumns)) <= MaxRuleColumns
  <2>1. Upto(ids, 1) \in Seq(req.ids) /\ Len(Upto(ids, 1)) \in 0 .. 1
    BY <1>2, UptoIs
  <2>2. MaxRuleColumns \in Nat /\ MaxReferences >= 1 /\ MaxReferences \in Nat
    BY DEF MaxRuleColumns, MaxReferences
  <2>3. /\ Upto(columns, MaxRuleColumns) \in Seq(req.columns)
        /\ Len(Upto(columns, MaxRuleColumns)) \in 0 .. MaxRuleColumns
    BY <1>3, <2>2, UptoIs
  <2>4. Len(Upto(ids, 1)) <= MaxReferences
    <3>1. \A n \in 0 .. 1 : n <= MaxReferences
      BY DEF MaxReferences
    <3> QED BY <2>1, <3>1
  <2>5. Len(Upto(columns, MaxRuleColumns)) <= MaxRuleColumns
    BY <2>2, <2>3
  <2> QED BY <2>1, <2>3, <2>4, <2>5
<1>5. IsJson(impact) /\ ImpactReasons(impact, req) = {}
  <2> DEFINE g == [k \in ImpactKeys |->
                     CASE k = "evidence_ids"   -> Strings(Upto(ids, 1))
                       [] k = "context_fields" -> List(<<>>)
                       [] OTHER -> text]
  <2>1. DOMAIN g = ImpactKeys /\ impact = Obj(g)
    OBVIOUS
  <2>2. /\ g["evidence_ids"] = Strings(Upto(ids, 1))
        /\ g["context_fields"] = List(<<>>)
    BY DEF ImpactKeys
  <2>3. \A k \in DOMAIN ImpactTexts : g[k] = text
    BY DEF ImpactKeys, ImpactTexts
  <2> HIDE DEF g
  <2> QED BY <1>4, <2>1, <2>2, <2>3, MockImpactIs
<1>6. IsJson(remediation) /\ RemediationReasons(remediation, req) = {}
  <2> DEFINE g == [k \in RemediationKeys |->
                     CASE k = "evidence_ids"      -> Strings(Upto(ids, 1))
                       [] k = "technical_example" -> Str(NoText)
                       [] OTHER -> text]
  <2>1. DOMAIN g = RemediationKeys /\ remediation = Obj(g)
    OBVIOUS
  <2>2. /\ g["evidence_ids"] = Strings(Upto(ids, 1))
        /\ g["technical_example"] = Str(NoText)
    BY DEF RemediationKeys
  <2>3. \A k \in DOMAIN RemediationTexts : g[k] = text
    BY DEF RemediationKeys, RemediationTexts
  <2> HIDE DEF g
  <2> QED BY <1>4, <2>1, <2>2, <2>3, MockRemediationIs
<1>7. IsJson(rule) /\ RuleReasons(rule, req) = {}
  <2> DEFINE g == [rule_type |-> Str("not_null"),
                   columns |-> Strings(Upto(columns, MaxRuleColumns)),
                   description |-> text]
  <2>1. DOMAIN g = RuleKeys /\ rule = Obj(g)
    BY DEF RuleKeys
  <2>2. /\ g["rule_type"] = Str("not_null") /\ g["description"] = text
        /\ g["columns"] = Strings(Upto(columns, MaxRuleColumns))
    OBVIOUS
  <2> HIDE DEF g
  <2> QED BY <1>4, <2>1, <2>2, MockRuleIs
<1>8. /\ IsListOfStrings(Strings(ids)) /\ Len(Strings(ids).items) = Len(ids)
      /\ {x.word : x \in Items(Strings(ids))} \subseteq req.ids
      /\ IsJson(Strings(ids))
  BY <1>2, StringsAre
<1>9. /\ IsListOfStrings(Strings(columns))
      /\ Len(Strings(columns).items) = Len(columns)
      /\ {x.word : x \in Items(Strings(columns))} \subseteq req.columns
      /\ IsJson(Strings(columns))
  <2> HIDE DEF columns
  <2> QED BY <1>3, StringsAre
<1> HIDE DEF impact, remediation, rule, columns
<1>10. /\ IsJson(List(<< impact >>)) /\ Items(List(<< impact >>)) = {impact}
       /\ IsShortList(List(<< impact >>))
  BY <1>5, OneItem
<1>11. /\ IsJson(List(<< remediation >>))
       /\ Items(List(<< remediation >>)) = {remediation}
       /\ IsShortList(List(<< remediation >>))
  BY <1>6, OneItem
<1>12. IsJson(text)
  BY MockTextIs
<1> HIDE DEF text
<1>13. /\ DOMAIN f = RequiredKeys
       /\ f["schema_version"] = Str(FindingVersion)
       /\ f["provenance"] = Str(AiInterpretation)
       /\ f["explanation"] = text
       /\ f["business_impact"] = List(<< impact >>)
       /\ f["remediation"] = List(<< remediation >>)
       /\ f["validation_rule"] = rule
       /\ f["referenced_evidence_ids"] = Strings(ids)
       /\ f["referenced_columns"] = Strings(columns)
  BY DEF RequiredKeys
<1> HIDE DEF f
<1>14. \A k \in DOMAIN f : IsJson(f[k])
  BY <1>7, <1>8, <1>9, <1>10, <1>11, <1>12, <1>13, JsonString DEF RequiredKeys
<1>15. /\ IsObject(a) /\ IsJson(a) /\ Keys(a) = RequiredKeys
       /\ \A k : Field(a, k) = f[k]
  BY <1>13, <1>14, ObjectIs
<1>16. ASSUME Len(Cases[c].evidence) <= MaxReferences, Len(columns) <= MaxReferences,
              NEW k \in RequiredKeys
       PROVE  MemberReasons(f[k], k, req) = {}
  <2>1. CASE k = "schema_version"
    BY <1>13, <2>1, MembersAre DEF When
  <2>2. CASE k = "provenance"
    <3>1. ProvenanceReasons(Str(AiInterpretation)) = {}
      BY Kinds DEF ProvenanceReasons, When
    <3> QED BY <1>13, <2>2, <3>1, MembersAre
  <2>3. CASE k = "explanation"
    <3>1. MaxExplanation \in Nat /\ MaxExplanation >= 60
      BY DEF MaxExplanation
    <3>2. ExplanationReasons(text, req) = {}
      BY <3>1, MockTextIs DEF ExplanationReasons, When, text
    <3> QED BY <1>13, <2>3, <3>2, MembersAre
  <2>4. CASE k = "business_impact"
    <3>1. UNION {ImpactReasons(x, req) : x \in {impact}} = {}
      BY <1>5
    <3> QED BY <1>10, <1>13, <2>4, <3>1, MembersAre
  <2>5. CASE k = "remediation"
    <3>1. UNION {RemediationReasons(x, req) : x \in {remediation}} = {}
      BY <1>6
    <3> QED BY <1>11, <1>13, <2>5, <3>1, MembersAre
  <2>6. CASE k = "validation_rule"
    BY <1>7, <1>13, <2>6, MembersAre
  <2>7. CASE k = "referenced_evidence_ids"
    <3>1. MaxReferences \in Nat
      BY DEF MaxReferences
    <3>2. Len(ids) \in 1 .. MaxReferences
      BY <1>2, <1>16, <3>1
    <3>3. IsNames(Strings(ids), 1, MaxReferences)
      BY <1>8, <3>2 DEF IsNames
    <3>4. ReferenceReasons(Strings(ids), req.ids, 1, MaxReferences,
                           "unknown_evidence_id") = {}
      BY <1>8, <3>3 DEF ReferenceReasons, When
    <3> QED BY <1>2, <1>13, <2>7, <3>4, MembersAre
  <2>8. CASE k = "referenced_columns"
    <3>1. MaxReferences \in Nat /\ Len(columns) \in Nat
      BY <1>3 DEF MaxReferences
    <3>2. Len(columns) \in 0 .. MaxReferences
      BY <1>16, <3>1
    <3>3. IsNames(Strings(columns), 0, MaxReferences)
      BY <1>9, <3>2 DEF IsNames
    <3>4. ReferenceReasons(Strings(columns), req.columns, 0, MaxReferences,
                           "unknown_column") = {}
      BY <1>9, <3>3 DEF ReferenceReasons, When
    <3> QED BY <1>13, <2>8, <3>4, MembersAre
  <2> QED BY <1>16, <2>1, <2>2, <2>3, <2>4, <2>5, <2>6, <2>7, <2>8 DEF RequiredKeys
<1>17. ASSUME Len(Cases[c].evidence) <= MaxReferences, Len(columns) <= MaxReferences
       PROVE  FindingReasons(a, req) = {}
  <2>1. \A k \in Keys(a) : MemberReasons(Field(a, k), k, req) = {}
    BY <1>15, <1>16, <1>17
  <2> HIDE DEF a
  <2> QED BY <1>15, <2>1 DEF FindingReasons, When
<1>18. \/ Len(Cases[c].evidence) <= MaxReferences
       \/ Len(Cases[c].evidence) > MaxReferences
  BY <1>2 DEF MaxReferences
<1>19. Len(columns) <= MaxReferences \/ Len(columns) > MaxReferences
  BY <1>3 DEF MaxReferences
<1> QED BY <1>1, <1>15, <1>17, <1>18, <1>19 DEF req, columns

\* The spellings that a rule may choose from are a sequence.
LEMMA SpellingsAre ==
    ASSUME NEW c \in DOMAIN Cases, Cases[c].kind = "rule"
    PROVE  1 \in DOMAIN Spellings[c] /\ Spellings[c][1] \in Range(Spellings[c])
<1> DEFINE finding == Cases[c].finding
           evidence == Cases[c].evidence
           lists == {v \in {e.payload["distinct_casings"] :
                      e \in {x \in {e \in Range(evidence) :
                                          e.id = finding.evidence_ids[1]} :
                                 "distinct_casings" \in DOMAIN x.payload}} :
                         IsListOfStrings(v) /\ Len(v.items) >= MinCandidates}
           v == CHOOSE v \in lists : TRUE
<1>1. Spellings[c] = Candidates(finding, evidence) /\ Spellings[c] # << >>
  BY CasesAssumption DEF Spellings, CasesOf
<1>2. lists # {} /\ Spellings[c] = [i \in DOMAIN v.items |-> v.items[i].word]
  BY <1>1 DEF Candidates
<1>3. v \in lists
  BY <1>2
<1>4. PICK e \in Range(evidence) :
          "distinct_casings" \in DOMAIN e.payload /\ v = e.payload["distinct_casings"]
  BY <1>3
<1>5. IsJson(v)
  BY <1>4, CasesAssumption
<1>6. IsListOfStrings(v) /\ Len(v.items) >= MinCandidates
  BY <1>3
<1> HIDE DEF v, lists
<1>7. v.items \in Seq(Items(v))
  BY <1>5, <1>6, WithinSteps DEF IsJson, IsListOfStrings
<1>8. 1 \in DOMAIN v.items
  BY <1>6, <1>7 DEF MinCandidates
<1> QED BY <1>2, <1>8 DEF Range

\* The answer of the mock provider to a rule request is accepted.
LEMMA MockRuleAnswerIs ==
    ASSUME NEW c \in DOMAIN Cases, Cases[c].kind = "rule"
    PROVE  LET a == MockRuleAnswer(Spellings[c]) IN
           /\ IsObject(a) /\ IsJson(a)
           /\ RuleAnswerReasons(a, Spellings[c]) = {}
<1> DEFINE value == Spellings[c][1]
           f == [schema_version |-> Str(RuleVersion),
                 provenance |-> Str("ai_interpretation"),
                 canonical_value |-> Str(value)]
           a == Obj(f)
<1>1. a = MockRuleAnswer(Spellings[c])
  BY DEF MockRuleAnswer
<1>2. value \in Range(Spellings[c])
  BY SpellingsAre
<1> HIDE DEF value
<1>3. /\ DOMAIN f = RuleAnswerKeys
      /\ f["schema_version"] = Str(RuleVersion)
      /\ f["provenance"] = Str("ai_interpretation")
      /\ f["canonical_value"] = Str(value)
  BY DEF RuleAnswerKeys
<1> HIDE DEF f
<1>4. \A k \in DOMAIN f : IsJson(f[k])
  BY <1>3, JsonString DEF RuleAnswerKeys
<1>5. /\ IsObject(a) /\ IsJson(a) /\ Keys(a) = RuleAnswerKeys
      /\ \A k : Field(a, k) = f[k]
  BY <1>3, <1>4, ObjectIs
<1>6. ValueReasons(Str(value), Spellings[c]) = {}
  BY <1>2, Kinds DEF ValueReasons, When
<1> HIDE DEF a
<1>7. RuleAnswerReasons(a, Spellings[c]) = {}
  BY <1>3, <1>5, <1>6 DEF RuleAnswerReasons, When
<1> QED BY <1>1, <1>5, <1>7

-------------------------------------------------------------------------------
(* The context of a dataset.                                               *)

\* A hypothesis about one field leaves the others as they were.
LEMMA OtherFieldsStay ==
    ASSUME NEW columns, NEW a, NEW f \in ContextFields \ {"probable_domain"}
    PROVE  RefinedContext(columns, a)[f] = InferredContext(columns)[f]
<1> DEFINE H == InferredHypotheses(columns)
           h == Hypothesis("probable_domain", Word(a, "narrative"), 65, 0)
           Of(S) == {x \in S : x.field = f}
           At(S) == IF Of(S) = {} THEN Unknown(f)
                    ELSE IF f \in RoleFields THEN AllOf(Of(S)) ELSE BestOf(Of(S))
<1>1. \A S : Consolidated(S)[f] = At(S)
  BY DEF Consolidated
<1>2. h.field # f
  BY DEF Hypothesis
<1> HIDE DEF h, H
<1>3. Of(H \cup {h}) = Of(H)
  BY <1>2
<1>4. /\ RefinedContext(columns, a) = Consolidated(H \cup {h})
      /\ InferredContext(columns) = Consolidated(H)
  BY DEF RefinedContext, InferredContext, H, h
<1> HIDE DEF Of
<1> QED BY <1>1, <1>3, <1>4

\* The members of a hypothesis.
LEMMA HypothesisIs ==
    ASSUME NEW field, NEW value, NEW confidence, NEW i
    PROVE  /\ Hypothesis(field, value, confidence, i).field = field
           /\ Hypothesis(field, value, confidence, i).confidence = confidence
BY DEF Hypothesis

\* The heuristic hypothesis about the domain is less confident than a model.
LEMMA DomainCandidates ==
    ASSUME NEW columns, NEW h \in InferredHypotheses(columns),
           h.field = "probable_domain"
    PROVE  h.confidence = 50
<1>1. CASE h \in DomainHypotheses(columns)
  <2>1. PICK value : h = Hypothesis("probable_domain", value, 50, 0)
    BY <1>1, Zenon DEF DomainHypotheses
  <2> QED BY <2>1, HypothesisIs
<1>2. \A type, field, confidence : field # "probable_domain" =>
          h \notin TypeHypotheses(columns, type, field, confidence)
  BY DEF TypeHypotheses, Hypothesis
<1>3. h \notin CandidateKeyHypotheses(columns)
  BY DEF CandidateKeyHypotheses, TypeHypotheses, Hypothesis
<1>4. h \notin SoleKeyHypotheses(columns)
  <2>1. SUFFICES ASSUME h \in SoleKeyHypotheses(columns) PROVE FALSE
    OBVIOUS
  <2>2. PICK value, confidence :
            \/ h = Hypothesis("row_grain", value, confidence, 0)
            \/ h = Hypothesis("primary_entity", value, confidence, 0)
    BY <2>1, Zenon DEF SoleKeyHypotheses
  <2> QED BY <2>2, HypothesisIs
<1>5. \/ h \in CandidateKeyHypotheses(columns)
      \/ h \in TypeHypotheses(columns, "date", "business_dates", 90)
      \/ h \in TypeHypotheses(columns, "numeric", "measure_roles", 75)
      \/ h \in TypeHypotheses(columns, "categorical", "dimensions", 70)
      \/ h \in SoleKeyHypotheses(columns)
      \/ h \in DomainHypotheses(columns)
  BY DEF InferredHypotheses
<1> QED BY <1>1, <1>2, <1>3, <1>4, <1>5

\* The probable domain of a refined context is the answer's narrative
\* (consolidate_dataset_context).
LEMMA DomainIsAnswered ==
    ASSUME NEW columns, NEW a
    PROVE  RefinedContext(columns, a)["probable_domain"].value =
               Str(Word(a, "narrative"))
<1> DEFINE H == InferredHypotheses(columns)
           h == Hypothesis("probable_domain", Word(a, "narrative"), 65, 0)
           S == {x \in H \cup {h} : x.field = "probable_domain"}
           IsBest(x) == x \in S /\ \A y \in S : y.confidence <= x.confidence
           best == CHOOSE x \in S : \A y \in S : y.confidence <= x.confidence
<1>1. h.field = "probable_domain" /\ h.confidence = 65 /\ h.value = Word(a, "narrative")
  BY DEF Hypothesis
<1>2. \A x \in H : x.field = "probable_domain" => x.confidence = 50
  BY DomainCandidates
<1> HIDE DEF h, H
<1>3. h \in S /\ \A x \in S : x = h \/ x.confidence = 50
  BY <1>1, <1>2
<1> HIDE DEF S
<1>4. \A y \in S : y.confidence <= h.confidence
  BY <1>1, <1>3
<1>5. best \in S /\ \A y \in S : y.confidence <= best.confidence
  BY <1>3, <1>4
<1>6. best = h
  BY <1>1, <1>3, <1>5
<1>7. "probable_domain" \in ContextFields \ RoleFields
  BY DEF ContextFields, RoleFields
<1>8. Consolidated(H \cup {h})["probable_domain"] = BestOf(S)
  BY <1>3, <1>7 DEF Consolidated, S
<1>9. BestOf(S).value = Str(best.value)
  BY DEF BestOf
<1> HIDE DEF best
<1> QED BY <1>1, <1>6, <1>8, <1>9 DEF RefinedContext, H, h

\* What is asked about is what nothing is known of.
LEMMA UnknownIs ==
    ASSUME NEW columns, NEW f \in ContextFields,
           InferredContext(columns)[f].state = "unknown"
    PROVE  InferredContext(columns)[f].value \in {Str("unknown"), List(<<>>)}
<1> DEFINE S == {x \in InferredHypotheses(columns) : x.field = f}
<1>1. InferredContext(columns)[f] =
          IF S = {} THEN Unknown(f)
          ELSE IF f \in RoleFields THEN AllOf(S) ELSE BestOf(S)
  BY DEF InferredContext, Consolidated
<1> HIDE DEF S
<1>2. AllOf(S).state = "inferred" /\ BestOf(S).state = "inferred"
  BY DEF AllOf, BestOf
<1>3. InferredContext(columns)[f] = Unknown(f)
  BY <1>1, <1>2
<1> QED BY <1>3 DEF Unknown
-----------------------------------------------------------------------------
\* An accepted answer has a narrative, which is a string.
LEMMA AnswerAccepted ==
    ASSUME NEW a, NEW envelope, IsJson(a), IsObject(a),
           AnswerReasons(a, envelope) = {}
    PROVE  Has(a, "narrative") /\ Field(a, "narrative") = Str(Word(a, "narrative"))
<1>1. Has(a, "narrative")
  BY DEF AnswerReasons, When, Has, NarrativeKeys
<1>2. IsString(Field(a, "narrative"))
  BY <1>1 DEF AnswerReasons, When
<1>3. Field(a, "narrative") \in Within(a)
  BY <1>1, AnswerIsWalked DEF Has
<1> QED BY <1>1, <1>2, <1>3, JsonParts DEF Field, Word

\* What makes a validation raise.
LEMMA RaisedFor ==
    ASSUME NEW c \in DOMAIN Cases, NEW a, IsJson(a), IsObject(a), Raises(c, a)
    PROVE  \/ Field(a, "narrative") = Str(NoText)
           \/ \E k \in DOMAIN UnknownReason :
                  IsGiven(a, k) /\ ~IsListOfStrings(Field(a, k))
<1> DEFINE envelope == Envelopes[c]
<1>1. CASE ValidationRaises(a, envelope)
  <2> DEFINE known == KnownReferences(envelope)
  <2>1. DOMAIN known = DOMAIN UnknownReason
    BY DEF KnownReferences, UnknownReason
  <2>2. PICK k \in DOMAIN known : ReferencesRaise(a, k, known[k])
    BY <1>1 DEF ValidationRaises
  <2>3. PICK i \in DOMAIN Field(a, k).items : CannotBeHashed(Field(a, k).items[i])
    BY <2>2 DEF ReferencesRaise, FirstUnknown
  <2>4. Field(a, k).items[i] \in Items(Field(a, k))
    BY <2>3 DEF Items, Range
  <2>5. ~IsString(Field(a, k).items[i])
    BY <2>3 DEF CannotBeHashed, IsString, IsList, IsObject
  <2>6. IsGiven(a, k)
    BY <2>2 DEF ReferencesRaise
  <2> QED BY <2>1, <2>4, <2>5, <2>6 DEF IsListOfStrings
<1>2. CASE AnswerReasons(a, envelope) = {} /\ HypothesisRaises(a)
  BY <1>2, AnswerAccepted DEF HypothesisRaises
<1> QED BY <1>1, <1>2 DEF Raises

\* The answer of the mock provider to a context request is accepted.
LEMMA MockContextIs ==
    ASSUME NEW envelope
    PROVE  /\ IsObject(MockAnswer) /\ IsJson(MockAnswer)
           /\ AnswerReasons(MockAnswer, envelope) = {}
           /\ ~ValidationRaises(MockAnswer, envelope)
           /\ ~HypothesisRaises(MockAnswer)
<1> DEFINE f == [schema_version |-> Str(OutputVersion), narrative |-> Str(MockText),
                 provenance |-> Str("ai_interpretation")]
           a == Obj(f)
<1>1. a = MockAnswer
  BY DEF MockAnswer
<1>2. /\ DOMAIN f = NarrativeKeys
      /\ f["schema_version"] = Str(OutputVersion) /\ f["narrative"] = Str(MockText)
      /\ f["provenance"] = Str("ai_interpretation")
  BY DEF NarrativeKeys
<1> HIDE DEF f
<1>3. \A k \in DOMAIN f : IsJson(f[k])
  BY <1>2, JsonString DEF NarrativeKeys
<1>4. /\ IsObject(a) /\ IsJson(a) /\ Keys(a) = NarrativeKeys
      /\ \A k : Field(a, k) = f[k] /\ Word(a, k) = f[k].word
  BY <1>2, <1>3, ObjectIs
<1> HIDE DEF a
<1>5. \A k \in DOMAIN UnknownReason : ~IsGiven(a, k)
  BY <1>4 DEF UnknownReason, NarrativeKeys, IsGiven, Has
<1>6. ~IsGiven(a, "numeric_claims") /\ ~IsGiven(a, "severity")
  BY <1>4 DEF NarrativeKeys, IsGiven, Has
<1>7. ~ValidationRaises(a, envelope)
  <2>1. DOMAIN KnownReferences(envelope) = DOMAIN UnknownReason
    BY DEF KnownReferences, UnknownReason
  <2> QED BY <1>5, <2>1 DEF ValidationRaises, ReferencesRaise
<1>8. AnswerReferenceReasons(a, envelope) = {}
  BY <1>5 DEF AnswerReferenceReasons
<1>9. /\ Field(a, "schema_version") = Str(OutputVersion)
      /\ IsString(Field(a, "narrative")) /\ Word(a, "narrative") = MockText
      /\ IsString(Field(a, "provenance")) /\ Word(a, "provenance") = "ai_interpretation"
  BY <1>2, <1>4, Kinds
<1>10. AnswerReasons(a, envelope) = {}
  BY <1>4, <1>6, <1>8, <1>9, MockTextIs DEF AnswerReasons, When, AnswerKeys
<1>11. ~HypothesisRaises(a)
  <2>1. MockText # NoText
    BY MockTextAssumption, ProseAssumption DEF Facts
  <2> QED BY <1>9, <2>1 DEF HypothesisRaises
<1> QED BY <1>1, <1>4, <1>7, <1>10, <1>11
-----------------------------------------------------------------------------
\* The answer of the mock provider.
LEMMA MockOutputIs ==
    ASSUME NEW c \in DOMAIN Cases
    PROVE  /\ IsObject(MockOutput(c)) /\ IsJson(MockOutput(c))
           /\ ~Raises(c, MockOutput(c))
           /\ \/ Reasons(c, MockOutput(c)) = {}
              \/ /\ Cases[c].kind = "finding"
                 /\ \/ Len(Cases[c].evidence) > MaxReferences
                    \/ Len(Cases[c].columns) > MaxReferences
<1>1. CASE Cases[c].kind = "finding"
  BY <1>1, MockFindingIs DEF MockOutput, Raises, Reasons
<1>2. CASE Cases[c].kind = "context"
  BY <1>2, MockContextIs DEF MockOutput, Raises, Reasons
<1>3. CASE Cases[c].kind = "rule"
  BY <1>3, MockRuleAnswerIs DEF MockOutput, Raises, Reasons
<1> QED BY <1>1, <1>2, <1>3, CasesAssumption

-------------------------------------------------------------------------------
(* The invariant.                                                          *)

\* Whether there is more to refer to than the answer of the mock provider may.
IsCrowded(c) ==
    /\ Cases[c].kind = "finding"
    /\ \/ Len(Cases[c].evidence) > MaxReferences
       \/ Len(Cases[c].columns) > MaxReferences

\* The most requests for n answers.
MostPosts(c, n) == IF Cases[c].kind = "context" THEN n ELSE 2 * n

Outcome == [outcome |-> call.status, sent |-> call.sent,
            contextSent |-> call.contextSent]

Shape ==
    /\ DOMAIN call = {"case", "provider", "pc", "retries", "posts", "answer",
                      "reasons", "status", "sent", "contextSent", "result"}
    /\ DOMAIN analysis = {"there", "version", "context", "questions", "rules",
                          "calls"}

\* What is told is what is sent, and all of it.
TellingInv ==
    /\ told \in {NothingTold, Shown(call.case)}
    /\ call.pc = "build" => told = NothingTold
    /\ call.pc \in {"ask", "posted", "reposted"} => call.sent
    /\ call.pc \in {"posted", "reposted"} => told = Shown(call.case)
    /\ told = Shown(call.case) => call.sent
    /\ call.sent => (call.contextSent <=>
                        IsOf("finding") /\ Context[call.case] # NoContext)
    /\ call.provider = "llama_cpp" => (call.posts = 0 <=> told = NothingTold)

\* How often the model is asked.
AttemptsInv ==
    /\ call.retries <= RetriesOf(call.case)
    /\ call.pc = "build" => call.posts = 0
    /\ call.pc \in {"build", "ask"} =>
           call.posts <= MostPosts(call.case, call.retries)
    /\ call.pc = "posted" => call.posts <= MostPosts(call.case, call.retries) + 1
    /\ call.posts <= MostPosts(call.case, call.retries + 1)
    /\ call.pc = "reposted" => ~IsOf("context")
    /\ call.provider = "mock" =>
           /\ call.pc \notin {"posted", "reposted"}
           /\ call.retries = 0 \/ IsCrowded(call.case)

\* What is known of the last answer.
AnswerInv ==
    /\ call.pc \in {"build", "posted", "reposted"} => call.answer = NoAnswer
    /\ call.answer # NoAnswer =>
           /\ call.answer \in Answers[call.case] \cup {MockOutput(call.case)}
           /\ call.reasons = Reasons(call.case, call.answer)
           /\ told = Shown(call.case)
    /\ call.provider = "mock" => call.answer \in {NoAnswer, MockOutput(call.case)}

\* What an accepted answer comes to.
FinalResult ==
    IF IsOf("rule") /\ call.pc # "keep"
    THEN OfferedRule(Word(call.answer, "canonical_value"))
    ELSE Result(call.case, call.answer)

StatusInv ==
    /\ call.status = "accepted" =>
           /\ call.pc \in {"keep", "reread", "record", "done", "escaped"}
           /\ call.answer # NoAnswer /\ call.reasons = {}
           /\ call.pc # "escaped" => call.result = FinalResult
    /\ call.status # "accepted" =>
           /\ call.pc \notin {"keep", "reread", "escaped"}
           /\ call.result = NoResult
    /\ call.status = "rejected" =>
           /\ call.pc \in {"record", "done"}
           /\ call.retries = RetriesOf(call.case) /\ call.reasons # {}
    /\ call.status = "provider_error" /\ call.pc \in {"record", "done"}
           /\ call.answer # NoAnswer => Raises(call.case, call.answer)
    /\ call.pc = "reread" => IsOf("context")
    /\ call.pc = "escaped" =>
           ~IsOf("finding") /\ (~analysis.there \/ analysis.version = 2)

\* What is kept in the analysis.
KeptInv ==
    /\ analysis.calls = IF call.pc = "done" /\ analysis.calls # << >>
                        THEN << Outcome >> ELSE << >>
    /\ call.pc = "done" => analysis.calls # << >> \/ ~analysis.there
    /\ \A r \in analysis.rules : IsGenuine(r, Spellings[call.case])
    /\ IsOf("context") =>
           /\ \/ analysis.context = Inferred[call.case]
              \/ /\ call.status = "accepted"
                 /\ analysis.context = Result(call.case, call.answer)
           /\ call.status = "accepted" /\ call.pc \in {"reread", "record", "done"} =>
                  analysis.context = Result(call.case, call.answer)
           /\ analysis.questions = GuidedQuestions(Inferred[call.case])

IInv == Shape /\ TypeOK /\ TellingInv /\ AttemptsInv /\ AnswerInv /\ StatusInv
            /\ KeptInv

\* Every answer is a JSON object.
LEMMA AnswersAre ==
    ASSUME NEW c \in DOMAIN Cases, NEW a \in Answers[c] \cup {MockOutput(c)}
    PROVE  IsObject(a) /\ IsJson(a) /\ a # NoAnswer
<1>1. IsObject(a) /\ IsJson(a)
  BY AnswersAreObjects, MockOutputIs
<1> QED BY <1>1, Kinds DEF NoAnswer

\* The retries of every case are bounded.
LEMMA RetriesAre ==
    ASSUME NEW c
    PROVE  RetriesOf(c) \in Nat /\ RetriesOf(c) <= MaxRetries
BY DEF RetriesOf, MaxRetries

\* A prompt is more than nothing, and only told as a whole.
LEMMA ShowTells ==
    ASSUME call.case \in DOMAIN Cases, told \in {NothingTold, Shown(call.case)}, Show
    PROVE  told' = Shown(call.case)
<1> DEFINE shown == Shown(call.case)
<1>1. /\ shown = Told(shown.words, shown.numbers, shown.fields)
      /\ NothingTold.words = {} /\ NothingTold.numbers = {}
      /\ NothingTold.fields = {}
  BY DEF Shown, Told, NothingTold
<1>2. told' = Told(told.words \cup shown.words, told.numbers \cup shown.numbers,
                   told.fields \cup shown.fields)
  BY DEF Show
<1> HIDE DEF shown
<1>3. /\ told.words \cup shown.words = shown.words
      /\ told.numbers \cup shown.numbers = shown.numbers
      /\ told.fields \cup shown.fields = shown.fields
  BY <1>1 DEF shown
<1> QED BY <1>1, <1>2, <1>3 DEF shown

\* A prompt is never empty.
LEMMA ShownIsSomething ==
    ASSUME NEW c \in DOMAIN Cases
    PROVE  Shown(c) # NothingTold
BY PromptIsNotEmpty DEF NothingTold, Told

\* A judgement: what stays, and the four ways it can go.
LEMMA JudgeIs ==
    ASSUME Shape, TypeOK, NEW a, Judge(a)
    PROVE  /\ DOMAIN call' = DOMAIN call
           /\ call'.case = call.case /\ call'.provider = call.provider
           /\ call'.posts = call.posts /\ call'.sent = call.sent
           /\ call'.contextSent = call.contextSent
           /\ call'.answer = a /\ call'.reasons = Reasons(call.case, a)
           /\ \/ /\ Raises(call.case, a) /\ call'.pc = "record"
                 /\ call'.status = call.status /\ call'.result = call.result
                 /\ call'.retries = call.retries
              \/ /\ call'.reasons = {} /\ ~Raises(call.case, a)
                 /\ call'.pc = "keep" /\ call'.status = "accepted"
                 /\ call'.result = Result(call.case, a)
                 /\ call'.retries = call.retries
              \/ /\ call'.reasons # {} /\ call.retries < RetriesOf(call.case)
                 /\ call'.pc = "ask" /\ call'.status = call.status
                 /\ call'.result = call.result
                 /\ call'.retries = call.retries + 1
              \/ /\ call'.reasons # {} /\ ~(call.retries < RetriesOf(call.case))
                 /\ call'.pc = "record" /\ call'.status = "rejected"
                 /\ call'.result = call.result /\ call'.retries = call.retries
BY DEF Judge, Shape

\* A call starts in the invariant.
LEMMA InitIInv == Init => IInv
<1> SUFFICES ASSUME Init PROVE IInv
  OBVIOUS
<1>1. /\ call.case \in DOMAIN Cases /\ call.provider \in Providers
      /\ call.pc = "build" /\ call.retries = 0 /\ call.posts = 0
      /\ call.answer = NoAnswer /\ call.reasons = {}
      /\ call.status = "provider_error" /\ call.sent = FALSE
      /\ call.contextSent = FALSE /\ call.result = NoResult
      /\ DOMAIN call = {"case", "provider", "pc", "retries", "posts", "answer",
                        "reasons", "status", "sent", "contextSent", "result"}
  BY DEF Init
<1>2. /\ DOMAIN analysis = {"there", "version", "context", "questions", "rules",
                            "calls"}
      /\ analysis.there = TRUE /\ analysis.version = 1
      /\ IsOf("context") =>
             /\ analysis.context = Inferred[call.case]
             /\ analysis.questions = GuidedQuestions(Inferred[call.case])
      /\ analysis.rules = {} /\ analysis.calls = << >>
  BY DEF Init
<1>3. told = NothingTold
  BY DEF Init
<1>4. Shape
  BY <1>1, <1>2 DEF Shape
<1>5. TypeOK
  <2>1. 0 \in 0 .. MaxRetries /\ 0 \in 0 .. 2 * (MaxRetries + 1)
    BY DEF MaxRetries
  <2>2. Len(analysis.calls) <= 1
    BY <1>2
  <2>3. analysis.version \in 1 .. 2
    BY <1>2
  <2> QED BY <1>1, <1>2, <2>1, <2>2, <2>3 DEF TypeOK
<1>6. TellingInv
  BY <1>1, <1>3, ShownIsSomething DEF TellingInv
<1>7. AttemptsInv
  <2>1. call.retries <= RetriesOf(call.case)
    BY <1>1, RetriesAre
  <2>2. \A c : MostPosts(c, 0) = 0 /\ MostPosts(c, 0 + 1) >= 0
    BY DEF MostPosts
  <2> QED BY <1>1, <2>1, <2>2 DEF AttemptsInv
<1>8. AnswerInv
  BY <1>1 DEF AnswerInv
<1>9. StatusInv
  BY <1>1 DEF StatusInv
<1>10. KeptInv
  BY <1>1, <1>2 DEF KeptInv
<1> QED BY <1>4, <1>5, <1>6, <1>7, <1>8, <1>9, <1>10 DEF IInv

-------------------------------------------------------------------------------
(* The steps that keep it.                                                 *)

\* While a call is made, nothing has come of it yet.
LEMMA NothingYet ==
    ASSUME TypeOK, StatusInv, call.pc \in {"build", "ask", "posted", "reposted"}
    PROVE  call.status = "provider_error" /\ call.result = NoResult
BY DEF TypeOK, StatusInv

\* As long as a call is not done, nothing of it is counted.
LEMMA NotCounted ==
    ASSUME KeptInv, call.pc # "done"
    PROVE  analysis.calls = << >>
BY DEF KeptInv

\* Judging an answer keeps the invariant.
LEMMA JudgeKeeps ==
    ASSUME IInv, NEW a \in Answers[call.case] \cup {MockOutput(call.case)},
           Judge(a), told' = Shown(call.case), UNCHANGED analysis,
           call.pc \in {"ask", "posted", "reposted"},
           call.provider = "mock" => a = MockOutput(call.case),
           call.provider = "llama_cpp" => told = Shown(call.case)
    PROVE  IInv'
<1> DEFINE c == call.case
<1> USE DEF IInv
<1>1. c \in DOMAIN Cases /\ call.retries \in Nat /\ call.posts \in Nat
  BY DEF TypeOK, MaxRetries
<1>2. /\ DOMAIN call' = DOMAIN call
      /\ call'.case = call.case /\ call'.provider = call.provider
      /\ call'.posts = call.posts /\ call'.sent = call.sent
      /\ call'.contextSent = call.contextSent
      /\ call'.answer = a /\ call'.reasons = Reasons(c, a)
  BY JudgeIs
<1>3. \/ /\ Raises(c, a) /\ call'.pc = "record"
         /\ call'.status = call.status /\ call'.result = call.result
         /\ call'.retries = call.retries
      \/ /\ call'.reasons = {} /\ ~Raises(c, a)
         /\ call'.pc = "keep" /\ call'.status = "accepted"
         /\ call'.result = Result(c, a) /\ call'.retries = call.retries
      \/ /\ call'.reasons # {} /\ call.retries < RetriesOf(c)
         /\ call'.pc = "ask" /\ call'.status = call.status
         /\ call'.result = call.result /\ call'.retries = call.retries + 1
      \/ /\ call'.reasons # {} /\ ~(call.retries < RetriesOf(c))
         /\ call'.pc = "record" /\ call'.status = "rejected"
         /\ call'.result = call.result /\ call'.retries = call.retries
  BY JudgeIs
<1>4. \A kind : IsOf(kind)' <=> IsOf(kind)
  BY <1>2 DEF IsOf
<1>5. RetriesOf(c) \in Nat /\ RetriesOf(c) <= MaxRetries
  BY RetriesAre
<1>6. call.status = "provider_error" /\ call.result = NoResult
  BY NothingYet
<1>7. call.sent /\ Shown(c) # NothingTold
  BY <1>1, ShownIsSomething DEF TellingInv
<1>8. a # NoAnswer
  BY <1>1, AnswersAre
<1>9. Shape'
  BY <1>2 DEF Shape
<1>10. call'.retries \in 0 .. MaxRetries /\ call'.retries <= RetriesOf(c)
  <2>1. call.retries <= RetriesOf(c)
    BY DEF AttemptsInv
  <2>2. call'.retries \in Nat /\ call'.retries <= RetriesOf(c)
    BY <1>1, <1>3, <1>5, <2>1
  <2>3. call'.retries <= MaxRetries
    BY <1>5, <2>2 DEF MaxRetries
  <2> QED BY <2>2, <2>3 DEF MaxRetries
<1>11. TypeOK'
  BY <1>2, <1>3, <1>6, <1>10 DEF TypeOK
<1>12. TellingInv'
  BY <1>2, <1>3, <1>4, <1>7 DEF TellingInv
<1>13. AttemptsInv'
  <2> DEFINE n == call.retries
  <2>1. call.posts <= MostPosts(c, n + 1)
    BY DEF AttemptsInv
  <2>2. MostPosts(c, n + 1) <= MostPosts(c, n + 1 + 1)
        /\ MostPosts(c, n + 1) \in Nat /\ MostPosts(c, n + 1 + 1) \in Nat
    BY <1>1 DEF MostPosts
  <2>3. call'.posts <= MostPosts(c, call'.retries + 1)
    <3>1. CASE call'.retries = n
      BY <1>2, <2>1, <3>1
    <3>2. CASE call'.retries = n + 1
      BY <1>1, <1>2, <2>1, <2>2, <3>2
    <3> QED BY <1>3, <3>1, <3>2
  <2>4. call'.pc = "ask" => call'.posts <= MostPosts(c, call'.retries)
    BY <1>2, <1>3, <2>1
  <2>5. call'.provider = "mock" => call'.retries = 0 \/ IsCrowded(c)
    <3>1. CASE IsCrowded(c)
      BY <3>1
    <3>2. CASE call.provider = "mock" /\ ~IsCrowded(c)
      <4>1. Reasons(c, a) = {}
        BY <1>1, <3>2, MockOutputIs DEF IsCrowded
      <4> QED BY <1>2, <1>3, <3>2, <4>1 DEF AttemptsInv
    <3> QED BY <1>2, <3>1, <3>2
  <2> QED BY <1>2, <1>3, <1>4, <1>10, <2>3, <2>4, <2>5 DEF AttemptsInv
<1>14. AnswerInv'
  BY <1>2, <1>3, <1>8 DEF AnswerInv
<1>15. StatusInv'
  <2>1. call'.retries = RetriesOf(c) \/ call'.status # "rejected"
    <3>1. call.retries <= RetriesOf(c)
      BY DEF AttemptsInv
    <3> QED BY <1>1, <1>3, <1>5, <1>6, <3>1
  <2>2. call'.pc = "keep" => FinalResult' = Result(c, a)
    BY <1>2 DEF FinalResult
  <2> QED BY <1>2, <1>3, <1>4, <1>6, <1>8, <2>1, <2>2 DEF StatusInv
<1>16. KeptInv'
  <2>1. analysis.calls = << >> /\ call'.pc # "done"
    BY <1>3, NotCounted
  <2> QED BY <1>2, <1>3, <1>4, <1>6, <2>1 DEF KeptInv
<1> QED BY <1>9, <1>11, <1>12, <1>13, <1>14, <1>15, <1>16

\* What the actions leave as it was.
LEMMA SameCase ==
    ASSUME call'.case = call.case
    PROVE  /\ \A kind : IsOf(kind)' <=> IsOf(kind)
           /\ call.case \in DOMAIN Cases <=> call'.case \in DOMAIN Cases
BY DEF IsOf

\* Building the request keeps the invariant.
LEMMA BuildKeeps ==
    ASSUME IInv, Build PROVE IInv'
<1> USE DEF IInv
<1>1. /\ call.pc = "build" /\ DOMAIN call' = DOMAIN call
      /\ call'.case = call.case /\ call'.provider = call.provider
      /\ call'.posts = call.posts /\ call'.retries = call.retries
      /\ call'.answer = call.answer /\ call'.reasons = call.reasons
      /\ call'.status = call.status /\ call'.result = call.result
      /\ told' = told /\ analysis' = analysis
      /\ \/ call'.pc = "record" /\ call'.sent = call.sent
                /\ call'.contextSent = call.contextSent
         \/ call'.pc = "ask" /\ call'.sent = TRUE
                /\ call'.contextSent = (/\ IsOf("finding")
                                         /\ Context[call.case] # NoContext)
  BY DEF Build, Shape
<1>2. \A kind : IsOf(kind)' <=> IsOf(kind)
  BY <1>1, SameCase
<1>3. call.status = "provider_error" /\ call.result = NoResult
  BY <1>1, NothingYet
<1>4. Shape'
  BY <1>1 DEF Shape
<1>5. TypeOK'
  BY <1>1 DEF TypeOK
<1>6. TellingInv'
  BY <1>1, <1>2 DEF TellingInv
<1>7. AttemptsInv'
  BY <1>1, <1>2 DEF AttemptsInv
<1>8. AnswerInv'
  BY <1>1 DEF AnswerInv
<1>9. StatusInv'
  BY <1>1, <1>2, <1>3, <1>8 DEF StatusInv, AnswerInv
<1>10. KeptInv'
  BY <1>1, <1>2, <1>3, NotCounted DEF KeptInv
<1> QED BY <1>4, <1>5, <1>6, <1>7, <1>8, <1>9, <1>10

\* Posting a request keeps it.
LEMMA PostKeeps ==
    ASSUME IInv, Post PROVE IInv'
<1> USE DEF IInv
<1>1. /\ call.pc = "ask" /\ DOMAIN call' = DOMAIN call
      /\ call.provider = "llama_cpp"
      /\ call'.case = call.case /\ call'.provider = call.provider
      /\ call'.posts = call.posts + 1 /\ call'.retries = call.retries
      /\ call'.answer = NoAnswer /\ call'.reasons = {}
      /\ call'.status = call.status /\ call'.result = call.result
      /\ call'.sent = call.sent /\ call'.contextSent = call.contextSent
      /\ call'.pc = "posted" /\ analysis' = analysis
  BY DEF Post, Shape
<1>2. \A kind : IsOf(kind)' <=> IsOf(kind)
  BY <1>1, SameCase
<1>3. call.status = "provider_error" /\ call.result = NoResult
  BY <1>1, NothingYet
<1>4. told' = Shown(call.case) /\ Shown(call.case) # NothingTold
  BY ShowTells, ShownIsSomething DEF Post, TellingInv, TypeOK
<1>5. /\ call.posts \in Nat /\ call.retries \in 0 .. 2
      /\ call.posts <= MostPosts(call.case, call.retries)
  BY <1>1 DEF TypeOK, AttemptsInv, MaxRetries
<1>6. /\ call.posts + 1 <= MostPosts(call.case, call.retries + 1)
      /\ call.posts + 1 \in 0 .. 6 /\ call.posts + 1 # 0
  BY <1>5 DEF MostPosts
<1>7. Shape'
  BY <1>1 DEF Shape
<1>8. TypeOK'
  BY <1>1, <1>6 DEF TypeOK, MaxRetries
<1>9. TellingInv'
  BY <1>1, <1>2, <1>4, <1>6 DEF TellingInv
<1>10. AttemptsInv'
  <2>1. call.posts + 1 <= MostPosts(call.case, call.retries) + 1
    BY <1>5 DEF MostPosts
  <2> QED BY <1>1, <1>2, <1>6, <2>1 DEF AttemptsInv
<1>11. AnswerInv'
  BY <1>1 DEF AnswerInv
<1>12. StatusInv'
  BY <1>1, <1>2, <1>3 DEF StatusInv
<1>13. KeptInv'
  BY <1>1, <1>2, <1>3, NotCounted DEF KeptInv
<1> QED BY <1>7, <1>8, <1>9, <1>10, <1>11, <1>12, <1>13

\* So does a request that is repeated without a format,
LEMMA FormatRefusedKeeps ==
    ASSUME IInv, FormatRefused PROVE IInv'
<1> USE DEF IInv
<1>1. /\ call.pc = "posted" /\ ~IsOf("context") /\ DOMAIN call' = DOMAIN call
      /\ call'.case = call.case /\ call'.provider = call.provider
      /\ call'.posts = call.posts + 1 /\ call'.retries = call.retries
      /\ call'.answer = call.answer /\ call'.reasons = call.reasons
      /\ call'.status = call.status /\ call'.result = call.result
      /\ call'.sent = call.sent /\ call'.contextSent = call.contextSent
      /\ call'.pc = "reposted" /\ told' = told /\ analysis' = analysis
  BY DEF FormatRefused, Shape
<1>2. \A kind : IsOf(kind)' <=> IsOf(kind)
  BY <1>1, SameCase
<1>3. call.status = "provider_error" /\ call.result = NoResult
  BY <1>1, NothingYet
<1>4. told = Shown(call.case) /\ told # NothingTold
  BY <1>1, ShownIsSomething DEF TellingInv, TypeOK
<1>5. /\ call.posts \in Nat /\ call.retries \in 0 .. 2
      /\ call.posts <= MostPosts(call.case, call.retries) + 1
  BY <1>1 DEF TypeOK, AttemptsInv, MaxRetries
<1>6. /\ call.posts + 1 <= MostPosts(call.case, call.retries + 1)
      /\ call.posts + 1 \in 0 .. 6 /\ call.posts + 1 # 0
  BY <1>1, <1>5 DEF MostPosts, IsOf
<1>7. Shape'
  BY <1>1 DEF Shape
<1>8. TypeOK'
  BY <1>1, <1>6 DEF TypeOK, MaxRetries
<1>9. TellingInv'
  BY <1>1, <1>2, <1>4, <1>6 DEF TellingInv
<1>10. AttemptsInv'
  BY <1>1, <1>2, <1>6 DEF AttemptsInv
<1>11. AnswerInv'
  BY <1>1 DEF AnswerInv
<1>12. StatusInv'
  BY <1>1, <1>2, <1>3 DEF StatusInv
<1>13. KeptInv'
  BY <1>1, <1>2, <1>3, NotCounted DEF KeptInv
<1> QED BY <1>7, <1>8, <1>9, <1>10, <1>11, <1>12, <1>13

\* a provider that fails,
LEMMA ProviderFailsKeeps ==
    ASSUME IInv, ProviderFails PROVE IInv'
<1> USE DEF IInv
<1>1. /\ call.pc \in {"posted", "reposted"} /\ DOMAIN call' = DOMAIN call
      /\ call'.case = call.case /\ call'.provider = call.provider
      /\ call'.posts = call.posts /\ call'.retries = call.retries
      /\ call'.answer = call.answer /\ call'.reasons = call.reasons
      /\ call'.status = call.status /\ call'.result = call.result
      /\ call'.sent = call.sent /\ call'.contextSent = call.contextSent
      /\ call'.pc = "record" /\ told' = told /\ analysis' = analysis
  BY DEF ProviderFails, Shape
<1>2. \A kind : IsOf(kind)' <=> IsOf(kind)
  BY <1>1, SameCase
<1>3. call.status = "provider_error" /\ call.result = NoResult
  BY <1>1, NothingYet
<1>4. call.answer = NoAnswer
  BY <1>1 DEF AnswerInv
<1>5. Shape'
  BY <1>1 DEF Shape
<1>6. TypeOK'
  BY <1>1 DEF TypeOK
<1>7. TellingInv'
  BY <1>1, <1>2 DEF TellingInv
<1>8. AttemptsInv'
  BY <1>1, <1>2 DEF AttemptsInv
<1>9. AnswerInv'
  BY <1>1 DEF AnswerInv
<1>10. StatusInv'
  BY <1>1, <1>2, <1>3, <1>4 DEF StatusInv
<1>11. KeptInv'
  BY <1>1, <1>2, <1>3, NotCounted DEF KeptInv
<1> QED BY <1>5, <1>6, <1>7, <1>8, <1>9, <1>10, <1>11

\* any answer of a model,
LEMMA ModelAnswersKeeps ==
    ASSUME IInv, ModelAnswers PROVE IInv'
<1>1. PICK a \in Answers[call.case] : Judge(a)
  BY DEF ModelAnswers
<1>2. call.pc \in {"posted", "reposted"} /\ UNCHANGED analysis /\ told' = told
  BY DEF ModelAnswers
<1>3. told = Shown(call.case) /\ call.provider # "mock"
  BY <1>2 DEF IInv, TellingInv, AttemptsInv
<1> QED BY <1>1, <1>2, <1>3, JudgeKeeps

\* and the answer of the mock provider.
LEMMA MockAnswersKeeps ==
    ASSUME IInv, MockAnswers PROVE IInv'
<1>1. /\ call.pc = "ask" /\ call.provider = "mock" /\ UNCHANGED analysis
      /\ Judge(MockOutput(call.case))
  BY DEF MockAnswers
<1>2. told' = Shown(call.case)
  BY ShowTells DEF MockAnswers, IInv, TellingInv, TypeOK
<1> QED BY <1>1, <1>2, JudgeKeeps

\* Keeping an explanation keeps the invariant.
LEMMA KeepFindingKeeps ==
    ASSUME IInv, KeepFinding PROVE IInv'
<1> USE DEF IInv
<1>1. /\ call.pc = "keep" /\ IsOf("finding") /\ DOMAIN call' = DOMAIN call
      /\ call'.case = call.case /\ call'.provider = call.provider
      /\ call'.posts = call.posts /\ call'.retries = call.retries
      /\ call'.answer = call.answer /\ call'.reasons = call.reasons
      /\ call'.status = call.status /\ call'.result = call.result
      /\ call'.sent = call.sent /\ call'.contextSent = call.contextSent
      /\ call'.pc = "record" /\ told' = told /\ analysis' = analysis
  BY DEF KeepFinding, Shape
<1>2. \A kind : IsOf(kind)' <=> IsOf(kind)
  BY <1>1, SameCase
<1>3. call.status = "accepted" /\ ~IsOf("rule") /\ ~IsOf("context")
  BY <1>1 DEF StatusInv, TypeOK, IsOf
<1>4. Shape'
  BY <1>1 DEF Shape
<1>5. TypeOK'
  BY <1>1 DEF TypeOK
<1>6. TellingInv'
  BY <1>1, <1>2 DEF TellingInv
<1>7. AttemptsInv'
  BY <1>1, <1>2 DEF AttemptsInv
<1>8. AnswerInv'
  BY <1>1 DEF AnswerInv
<1>9. StatusInv'
  <2>1. FinalResult' = FinalResult
    BY <1>1, <1>2, <1>3 DEF FinalResult
  <2> QED BY <1>1, <1>2, <1>3, <2>1 DEF StatusInv
<1>10. KeptInv'
  BY <1>1, <1>2, <1>3, NotCounted DEF KeptInv
<1> QED BY <1>4, <1>5, <1>6, <1>7, <1>8, <1>9, <1>10

\* So does keeping a refined context, or failing to,
LEMMA KeepContextKeeps ==
    ASSUME IInv, KeepContext PROVE IInv'
<1> USE DEF IInv
<1>1. /\ call.pc = "keep" /\ IsOf("context") /\ DOMAIN call' = DOMAIN call
      /\ call'.case = call.case /\ call'.provider = call.provider
      /\ call'.posts = call.posts /\ call'.retries = call.retries
      /\ call'.answer = call.answer /\ call'.reasons = call.reasons
      /\ call'.status = call.status /\ call'.result = call.result
      /\ call'.sent = call.sent /\ call'.contextSent = call.contextSent
      /\ told' = told /\ DOMAIN analysis' = DOMAIN analysis
      /\ analysis'.there = analysis.there /\ analysis'.version = analysis.version
      /\ analysis'.questions = analysis.questions
      /\ analysis'.rules = analysis.rules /\ analysis'.calls = analysis.calls
  BY DEF KeepContext, Shape
<1>2. \/ /\ analysis.there /\ analysis.version = 1 /\ call'.pc = "reread"
         /\ analysis'.context = call.result
      \/ /\ ~(analysis.there /\ analysis.version = 1) /\ call'.pc = "escaped"
         /\ analysis'.context = analysis.context
  BY DEF KeepContext, Shape
<1>3. \A kind : IsOf(kind)' <=> IsOf(kind)
  BY <1>1, SameCase
<1>4. call.status = "accepted" /\ ~IsOf("rule") /\ ~IsOf("finding")
  BY <1>1 DEF StatusInv, TypeOK, IsOf
<1>5. call.result = Result(call.case, call.answer)
  BY <1>1, <1>4 DEF StatusInv, FinalResult
<1>6. Shape'
  BY <1>1 DEF Shape
<1>7. TypeOK'
  BY <1>1, <1>2 DEF TypeOK
<1>8. TellingInv'
  BY <1>1, <1>2, <1>3 DEF TellingInv
<1>9. AttemptsInv'
  BY <1>1, <1>2, <1>3 DEF AttemptsInv
<1>10. AnswerInv'
  BY <1>1, <1>2 DEF AnswerInv
<1>11. StatusInv'
  <2>1. FinalResult' = FinalResult
    BY <1>1, <1>3, <1>4 DEF FinalResult
  <2>2. call'.pc = "escaped" => ~analysis'.there \/ analysis'.version = 2
    BY <1>1, <1>2 DEF TypeOK
  <2> QED BY <1>1, <1>2, <1>3, <1>4, <2>1, <2>2 DEF StatusInv
<1>12. KeptInv'
  BY <1>1, <1>2, <1>3, <1>4, <1>5, NotCounted DEF KeptInv
<1> QED BY <1>6, <1>7, <1>8, <1>9, <1>10, <1>11, <1>12

\* reading the analysis again,
LEMMA RereadKeeps ==
    ASSUME IInv, Reread PROVE IInv'
<1> USE DEF IInv
<1>1. /\ call.pc = "reread" /\ DOMAIN call' = DOMAIN call
      /\ call'.case = call.case /\ call'.provider = call.provider
      /\ call'.posts = call.posts /\ call'.retries = call.retries
      /\ call'.answer = call.answer /\ call'.reasons = call.reasons
      /\ call'.status = call.status /\ call'.result = call.result
      /\ call'.sent = call.sent /\ call'.contextSent = call.contextSent
      /\ call'.pc = (IF analysis.there THEN "record" ELSE "escaped")
      /\ told' = told /\ analysis' = analysis
  BY DEF Reread, Shape
<1>2. \A kind : IsOf(kind)' <=> IsOf(kind)
  BY <1>1, SameCase
<1>3. /\ call.status = "accepted" /\ IsOf("context")
      /\ ~IsOf("rule") /\ ~IsOf("finding")
  BY <1>1 DEF StatusInv, TypeOK, IsOf
<1>4. Shape'
  BY <1>1 DEF Shape
<1>5. TypeOK'
  BY <1>1 DEF TypeOK
<1>6. TellingInv'
  BY <1>1, <1>2 DEF TellingInv
<1>7. AttemptsInv'
  BY <1>1, <1>2 DEF AttemptsInv
<1>8. AnswerInv'
  BY <1>1 DEF AnswerInv
<1>9. StatusInv'
  <2>1. FinalResult' = FinalResult
    BY <1>1, <1>2, <1>3 DEF FinalResult
  <2> QED BY <1>1, <1>2, <1>3, <2>1 DEF StatusInv
<1>10. KeptInv'
  BY <1>1, <1>2, <1>3, NotCounted DEF KeptInv
<1> QED BY <1>4, <1>5, <1>6, <1>7, <1>8, <1>9, <1>10

\* The value of an accepted answer about a rule is one of the spellings.
LEMMA ValueIsASpelling ==
    ASSUME IInv, IsOf("rule"), call.status = "accepted"
    PROVE  Word(call.answer, "canonical_value") \in Range(Spellings[call.case])
<1>1. RuleAnswerReasons(call.answer, Spellings[call.case]) = {}
  BY DEF IInv, StatusInv, AnswerInv, Reasons, IsOf
<1> QED BY <1>1, RuleAccepted DEF IsOneOf, Word, Field

\* Keeping the offer of a rule keeps the invariant.
LEMMA KeepRuleKeeps ==
    ASSUME IInv, KeepRule PROVE IInv'
<1>1. /\ call.pc = "keep" /\ IsOf("rule") /\ call.status = "accepted"
      /\ ~IsOf("finding") /\ ~IsOf("context")
  BY DEF KeepRule, IInv, StatusInv, TypeOK, IsOf
<1>2. call.result.value = Word(call.answer, "canonical_value")
  BY <1>1 DEF IInv, StatusInv, FinalResult, Result, IsOf
<1>3. call.result.value \in Range(Spellings[call.case])
  BY <1>1, <1>2, ValueIsASpelling
<1> USE DEF IInv
<1>4. /\ DOMAIN call' = DOMAIN call
      /\ call'.case = call.case /\ call'.provider = call.provider
      /\ call'.posts = call.posts /\ call'.retries = call.retries
      /\ call'.answer = call.answer /\ call'.reasons = call.reasons
      /\ call'.status = call.status
      /\ call'.sent = call.sent /\ call'.contextSent = call.contextSent
      /\ told' = told /\ analysis' = analysis
  BY <1>3 DEF KeepRule, Shape
<1>5. \/ /\ ~analysis.there /\ call'.pc = "escaped" /\ call'.result = call.result
      \/ /\ call'.pc = "record" /\ call'.result = OfferedRule(call.result.value)
  BY <1>3 DEF KeepRule, Shape
<1>6. \A kind : IsOf(kind)' <=> IsOf(kind)
  BY <1>4, SameCase
<1>7. Shape'
  BY <1>4 DEF Shape
<1>8. TypeOK'
  BY <1>4, <1>5 DEF TypeOK
<1>9. TellingInv'
  BY <1>4, <1>5, <1>6 DEF TellingInv
<1>10. AttemptsInv'
  BY <1>4, <1>5, <1>6 DEF AttemptsInv
<1>11. AnswerInv'
  BY <1>4, <1>5 DEF AnswerInv
<1>12. StatusInv'
  <2>1. call'.pc = "record" => call'.result = FinalResult'
    BY <1>1, <1>2, <1>4, <1>5, <1>6 DEF FinalResult
  <2> QED BY <1>1, <1>4, <1>5, <1>6, <2>1 DEF StatusInv
<1>13. KeptInv'
  BY <1>1, <1>4, <1>5, <1>6, NotCounted DEF KeptInv
<1> QED BY <1>7, <1>8, <1>9, <1>10, <1>11, <1>12, <1>13

\* So does counting the call.
LEMMA RecordKeeps ==
    ASSUME IInv, Record PROVE IInv'
<1> USE DEF IInv
<1>1. /\ call.pc = "record" /\ DOMAIN call' = DOMAIN call
      /\ call'.case = call.case /\ call'.provider = call.provider
      /\ call'.posts = call.posts /\ call'.retries = call.retries
      /\ call'.answer = call.answer /\ call'.reasons = call.reasons
      /\ call'.status = call.status /\ call'.result = call.result
      /\ call'.sent = call.sent /\ call'.contextSent = call.contextSent
      /\ call'.pc = "done" /\ told' = told
  BY DEF Record, Shape
<1>2. /\ DOMAIN analysis' = DOMAIN analysis
      /\ analysis'.there = analysis.there /\ analysis'.version = analysis.version
      /\ analysis'.questions = analysis.questions
      /\ analysis'.context = analysis.context /\ analysis'.rules = analysis.rules
      /\ analysis'.calls = IF analysis.there THEN Append(analysis.calls, Outcome)
                           ELSE analysis.calls
  <2>1. CASE analysis.there
    <3>1. analysis' = [analysis EXCEPT !.calls = Append(analysis.calls, Outcome)]
      BY <2>1 DEF Record, Outcome
    <3> HIDE DEF Outcome
    <3> QED BY <2>1, <3>1 DEF Shape
  <2>2. CASE ~analysis.there
    <3>1. analysis' = analysis
      BY <2>2 DEF Record
    <3> QED BY <2>2, <3>1
  <2> QED BY <2>1, <2>2
<1>3. \A kind : IsOf(kind)' <=> IsOf(kind)
  BY <1>1, SameCase
<1>4. /\ Outcome' = Outcome /\ analysis.calls = << >>
      /\ analysis'.calls = IF analysis.there THEN << Outcome >> ELSE << >>
  <2>1. Outcome' = Outcome
    BY <1>1 DEF Outcome
  <2>2. analysis.calls = << >>
    BY <1>1, NotCounted
  <2> HIDE DEF Outcome
  <2>3. Append(<< >>, Outcome) = << Outcome >>
    OBVIOUS
  <2> QED BY <1>2, <2>1, <2>2, <2>3
<1>5. Shape'
  BY <1>1, <1>2 DEF Shape
<1>6. TypeOK'
  <2>1. Len(analysis'.calls) <= 1
    <3> HIDE DEF Outcome
    <3> QED BY <1>4
  <2> QED BY <1>1, <1>2, <2>1 DEF TypeOK
<1>7. TellingInv'
  BY <1>1, <1>3 DEF TellingInv
<1>8. AttemptsInv'
  BY <1>1, <1>3 DEF AttemptsInv
<1>9. AnswerInv'
  BY <1>1 DEF AnswerInv
<1>10. StatusInv'
  <2>1. FinalResult' = FinalResult
    BY <1>1, <1>3 DEF FinalResult
  <2> QED BY <1>1, <1>2, <1>3, <2>1 DEF StatusInv
<1>11. KeptInv'
  <2>1. /\ analysis'.calls = IF call'.pc = "done" /\ analysis'.calls # << >>
                             THEN << Outcome' >> ELSE << >>
        /\ analysis'.calls # << >> \/ ~analysis'.there
    <3> HIDE DEF Outcome
    <3>1. << Outcome >> # << >>
      OBVIOUS
    <3> QED BY <1>1, <1>2, <1>4, <3>1
  <2> QED BY <1>1, <1>2, <1>3, <2>1 DEF KeptInv
<1> QED BY <1>5, <1>6, <1>7, <1>8, <1>9, <1>10, <1>11

\* What others do to the analysis, and the offer that is accepted.
LEMMA OthersKeep ==
    ASSUME IInv, AcceptOffer \/ OthersEdit \/ OthersDelete PROVE IInv'
<1> USE DEF IInv
<1>1. /\ call' = call /\ told' = told /\ DOMAIN analysis' = DOMAIN analysis
      /\ analysis'.context = analysis.context /\ analysis'.calls = analysis.calls
      /\ analysis'.questions = analysis.questions
      /\ analysis'.there = analysis.there \/ analysis'.there = FALSE
      /\ analysis'.version = analysis.version \/ analysis'.version = 2
      /\ \/ analysis'.rules = analysis.rules
         \/ /\ analysis'.rules = {call.result}
            /\ IsGenuine(call.result, Spellings[call.case])
      /\ call.pc = "done" => (analysis.there => analysis.calls # << >>)
  <2>1. CASE AcceptOffer
    BY <2>1 DEF AcceptOffer, Shape, KeptInv
  <2>2. CASE OthersEdit
    BY <2>2 DEF OthersEdit, Shape, KeptInv
  <2>3. CASE OthersDelete
    BY <2>3 DEF OthersDelete, Shape, KeptInv
  <2> QED BY <2>1, <2>2, <2>3
<1>2. \A kind : IsOf(kind)' <=> IsOf(kind)
  BY <1>1, SameCase
<1>3. Shape'
  BY <1>1 DEF Shape
<1>4. TypeOK'
  <2>1. analysis.there \in BOOLEAN /\ analysis.version \in 1 .. 2
    BY DEF TypeOK
  <2>2. analysis'.there \in BOOLEAN
    BY <1>1, <2>1
  <2>3. analysis'.version \in 1 .. 2
    BY <1>1, <2>1
  <2>4. call' = call /\ analysis'.calls = analysis.calls
    BY <1>1
  <2> QED BY <2>2, <2>3, <2>4 DEF TypeOK
<1>5. TellingInv'
  BY <1>1, <1>2 DEF TellingInv
<1>6. AttemptsInv'
  BY <1>1, <1>2 DEF AttemptsInv
<1>7. AnswerInv'
  BY <1>1 DEF AnswerInv
<1>8. StatusInv'
  <2>1. FinalResult' = FinalResult
    BY <1>1, <1>2 DEF FinalResult
  <2> QED BY <1>1, <1>2, <2>1 DEF StatusInv
<1>9. KeptInv'
  <2>1. Outcome' = Outcome
    BY <1>1 DEF Outcome
  <2> QED BY <1>1, <1>2, <2>1 DEF KeptInv
<1> QED BY <1>3, <1>4, <1>5, <1>6, <1>7, <1>8, <1>9

\* A step that changes nothing keeps the invariant.
LEMMA StutterKeeps ==
    ASSUME IInv, UNCHANGED vars PROVE IInv'
<1> USE DEF IInv
<1>1. call' = call /\ told' = told /\ analysis' = analysis
  BY DEF vars
<1>2. \A kind : IsOf(kind)' <=> IsOf(kind)
  BY <1>1, SameCase
<1>3. FinalResult' = FinalResult /\ Outcome' = Outcome
  BY <1>1, <1>2 DEF FinalResult, Outcome
<1>4. Shape' /\ TypeOK'
  BY <1>1 DEF Shape, TypeOK
<1>5. TellingInv' /\ AttemptsInv' /\ AnswerInv'
  BY <1>1, <1>2 DEF TellingInv, AttemptsInv, AnswerInv
<1>6. StatusInv'
  BY <1>1, <1>2, <1>3 DEF StatusInv
<1>7. KeptInv'
  BY <1>1, <1>2, <1>3 DEF KeptInv
<1> QED BY <1>4, <1>5, <1>6, <1>7

\* Every step of a call, and of the others, keeps the invariant.
LEMMA NextKeeps ==
    ASSUME IInv, [Next]_vars PROVE IInv'
<1>1. CASE Build           BY <1>1, BuildKeeps
<1>2. CASE Post            BY <1>2, PostKeeps
<1>3. CASE FormatRefused   BY <1>3, FormatRefusedKeeps
<1>4. CASE ProviderFails   BY <1>4, ProviderFailsKeeps
<1>5. CASE ModelAnswers    BY <1>5, ModelAnswersKeeps
<1>6. CASE MockAnswers     BY <1>6, MockAnswersKeeps
<1>7. CASE KeepFinding     BY <1>7, KeepFindingKeeps
<1>8. CASE KeepContext     BY <1>8, KeepContextKeeps
<1>9. CASE Reread          BY <1>9, RereadKeeps
<1>10. CASE KeepRule       BY <1>10, KeepRuleKeeps
<1>11. CASE Record         BY <1>11, RecordKeeps
<1>12. CASE AcceptOffer \/ OthersEdit \/ OthersDelete
  BY <1>12, OthersKeep
<1>13. CASE UNCHANGED vars BY <1>13, StutterKeeps
<1> QED
  BY <1>1, <1>2, <1>3, <1>4, <1>5, <1>6, <1>7, <1>8, <1>9, <1>10, <1>11, <1>12,
     <1>13 DEF Next

\* The invariant holds in every state.
THEOREM ModelCallsInvariant == Spec => []IInv
<1>1. Init => IInv
  BY InitIInv
<1>2. IInv /\ [Next]_vars => IInv'
  BY NextKeeps
<1> QED BY <1>1, <1>2, PTL DEF Spec

\* The types of the variables.
THEOREM ModelCallsTypeCorrect == Spec => []TypeOK
<1>1. IInv => TypeOK
  BY DEF IInv
<1> QED BY <1>1, ModelCallsInvariant, PTL

\* The words of a contract are no content of cells, except the spellings.
LEMMA ContractsAreMetadata ==
    ASSUME NEW c \in DOMAIN Cases
    PROVE  ContractWords(c) \subseteq
               Metadata(c) \cup (IF Cases[c].kind = "rule" THEN Range(Spellings[c])
                                 ELSE {})
<1>1. Cases[c].kind \in {"finding", "context", "rule"}
  BY CasesAssumption
<1>2. CASE Cases[c].kind = "finding"
  <2>1. ContractWords(c) = DOMAIN KnownNumericFacts(Cases[c].evidence)
    BY <1>2, RequestIs DEF ContractWords
  <2>2. ASSUME NEW k \in DOMAIN KnownNumericFacts(Cases[c].evidence)
        PROVE  \E e \in Range(Cases[c].evidence) : k \in DOMAIN e.payload
    BY <2>2 DEF KnownNumericFacts
  <2> QED BY <2>1, <2>2 DEF Metadata
<1>3. CASE Cases[c].kind = "context"
  BY <1>3 DEF ContractWords
<1>4. CASE Cases[c].kind = "rule"
  BY <1>4 DEF ContractWords
<1> QED BY <1>1, <1>2, <1>3, <1>4

\* A model is shown what is confirmed of a context, or nothing of it.
LEMMA ConfirmedIs ==
    ASSUME NEW c \in DOMAIN Cases, Cases[c].kind = "finding"
    PROVE  /\ Shown(c).fields = DOMAIN Context[c]
           /\ \A f \in DOMAIN Context[c] :
                  /\ Cases[c].context[f].state \in {"confirmed", "corrected"}
                  /\ Cases[c].finalized
           /\ Context[c] = NoContext <=> DOMAIN Context[c] = {}
<1>1. Context[c] = ConfirmedContext(Cases[c].context, Cases[c].finalized)
  BY DEF Context
<1>2. Shown(c).fields = DOMAIN Context[c]
  BY RequestIs DEF Shown, Told
<1>3. DOMAIN NoContext = {}
  BY DEF NoContext
<1>4. \A f \in DOMAIN Context[c] :
          /\ Cases[c].context[f].state \in {"confirmed", "corrected"}
          /\ Cases[c].finalized
  BY <1>1, <1>3 DEF ConfirmedContext
<1>5. ASSUME DOMAIN Context[c] = {} PROVE Context[c] = NoContext
  BY <1>1, <1>5 DEF ConfirmedContext, NoContext
<1> QED BY <1>2, <1>3, <1>4, <1>5

-------------------------------------------------------------------------------
(* The theorems.                                                           *)

\* Nothing told is no word, no number and no field.
LEMMA NothingToldIs ==
    NothingTold.words = {} /\ NothingTold.numbers = {} /\ NothingTold.fields = {}
BY DEF NothingTold, Told

\* What a model is told is no content of cells and nothing unconfirmed.
LEMMA OnlyFactsAreToldThen == IInv => OnlyFactsAreTold
<1> SUFFICES ASSUME IInv PROVE OnlyFactsAreTold
  OBVIOUS
<1>1. call.case \in DOMAIN Cases /\ told \in {NothingTold, Shown(call.case)}
  BY DEF IInv, TypeOK, TellingInv
<1>2. CASE told = NothingTold
  <2>1. told.words = {} /\ told.fields = {}
    BY <1>2, NothingToldIs
  <2> QED BY <2>1 DEF OnlyFactsAreTold
<1>3. CASE told = Shown(call.case)
  <2>1. told.words = PromptWords(Envelopes[call.case]) \cup ContractWords(call.case)
    BY <1>3 DEF Shown, Told
  <2>2. told.words \subseteq Metadata(call.case) \cup
            (IF IsOf("rule") THEN Range(Spellings[call.case]) ELSE {})
    BY <1>1, <2>1, PromptIsMetadata, ContractsAreMetadata DEF IsOf
  <2>3. CellWords \cap Metadata(call.case) = {}
    BY <1>1, CellWordsAreOfCells
  <2>4. told.words \cap CellWords \subseteq
            (IF IsOf("rule") THEN Range(Spellings[call.case]) ELSE {})
    BY <2>2, <2>3
  <2>5. ASSUME IsOf("finding"), NEW f \in told.fields
        PROVE  /\ Cases[call.case].context[f].state \in {"confirmed", "corrected"}
               /\ Cases[call.case].finalized
    BY <1>1, <1>3, <2>5, ConfirmedIs DEF IsOf
  <2> QED BY <2>4, <2>5 DEF OnlyFactsAreTold
<1> QED BY <1>1, <1>2, <1>3

\* An explanation that was made is grounded in what was told.
LEMMA ExplanationThen ==
    ASSUME IInv, IsOf("finding"), call.result # NoResult
    PROVE  ExplanationIsGrounded(call.result)
<1>1. call.case \in DOMAIN Cases /\ Cases[call.case].kind = "finding"
  BY DEF IInv, TypeOK, IsOf
<1>2. /\ call.status = "accepted" /\ call.pc # "escaped"
      /\ call.answer # NoAnswer /\ call.reasons = {}
      /\ call.result = FinalResult
  BY DEF IInv, StatusInv
<1>3. /\ told = Shown(call.case)
      /\ Reasons(call.case, call.answer) = {}
  BY <1>2 DEF IInv, AnswerInv
<1>4. FindingReasons(call.answer, Request[call.case]) = {}
  BY <1>1, <1>3 DEF Reasons
<1>5. call.result = Explanation(call.answer, Request[call.case])
  BY <1>1, <1>2 DEF FinalResult, Result, IsOf
<1> QED BY <1>1, <1>3, <1>4, <1>5, AcceptedExplanationIsGrounded

\* The context of a case is the inferred one.
LEMMA CaseInferred ==
    ASSUME NEW c \in DOMAIN Cases, Cases[c].kind = "context"
    PROVE  Inferred[c] = InferredContext(Cases[c].columns)
BY DEF Inferred, CasesOf

\* The context of a dataset is the inferred one, but for its probable domain.
LEMMA OnlyTheDomainThen ==
    ASSUME IInv, IsOf("context")
    PROVE  OnlyTheDomainIsRefined
<1> DEFINE c == call.case
           inferred == Inferred[c]
           refined == RefinedContext(Cases[c].columns, call.answer)
<1>1. c \in DOMAIN Cases /\ Cases[c].kind = "context"
  BY DEF IInv, TypeOK, IsOf
<1>2. inferred = InferredContext(Cases[c].columns)
  BY <1>1, CaseInferred
<1>3. Result(c, call.answer) = refined
  BY <1>1 DEF Result
<1>4. /\ \/ analysis.context = inferred
         \/ call.status = "accepted" /\ analysis.context = refined
      /\ call.status = "accepted" /\ call.pc \in {"reread", "record", "done"} =>
             analysis.context = refined
      /\ analysis.questions = GuidedQuestions(inferred)
  BY <1>3 DEF IInv, KeptInv
<1>5. ASSUME call.status = "accepted"
      PROVE  Field(call.answer, "narrative") = refined["probable_domain"].value
  <2>1. call.answer # NoAnswer /\ Reasons(c, call.answer) = {}
    BY <1>5 DEF IInv, StatusInv, AnswerInv
  <2>2. IsObject(call.answer) /\ IsJson(call.answer)
    BY <1>1, <2>1, AnswersAre DEF IInv, AnswerInv
  <2>3. AnswerReasons(call.answer, Envelopes[c]) = {}
    BY <1>1, <2>1 DEF Reasons
  <2> QED BY <2>2, <2>3, AnswerAccepted, DomainIsAnswered
<1>6. ASSUME NEW f \in ContextFields \ {"probable_domain"}
      PROVE  analysis.context[f] = inferred[f]
  <2>1. refined[f] = InferredContext(Cases[c].columns)[f]
    BY OtherFieldsStay
  <2> HIDE DEF refined, inferred
  <2> QED BY <1>2, <1>4, <2>1
<1>7. ASSUME \/ analysis.context # inferred
             \/ call.status = "accepted" /\ call.pc \in {"reread", "record", "done"}
      PROVE  analysis.context["probable_domain"].value =
                 Field(call.answer, "narrative")
  <2> HIDE DEF refined, inferred
  <2> QED BY <1>4, <1>5, <1>7
<1>8. ASSUME NEW f \in ContextFields, f \in analysis.questions
      PROVE  inferred[f].value \in {Str("unknown"), List(<<>>)}
  <2>1. InferredContext(Cases[c].columns)[f].state = "unknown"
    BY <1>2, <1>4, <1>8 DEF GuidedQuestions
  <2> QED BY <1>2, <2>1, UnknownIs
<1> QED BY <1>6, <1>7, <1>8 DEF OnlyTheDomainIsRefined

\* What a model is told, and what is kept of what it answers
\* (ai_boundary/prompt.py, _Grounding, _build_explanation,
\* apply_ai_context_augmentation, finalize_ai_assisted_rule), whatever it answers.
THEOREM AcceptedIsGroundedHolds == Spec => []AcceptedIsGrounded
<1>1. IInv => AcceptedIsGrounded
  <2>1. IInv => \A r \in analysis.rules : IsGenuine(r, Spellings[call.case])
    BY DEF IInv, KeptInv
  <2> QED BY <2>1, OnlyFactsAreToldThen, ExplanationThen, OnlyTheDomainThen
             DEF AcceptedIsGrounded
<1> QED BY <1>1, ModelCallsInvariant, PTL

\* The contract of a request and the validator of its answers agree on every
\* answer (finding_analysis_json_schema, validate_finding_analysis_output,
\* rule_generation_json_schema, validate_rule_generation_output).
THEOREM SchemaAndValidatorAgreeHolds == Spec => []SchemaAndValidatorAgree
<1>1. ASSUME IInv, call.answer # NoAnswer, ~IsOf("context")
      PROVE  LET conforms == SchemaAllows(call.case, call.answer)
                 blank    == \E w \in Words(call.answer) : Facts(w).blank
             IN  /\ call.reasons = {} => conforms
                 /\ conforms => call.reasons \subseteq
                        ((IF IsOf("finding") THEN ReasonsOfContent ELSE {}) \cup
                         (IF blank THEN {"schema_invalid"} ELSE {}))
  <2> DEFINE c == call.case
             a == call.answer
  <2>1. c \in DOMAIN Cases /\ Cases[c].kind \in {"finding", "rule"}
    BY <1>1, CasesAssumption DEF IInv, TypeOK, IsOf
  <2>2. call.reasons = Reasons(c, a) /\ IsObject(a) /\ IsJson(a)
    BY <1>1, <2>1, AnswersAre DEF IInv, AnswerInv
  <2>3. CASE Cases[c].kind = "finding"
    <3>1. /\ Reasons(c, a) = FindingReasons(a, Request[c])
          /\ SchemaAllows(c, a) <=> FindingSchemaAllows(a, Request[c])
          /\ IsOf("finding")
      BY <2>3 DEF Reasons, SchemaAllows, IsOf
    <3> QED BY <2>2, <3>1, AcceptedIsAllowed, AllowedIsRejectedForContent
               DEF ContentOr
  <2>4. CASE Cases[c].kind = "rule"
    <3>1. /\ Reasons(c, a) = RuleAnswerReasons(a, Spellings[c])
          /\ SchemaAllows(c, a) <=> RuleSchemaAllows(a, Spellings[c])
          /\ ~IsOf("finding")
      BY <2>4 DEF Reasons, SchemaAllows, IsOf
    <3> QED BY <2>2, <3>1, RuleAgrees
  <2> QED BY <2>1, <2>3, <2>4
<1>2. IInv => SchemaAndValidatorAgree
  BY <1>1 DEF SchemaAndValidatorAgree
<1> QED BY <1>2, ModelCallsInvariant, PTL

\* What a model was told and what the call says was sent.
LEMMA TellingThen ==
    ASSUME IInv
    PROVE  /\ told.words # {} => call.sent
           /\ call.provider = "llama_cpp" => (call.posts > 0 <=> told.words # {})
           /\ IsOf("finding") /\ told.words # {} =>
                  (call.contextSent <=> told.fields # {})
<1>1. call.case \in DOMAIN Cases /\ told \in {NothingTold, Shown(call.case)}
  BY DEF IInv, TypeOK, TellingInv
<1>2. told.words # {} <=> told = Shown(call.case)
  BY <1>1, NothingToldIs, PromptIsNotEmpty
<1>3. told = NothingTold <=> told # Shown(call.case)
  BY <1>1, ShownIsSomething
<1>4. told = Shown(call.case) => call.sent
  BY DEF IInv, TellingInv
<1>5. call.provider = "llama_cpp" => (call.posts > 0 <=> told.words # {})
  <2>1. call.posts \in Nat
    BY DEF IInv, TypeOK
  <2>2. call.provider = "llama_cpp" => (call.posts = 0 <=> told = NothingTold)
    BY DEF IInv, TellingInv
  <2>3. call.posts > 0 <=> call.posts # 0
    BY <2>1
  <2> QED BY <1>2, <1>3, <2>2, <2>3
<1>6. ASSUME IsOf("finding"), told = Shown(call.case)
      PROVE  call.contextSent <=> told.fields # {}
  <2>1. call.contextSent <=> Context[call.case] # NoContext
    BY <1>4, <1>6 DEF IInv, TellingInv
  <2>2. Cases[call.case].kind = "finding"
    BY <1>6 DEF IsOf
  <2> QED BY <1>1, <1>6, <2>1, <2>2, ConfirmedIs
<1> QED BY <1>2, <1>4, <1>5, <1>6

\* A value a model has chosen is one of the spellings of its case.
LEMMA OfferIsGenuine ==
    ASSUME IInv, call.pc = "done", IsOf("rule"), call.status = "accepted"
    PROVE  IsGenuine(call.result, Spellings[call.case])
<1> DEFINE value == Word(call.answer, "canonical_value")
           spellings == Spellings[call.case]
<1>1. call.answer # NoAnswer /\ call.reasons = {} /\ call.result = FinalResult
  BY DEF IInv, StatusInv
<1>2. call.result = OfferedRule(value)
  BY <1>1 DEF FinalResult
<1>3. value \in Range(spellings)
  BY ValueIsASpelling
<1>4. spellings # << >>
  <2>1. call.case \in DOMAIN Cases /\ Cases[call.case].kind = "rule"
    BY DEF IInv, TypeOK, IsOf
  <2> QED BY <2>1, CasesAssumption
<1> HIDE DEF value, spellings
<1>5. /\ OfferedRule(value).type = "accepted_values"
      /\ Len(OfferedRule(value).accepted) = 1
      /\ OfferedRule(value).accepted[1] = value
  BY DEF OfferedRule
<1>6. IsGenuine(OfferedRule(value), spellings)
  BY <1>3, <1>4, <1>5 DEF IsGenuine
<1> QED BY <1>2, <1>6 DEF spellings

\* The answer of the mock provider.
LEMMA MockIsAcceptedThen == IInv => MockIsAccepted
<1> SUFFICES ASSUME IInv, call.provider = "mock", call.answer # NoAnswer,
                    ~IsCrowded(call.case)
             PROVE  call.reasons = {} /\ call.retries = 0
  BY DEF MockIsAccepted, IsCrowded, IsOf
<1>1. call.answer = MockOutput(call.case)
  BY DEF IInv, AnswerInv
<1>2. call.reasons = Reasons(call.case, MockOutput(call.case))
  BY <1>1 DEF IInv, AnswerInv
<1>3. call.case \in DOMAIN Cases
  BY DEF IInv, TypeOK
<1>4. call.reasons = {}
  BY <1>2, <1>3, MockOutputIs DEF IsCrowded
<1>5. call.retries = 0
  BY DEF IInv, AttemptsInv
<1> QED BY <1>4, <1>5

\* How often a model is asked.
LEMMA AttemptsThen ==
    ASSUME IInv
    PROVE  /\ call.retries <= RetriesOf(call.case)
           /\ call.posts <= (IF IsOf("context") THEN 1 ELSE 2) * (call.retries + 1)
<1>1. /\ call.retries <= RetriesOf(call.case)
      /\ call.posts <= MostPosts(call.case, call.retries + 1)
  BY DEF IInv, AttemptsInv
<1>2. call.retries + 1 \in Nat
  BY DEF IInv, TypeOK, MaxRetries
<1>3. MostPosts(call.case, call.retries + 1) =
          (IF IsOf("context") THEN 1 ELSE 2) * (call.retries + 1)
  BY <1>2 DEF MostPosts, IsOf
<1> QED BY <1>1, <1>3

\* How a call is counted.
LEMMA CountedThen ==
    ASSUME IInv
    PROVE  /\ call.pc = "escaped" => ~analysis.there \/ analysis.version = 2
           /\ call.pc = "done" /\ analysis.there => analysis.calls = << Outcome >>
           /\ call.status = "rejected" =>
                  call.retries = RetriesOf(call.case) /\ call.reasons # {}
<1> HIDE DEF Outcome
<1>1. call.pc = "escaped" => ~analysis.there \/ analysis.version = 2
  BY DEF IInv, StatusInv
<1>2. call.pc = "done" /\ analysis.there => analysis.calls = << Outcome >>
  BY DEF IInv, KeptInv
<1>3. call.status = "rejected" =>
          call.retries = RetriesOf(call.case) /\ call.reasons # {}
  BY DEF IInv, StatusInv
<1> QED BY <1>1, <1>2, <1>3

\* What a call raises for.
LEMMA RaisesThen ==
    ASSUME IInv, call.pc \in {"record", "done"}, call.status = "provider_error",
           call.answer # NoAnswer
    PROVE  \/ Field(call.answer, "narrative") = Str(NoText)
           \/ \E k \in DOMAIN UnknownReason :
                  IsGiven(call.answer, k)
                      /\ ~IsListOfStrings(Field(call.answer, k))
<1>1. call.case \in DOMAIN Cases
  BY DEF IInv, TypeOK
<1>2. Raises(call.case, call.answer)
  BY DEF IInv, StatusInv
<1>3. IsObject(call.answer) /\ IsJson(call.answer)
  BY <1>1, AnswersAre DEF IInv, AnswerInv
<1> QED BY <1>1, <1>2, <1>3, RaisedFor

\* A call ends after as many attempts as agreed, says truly what was sent, and is
\* counted once with how it ended (run_finding_explanation, run_context_inference,
\* run_rule_generation, LlamaCppProvider.complete, _record_enrichment).
THEOREM CallsEndAsPromisedHolds == Spec => []CallsEndAsPromised
<1>1. IInv => CallsEndAsPromised
  BY TellingThen, OfferIsGenuine, MockIsAcceptedThen, AttemptsThen, CountedThen,
     RaisesThen DEF CallsEndAsPromised, Outcome
<1> QED BY <1>1, ModelCallsInvariant, PTL
===============================================================================
