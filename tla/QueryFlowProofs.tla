-------------------------- MODULE QueryFlowProofs --------------------------
(***************************************************************************)
(* Proofs about one question.  For every finite set of chunks, every set   *)
(* of scores and every list of policies: types, the gate in front of the   *)
(* model, and what a served answer rests on.  For every list of builds and *)
(* every width of the channels: what the retriever hands to it.            *)
(***************************************************************************)
EXTENDS QueryFlow, Retriever, TLAPS, FiniteSetTheorems, FunctionTheorems, SequenceTheorems

----------------------------------------------------------------------------
(* Sets of naturals and the list without repeats.                          *)

\* A set of naturals that is not empty has a least member.
LEMMA LeastMember ==
    ASSUME NEW F \in SUBSET Nat, F # {}
    PROVE  \E i \in F : \A j \in F : i <= j
<1> DEFINE less == {ss \in Nat \X Nat : ss[1] < ss[2]}
<1>1. IsWellFoundedOn(less, Nat)
    BY NatLessThanWellFounded DEF OpToRel
<1>2. PICK i \in F : \A j \in F : ~(<<j, i>> \in less)
    <2> HIDE DEF less
    <2> QED
        BY <1>1, WFMin
<1>3. \A j \in F : ~(j < i)
    BY <1>2
<1> QED
    BY <1>3

\* The members of a finite set of naturals can be numbered from below.
LEMMA Numbered ==
    ASSUME NEW F \in SUBSET Nat, IsFiniteSet(F), NEW k \in 1 .. Cardinality(F)
    PROVE  \E i \in F : Cardinality({j \in F : j <= i}) = k
<1> DEFINE upTo(i) == {j \in F : j <= i}
           number == [i \in F |-> Cardinality(upTo(i))]
<1>1. ASSUME NEW i \in F
      PROVE  /\ IsFiniteSet(upTo(i)) /\ Cardinality(upTo(i)) \in 1 .. Cardinality(F)
    <2>1. upTo(i) \in SUBSET F
        OBVIOUS
    <2>2. IsFiniteSet(upTo(i)) /\ Cardinality(upTo(i)) <= Cardinality(F)
        BY <2>1, FS_Subset
    <2>3. upTo(i) # {}
        OBVIOUS
    <2>4. Cardinality(upTo(i)) \in Nat /\ Cardinality(F) \in Nat
        BY <2>2, FS_CardinalityType
    <2>5. Cardinality(upTo(i)) # 0
        BY <2>2, <2>3, FS_EmptySet
    <2> HIDE DEF upTo
    <2> QED
        BY <2>2, <2>4, <2>5
<1>2. ASSUME NEW i \in F, NEW j \in F, i < j
      PROVE  Cardinality(upTo(i)) # Cardinality(upTo(j))
    <2>1. upTo(i) \in SUBSET upTo(j) /\ upTo(i) # upTo(j)
        <3>1. j \in upTo(j) /\ j \notin upTo(i)
            BY <1>2
        <3>2. ASSUME NEW x \in upTo(i) PROVE x \in upTo(j)
            <4>1. x \in Nat /\ i \in Nat /\ j \in Nat /\ x <= i
                OBVIOUS
            <4> QED
                BY <1>2, <4>1
        <3> QED
            BY <3>1, <3>2
    <2>2. IsFiniteSet(upTo(j))
        BY <1>1
    <2> QED
        BY <2>1, <2>2, FS_Subset
<1>3. number \in [F -> 1 .. Cardinality(F)]
    BY <1>1
<1>4. IsInjective(number)
    <2> SUFFICES ASSUME NEW i \in F, NEW j \in F, number[i] = number[j]
                 PROVE  i = j
        BY <1>3 DEF IsInjective
    <2>1. Cardinality(upTo(i)) = Cardinality(upTo(j))
        OBVIOUS
    <2>2. i \in Nat /\ j \in Nat
        OBVIOUS
    <2> HIDE DEF upTo, number
    <2> QED
        BY <1>2, <2>1, <2>2
<1>5. Cardinality(F) \in Nat
    BY FS_CardinalityType
<1>6. IsFiniteSet(1 .. Cardinality(F)) /\ Cardinality(1 .. Cardinality(F)) = Cardinality(F)
    BY <1>5, FS_Interval
<1>7. number \in Injection(F, 1 .. Cardinality(F))
    BY <1>3, <1>4 DEF Injection
<1>8. number \in Surjection(F, 1 .. Cardinality(F))
    BY <1>6, <1>7, FS_Injection
<1>9. \E i \in F : number[i] = k
    BY <1>8 DEF Surjection
<1> QED
    BY <1>9

\* WithoutRepeats keeps what is in a list, once each, and nothing else.
LEMMA EachOnce ==
    ASSUME NEW S, NEW n \in Nat, NEW s \in [1 .. n -> S]
    PROVE  LET t == WithoutRepeats(s) IN
           /\ \E m \in Nat : t \in [1 .. m -> S]
           /\ ToSet(t) = ToSet(s)
           /\ \A a, b \in DOMAIN t : t[a] = t[b] => a = b
<1> DEFINE firsts == {i \in DOMAIN s : \A j \in 1 .. i - 1 : s[j] # s[i]}
           upTo(i) == {j \in firsts : j <= i}
           place(k) == CHOOSE i \in firsts : Cardinality(upTo(i)) = k
           t == [k \in 1 .. Cardinality(firsts) |-> s[place(k)]]
<1>1. WithoutRepeats(s) = t
    BY DEF WithoutRepeats
<1>2. firsts \in SUBSET Nat /\ firsts \in SUBSET (1 .. n)
    OBVIOUS
<1>3. IsFiniteSet(firsts)
    BY <1>2, FS_Interval, FS_Subset
<1>4. Cardinality(firsts) \in Nat
    BY <1>3, FS_CardinalityType
<1>5. ASSUME NEW k \in 1 .. Cardinality(firsts)
      PROVE  place(k) \in firsts /\ Cardinality(upTo(place(k))) = k
    <2>1. \E i \in firsts : Cardinality(upTo(i)) = k
        BY <1>2, <1>3, Numbered
    <2> HIDE DEF firsts, upTo
    <2> QED
        BY <2>1
<1>6. \A k \in 1 .. Cardinality(firsts) : t[k] \in S
    <2> SUFFICES ASSUME NEW k \in 1 .. Cardinality(firsts) PROVE s[place(k)] \in S
        OBVIOUS
    <2>1. place(k) \in 1 .. n
        BY <1>5, <1>2
    <2> QED
        BY <2>1
<1>7. t \in [1 .. Cardinality(firsts) -> S]
    BY <1>6
<1>8. ASSUME NEW a \in 1 .. Cardinality(firsts), NEW b \in 1 .. Cardinality(firsts), t[a] = t[b]
      PROVE  a = b
    <2>1. place(a) \in firsts /\ place(b) \in firsts /\ s[place(a)] = s[place(b)]
        BY <1>5, <1>8
    <2>2. ASSUME NEW i \in firsts, NEW j \in firsts, s[i] = s[j] PROVE i = j
        <3>1. i \in 1 .. n /\ j \in 1 .. n /\ i \in Nat /\ j \in Nat
            BY <1>2
        <3>2. ~(i < j)
            BY <3>1, <2>2
        <3>3. ~(j < i)
            BY <3>1, <2>2
        <3> HIDE DEF firsts
        <3> QED
            BY <3>1, <3>2, <3>3
    <2>3. place(a) = place(b)
        BY <2>1, <2>2
    <2> HIDE DEF place
    <2> QED
        BY <1>5, <2>3
<1>9. ASSUME NEW i \in 1 .. n
      PROVE  \E k \in 1 .. Cardinality(firsts) : t[k] = s[i]
    <2> DEFINE same == {j \in 1 .. n : s[j] = s[i]}
    <2>1. same \in SUBSET Nat /\ same # {}
        OBVIOUS
    <2>2. PICK j \in same : \A h \in same : j <= h
        BY <2>1, LeastMember
    <2>3. j \in firsts
        <3>1. j \in 1 .. n /\ s[j] = s[i]
            OBVIOUS
        <3>2. ASSUME NEW h \in 1 .. j - 1 PROVE s[h] # s[j]
            <4>1. h \in 1 .. n /\ ~(j <= h)
                BY <3>1
            <4> QED
                BY <4>1, <3>1, <2>2
        <3> QED
            BY <3>1, <3>2
    <2> DEFINE k == Cardinality(upTo(j))
    <2>4. k \in 1 .. Cardinality(firsts)
        <3>1. upTo(j) \in SUBSET firsts /\ j \in upTo(j)
            BY <2>3, <1>2
        <3>2. IsFiniteSet(upTo(j)) /\ k <= Cardinality(firsts)
            BY <3>1, <1>3, FS_Subset
        <3>3. k \in Nat /\ k # 0
            BY <3>1, <3>2, FS_CardinalityType, FS_EmptySet
        <3> HIDE DEF k
        <3> QED
            BY <3>2, <3>3, <1>4
    <2>5. ASSUME NEW h \in firsts, Cardinality(upTo(h)) = k PROVE h = j
        <3>1. ASSUME NEW x \in firsts, NEW y \in firsts, x < y
              PROVE  Cardinality(upTo(x)) # Cardinality(upTo(y))
            <4>1. upTo(x) \in SUBSET upTo(y) /\ y \in upTo(y) /\ y \notin upTo(x)
                BY <3>1, <1>2
            <4>2. IsFiniteSet(upTo(y))
                <5>1. upTo(y) \in SUBSET firsts
                    OBVIOUS
                <5> QED
                    BY <5>1, <1>3, FS_Subset
            <4>3. upTo(x) # upTo(y)
                BY <4>1
            <4> QED
                BY <4>1, <4>2, <4>3, FS_Subset
        <3>2. h \in Nat /\ j \in Nat
            BY <1>2, <2>3
        <3> HIDE DEF firsts, upTo
        <3>3. ~(h < j) /\ ~(j < h)
            BY <3>1, <2>3, <2>5
        <3> QED
            BY <3>2, <3>3
    <2>6. place(k) = j
        <3>1. place(k) \in firsts /\ Cardinality(upTo(place(k))) = k
            BY <2>4, <1>5
        <3> HIDE DEF place
        <3> QED
            BY <2>5, <3>1
    <2>7. t[k] = s[place(k)]
        BY <2>4
    <2>8. s[j] = s[i]
        OBVIOUS
    <2> QED
        BY <2>4, <2>6, <2>7, <2>8
<1>10. ToSet(t) = ToSet(s)
    <2>1. DOMAIN t = 1 .. Cardinality(firsts) /\ DOMAIN s = 1 .. n
        OBVIOUS
    <2>2. ASSUME NEW k \in 1 .. Cardinality(firsts) PROVE \E i \in 1 .. n : t[k] = s[i]
        <3>1. place(k) \in 1 .. n
            BY <1>5, <1>2
        <3> QED
            BY <3>1
    <2> HIDE DEF t, firsts
    <2>3. \A k \in DOMAIN t : t[k] \in ToSet(s)
        BY <2>1, <2>2 DEF ToSet
    <2>4. \A i \in DOMAIN s : s[i] \in ToSet(t)
        BY <1>9, <2>1 DEF ToSet
    <2> QED
        BY <2>3, <2>4, Zenon DEF ToSet
<1>11. DOMAIN t = 1 .. Cardinality(firsts)
    OBVIOUS
<1> HIDE DEF t
<1> QED
    BY <1>1, <1>4, <1>7, <1>8, <1>10, <1>11

----------------------------------------------------------------------------
(* The resolvers and the gate.                                             *)

\* CitationResolver rejects the whole set or passes it on as it is.
LEMMA AllCitationsOrNone ==
    ASSUME NEW cited, NEW listed, NEW classes
    PROVE  LET r == ResolveCitations(cited, listed, classes) IN
           \/ /\ r.failure = "none" /\ r.citations = cited
              /\ \A c \in ToSet(cited) : c \in ChunksOf(listed) /\ classes[c] = "complete"
           \/ r.failure = "unresolved_citation" /\ r.citations = <<>>
BY DEF ResolveCitations, Resolution

\* What `cited` owes the evidence it was resolved from.
Vouched(evidence, listed, classes, cited) ==
    /\ cited # <<>>
    /\ \A c \in ToSet(cited) : c \in ChunksOf(listed) /\ classes[c] = "complete"
    /\ \A e \in ToSet(evidence) : e.quote = "verbatim" /\ e.chunk \in ToSet(cited)
    /\ \A i, j \in DOMAIN cited : cited[i] = cited[j] => i = j

\* GroundedEvidenceResolver accepts only evidence of which every item is a
\* verbatim quote, and cites every chunk quoted, each once.
LEMMA EvidenceAllVerbatim ==
    ASSUME NEW C, NEW n \in Nat, NEW evidence \in [1 .. n -> [chunk : C, quote : Quotes]],
           NEW listed, NEW classes,
           ResolveEvidence(evidence, listed, classes).failure = "none"
    PROVE  Vouched(evidence, listed, classes,
                   ResolveEvidence(evidence, listed, classes).citations)
<1> DEFINE faulty == {i \in DOMAIN evidence : EvidenceFault(evidence[i], listed) # "none"}
           first == CHOOSE i \in faulty : \A j \in faulty : i <= j
           quoted == [i \in DOMAIN evidence |-> evidence[i].chunk]
           cited == WithoutRepeats(quoted)
<1>1. faulty # {} => first \in faulty
    <2> SUFFICES ASSUME faulty # {} PROVE first \in faulty
        OBVIOUS
    <2>1. faulty \in SUBSET Nat
        OBVIOUS
    <2>2. \E i \in faulty : \A j \in faulty : i <= j
        BY <2>1, LeastMember
    <2> HIDE DEF faulty
    <2> QED
        BY <2>2
<1>2. faulty # {} => EvidenceFault(evidence[first], listed) # "none"
    <2> HIDE DEF first
    <2> QED
        BY <1>1
<1>3. /\ evidence # <<>> /\ faulty = {}
      /\ ResolveEvidence(evidence, listed, classes) = ResolveCitations(cited, listed, classes)
    <2>1. ResolveEvidence(evidence, listed, classes) =
             IF evidence = <<>> THEN Resolution(<<>>, "missing_evidence")
             ELSE IF faulty # {}
             THEN Resolution(<<>>, EvidenceFault(evidence[first], listed))
             ELSE ResolveCitations(cited, listed, classes)
        BY DEF ResolveEvidence
    <2> HIDE DEF faulty, first, cited
    <2> QED
        BY <1>2, <2>1 DEF Resolution
<1>4. ResolveEvidence(evidence, listed, classes).citations = cited
      /\ \A c \in ToSet(cited) : c \in ChunksOf(listed) /\ classes[c] = "complete"
    <2> HIDE DEF cited
    <2> QED
        BY <1>3, AllCitationsOrNone
<1>5. quoted \in [1 .. n -> C] /\ DOMAIN quoted = 1 .. n
    OBVIOUS
<1>6. /\ \E m \in Nat : cited \in [1 .. m -> C]
      /\ ToSet(cited) = ToSet(quoted)
      /\ \A a, b \in DOMAIN cited : cited[a] = cited[b] => a = b
    <2> HIDE DEF quoted
    <2> QED
        BY <1>5, EachOnce
<1>7. n # 0
    BY <1>3
<1>8. \A i \in 1 .. n : evidence[i].chunk \in ToSet(cited)
    BY <1>5, <1>6 DEF ToSet
<1>9. cited # <<>>
    <2> HIDE DEF cited
    <2>1. ToSet(cited) # {}
        <3>1. 1 \in 1 .. n
            BY <1>7
        <3> QED
            BY <1>8, <3>1
    <2> QED
        BY <2>1 DEF ToSet
<1>10. \A i \in 1 .. n : evidence[i].quote = "verbatim"
    BY <1>3 DEF EvidenceFault, QuoteFault, Quotes
<1>11. \A e \in ToSet(evidence) : e.quote = "verbatim" /\ e.chunk \in ToSet(cited)
    <2> HIDE DEF cited
    <2> QED
        BY <1>8, <1>10 DEF ToSet
<1> HIDE DEF cited
<1> QED
    BY <1>4, <1>6, <1>9, <1>11 DEF Vouched

\* A fused result.
Found == [chunk : Chunks, rank : 0 .. 2, score : Scores \cup {NoScore, NotFinite}]

\* A fused list, or nothing: whenever there is one it has a first semantic hit.
Retrieved(list) ==
    /\ \E n \in Nat : list \in [1 .. n -> Found]
    /\ list # <<>> => \E i \in DOMAIN list : list[i].rank = 1

LEMMA RetrievalsTyped ==
    ASSUME NEW list \in Retrievals
    PROVE  Retrieved(list)
<1>1. CASE list = <<>>
    <2>1. list \in [1 .. 0 -> Found]
        BY <1>1
    <2> QED
        BY <1>1, <2>1 DEF Retrieved
<1>2. CASE list # <<>>
    <2>1. PICK S \in SUBSET Chunks :
              list \in ListsOf(S) /\ \E i \in DOMAIN list : list[i].rank = 1
        BY <1>2 DEF Retrievals
    <2>2. PICK order \in SetToSeqs(S), found \in SUBSET S, top \in S,
               s \in Scores \cup {NotFinite} : list = FusedList(order, found, top, s)
        BY <2>1 DEF ListsOf
    <2>3. IsFiniteSet(S)
        BY ChunksAssumption, FS_Subset
    <2>4. Cardinality(S) \in Nat
        BY <2>3, FS_CardinalityType
    <2>5. order \in [1 .. Cardinality(S) -> S]
        BY DEF SetToSeqs
    <2>6. list \in [1 .. Cardinality(S) -> Found]
        BY <2>2, <2>5 DEF FusedList, Found
    <2> QED
        BY <2>1, <2>4, <2>6 DEF Retrieved
<1> QED
    BY <1>1, <1>2

\* What the gate lets through: the first semantic hit has a finite score that
\* reaches the lower bound of the policy.
LEMMA GateNeedsScore ==
    ASSUME NEW list, Retrieved(list), NEW pol \in PolicySettings,
           ClassifyScore(pol, Top1Score(list)) # "hard_refuse"
    PROVE  \E i \in DOMAIN list :
              /\ list[i].rank = 1
              /\ Finite(list[i].score)
              /\ list[i].score >= (IF pol.mode = "binary" THEN pol.threshold ELSE pol.floor)
<1> DEFINE top == Top1Score(list)
           first == {r \in ToSet(list) : r.rank = 1}
<1>1. Finite(top)
    BY DEF ClassifyScore
<1>2. list # <<>>
    <2> SUFFICES ASSUME list = <<>> PROVE FALSE
        OBVIOUS
    <2>1. ToSet(list) = {}
        BY DEF ToSet
    <2>2. top = NoScore
        BY <2>1 DEF Top1Score, BestScoreOf
    <2> QED
        BY <1>1, <2>2 DEF Finite
<1>3. PICK i \in DOMAIN list : list[i].rank = 1
    BY <1>2 DEF Retrieved
<1>4. first # {}
    BY <1>3 DEF ToSet
<1>5. PICK r \in first : top = IF Finite(r.score) THEN r.score ELSE NoScore
    <2>1. (CHOOSE r \in first : TRUE) \in first
        BY <1>4
    <2> QED
        BY <1>4, <2>1 DEF Top1Score
<1>6. Finite(r.score) /\ top = r.score
    BY <1>1, <1>5 DEF Finite
<1>7. PICK j \in DOMAIN list : list[j] = r /\ list[j].rank = 1
    BY <1>5 DEF ToSet
<1>8. r.score \in Nat
    <2>1. list[j].score \in Scores \cup {NoScore, NotFinite}
        BY <1>7 DEF Retrieved, Found
    <2> QED
        BY <1>6, <1>7, <2>1, ScoresAssumption DEF Finite
<1>9. /\ pol.threshold \in Nat /\ pol.floor \in Nat /\ pol.mode \in {"binary", "grounded_review"}
      /\ pol.mode = "grounded_review" => pol.floor < pol.threshold
    BY DEF PolicySettings
<1>10. r.score >= (IF pol.mode = "binary" THEN pol.threshold ELSE pol.floor)
    <2> HIDE DEF top
    <2> QED
        BY <1>6, <1>8, <1>9 DEF ClassifyScore, top
<1> QED
    BY <1>6, <1>7, <1>10

----------------------------------------------------------------------------
(* The inductive invariant.                                                *)

\* What holds of an answer, once there is one: the parts that the properties
\* name, and that it was given in the band of this question.
AnswerSound ==
    answer # NoAnswer =>
        /\ answer.text \in {"canonical", "model", "error"}
        /\ ToSet(answer.citations) \subseteq Chunks
        /\ answer.band = band
        /\ ServedAnswersAreGrounded
        /\ ModelTextIsVetted

\* The model was asked: the gate was open, and the prompt was complete.
Consulted == calls = 1 /\ band # "hard_refuse" /\ PromptComplete

QueryInv ==
    /\ policy \in Offered
    /\ meta \in [Chunks -> MetaClasses]
    /\ pc \in {"asked", "gate", "model", "answered", "http_500"}
    /\ Retrieved(results)
    /\ outcome \in {"idle", "pending", "returned", "raised", "escaped"}
    /\ outcome = "returned" => value \in Replies(band)
    /\ calls = 0 \/ Consulted
    /\ pc \in {"asked", "gate"} => calls = 0 /\ outcome = "idle"
    /\ pc = "model" => calls = 1
    /\ pc # "answered" <=> answer = NoAnswer
    /\ AnswerSound

LEMMA BandTyped == ASSUME NEW pol, NEW s PROVE ClassifyScore(pol, s) \in Bands
BY DEF ClassifyScore, Bands

\* The prompt is the head of the fused list.
LEMMA PromptOfResults ==
    ASSUME Retrieved(results)
    PROVE  /\ \E n \in Nat : prompt \in [1 .. n -> Found]
           /\ ChunksOf(prompt) \subseteq Chunks
<1>1. PICK n \in Nat : results \in [1 .. n -> Found]
    BY DEF Retrieved
<1>2. results \in Seq(Found) /\ Len(results) = n
    BY <1>1, SeqDef, LenProperties
<1> DEFINE k == IF Len(results) < PromptK THEN Len(results) ELSE PromptK
<1>3. k \in Nat /\ k <= Len(results)
    BY <1>2, PromptAssumption
<1>4. prompt = SubSeq(results, 1, k)
    BY DEF prompt
<1>5. prompt \in [1 .. k -> Found]
    <2>1. \A i \in 1 .. k : results[i] \in Found
        BY <1>1, <1>2, <1>3
    <2>2. prompt = [i \in 1 .. k |-> results[i]]
        <3> HIDE DEF k
        <3> QED
            BY <1>2, <1>3, <1>4
    <2> HIDE DEF k
    <2> QED
        BY <2>1, <2>2
<1>6. ChunksOf(prompt) \subseteq Chunks
    <2> HIDE DEF k
    <2> QED
        BY <1>5 DEF ChunksOf, ToSet, Found
<1> QED
    BY <1>3, <1>5, <1>6

LEMMA InitSound == Init => QueryInv
<1> SUFFICES ASSUME Init PROVE QueryInv
    OBVIOUS
<1>1. Retrieved(results)
    <2>1. results \in [1 .. 0 -> Found]
        BY DEF Init
    <2> QED
        BY <2>1 DEF Init, Retrieved
<1> QED
    BY <1>1 DEF Init, QueryInv, AnswerSound

\* An answer that meets its conditions keeps the invariant ...
LEMMA AnswerKeeps ==
    ASSUME QueryInv, pc \in {"gate", "model"}, pc' = "answered",
           UNCHANGED <<policy, meta, results, llm, calls>>,
           answer' # NoAnswer,
           answer'.band = band,
           answer'.text \in {"canonical", "model", "error"},
           ToSet(answer'.citations) \subseteq Chunks,
           answer'.status = "error" <=> outcome = "raised",
           answer'.refused => answer'.citations = <<>> /\ answer'.status = "ok",
           answer'.text = "model" =>
              (~answer'.refused /\ answer'.status = "ok") \/ band = "confident",
           ~answer'.refused /\ answer'.status = "ok" =>
              /\ answer'.citations # <<>>
              /\ \A c \in ToSet(answer'.citations) :
                    c \in ChunksOf(prompt) /\ meta[c] = "complete"
              /\ IF band = "grounded_review"
                 THEN /\ \A e \in ToSet(value.cited) :
                            e.quote = "verbatim" /\ e.chunk \in ToSet(answer'.citations)
                      /\ \A i, j \in DOMAIN answer'.citations :
                            answer'.citations[i] = answer'.citations[j] => i = j
                 ELSE answer'.citations = value.cited
    PROVE  QueryInv'
<1>1. /\ policy' = policy /\ meta' = meta /\ results' = results
      /\ outcome' = outcome /\ value' = value /\ calls' = calls
    BY DEF llm
<1>2. prompt' = prompt /\ band' = band
    BY <1>1 DEF prompt, band, score
<1>3. NoAnswer' = NoAnswer
    BY DEF NoAnswer
<1>4. Served' <=> ~answer'.refused /\ answer'.status = "ok"
    BY DEF Served
<1>5. ServedAnswersAreGrounded'
    BY <1>1, <1>2, <1>4 DEF ServedAnswersAreGrounded
<1>6. ModelTextIsVetted'
    BY <1>1, <1>2, <1>4 DEF ModelTextIsVetted
<1>7. AnswerSound'
    BY <1>1, <1>2, <1>5, <1>6 DEF AnswerSound
<1>8. PromptComplete' <=> PromptComplete
    BY <1>1, <1>2 DEF PromptComplete
<1>9. Retrieved(results)'
    BY <1>1 DEF QueryInv
<1> QED
    BY <1>1, <1>2, <1>3, <1>7, <1>8, <1>9 DEF QueryInv, Consulted

\* ... a refusal in particular, ...
LEMMA RefusalKeeps ==
    ASSUME QueryInv, pc \in {"gate", "model"}, NEW text, NEW reason,
           Refuse(text, reason),
           text \in {"canonical", "model"}, outcome # "raised",
           text = "model" => band = "confident"
    PROVE  QueryInv'
<1>1. /\ answer' = [given |-> TRUE, text |-> text, citations |-> <<>>, refused |-> TRUE,
                    status |-> "ok", reason |-> reason, band |-> band]
      /\ pc' = "answered" /\ UNCHANGED <<policy, meta, results, llm, calls>>
    BY DEF Refuse, Answer
<1>2. /\ answer' # NoAnswer /\ answer'.band = band /\ answer'.text = text
      /\ answer'.citations = <<>> /\ answer'.status = "ok" /\ answer'.refused
    BY <1>1 DEF NoAnswer
<1>3. ToSet(answer'.citations) \subseteq Chunks
    BY <1>2 DEF ToSet
<1> QED
    BY <1>1, <1>2, <1>3, AnswerKeeps

\* ... and an accepted answer.
LEMMA AcceptanceKeeps ==
    ASSUME QueryInv, pc \in {"gate", "model"}, NEW citations, NEW reason,
           Answer("model", citations, FALSE, "ok", reason),
           outcome # "raised",
           citations # <<>>,
           \A c \in ToSet(citations) : c \in ChunksOf(prompt) /\ meta[c] = "complete",
           IF band = "grounded_review"
           THEN /\ \A e \in ToSet(value.cited) :
                      e.quote = "verbatim" /\ e.chunk \in ToSet(citations)
                /\ \A i, j \in DOMAIN citations : citations[i] = citations[j] => i = j
           ELSE citations = value.cited
    PROVE  QueryInv'
<1>1. /\ answer' = [given |-> TRUE, text |-> "model", citations |-> citations,
                    refused |-> FALSE, status |-> "ok", reason |-> reason, band |-> band]
      /\ pc' = "answered" /\ UNCHANGED <<policy, meta, results, llm, calls>>
    BY DEF Answer
<1>2. /\ answer' # NoAnswer /\ answer'.band = band /\ answer'.text = "model"
      /\ answer'.citations = citations /\ answer'.status = "ok" /\ ~answer'.refused
    BY <1>1 DEF NoAnswer
<1>3. ToSet(citations) \subseteq Chunks
    BY PromptOfResults DEF QueryInv
<1> QED
    BY <1>1, <1>2, <1>3, AnswerKeeps

\* So does a step after which there is still no answer.
LEMMA NoAnswerKeeps ==
    ASSUME QueryInv, answer = NoAnswer, answer' = NoAnswer
    PROVE  AnswerSound'
BY DEF AnswerSound, NoAnswer

LEMMA StepSound == QueryInv /\ [Next]_vars => QueryInv'
<1> SUFFICES ASSUME QueryInv, [Next]_vars PROVE QueryInv'
    OBVIOUS
<1>1. band \in Bands
    BY BandTyped DEF band
<1>2. CASE UNCHANGED vars
    <2>1. band' = band /\ prompt' = prompt
        BY <1>2 DEF vars, band, score, prompt
    <2>2. AnswerSound' <=> AnswerSound
        BY <1>2, <2>1 DEF vars, llm, AnswerSound, ServedAnswersAreGrounded, Served,
                          ModelTextIsVetted, NoAnswer
    <2>3. Consulted' <=> Consulted
        BY <1>2, <2>1 DEF vars, Consulted, PromptComplete
    <2> QED
        BY <1>2, <2>1, <2>2, <2>3 DEF vars, llm, QueryInv, NoAnswer
<1>3. CASE Retrieve
    <2>1. Retrieved(results')
        BY <1>3, RetrievalsTyped DEF Retrieve
    <2>2. AnswerSound'
        BY <1>3, NoAnswerKeeps DEF Retrieve, QueryInv
    <2> QED
        BY <1>3, <2>1, <2>2 DEF Retrieve, QueryInv, llm, NoAnswer
<1>4. CASE RetrieveFails
    <2>1. AnswerSound'
        BY <1>4, NoAnswerKeeps DEF RetrieveFails, QueryInv
    <2> QED
        BY <1>4, <2>1 DEF RetrieveFails, QueryInv, llm, NoAnswer
<1>5. CASE HardRefuse
    BY <1>5, RefusalKeeps DEF HardRefuse, QueryInv
<1>6. CASE RefuseIncompletePrompt
    BY <1>6, RefusalKeeps DEF RefuseIncompletePrompt, QueryInv
<1>7. CASE CallModel
    <2>1. AnswerSound'
        BY <1>7, NoAnswerKeeps DEF CallModel, QueryInv
    <2>2. band' = band /\ prompt' = prompt
        BY <1>7 DEF CallModel, band, score, prompt
    <2>3. Consulted'
        BY <1>7, <2>2 DEF CallModel, Consulted, PromptComplete, QueryInv
    <2> QED
        BY <1>7, <2>1, <2>2, <2>3 DEF CallModel, QueryInv, NoAnswer
<1>8. CASE ModelStep
    <2>1. AnswerSound'
        BY <1>8, NoAnswerKeeps DEF ModelStep, QueryInv
    <2>2. band' = band /\ prompt' = prompt
        BY <1>8 DEF ModelStep, band, score, prompt
    <2>3. Consulted' <=> Consulted
        BY <1>8, <2>2 DEF ModelStep, Consulted, PromptComplete
    <2>4. band \in {"confident", "grounded_review"}
        BY <1>1, <1>8 DEF ModelStep, QueryInv, Consulted, Bands
    <2>5. \/ outcome' = "returned" /\ value' \in Replies(band)
          \/ outcome' \in {"raised", "escaped"}
        BY <1>8, <2>4 DEF ModelStep, GroundedCall!Next, GroundedCall!Return,
              GroundedCall!Raise, ConfidentCall!Next, ConfidentCall!Return,
              ConfidentCall!Raise
    <2> QED
        BY <1>8, <2>1, <2>2, <2>3, <2>5 DEF ModelStep, QueryInv, NoAnswer
<1>9. CASE GenerationFailed
    <2>1. /\ answer' = [given |-> TRUE, text |-> "error", citations |-> <<>>,
                        refused |-> FALSE, status |-> "error",
                        reason |-> "generation_error", band |-> band]
          /\ pc' = "answered" /\ UNCHANGED <<policy, meta, results, llm, calls>>
        BY <1>9 DEF GenerationFailed, Answer
    <2>2. /\ answer' # NoAnswer /\ answer'.band = band /\ answer'.text = "error"
          /\ answer'.citations = <<>> /\ answer'.status = "error" /\ ~answer'.refused
        BY <2>1 DEF NoAnswer
    <2>3. ToSet(answer'.citations) \subseteq Chunks
        BY <2>2 DEF ToSet
    <2> QED
        BY <1>9, <2>1, <2>2, <2>3, AnswerKeeps DEF GenerationFailed
<1>10. CASE ModelCallEscapes
    <2>1. AnswerSound'
        BY <1>10, NoAnswerKeeps DEF ModelCallEscapes, QueryInv
    <2>2. band' = band /\ prompt' = prompt
        BY <1>10 DEF ModelCallEscapes, band, score, prompt
    <2>3. Consulted' <=> Consulted
        BY <1>10, <2>2 DEF ModelCallEscapes, Consulted, PromptComplete
    <2> QED
        BY <1>10, <2>1, <2>2, <2>3 DEF ModelCallEscapes, QueryInv, llm, NoAnswer
<1>11. CASE SelfRefusal
    <2>1. band \in {"confident", "grounded_review"}
        BY <1>1, <1>11 DEF SelfRefusal, Replied, QueryInv, Consulted, Bands
    <2> QED
        BY <1>11, <2>1, RefusalKeeps DEF SelfRefusal, Replied
<1>12. CASE EmptyAnswer
    BY <1>12, RefusalKeeps DEF EmptyAnswer, Replied, HasText
<1>13. CASE EvidenceRejected
    BY <1>13, RefusalKeeps DEF EvidenceRejected, Replied, HasText
<1>14. CASE AcceptGrounded
    <2>2. value \in Replies(band)
        BY <1>14 DEF AcceptGrounded, HasText, Replied, QueryInv
    <2>3. PICK n \in Nat : value.cited \in [1 .. n -> [chunk : Citable, quote : Quotes]]
        BY <1>14, <2>2, MaxCitedAssumption DEF AcceptGrounded, Replies, BoundedSeq, SeqOf
    <2>4. ResolveEvidence(value.cited, prompt, meta).failure = "none"
        BY <1>14 DEF AcceptGrounded, grounding
    <2>5. Vouched(value.cited, prompt, meta, ResolveEvidence(value.cited, prompt, meta).citations)
        BY ONLY <2>3, <2>4, EvidenceAllVerbatim
    <2>6. /\ grounding.citations # <<>>
          /\ \A c \in ToSet(grounding.citations) : c \in ChunksOf(prompt) /\ meta[c] = "complete"
          /\ \A e \in ToSet(value.cited) :
                e.quote = "verbatim" /\ e.chunk \in ToSet(grounding.citations)
          /\ \A i, j \in DOMAIN grounding.citations :
                grounding.citations[i] = grounding.citations[j] => i = j
        BY <2>5, Zenon DEF grounding, Vouched
    <2> QED
        BY <1>14, <2>6, AcceptanceKeeps DEF AcceptGrounded, HasText, Replied
<1>15. CASE CitationsRejected
    BY <1>15, RefusalKeeps DEF CitationsRejected, Replied, HasText
<1>16. CASE AcceptConfident
    <2>1. /\ resolution.citations = value.cited
          /\ \A c \in ToSet(value.cited) : c \in ChunksOf(prompt) /\ meta[c] = "complete"
        BY <1>16, AllCitationsOrNone DEF AcceptConfident, resolution
    <2> QED
        BY <1>16, <2>1, AcceptanceKeeps DEF AcceptConfident, HasText, Replied
<1> QED
    BY <1>2, <1>3, <1>4, <1>5, <1>6, <1>7, <1>8, <1>9, <1>10, <1>11, <1>12, <1>13,
       <1>14, <1>15, <1>16 DEF Next

LEMMA Inductive == Spec => []QueryInv
BY InitSound, StepSound, PTL DEF Spec

----------------------------------------------------------------------------
(* What holds of every question.                                           *)

\* The variables keep their types.
THEOREM QueryTypes == Spec => []TypeOK
<1>1. QueryInv => TypeOK
    <2> SUFFICES ASSUME QueryInv PROVE TypeOK
        OBVIOUS
    <2>1. PICK n \in Nat : results \in [1 .. n -> Found]
        BY DEF QueryInv, Retrieved
    <2>2. \A i \in DOMAIN results : results[i] \in Found
        BY <2>1
    <2>3. band \in Bands
        BY BandTyped DEF band
    <2>4. calls \in Nat
        BY DEF QueryInv, Consulted
    <2> QED
        BY <2>2, <2>3, <2>4 DEF TypeOK, QueryInv, AnswerSound, Found
<1> QED
    BY <1>1, Inductive, PTL

\* A served answer cites something, only chunks of the prompt with complete
\* metadata, and leaves out nothing the model cited: CitationResolver and
\* GroundedEvidenceResolver accept all of a reply or nothing.
THEOREM AnswersAreGrounded == Spec => []ServedAnswersAreGrounded
<1>1. QueryInv => ServedAnswersAreGrounded
    BY DEF QueryInv, AnswerSound, ServedAnswersAreGrounded, Served
<1> QED
    BY <1>1, Inductive, PTL

\* answer_question consults the model at most once, and only behind the gate.
THEOREM GateGuardsModel == Spec => []ModelOnlyBehindGate
<1>1. QueryInv => ModelOnlyBehindGate
    <2> SUFFICES ASSUME QueryInv, calls > 0 PROVE ModelOnlyBehindGate
        BY DEF ModelOnlyBehindGate
    <2>1. calls = 1 /\ band # "hard_refuse" /\ PromptComplete
        BY DEF QueryInv, Consulted
    <2>2. policy \in PolicySettings /\ Retrieved(results)
        BY OfferedAssumption DEF QueryInv
    <2>3. \E i \in DOMAIN results :
             /\ results[i].rank = 1
             /\ Finite(results[i].score)
             /\ results[i].score >= (IF policy.mode = "binary" THEN policy.threshold
                                                               ELSE policy.floor)
        BY <2>1, <2>2, GateNeedsScore DEF band, score
    <2>4. \A i \in DOMAIN prompt : meta[prompt[i].chunk] # "not_promptable"
        BY <2>1 DEF PromptComplete, ChunksOf, ToSet
    <2> QED
        BY <2>1, <2>3, <2>4 DEF ModelOnlyBehindGate
<1> QED
    BY <1>1, Inductive, PTL

\* Text the model wrote reaches the user only in a resolved answer or as a
\* refusal of the confident band, and a failed call never looks like one.
THEOREM ModelTextVetted == Spec => []ModelTextIsVetted
<1>1. QueryInv => ModelTextIsVetted
    BY DEF QueryInv, AnswerSound, ModelTextIsVetted
<1> QED
    BY <1>1, Inductive, PTL

----------------------------------------------------------------------------
(* The fused order.                                                        *)

\* The list has every member of S, once, and those ahead of others before them.
InOrder(list, S, R) ==
    /\ list \in [1 .. Cardinality(S) -> S]
    /\ \A a \in S : \E p \in 1 .. Cardinality(S) : list[p] = a
    /\ \A p, q \in 1 .. Cardinality(S) : list[p] = list[q] => p = q
    /\ \A p, q \in 1 .. Cardinality(S) : <<list[p], list[q]>> \in R => p < q

\* Counting who is ahead sorts any finite set: in a strict total order no two
\* members have the same number ahead of them.
LEMMA SortedInOrder ==
    ASSUME NEW S, IsFiniteSet(S), NEW R,
           \A a \in S : <<a, a>> \notin R,
           \A a, b \in S : a # b => <<a, b>> \in R \/ <<b, a>> \in R,
           \A a, b, c \in S : <<a, b>> \in R /\ <<b, c>> \in R => <<a, c>> \in R
    PROVE  InOrder(Sorted(S, R), S, R)
<1> DEFINE n == Cardinality(S)
           before(a) == {other \in S : <<other, a>> \in R}
           place == [a \in S |-> Cardinality(before(a)) + 1]
<1>0. n \in Nat
    BY FS_CardinalityType
<1>1. ASSUME NEW a \in S
      PROVE  /\ IsFiniteSet(before(a))
             /\ Cardinality(before(a)) \in Nat /\ Cardinality(before(a)) + 1 \in 1 .. n
    <2>1. before(a) \in SUBSET (S \ {a})
        OBVIOUS
    <2> HIDE DEF before
    <2>2. IsFiniteSet(S \ {a}) /\ Cardinality(S \ {a}) = n - 1
        BY FS_RemoveElement
    <2>3. IsFiniteSet(before(a)) /\ Cardinality(before(a)) <= n - 1
        BY <2>1, <2>2, FS_Subset
    <2>4. Cardinality(before(a)) \in Nat
        BY <2>3, FS_CardinalityType
    <2>5. Cardinality(before(a)) + 1 \in 1 .. n
        BY <1>0, <2>3, <2>4
    <2> QED
        BY <2>3, <2>4, <2>5
<1>2. place \in [S -> 1 .. n]
    BY <1>1
<1>3. ASSUME NEW a \in S, NEW b \in S, <<a, b>> \in R
      PROVE  place[a] < place[b]
    <2>1. before(a) \cup {a} \in SUBSET before(b)
        BY <1>3
    <2>2. a \notin before(a)
        OBVIOUS
    <2>3. Cardinality(before(a) \cup {a}) = Cardinality(before(a)) + 1
        BY <1>1, <2>2, FS_AddElement
    <2>4. Cardinality(before(a) \cup {a}) <= Cardinality(before(b))
        BY <1>1, <2>1, FS_Subset
    <2>5. place[a] = Cardinality(before(a)) + 1 /\ place[b] = Cardinality(before(b)) + 1
        OBVIOUS
    <2>6. Cardinality(before(a)) \in Nat /\ Cardinality(before(b)) \in Nat
        BY <1>1
    <2> HIDE DEF before, place
    <2> QED
        BY <2>3, <2>4, <2>5, <2>6
<1>4. \A a, b \in S : place[a] = place[b] => a = b
    <2> HIDE DEF place
    <2> SUFFICES ASSUME NEW a \in S, NEW b \in S, a # b
                 PROVE  place[a] # place[b]
        OBVIOUS
    <2>1. place[a] \in Int /\ place[b] \in Int
        BY <1>2
    <2>2. place[a] < place[b] \/ place[b] < place[a]
        BY <1>3
    <2> QED
        BY <2>1, <2>2
<1>5. \A p \in 1 .. n : \E a \in S : place[a] = p
    <2> HIDE DEF place
    <2>1. place \in Injection(S, 1 .. n)
        BY <1>2, <1>4, Fun_IsInj
    <2>2. IsFiniteSet(1 .. n) /\ Cardinality(1 .. n) = n
        BY <1>0, FS_Interval
    <2>3. place \in Surjection(S, 1 .. n)
        BY <2>1, <2>2, FS_Injection
    <2> QED
        BY <2>3, Fun_SurjectionProperties
<1> DEFINE list == Sorted(S, R)
<1>6. ASSUME NEW p \in 1 .. n
      PROVE  list[p] \in S /\ place[list[p]] = p
    <2>1. list[p] = CHOOSE a \in S : Cardinality(before(a)) = p - 1
        BY DEF Sorted
    <2>2. PICK a \in S : place[a] = p
        BY <1>5
    <2>3. Cardinality(before(a)) = p - 1
        <3>1. place[a] = Cardinality(before(a)) + 1
            OBVIOUS
        <3>2. Cardinality(before(a)) \in Nat
            BY <1>1
        <3> HIDE DEF before, place
        <3> QED
            BY <2>2, <3>1, <3>2
    <2>4. list[p] \in S /\ Cardinality(before(list[p])) = p - 1
        <3> DEFINE ranks(c) == Cardinality(before(c)) = p - 1
        <3>1. ranks(a) /\ list[p] = CHOOSE b \in S : ranks(b)
            BY <2>1, <2>3
        <3> HIDE DEF ranks, list
        <3>2. ranks(list[p]) /\ list[p] \in S
            BY <3>1
        <3> QED
            BY <3>2 DEF ranks
    <2>5. place[list[p]] = Cardinality(before(list[p])) + 1
        <3> HIDE DEF list, before
        <3> QED
            BY <2>4
    <2> HIDE DEF list, before, place
    <2> QED
        BY <2>4, <2>5
<1>7. list \in [1 .. n -> S]
    <2> DEFINE first(p) == CHOOSE a \in S : Cardinality(before(a)) = p - 1
    <2>1. list = [p \in 1 .. n |-> first(p)]
        BY DEF Sorted
    <2> HIDE DEF first
    <2>2. DOMAIN list = 1 .. n /\ list = [p \in 1 .. n |-> list[p]]
        BY <2>1
    <2> HIDE DEF list, place
    <2> QED
        BY <1>6, <2>2
<1>8. \A a \in S : list[place[a]] = a
    <2> HIDE DEF list, place
    <2> QED
        BY <1>2, <1>4, <1>6
<1>9. \A p, q \in 1 .. n : list[p] = list[q] => p = q
    <2> HIDE DEF list, place
    <2> QED
        BY <1>6
<1>10. \A p, q \in 1 .. n : <<list[p], list[q]>> \in R => p < q
    <2> HIDE DEF list, place
    <2> QED
        BY <1>3, <1>6
<1> HIDE DEF list, place
<1> QED
    BY <1>2, <1>7, <1>8, <1>9, <1>10 DEF list, InOrder

Fractions == Nat \X (Nat \ {0})

\* A factor neither turns nor blurs an inequality.
LEMMA Times ==
    ASSUME NEW x \in Nat, NEW y \in Nat, NEW z \in Nat, z > 0
    PROVE  /\ x >= y <=> x * z >= y * z
           /\ x > y <=> x * z > y * z
<1>1. x >= y => x * z >= y * z
    OBVIOUS
<1>2. x > y => x * z > y * z
    OBVIOUS
<1>3. y > x => y * z > x * z
    OBVIOUS
<1>4. y >= x => y * z >= x * z
    OBVIOUS
<1>5. x * z \in Nat /\ y * z \in Nat
    OBVIOUS
<1> QED
    BY <1>1, <1>2, <1>3, <1>4, <1>5

\* a/b is at least c/d, and c/d at least e/f.
LEMMA CrossProducts ==
    ASSUME NEW a \in Nat, NEW b \in Nat, NEW c \in Nat, NEW d \in Nat,
           NEW e \in Nat, NEW f \in Nat, b > 0, d > 0, f > 0,
           a * d >= c * b, c * f >= e * d
    PROVE  /\ a * f >= e * b
           /\ a * d > c * b \/ c * f > e * d => a * f > e * b
<1>1. /\ a * d \in Nat /\ c * b \in Nat /\ c * f \in Nat /\ e * d \in Nat
      /\ a * f \in Nat /\ e * b \in Nat
    OBVIOUS
<1>2. (a * d) * f >= (c * b) * f /\ (a * d > c * b => (a * d) * f > (c * b) * f)
    BY <1>1, Times
<1>3. (c * f) * b >= (e * d) * b /\ (c * f > e * d => (c * f) * b > (e * d) * b)
    BY <1>1, Times
<1>4. /\ (a * d) * f = (a * f) * d /\ (c * b) * f = (c * f) * b
      /\ (e * d) * b = (e * b) * d
    OBVIOUS
<1>5. /\ (a * f) * d \in Nat /\ (c * f) * b \in Nat /\ (e * b) * d \in Nat
    BY <1>1
<1>6. (a * f) * d >= (e * b) * d
    BY <1>2, <1>3, <1>4, <1>5
<1>7. a * d > c * b \/ c * f > e * d => (a * f) * d > (e * b) * d
    BY <1>2, <1>3, <1>4, <1>5
<1> QED
    BY <1>1, <1>6, <1>7, Times

\* Comparing fractions is a weak order.
LEMMA FractionsCompare ==
    ASSUME NEW s \in Fractions, NEW t \in Fractions, NEW u \in Fractions
    PROVE  /\ ~Exceeds(s, s)
           /\ Exceeds(s, t) => ~Exceeds(t, s)
           /\ ~Exceeds(t, s) /\ ~Exceeds(u, t) =>
                 /\ ~Exceeds(u, s)
                 /\ Exceeds(s, t) \/ Exceeds(t, u) => Exceeds(s, u)
<1>1. /\ s[1] \in Nat /\ s[2] \in Nat /\ s[2] > 0
      /\ t[1] \in Nat /\ t[2] \in Nat /\ t[2] > 0
      /\ u[1] \in Nat /\ u[2] \in Nat /\ u[2] > 0
    BY DEF Fractions
<1>2. /\ s[1] * t[2] \in Nat /\ t[1] * s[2] \in Nat /\ t[1] * u[2] \in Nat
      /\ u[1] * t[2] \in Nat /\ s[1] * u[2] \in Nat /\ u[1] * s[2] \in Nat
      /\ s[1] * s[2] \in Nat
    BY <1>1
<1>3. ~Exceeds(s, s)
    BY <1>2 DEF Exceeds
<1>4. Exceeds(s, t) => ~Exceeds(t, s)
    BY <1>2 DEF Exceeds
<1>5. ASSUME ~Exceeds(t, s), ~Exceeds(u, t)
      PROVE  ~Exceeds(u, s) /\ (Exceeds(s, t) \/ Exceeds(t, u) => Exceeds(s, u))
    <2>1. s[1] * t[2] >= t[1] * s[2] /\ t[1] * u[2] >= u[1] * t[2]
        BY <1>2, <1>5 DEF Exceeds
    <2>2. /\ s[1] * u[2] >= u[1] * s[2]
          /\ s[1] * t[2] > t[1] * s[2] \/ t[1] * u[2] > u[1] * t[2] =>
                s[1] * u[2] > u[1] * s[2]
        BY <1>1, <2>1, CrossProducts
    <2> QED
        BY <1>2, <2>2 DEF Exceeds
<1> QED
    BY <1>3, <1>4, <1>5

----------------------------------------------------------------------------
(* Rankings.                                                               *)

\* A list of ids without a repeat.
Ranking(list) ==
    /\ list \in Seq(Nat)
    /\ \A i, j \in 1 .. Len(list) : list[i] = list[j] => i = j

\* The members of a list are as many as its places, at most.
LEMMA MembersCounted ==
    ASSUME NEW S, NEW list \in Seq(S)
    PROVE  /\ IsFiniteSet(ToSet(list))
           /\ Cardinality(ToSet(list)) <= Len(list)
           /\ (\A i, j \in 1 .. Len(list) : list[i] = list[j] => i = j) =>
                 Cardinality(ToSet(list)) = Len(list)
<1> DEFINE n == Len(list)
           M == ToSet(list)
<1>1. n \in Nat /\ DOMAIN list = 1 .. n /\ list = [i \in 1 .. n |-> list[i]]
    OBVIOUS
<1>2. list \in [1 .. n -> M] /\ \A m \in M : \E i \in 1 .. n : list[i] = m
    BY <1>1 DEF ToSet
<1> HIDE DEF M, n
<1>3. list \in Surjection(1 .. n, M)
    BY <1>2, Fun_IsSurj
<1>4. IsFiniteSet(1 .. n) /\ Cardinality(1 .. n) = n
    BY <1>1, FS_Interval
<1>5. IsFiniteSet(M) /\ Cardinality(M) <= n
    BY <1>3, <1>4, FS_Surjection
<1>6. ASSUME \A i, j \in 1 .. n : list[i] = list[j] => i = j
      PROVE  Cardinality(M) = n
    <2>1. list \in Injection(1 .. n, M)
        BY <1>2, <1>6, Fun_IsInj
    <2> QED
        BY <1>3, <1>4, <2>1, FS_Surjection
<1> QED
    BY <1>5, <1>6 DEF M, n

\* What a channel returns: ids of its build without a repeat, at least one and
\* at most top_n of them.
LEMMA HitsAreRanked ==
    ASSUME NEW b \in Builds, NEW hits \in HitLists(b)
    PROVE  /\ Ranking(hits) /\ Len(hits) \in 1 .. TopN
           /\ ToSet(hits) \subseteq Holds[b] /\ ToSet(hits) \subseteq AllChunks
<1>1. /\ b \in DOMAIN Holds /\ Holds[b] \subseteq Nat /\ Holds[b] # {} /\ IsFiniteSet(Holds[b])
      /\ TopN \in Nat /\ TopN > 0
    BY RetrieverAssumption DEF Builds
<1>2. Cardinality(Holds[b]) \in Nat /\ Cardinality(Holds[b]) > 0
    BY <1>1, FS_CardinalityType, FS_EmptySet
<1> DEFINE size == Smaller(TopN, Cardinality(Holds[b]))
<1>3. size \in 1 .. TopN
    BY <1>1, <1>2 DEF Smaller
<1>4. hits \in [1 .. size -> Holds[b]] /\ IsInjective(hits)
    BY DEF HitLists
<1> HIDE DEF size
<1>5. Len(hits) = size /\ hits \in Seq(Nat) /\ DOMAIN hits = 1 .. size
    BY <1>1, <1>3, <1>4
<1>6. Holds[b] \subseteq AllChunks
    BY DEF AllChunks
<1> QED
    BY <1>3, <1>4, <1>5, <1>6 DEF Ranking, IsInjective, ToSet

\* The rank of an id in a ranking; 0 when it is not there.
RankOf(list, id) == IF Contains(list, id) THEN RankIn(list, id) ELSE 0

LEMMA RankIsPlace ==
    ASSUME NEW list, Ranking(list), NEW id
    PROVE  /\ Contains(list, id) <=> id \in ToSet(list)
           /\ Contains(list, id) => /\ RankOf(list, id) \in 1 .. Len(list)
                                    /\ list[RankOf(list, id)] = id
           /\ ~Contains(list, id) => RankOf(list, id) = 0
           /\ \A i \in 1 .. Len(list) : list[i] = id => RankOf(list, id) = i
<1>1. DOMAIN list = 1 .. Len(list) /\ Len(list) \in Nat
    BY DEF Ranking
<1>2. Contains(list, id) <=> id \in ToSet(list)
    BY <1>1 DEF Contains, ToSet
<1>3. ASSUME Contains(list, id)
      PROVE  RankIn(list, id) \in 1 .. Len(list) /\ list[RankIn(list, id)] = id
    BY <1>1, <1>3 DEF Contains, RankIn
<1>4. ASSUME NEW i \in 1 .. Len(list), list[i] = id
      PROVE  RankOf(list, id) = i
    <2>1. Contains(list, id)
        BY <1>4 DEF Contains
    <2> QED
        BY <1>3, <1>4, <2>1 DEF Ranking, RankOf
<1> QED
    BY <1>2, <1>3, <1>4 DEF RankOf

----------------------------------------------------------------------------
(* Fusion.                                                                 *)

LEMMA PartIsFraction ==
    ASSUME NEW list, Ranking(list), NEW id, NEW k \in Nat
    PROVE  Rrf(list, id, k) \in Fractions
<1>1. CASE Contains(list, id)
    <2>1. RankIn(list, id) \in Nat /\ RankIn(list, id) > 0
        BY <1>1, RankIsPlace DEF RankOf, Ranking
    <2> QED
        BY <1>1, <2>1 DEF Rrf, Fractions
<1>2. CASE ~Contains(list, id)
    BY <1>2 DEF Rrf, Fractions
<1> QED
    BY <1>1, <1>2

LEMMA ScoreIsFraction ==
    ASSUME NEW s, Ranking(s), NEW l, Ranking(l), NEW id, NEW k \in Nat
    PROVE  Score(s, l, k, id) \in Fractions
<1> DEFINE x == Rrf(s, id, k)
           y == Rrf(l, id, k)
<1>1. x \in Fractions /\ y \in Fractions
    BY PartIsFraction
<1> HIDE DEF x, y
<1>2. /\ x[1] \in Nat /\ x[2] \in Nat /\ x[2] > 0
      /\ y[1] \in Nat /\ y[2] \in Nat /\ y[2] > 0
    BY <1>1 DEF Fractions
<1>3. x[1] * y[2] \in Nat /\ y[1] * x[2] \in Nat /\ x[2] * y[2] \in Nat
    BY <1>2
<1>4. x[2] * y[2] > 0
    BY <1>2
<1>5. Plus(x, y) \in Fractions
    BY <1>3, <1>4 DEF Plus, Fractions
<1> QED
    BY <1>5 DEF Score, x, y

\* What two rankings found.
LEMMA FoundCounted ==
    ASSUME NEW s, Ranking(s), NEW l, Ranking(l)
    PROVE  LET found == ToSet(s) \cup ToSet(l)
           IN  /\ IsFiniteSet(found) /\ found \subseteq Nat
               /\ Cardinality(found) \in Nat /\ Cardinality(found) <= Len(s) + Len(l)
<1> DEFINE S == ToSet(s) \cup ToSet(l)
<1>1. /\ IsFiniteSet(ToSet(s)) /\ Cardinality(ToSet(s)) <= Len(s)
      /\ IsFiniteSet(ToSet(l)) /\ Cardinality(ToSet(l)) <= Len(l)
    BY MembersCounted DEF Ranking
<1>2. /\ IsFiniteSet(S)
      /\ Cardinality(S)
           = Cardinality(ToSet(s)) + Cardinality(ToSet(l)) - Cardinality(ToSet(s) \cap ToSet(l))
    BY <1>1, FS_Union
<1>3. /\ Cardinality(ToSet(s)) \in Nat /\ Cardinality(ToSet(l)) \in Nat
      /\ Cardinality(ToSet(s) \cap ToSet(l)) \in Nat
    BY <1>1, FS_Intersection, FS_CardinalityType
<1>4. Len(s) \in Nat /\ Len(l) \in Nat
    BY DEF Ranking
<1>5. S \subseteq Nat
    BY DEF ToSet, Ranking
<1>6. Cardinality(S) \in Nat
    BY <1>2, FS_CardinalityType
<1> QED
    BY <1>1, <1>2, <1>3, <1>4, <1>5, <1>6

\* The fused order is a strict total order, ties broken by id; so the fused
\* list has every id found, once, and the better one first.
LEMMA FusedInOrder ==
    ASSUME NEW s, Ranking(s), NEW l, Ranking(l), NEW k \in Nat
    PROVE  InOrder(FuseRankings(s, l, k), ToSet(s) \cup ToSet(l), Ahead(s, l, k))
<1> DEFINE S == ToSet(s) \cup ToSet(l)
           R == Ahead(s, l, k)
           sc(id) == Score(s, l, k, id)
<1>1. IsFiniteSet(S) /\ S \subseteq Nat /\ Cardinality(S) <= Len(s) + Len(l)
    BY FoundCounted
<1>2. \A a \in S : sc(a) \in Fractions
    BY ScoreIsFraction
<1>3. ASSUME NEW a \in S, NEW b \in S
      PROVE  <<a, b>> \in R <=>
                 Exceeds(sc(a), sc(b)) \/ (~Exceeds(sc(b), sc(a)) /\ a < b)
    <2>1. R = {ab \in S \X S : \/ Exceeds(sc(ab[1]), sc(ab[2]))
                               \/ ~Exceeds(sc(ab[2]), sc(ab[1])) /\ ab[1] < ab[2]}
        BY DEF Ahead
    <2> HIDE DEF S, R, sc
    <2> QED
        BY <2>1
<1> HIDE DEF S, R, sc
<1>4. \A a \in S : <<a, a>> \notin R
    <2> TAKE a \in S
    <2>1. ~Exceeds(sc(a), sc(a))
        BY <1>2, FractionsCompare
    <2>2. ~(a < a)
        BY <1>1
    <2> QED
        BY <1>3, <2>1, <2>2
<1>5. \A a, b \in S : a # b => <<a, b>> \in R \/ <<b, a>> \in R
    <2> TAKE a, b \in S
    <2>1. a # b => a < b \/ b < a
        BY <1>1
    <2>2. /\ <<a, b>> \in R <=> Exceeds(sc(a), sc(b)) \/ (~Exceeds(sc(b), sc(a)) /\ a < b)
          /\ <<b, a>> \in R <=> Exceeds(sc(b), sc(a)) \/ (~Exceeds(sc(a), sc(b)) /\ b < a)
        BY <1>3
    <2> QED
        BY <2>1, <2>2
<1>6. \A a, b, c \in S : <<a, b>> \in R /\ <<b, c>> \in R => <<a, c>> \in R
    <2> TAKE a, b, c \in S
    <2>1. a < b /\ b < c => a < c
        BY <1>1
    <2>2. /\ Exceeds(sc(a), sc(b)) => ~Exceeds(sc(b), sc(a))
          /\ Exceeds(sc(b), sc(c)) => ~Exceeds(sc(c), sc(b))
          /\ ~Exceeds(sc(b), sc(a)) /\ ~Exceeds(sc(c), sc(b)) =>
                /\ ~Exceeds(sc(c), sc(a))
                /\ Exceeds(sc(a), sc(b)) \/ Exceeds(sc(b), sc(c)) => Exceeds(sc(a), sc(c))
        BY <1>2, FractionsCompare
    <2> QED
        BY <1>3, <2>1, <2>2
<1>7. InOrder(Sorted(S, R), S, R)
    BY <1>1, <1>4, <1>5, <1>6, SortedInOrder
<1>8. FuseRankings(s, l, k) = Sorted(S, R)
    BY DEF FuseRankings, S, R
<1> QED
    BY <1>7, <1>8 DEF S, R

\* A chunk of both channels is ahead of one of a single channel, as long as
\* top_n < k + 2; among those of the semantic channel alone its order counts.
LEMMA BothBeatOne ==
    ASSUME NEW s, Ranking(s), NEW l, Ranking(l), NEW k \in Nat, NEW top \in Nat,
           Len(s) <= top, Len(l) <= top, top < k + 2,
           NEW a \in ToSet(s) \cup ToSet(l), NEW b \in ToSet(s) \cup ToSet(l),
           ~(RankOf(s, b) > 0 /\ RankOf(l, b) > 0),
           \/ RankOf(s, a) > 0 /\ RankOf(l, a) > 0
           \/ /\ ~(RankOf(s, a) > 0 /\ RankOf(l, a) > 0)
              /\ RankOf(s, a) > 0 /\ RankOf(s, b) > 0 /\ RankOf(s, a) < RankOf(s, b)
    PROVE  <<a, b>> \in Ahead(s, l, k)
<1>1. ASSUME NEW list, Ranking(list), Len(list) <= top, NEW id
      PROVE  /\ RankOf(list, id) \in 0 .. top
             /\ id \in ToSet(list) <=> RankOf(list, id) > 0
             /\ Rrf(list, id, k) = IF RankOf(list, id) > 0 THEN <<1, k + RankOf(list, id)>>
                                                         ELSE <<0, 1>>
    <2>1. Len(list) \in Nat
        BY DEF Ranking
    <2>2. CASE Contains(list, id)
        <3>1. RankOf(list, id) \in 1 .. Len(list) /\ id \in ToSet(list)
            BY <1>1, <2>2, RankIsPlace
        <3> QED
            BY <1>1, <2>1, <2>2, <3>1 DEF Rrf, RankOf
    <2>3. CASE ~Contains(list, id)
        <3>1. RankOf(list, id) = 0 /\ id \notin ToSet(list)
            BY <1>1, <2>3, RankIsPlace
        <3> QED
            BY <2>3, <3>1 DEF Rrf
    <2> QED
        BY <2>2, <2>3
<1> DEFINE sa == RankOf(s, a)
           la == RankOf(l, a)
           sb == RankOf(s, b)
           lb == RankOf(l, b)
<1>2. /\ sa \in 0 .. top /\ la \in 0 .. top /\ sb \in 0 .. top /\ lb \in 0 .. top
      /\ sa > 0 \/ la > 0
      /\ sb > 0 \/ lb > 0
    BY <1>1
<1>3. /\ Rrf(s, a, k) = IF sa > 0 THEN <<1, k + sa>> ELSE <<0, 1>>
      /\ Rrf(l, a, k) = IF la > 0 THEN <<1, k + la>> ELSE <<0, 1>>
      /\ Rrf(s, b, k) = IF sb > 0 THEN <<1, k + sb>> ELSE <<0, 1>>
      /\ Rrf(l, b, k) = IF lb > 0 THEN <<1, k + lb>> ELSE <<0, 1>>
    BY <1>1
<1>4. Exceeds(Score(s, l, k, a), Score(s, l, k, b)) => <<a, b>> \in Ahead(s, l, k)
    BY DEF Ahead
<1>5. /\ ~(sb > 0 /\ lb > 0)
      /\ \/ sa > 0 /\ la > 0
         \/ sa > 0 /\ ~(la > 0) /\ sb > 0 /\ sa < sb
    BY <1>2
<1> HIDE DEF sa, la, sb, lb
<1>6. PICK z \in Nat : z >= k + 1 /\ Score(s, l, k, b) = <<1, z>> /\ (sb > 0 => z = k + sb)
    <2>1. CASE sb > 0
        <3>1. ~(lb > 0) /\ k + sb \in Nat
            BY <1>2, <1>5, <2>1
        <3>2. Score(s, l, k, b) = <<1 * 1 + 0 * (k + sb), (k + sb) * 1>>
            BY <1>3, <2>1, <3>1 DEF Score, Plus
        <3>3. Score(s, l, k, b) = <<1, k + sb>>
            BY <3>1, <3>2
        <3> QED
            BY <1>2, <2>1, <3>1, <3>3
    <2>2. CASE ~(sb > 0)
        <3>1. lb > 0 /\ k + lb \in Nat
            BY <1>2, <2>2
        <3>2. Score(s, l, k, b) = <<0 * (k + lb) + 1 * 1, 1 * (k + lb)>>
            BY <1>3, <2>2, <3>1 DEF Score, Plus
        <3>3. Score(s, l, k, b) = <<1, k + lb>>
            BY <3>1, <3>2
        <3> QED
            BY <1>2, <2>2, <3>1, <3>3
    <2> QED
        BY <2>1, <2>2
<1>7. CASE sa > 0 /\ la > 0
    <2> DEFINE x == k + sa
               y == k + la
    <2>1. /\ x \in Nat /\ y \in Nat /\ x > 0 /\ y > 0
          /\ x < 2 * (k + 1) /\ y < 2 * (k + 1)
        BY <1>2, <1>7
    <2>2. Score(s, l, k, a) = <<1 * y + 1 * x, x * y>>
        BY <1>3, <1>7 DEF Score, Plus
    <2> HIDE DEF x, y
    <2>3. x * y \in Nat /\ x * z \in Nat /\ y * z \in Nat
        BY <2>1, <1>6
    <2>4. x < 2 * z /\ y < 2 * z /\ 2 * z \in Nat
        BY <1>6, <2>1
    <2>5. x * y < (2 * z) * y /\ y * x < (2 * z) * x
        BY <2>1, <2>4, Times
    <2>6. (2 * z) * y = 2 * (y * z) /\ (2 * z) * x = 2 * (x * z) /\ y * x = x * y
        BY <2>1, <1>6
    <2>7. y * z + x * z > x * y
        BY <2>3, <2>5, <2>6
    <2>8. (1 * y + 1 * x) * z = y * z + x * z /\ 1 * (x * y) = x * y
        BY <2>1, <2>3, <1>6
    <2>9. Exceeds(Score(s, l, k, a), Score(s, l, k, b))
        BY <1>6, <2>2, <2>7, <2>8 DEF Exceeds
    <2> QED
        BY <1>4, <2>9
<1>8. CASE sa > 0 /\ ~(la > 0) /\ sb > 0 /\ sa < sb
    <2>1. k + sa \in Nat /\ k + sb \in Nat /\ k + sa < k + sb
        BY <1>2, <1>8
    <2>2. Score(s, l, k, a) = <<1 * 1 + 0 * (k + sa), (k + sa) * 1>>
        BY <1>3, <1>8 DEF Score, Plus
    <2>3. Score(s, l, k, a) = <<1, k + sa>>
        BY <2>1, <2>2
    <2>4. Exceeds(Score(s, l, k, a), Score(s, l, k, b))
        BY <1>6, <1>8, <2>1, <2>3 DEF Exceeds
    <2> QED
        BY <1>4, <2>4
<1> QED
    BY <1>5, <1>7, <1>8

----------------------------------------------------------------------------
(* The list on its way through the call.                                   *)

AllFound == ToSet(semantic) \cup ToSet(lexical)

\* Every chunk found, once, with its semantic rank.
Whole ==
    /\ \A p, q \in DOMAIN fused : fused[p].chunk = fused[q].chunk => p = q
    /\ {fused[p].chunk : p \in DOMAIN fused} = AllFound
    /\ \A p \in DOMAIN fused : fused[p].rank = RankOf(semantic, fused[p].chunk)

\* Until the reranker, in the fused order.
InFusedOrder ==
    /\ \A p \in DOMAIN fused : fused[p].bm25Rank = RankOf(lexical, fused[p].chunk)
    /\ \A p, q \in DOMAIN fused :
          <<fused[p].chunk, fused[q].chunk>> \in Ahead(semantic, lexical, RrfK) => p < q

\* A rebuild that has swapped the collection in has left one there.
RetrieveTyped == RetrieveTypeOK /\ (rebuild \in {"swapped", "saved"} => collection \in Builds)

RetrieveInv ==
    /\ RetrieveTyped
    /\ fused \in Seq(Results)
    /\ at \in {"idle", "semantic", "lexical"} => fused = << >>
    /\ at \in {"lexical", "metadata", "cut", "returned"} =>
          semanticOf \in Builds /\ semantic \in HitLists(semanticOf)
    /\ at \in {"metadata", "cut", "returned"} => \E b \in Builds : lexical \in HitLists(b)
    /\ at \in {"metadata", "cut"} => Whole
    /\ at = "metadata" => InFusedOrder
    /\ at = "returned" /\ K >= 2 * TopN => Whole

\* Metadata is of a build that holds the chunk, and is there when the list is
\* handed on.
Described ==
    \A p \in DOMAIN fused :
        /\ fused[p].build # NoBuild => fused[p].chunk \in Holds[fused[p].build]
        /\ at \in {"cut", "returned"} => fused[p].build # NoBuild

\* A call that saw no rename: everything semantic is of the live collection,
\* and what is still to be described is there or in the BM25 index.
Coherent ==
    /\ at \in {"lexical", "metadata", "cut", "returned"} => semanticOf = collection
    /\ \A p \in DOMAIN fused : fused[p].build \in {NoBuild, collection}
    /\ at = "metadata" =>
          \A p \in DOMAIN fused : fused[p].chunk \in Holds[collection] \cup Holds[bm25Cache]
    /\ at = "raised" => reranker = "faulty" \/ collection # bm25Cache

CoherentInv == RetrieveInv /\ Described /\ (~swapped => Coherent)

\* The list that the fusion makes.
LEMMA FusionWhole ==
    ASSUME RetrieveInv, QueryLexical
    PROVE  /\ fused' \in Seq(Results)
           /\ \E b \in Builds : lexical' \in HitLists(b)
           /\ Whole' /\ InFusedOrder'
<1>1. /\ at = "lexical" /\ semantic' = semantic /\ bm25Cache \in Builds
      /\ semanticOf \in Builds /\ semantic \in HitLists(semanticOf)
    BY DEF QueryLexical, RetrieveInv, RetrieveTyped, RetrieveTypeOK
<1>2. PICK hits \in HitLists(bm25Cache) :
        /\ lexical' = hits
        /\ fused' = [p \in DOMAIN FuseRankings(semantic, hits, RrfK) |->
                       [chunk |-> FuseRankings(semantic, hits, RrfK)[p],
                        rank |-> RankOf(semantic, FuseRankings(semantic, hits, RrfK)[p]),
                        bm25Rank |-> RankOf(hits, FuseRankings(semantic, hits, RrfK)[p]),
                        build |-> IF Contains(semantic, FuseRankings(semantic, hits, RrfK)[p])
                                  THEN semanticOf ELSE NoBuild]]
    BY DEF QueryLexical, RankOf
<1> DEFINE order == FuseRankings(semantic, hits, RrfK)
           S == ToSet(semantic) \cup ToSet(hits)
           n == Cardinality(S)
<1>3. /\ Ranking(semantic) /\ Len(semantic) \in 1 .. TopN /\ ToSet(semantic) \subseteq AllChunks
      /\ Ranking(hits) /\ Len(hits) \in 1 .. TopN /\ ToSet(hits) \subseteq AllChunks
    BY <1>1, HitsAreRanked
<1>4. /\ n \in Nat
      /\ order \in [1 .. n -> S]
      /\ \A id \in S : \E p \in 1 .. n : order[p] = id
      /\ \A p, q \in 1 .. n : order[p] = order[q] => p = q
      /\ \A p, q \in 1 .. n : <<order[p], order[q]>> \in Ahead(semantic, hits, RrfK) => p < q
    <2>1. RrfK \in Nat
        BY RetrieverAssumption
    <2>2. InOrder(order, S, Ahead(semantic, hits, RrfK))
        BY <1>3, <2>1, FusedInOrder
    <2>3. n \in Nat
        BY <1>3, FoundCounted
    <2> HIDE DEF order, S
    <2> QED
        BY <2>2, <2>3 DEF InOrder
<1>5. S \subseteq AllChunks
    BY <1>3
<1>6. AllFound' = S
    BY <1>1, <1>2 DEF AllFound
<1> HIDE DEF order, S, n
<1>7. /\ DOMAIN fused' = 1 .. n
      /\ \A p \in 1 .. n :
            fused'[p] = [chunk |-> order[p], rank |-> RankOf(semantic, order[p]),
                         bm25Rank |-> RankOf(hits, order[p]),
                         build |-> IF Contains(semantic, order[p]) THEN semanticOf ELSE NoBuild]
    BY <1>2, <1>4 DEF order
<1>8. TopN \in Nat
    BY RetrieverAssumption
<1>9. \A id : RankOf(semantic, id) \in 0 .. TopN /\ RankOf(hits, id) \in 0 .. TopN
    <2> TAKE id
    <2>1. RankOf(semantic, id) \in 1 .. Len(semantic) \/ RankOf(semantic, id) = 0
        BY <1>3, RankIsPlace
    <2>2. RankOf(hits, id) \in 1 .. Len(hits) \/ RankOf(hits, id) = 0
        BY <1>3, RankIsPlace
    <2> QED
        BY <1>3, <1>8, <2>1, <2>2
<1>10. fused' \in Seq(Results)
    <2>1. \A p \in 1 .. n : fused'[p] \in Results
        BY <1>1, <1>4, <1>5, <1>7, <1>9 DEF Results
    <2>2. fused' = [p \in 1 .. n |-> fused'[p]]
        BY <1>2, <1>7
    <2> QED
        BY <1>4, <2>1, <2>2
<1>11. Whole'
    <2>1. \A p, q \in DOMAIN fused' : fused'[p].chunk = fused'[q].chunk => p = q
        BY <1>4, <1>7
    <2>2. {fused'[p].chunk : p \in DOMAIN fused'} = AllFound'
        BY <1>4, <1>6, <1>7
    <2>3. \A p \in DOMAIN fused' : fused'[p].rank = RankOf(semantic', fused'[p].chunk)
        BY <1>1, <1>7
    <2> QED
        BY <2>1, <2>2, <2>3 DEF Whole
<1>12. InFusedOrder'
    <2>1. \A p \in DOMAIN fused' : fused'[p].bm25Rank = RankOf(lexical', fused'[p].chunk)
        BY <1>2, <1>7
    <2>2. \A p, q \in DOMAIN fused' :
            <<fused'[p].chunk, fused'[q].chunk>> \in Ahead(semantic', lexical', RrfK) => p < q
        <3>1. semantic' = semantic /\ lexical' = hits
            BY <1>1, <1>2
        <3>2. \A p \in 1 .. n : fused'[p].chunk = order[p]
            BY <1>7
        <3> QED
            BY <1>4, <1>7, <3>1, <3>2
    <2> QED
        BY <2>1, <2>2 DEF InFusedOrder
<1> QED
    BY <1>1, <1>2, <1>10, <1>11, <1>12

\* The list is as long as what was found, so k cuts nothing off.
LEMMA Fits ==
    ASSUME fused \in Seq(Results), Whole, NEW b \in Builds, semantic \in HitLists(b),
           NEW c \in Builds, lexical \in HitLists(c)
    PROVE  Len(fused) = Cardinality(AllFound) /\ Len(fused) <= 2 * TopN
<1>1. /\ Ranking(semantic) /\ Len(semantic) \in 1 .. TopN
      /\ Ranking(lexical) /\ Len(lexical) \in 1 .. TopN
    BY HitsAreRanked
<1>2. Cardinality(AllFound) \in Nat /\ Cardinality(AllFound) <= Len(semantic) + Len(lexical)
    BY <1>1, FoundCounted DEF AllFound
<1> DEFINE n == Len(fused)
           chunks == [p \in 1 .. n |-> fused[p].chunk]
<1>3. n \in Nat /\ DOMAIN fused = 1 .. n
    OBVIOUS
<1>4. chunks \in [1 .. n -> AllFound] /\ \A id \in AllFound : \E p \in 1 .. n : chunks[p] = id
    BY <1>3 DEF Whole
<1>5. \A p, q \in 1 .. n : chunks[p] = chunks[q] => p = q
    BY <1>3 DEF Whole
<1> HIDE DEF chunks, n
<1>6. chunks \in Injection(1 .. n, AllFound) /\ chunks \in Surjection(1 .. n, AllFound)
    BY <1>4, <1>5, Fun_IsInj, Fun_IsSurj
<1>7. IsFiniteSet(1 .. n) /\ Cardinality(1 .. n) = n
    BY <1>3, FS_Interval
<1>8. Cardinality(AllFound) = n
    BY <1>6, <1>7, FS_Surjection
<1>9. TopN \in Nat
    BY RetrieverAssumption
<1> QED
    BY <1>1, <1>2, <1>8, <1>9 DEF n

\* A set's orders list every member, once.
LEMMA OrderedSet ==
    ASSUME NEW M, IsFiniteSet(M), NEW order \in SetToSeqs(M)
    PROVE  /\ Cardinality(M) \in Nat /\ order \in [1 .. Cardinality(M) -> M]
           /\ \A i, j \in 1 .. Cardinality(M) : order[i] = order[j] => i = j
           /\ \A x \in M : \E i \in 1 .. Cardinality(M) : order[i] = x
<1> DEFINE m == Cardinality(M)
<1>1. m \in Nat
    BY FS_CardinalityType
<1>2. order \in [1 .. m -> M] /\ \A i, j \in 1 .. m : order[i] = order[j] => i = j
    BY DEF SetToSeqs
<1>3. order \in Injection(1 .. m, M)
    BY <1>2, Fun_IsInj
<1>4. IsFiniteSet(1 .. m) /\ Cardinality(1 .. m) = m
    <2> HIDE DEF m
    <2> QED
        BY <1>1, FS_Interval
<1>5. order \in Surjection(1 .. m, M)
    BY <1>3, <1>4, FS_Injection
<1>6. \A x \in M : \E i \in 1 .. m : order[i] = x
    BY <1>5 DEF Surjection
<1> QED
    BY <1>1, <1>2, <1>6

\* A list cut in two.
LEMMA CutInTwo ==
    ASSUME NEW S, NEW list \in Seq(S), NEW w \in 0 .. Len(list)
    PROVE  /\ SubSeq(list, 1, w) \in Seq(S) /\ Len(SubSeq(list, 1, w)) = w
           /\ \A p \in 1 .. w : SubSeq(list, 1, w)[p] = list[p]
           /\ SubSeq(list, w + 1, Len(list)) \in Seq(S)
           /\ Len(SubSeq(list, w + 1, Len(list))) = Len(list) - w
           /\ \A p \in 1 .. Len(list) - w : SubSeq(list, w + 1, Len(list))[p] = list[w + p]
<1> DEFINE n == Len(list)
           front == SubSeq(list, 1, w)
           back == SubSeq(list, w + 1, n)
<1>1. n \in Nat /\ w \in Nat /\ w <= n /\ \A p \in 1 .. n : list[p] \in S
    OBVIOUS
<1> HIDE DEF n
<1>2. /\ front \in Seq(S) /\ Len(front) = (IF 1 <= w THEN w - 1 + 1 ELSE 0)
      /\ \A p \in 1 .. w - 1 + 1 : front[p] = list[1 + p - 1]
    <2>1. 1 \in Int /\ w \in Int /\ \A p \in 1 .. w : list[p] \in S
        BY <1>1
    <2> QED
        BY <2>1, SubSeqProperties
<1>3. /\ back \in Seq(S) /\ Len(back) = (IF w + 1 <= n THEN n - (w + 1) + 1 ELSE 0)
      /\ \A p \in 1 .. n - (w + 1) + 1 : back[p] = list[w + 1 + p - 1]
    <2>1. w + 1 \in Int /\ n \in Int /\ \A p \in w + 1 .. n : list[p] \in S
        BY <1>1
    <2> QED
        BY <2>1, SubSeqProperties
<1> HIDE DEF front, back
<1>4. Len(front) = w /\ \A p \in 1 .. w : front[p] = list[p]
    BY <1>1, <1>2
<1>5. Len(back) = n - w
    BY <1>1, <1>3
<1>6. \A p \in 1 .. n - w : back[p] = list[w + p]
    <2> TAKE p \in 1 .. n - w
    <2>1. p \in 1 .. n - (w + 1) + 1 /\ w + 1 + p - 1 = w + p
        BY <1>1
    <2> QED
        BY <1>3, <2>1
<1> QED
    BY <1>2, <1>3, <1>4, <1>5, <1>6 DEF n, front, back

\* The one list has what the other has, and nothing twice.
Rearranges(new, list) ==
    /\ \A p \in 1 .. Len(new) : \E q \in 1 .. Len(list) : new[p] = list[q]
    /\ \A q \in 1 .. Len(list) : \E p \in 1 .. Len(new) : new[p] = list[q]
    /\ \A p, q \in 1 .. Len(new) : new[p] = new[q] => p = q

\* A list with its first w places in another order has what it had.
LEMMA Rearranged ==
    ASSUME NEW S, NEW list \in Seq(S), NEW w \in 0 .. Len(list),
           \A p, q \in 1 .. Len(list) : list[p] = list[q] => p = q,
           NEW order \in SetToSeqs(ToSet(SubSeq(list, 1, w)))
    PROVE  LET new == order \o SubSeq(list, w + 1, Len(list))
           IN  new \in Seq(S) /\ Rearranges(new, list)
<1> DEFINE n == Len(list)
           front == SubSeq(list, 1, w)
           back == SubSeq(list, w + 1, n)
           M == ToSet(front)
           m == Cardinality(M)
           new == order \o back
<1>1. n \in Nat /\ DOMAIN list = 1 .. n /\ w \in 0 .. n
    OBVIOUS
<1>2. /\ front \in Seq(S) /\ Len(front) = w /\ \A p \in 1 .. w : front[p] = list[p]
    BY CutInTwo
<1>3. /\ back \in Seq(S) /\ Len(back) = n - w /\ \A p \in 1 .. n - w : back[p] = list[w + p]
    BY CutInTwo
<1>4. order \in SetToSeqs(M)
    OBVIOUS
<1> HIDE DEF n, front, back
<1>5. M = {list[p] : p \in 1 .. w} /\ IsFiniteSet(M)
    <2>1. DOMAIN front = 1 .. w
        BY <1>2
    <2>2. M = {list[p] : p \in 1 .. w}
        BY <1>2, <2>1 DEF ToSet
    <2>3. IsFiniteSet(M)
        BY <1>2, MembersCounted
    <2> QED
        BY <2>2, <2>3
<1> HIDE DEF M
<1>6. /\ m \in Nat /\ order \in [1 .. m -> M]
      /\ \A i, j \in 1 .. m : order[i] = order[j] => i = j
      /\ \A x \in M : \E i \in 1 .. m : order[i] = x
    <2>1. order \in SetToSeqs(M) /\ IsFiniteSet(M)
        BY <1>4, <1>5
    <2>2. /\ Cardinality(M) \in Nat /\ order \in [1 .. Cardinality(M) -> M]
          /\ \A i, j \in 1 .. Cardinality(M) : order[i] = order[j] => i = j
          /\ \A x \in M : \E i \in 1 .. Cardinality(M) : order[i] = x
        BY <2>1, OrderedSet
    <2> QED
        BY <2>2
<1> HIDE DEF m
<1>7. M \subseteq S
    BY <1>1, <1>5 DEF n
<1>8. order \in Seq(S) /\ Len(order) = m
    BY <1>6, <1>7
<1>9. /\ new \in Seq(S) /\ Len(new) = m + (n - w)
      /\ \A p \in 1 .. m + (n - w) : new[p] = IF p <= m THEN order[p] ELSE back[p - m]
    <2>1. /\ new \in Seq(S) /\ Len(new) = Len(order) + Len(back)
          /\ \A p \in 1 .. Len(order) + Len(back) :
                new[p] = IF p <= Len(order) THEN order[p] ELSE back[p - Len(order)]
        BY <1>3, <1>8, ConcatProperties
    <2> HIDE DEF new
    <2> QED
        BY <1>3, <1>8, <2>1
<1> HIDE DEF new
<1>10. \A p \in 1 .. Len(new) :
         /\ p <= m => p \in 1 .. m /\ new[p] = order[p] /\ \E q \in 1 .. w : new[p] = list[q]
         /\ p > m => w + (p - m) \in w + 1 .. n /\ new[p] = list[w + (p - m)]
    <2> TAKE p \in 1 .. Len(new)
    <2>1. p \in 1 .. m + (n - w)
        BY <1>9
    <2>2. CASE p <= m
        BY <1>5, <1>6, <1>9, <2>1, <2>2
    <2>3. CASE p > m
        <3>1. p - m \in 1 .. n - w
            BY <1>1, <1>6, <2>1, <2>3
        <3> QED
            BY <1>1, <1>3, <1>6, <1>9, <2>1, <2>3, <3>1
    <2> QED
        BY <1>6, <2>1, <2>2, <2>3
<1>11. \A p \in 1 .. Len(new) : \E q \in 1 .. n : new[p] = list[q]
    <2> TAKE p \in 1 .. Len(new)
    <2>1. p <= m \/ p > m
        BY <1>6, <1>9
    <2>2. CASE p <= m
        BY <1>1, <1>10, <2>2
    <2>3. CASE p > m
        <3>1. w + (p - m) \in 1 .. n /\ new[p] = list[w + (p - m)]
            BY <1>1, <1>10, <2>3
        <3> QED
            BY <3>1
    <2> QED
        BY <2>1, <2>2, <2>3
<1>12. \A q \in 1 .. n : \E p \in 1 .. Len(new) : new[p] = list[q]
    <2> TAKE q \in 1 .. n
    <2>1. CASE q <= w
        <3>1. list[q] \in M
            BY <1>1, <1>5, <2>1
        <3>2. PICK i \in 1 .. m : order[i] = list[q]
            BY <1>6, <3>1
        <3>3. i \in 1 .. m + (n - w)
            BY <1>1, <1>6
        <3> QED
            BY <1>9, <3>2, <3>3
    <2>2. CASE q > w
        <3>1. m + (q - w) \in 1 .. m + (n - w) /\ q - w \in 1 .. n - w
            BY <1>1, <1>6, <2>2
        <3>2. /\ m + (q - w) > m /\ (m + (q - w)) - m = q - w /\ w + (q - w) = q
              /\ ~(m + (q - w) <= m)
            BY <1>1, <1>6, <2>2
        <3>3. new[m + (q - w)] = back[q - w]
            BY <1>9, <3>1, <3>2
        <3>4. back[q - w] = list[w + (q - w)]
            BY <1>3, <3>1
        <3> QED
            BY <1>9, <3>1, <3>2, <3>3, <3>4
    <2> QED
        BY <1>1, <2>1, <2>2
<1>13. \A p, q \in 1 .. Len(new) : new[p] = new[q] => p = q
    <2> SUFFICES ASSUME NEW p \in 1 .. Len(new), NEW q \in 1 .. Len(new), new[p] = new[q]
                 PROVE  p = q
        OBVIOUS
    <2>1. p \in Int /\ q \in Int /\ m \in Int /\ w \in Int /\ n \in Int
        BY <1>1, <1>6
    <2>2. CASE p <= m /\ q <= m
        <3>1. p \in 1 .. m /\ q \in 1 .. m /\ order[p] = order[q]
            BY <1>10, <2>2
        <3> QED
            BY <1>6, <3>1
    <2>3. CASE p > m /\ q > m
        <3>1. /\ w + (p - m) \in 1 .. n /\ w + (q - m) \in 1 .. n
              /\ list[w + (p - m)] = list[w + (q - m)]
            BY <1>1, <1>10, <2>1, <2>3
        <3>2. w + (p - m) = w + (q - m)
            BY <3>1 DEF n
        <3> QED
            BY <2>1, <3>2
    <2>4. ASSUME NEW i \in 1 .. Len(new), NEW j \in 1 .. Len(new), i <= m, j > m
          PROVE  new[i] # new[j]
        <3>1. PICK h \in 1 .. w : new[i] = list[h]
            BY <1>10, <2>4
        <3>2. w + (j - m) \in w + 1 .. n /\ new[j] = list[w + (j - m)]
            BY <1>10, <2>4
        <3>3. h \in 1 .. n /\ w + (j - m) \in 1 .. n /\ h # w + (j - m)
            BY <1>1, <3>2
        <3> QED
            BY <3>1, <3>2, <3>3 DEF n
    <2> QED
        BY <2>1, <2>2, <2>3, <2>4
<1> QED
    BY <1>9, <1>11, <1>12, <1>13 DEF new, n, back, Rearranges

\* A step of the call that only moves the list's metadata keeps it whole.
LEMMA MetadataKeeps ==
    ASSUME RetrieveInv, FetchMetadata
    PROVE  /\ fused' \in Seq(Results) /\ DOMAIN fused' = DOMAIN fused
           /\ \A p \in DOMAIN fused :
                 /\ fused'[p].chunk = fused[p].chunk
                 /\ fused'[p].rank = fused[p].rank
                 /\ fused'[p].bm25Rank = fused[p].bm25Rank
                 /\ fused'[p].build \in {fused[p].build, collection}
<1>1. fused \in Seq(Results) /\ collection \in Builds
    BY DEF RetrieveInv, RetrieveTyped, RetrieveTypeOK, FetchMetadata, Held
<1>2. PICK x : fused' = [fused EXCEPT ![x].build = collection]
    BY DEF FetchMetadata
<1> DEFINE n == Len(fused)
<1>3. n \in Nat /\ DOMAIN fused = 1 .. n /\ fused = [p \in 1 .. n |-> fused[p]]
    BY <1>1
<1>4. \A p \in 1 .. n : fused[p] \in Results
    BY <1>1, <1>3
<1> HIDE DEF n
<1>5. DOMAIN fused' = 1 .. n /\ fused' = [p \in 1 .. n |-> fused'[p]]
    BY <1>2, <1>3
<1>6. \A p \in 1 .. n : fused'[p] \in {fused[p], [fused[p] EXCEPT !.build = collection]}
    BY <1>2, <1>3
<1>7. \A r \in Results : [r EXCEPT !.build = collection] \in Results
    BY <1>1 DEF Results
<1>8. \A r \in Results : LET c == [r EXCEPT !.build = collection]
                         IN  /\ c.chunk = r.chunk /\ c.rank = r.rank
                             /\ c.bm25Rank = r.bm25Rank /\ c.build = collection
    BY DEF Results
<1>9. \A p \in 1 .. n : fused'[p] \in Results
    BY <1>4, <1>6, <1>7
<1>10. fused' \in Seq(Results)
    BY <1>3, <1>5, <1>9
<1>11. ASSUME NEW p \in 1 .. n
       PROVE  /\ fused'[p].chunk = fused[p].chunk /\ fused'[p].rank = fused[p].rank
              /\ fused'[p].bm25Rank = fused[p].bm25Rank
              /\ fused'[p].build \in {fused[p].build, collection}
    BY <1>4, <1>6, <1>8
<1> QED
    BY <1>3, <1>5, <1>10, <1>11

LEMMA RerankKeeps ==
    ASSUME RetrieveInv, Rerank
    PROVE  /\ fused' \in Seq(Results) /\ Whole'
           /\ \A p \in DOMAIN fused' : \E q \in DOMAIN fused : fused'[p] = fused[q]
<1> DEFINE n == Len(fused)
           w == Smaller(RerankWindow, n)
<1>1. fused \in Seq(Results) /\ Whole /\ semantic' = semantic /\ lexical' = lexical
    BY DEF RetrieveInv, Rerank
<1>2. n \in Nat /\ DOMAIN fused = 1 .. n /\ w \in 0 .. n
    BY <1>1, RetrieverAssumption DEF Smaller
<1>3. PICK order \in SetToSeqs(ToSet(SubSeq(fused, 1, w))) :
         fused' = order \o SubSeq(fused, w + 1, n)
    BY DEF Rerank, window, tail
<1> HIDE DEF w
<1>4. \A p, q \in 1 .. n : fused[p] = fused[q] => p = q
    BY <1>1, <1>2 DEF Whole
<1>5. /\ fused' \in Seq(Results) /\ Rearranges(fused', fused)
    BY <1>1, <1>2, <1>3, <1>4, Rearranged
<1> HIDE DEF n
<1>6. DOMAIN fused' = 1 .. Len(fused')
    BY <1>5
<1>6a. \A p \in DOMAIN fused' : \E q \in 1 .. n : fused'[p] = fused[q]
    BY <1>5, <1>6 DEF Rearranges, n
<1>6b. \A q \in 1 .. n : \E p \in DOMAIN fused' : fused'[p] = fused[q]
    BY <1>5, <1>6 DEF Rearranges, n
<1>6c. \A p, q \in DOMAIN fused' : fused'[p] = fused'[q] => p = q
    BY <1>5, <1>6 DEF Rearranges
<1>7. \A p, q \in DOMAIN fused' : fused'[p].chunk = fused'[q].chunk => p = q
    <2> SUFFICES ASSUME NEW p \in DOMAIN fused', NEW q \in DOMAIN fused',
                        fused'[p].chunk = fused'[q].chunk
                 PROVE  p = q
        OBVIOUS
    <2>1. PICK i \in 1 .. n : fused'[p] = fused[i]
        BY <1>6a
    <2>2. PICK j \in 1 .. n : fused'[q] = fused[j]
        BY <1>6a
    <2>3. i = j
        BY <1>1, <1>2, <2>1, <2>2 DEF Whole
    <2>4. fused'[p] = fused'[q]
        BY <2>1, <2>2, <2>3
    <2> QED
        BY <1>6c, <2>4
<1>8. {fused'[p].chunk : p \in DOMAIN fused'} = {fused[q].chunk : q \in DOMAIN fused}
    <2>1. ASSUME NEW p \in DOMAIN fused'
          PROVE  fused'[p].chunk \in {fused[q].chunk : q \in DOMAIN fused}
        <3>1. PICK q \in 1 .. n : fused'[p] = fused[q]
            BY <1>6a
        <3> QED
            BY <1>2, <3>1
    <2>2. ASSUME NEW q \in DOMAIN fused
          PROVE  fused[q].chunk \in {fused'[p].chunk : p \in DOMAIN fused'}
        <3>1. PICK p \in DOMAIN fused' : fused'[p] = fused[q]
            BY <1>2, <1>6b
        <3> QED
            BY <3>1
    <2> QED
        BY <2>1, <2>2
<1>9. \A p \in DOMAIN fused' : fused'[p].rank = RankOf(semantic', fused'[p].chunk)
    <2> TAKE p \in DOMAIN fused'
    <2>1. PICK q \in 1 .. n : fused'[p] = fused[q]
        BY <1>6a
    <2> QED
        BY <1>1, <1>2, <2>1 DEF Whole
<1>10. Whole'
    BY <1>1, <1>7, <1>8, <1>9 DEF Whole, AllFound
<1> QED
    BY <1>2, <1>5, <1>6a, <1>10

LEMMA ReturnKeeps ==
    ASSUME RetrieveInv, Return
    PROVE  /\ fused' \in Seq(Results)
           /\ K >= 2 * TopN => fused' = fused
           /\ \A p \in DOMAIN fused' : p \in DOMAIN fused /\ fused'[p] = fused[p]
<1> DEFINE n == Len(fused)
           w == Smaller(K, n)
<1>1. /\ fused \in Seq(Results) /\ Whole /\ fused' = SubSeq(fused, 1, w)
      /\ semanticOf \in Builds /\ semantic \in HitLists(semanticOf)
      /\ \E b \in Builds : lexical \in HitLists(b)
    BY DEF RetrieveInv, Return
<1>2. n \in Nat /\ DOMAIN fused = 1 .. n /\ w \in 0 .. n /\ TopN \in Nat /\ K \in Nat
    BY <1>1, RetrieverAssumption DEF Smaller
<1>3. n <= 2 * TopN
    <2>1. PICK b \in Builds : lexical \in HitLists(b)
        BY <1>1
    <2>2. Len(fused) <= 2 * TopN
        BY <1>1, <2>1, Fits
    <2> QED
        BY <2>2
<1>4. K >= 2 * TopN => w = n
    <2>1. w = IF K <= n THEN K ELSE n
        BY DEF Smaller
    <2> HIDE DEF w, n
    <2>2. K >= 2 * TopN => K >= n
        BY <1>2, <1>3
    <2> QED
        BY <1>2, <2>1, <2>2
<1> HIDE DEF w
<1>5. /\ fused' \in Seq(Results) /\ Len(fused') = w
      /\ \A p \in 1 .. w : fused'[p] = fused[p]
    BY <1>1, <1>2, CutInTwo
<1> HIDE DEF n
<1>6. DOMAIN fused' = 1 .. w
    BY <1>5
<1>7. K >= 2 * TopN => fused' = fused
    <2>1. fused' = [p \in 1 .. w |-> fused'[p]] /\ fused = [p \in 1 .. n |-> fused[p]]
        BY <1>1, <1>2, <1>5, <1>6
    <2> QED
        BY <1>4, <1>5, <2>1
<1> QED
    BY <1>2, <1>5, <1>6, <1>7

LEMMA RetrieveStarts == RetrieveInit => RetrieveInv
<1> SUFFICES ASSUME RetrieveInit
             PROVE  RetrieveInv
    OBVIOUS
<1>1. 1 \in Builds
    BY RetrieverAssumption DEF Builds
<1>2. fused = << >> /\ ToSet(fused) = {} /\ fused \in Seq(Results)
    BY DEF RetrieveInit, ToSet
<1> QED
    BY <1>1, <1>2 DEF RetrieveInit, RetrieveInv, RetrieveTyped, RetrieveTypeOK

\* What is not the call's leaves the call alone, and a restart forgets it.
LEMMA CallUntouched ==
    ASSUME RetrieveInv, RetrieveTyped', UNCHANGED call
    PROVE  RetrieveInv'
<1>1. /\ at' = at /\ semantic' = semantic /\ semanticOf' = semanticOf
      /\ lexical' = lexical /\ fused' = fused
    BY DEF call
<1>2. (Whole <=> Whole') /\ (InFusedOrder <=> InFusedOrder')
    BY <1>1 DEF Whole, InFusedOrder, AllFound
<1> QED
    BY <1>1, <1>2 DEF RetrieveInv

LEMMA RetrieveSteps == RetrieveInv /\ [RetrieveNext]_retrieveVars => RetrieveInv'
<1> SUFFICES ASSUME RetrieveInv, [RetrieveNext]_retrieveVars
             PROVE  RetrieveInv'
    OBVIOUS
<1>1. /\ {collection, previous} \subseteq {NoBuild} \cup Builds
      /\ {bm25File, manifest, bm25Cache} \subseteq Builds
      /\ rebuild \in {"idle", "renaming", "swapped", "saved"} /\ swapped \in BOOLEAN
      /\ at \in {"idle", "semantic", "lexical", "metadata", "cut", "returned", "raised"}
      /\ fused \in Seq(Results) /\ ToSet(fused) \subseteq Results
      /\ rebuild \in {"swapped", "saved"} => collection \in Builds
    BY DEF RetrieveInv, RetrieveTyped, RetrieveTypeOK
<1>2. ASSUME fused' \in Seq(Results)
      PROVE  ToSet(fused') \subseteq Results
    BY <1>2 DEF ToSet
<1>3. CASE RenameAway
    <2>1. RetrieveTyped' /\ UNCHANGED call
        BY <1>1, <1>3 DEF RenameAway, RetrieveTyped, RetrieveTypeOK, call
    <2> QED
        BY <2>1, CallUntouched
<1>4. CASE RenameIn
    <2>1. RetrieveTyped' /\ UNCHANGED call
        BY <1>1, <1>4 DEF RenameIn, RetrieveTyped, RetrieveTypeOK, call
    <2> QED
        BY <2>1, CallUntouched
<1>5. CASE ReplaceBm25
    <2>1. RetrieveTyped' /\ UNCHANGED call
        BY <1>1, <1>5 DEF ReplaceBm25, RetrieveTyped, RetrieveTypeOK, call
    <2> QED
        BY <2>1, CallUntouched
<1>6. CASE WriteManifest \/ RebuildStops
    <2>1. RetrieveTyped' /\ UNCHANGED call
        BY <1>1, <1>6 DEF WriteManifest, RebuildStops, RetrieveTyped, RetrieveTypeOK, call
    <2> QED
        BY <2>1, CallUntouched
<1>7. CASE Restart
    <2>1. at' = "idle" /\ fused' = << >> /\ ToSet(fused') = {}
        BY <1>7 DEF Restart, ToSet
    <2>2. RetrieveTyped'
        BY <1>1, <1>7, <2>1 DEF Restart, disk, RetrieveTyped, RetrieveTypeOK
    <2> QED
        BY <2>1, <2>2 DEF RetrieveInv
<1>8. CASE Call
    BY <1>1, <1>8 DEF Call, store, disk, RetrieveInv, RetrieveTyped, RetrieveTypeOK
<1>9. CASE QuerySemantic
    BY <1>1, <1>9 DEF QuerySemantic, store, disk, RetrieveInv, RetrieveTyped, RetrieveTypeOK
<1>10. CASE QueryLexical
    <2>1. /\ fused' \in Seq(Results) /\ Whole' /\ InFusedOrder'
          /\ \E b \in Builds : lexical' \in HitLists(b)
        BY <1>10, FusionWhole
    <2>2. /\ at = "lexical" /\ at' = "metadata" /\ UNCHANGED <<store, reranker, semantic, semanticOf>>
        BY <1>10 DEF QueryLexical
    <2>3. RetrieveTyped'
        BY <1>1, <1>2, <2>1, <2>2 DEF store, disk, RetrieveTyped, RetrieveTypeOK
    <2> QED
        BY <2>1, <2>2, <2>3 DEF RetrieveInv
<1>11. CASE FetchMetadata
    <2>1. /\ fused' \in Seq(Results) /\ DOMAIN fused' = DOMAIN fused
          /\ \A p \in DOMAIN fused :
                /\ fused'[p].chunk = fused[p].chunk
                /\ fused'[p].rank = fused[p].rank
                /\ fused'[p].bm25Rank = fused[p].bm25Rank
        BY <1>11, MetadataKeeps
    <2>2. at = "metadata" /\ UNCHANGED <<store, reranker, at, semantic, semanticOf, lexical>>
        BY <1>11 DEF FetchMetadata
    <2>3. RetrieveTyped'
        BY <1>1, <1>2, <2>1, <2>2 DEF store, disk, RetrieveTyped, RetrieveTypeOK
    <2>4. Whole /\ InFusedOrder
        BY <2>2 DEF RetrieveInv
    <2>5. Whole'
        <3>1. {fused'[p].chunk : p \in DOMAIN fused'} = {fused[p].chunk : p \in DOMAIN fused}
            BY <2>1
        <3>2. \A p, q \in DOMAIN fused' : fused'[p].chunk = fused'[q].chunk => p = q
            BY <2>1, <2>4 DEF Whole
        <3>3. \A p \in DOMAIN fused' : fused'[p].rank = RankOf(semantic', fused'[p].chunk)
            BY <2>1, <2>2, <2>4 DEF Whole
        <3> QED
            BY <2>2, <2>4, <3>1, <3>2, <3>3 DEF Whole, AllFound
    <2>6. InFusedOrder'
        BY <2>1, <2>2, <2>4 DEF InFusedOrder
    <2> QED
        BY <2>1, <2>2, <2>3, <2>5, <2>6 DEF RetrieveInv
<1>12. CASE ChannelFails
    BY <1>1, <1>12 DEF ChannelFails, store, disk, RetrieveInv, RetrieveTyped, RetrieveTypeOK
<1>13. CASE Rerank
    <2>1. fused' \in Seq(Results) /\ Whole'
        BY <1>13, RerankKeeps
    <2>2. /\ at = "metadata" /\ at' = "cut"
          /\ UNCHANGED <<store, reranker, semantic, semanticOf, lexical>>
        BY <1>13 DEF Rerank
    <2>3. RetrieveTyped'
        BY <1>1, <1>2, <2>1, <2>2 DEF store, disk, RetrieveTyped, RetrieveTypeOK
    <2> QED
        BY <2>1, <2>2, <2>3 DEF RetrieveInv
<1>14. CASE RerankRefused
    BY <1>1, <1>14 DEF RerankRefused, store, disk, RetrieveInv, RetrieveTyped, RetrieveTypeOK
<1>15. CASE KeepOrder
    <2>1. Whole /\ Whole'
        BY <1>15 DEF KeepOrder, RetrieveInv, Whole, AllFound
    <2> QED
        BY <1>1, <1>15, <2>1 DEF KeepOrder, store, disk, RetrieveInv, RetrieveTyped, RetrieveTypeOK
<1>16. CASE Return
    <2>1. fused' \in Seq(Results) /\ (K >= 2 * TopN => fused' = fused)
        BY <1>16, ReturnKeeps
    <2>2. /\ at = "cut" /\ at' = "returned" /\ Whole
          /\ UNCHANGED <<store, reranker, semantic, semanticOf, lexical>>
        BY <1>16 DEF Return, RetrieveInv
    <2>3. RetrieveTyped'
        BY <1>1, <1>2, <2>1, <2>2 DEF store, disk, RetrieveTyped, RetrieveTypeOK
    <2>4. K >= 2 * TopN => Whole'
        BY <2>1, <2>2 DEF Whole, AllFound
    <2> QED
        BY <2>1, <2>2, <2>3, <2>4 DEF RetrieveInv
<1>17. CASE UNCHANGED retrieveVars
    <2>1. RetrieveTyped' /\ UNCHANGED call
        BY <1>1, <1>17 DEF retrieveVars, store, disk, RetrieveTyped, RetrieveTypeOK, call
    <2> QED
        BY <2>1, CallUntouched
<1> QED
    BY <1>3, <1>4, <1>5, <1>6, <1>7, <1>8, <1>9, <1>10, <1>11, <1>12, <1>13, <1>14, <1>15,
       <1>16, <1>17 DEF RetrieveNext, CallStep

LEMMA RetrieveAlways == RetrieveSpec => []RetrieveInv
    BY RetrieveStarts, RetrieveSteps, PTL DEF RetrieveSpec

\* Whatever a rebuild, the channels and the reranker do, every variable of the
\* retriever keeps its type.
THEOREM RetrieveTypes == RetrieveSpec => []RetrieveTypeOK
<1>1. RetrieveInv => RetrieveTypeOK
    BY DEF RetrieveInv, RetrieveTyped
<1> QED
    BY <1>1, RetrieveAlways, PTL

\* The guarantee the gate rests on: a list that is cut at twice top_n or more
\* has every chunk found, once, and with them the one of semantic rank 1.
THEOREM RankOneReturned ==
    ASSUME K >= 2 * TopN
    PROVE  RetrieveSpec => []RankOneSurvives
<1>1. RetrieveInv => RankOneSurvives
    <2> SUFFICES ASSUME RetrieveInv, at = "returned"
                 PROVE  /\ \E p \in DOMAIN fused : fused[p].rank = 1
                        /\ {fused[p].chunk : p \in DOMAIN fused} = AllFound
                        /\ Len(fused) = Cardinality(AllFound)
        BY DEF RankOneSurvives, AllFound
    <2>1. /\ Whole /\ fused \in Seq(Results)
          /\ semanticOf \in Builds /\ semantic \in HitLists(semanticOf)
          /\ \E b \in Builds : lexical \in HitLists(b)
        BY DEF RetrieveInv
    <2>2. Len(fused) = Cardinality(AllFound)
        <3>1. PICK b \in Builds : lexical \in HitLists(b)
            BY <2>1
        <3> QED
            BY <2>1, <3>1, Fits
    <2>3. Ranking(semantic) /\ Len(semantic) \in 1 .. TopN
        BY <2>1, HitsAreRanked
    <2>4. 1 \in 1 .. Len(semantic) /\ 1 \in DOMAIN semantic
        BY <2>3, RetrieverAssumption DEF Ranking
    <2>5. RankOf(semantic, semantic[1]) = 1
        BY <2>3, <2>4, RankIsPlace
    <2>6. semantic[1] \in AllFound
        BY <2>4 DEF AllFound, ToSet
    <2>7. PICK p \in DOMAIN fused : fused[p].chunk = semantic[1]
        BY <2>1, <2>6 DEF Whole
    <2>8. fused[p].rank = 1
        BY <2>1, <2>5, <2>7 DEF Whole
    <2> QED
        BY <2>1, <2>2, <2>8 DEF Whole
<1> QED
    BY <1>1, RetrieveAlways, PTL

\* What the fusion sweep starts from: a chunk of both channels is ahead of every
\* chunk of one.
THEOREM BothChannelsAhead == RetrieveSpec => []BothChannelsWin
<1>1. RetrieveInv => BothChannelsWin
    <2> SUFFICES ASSUME RetrieveInv, at = "metadata", RrfK + 2 > TopN,
                        NEW p \in DOMAIN fused, NEW q \in DOMAIN fused,
                        ~(fused[q].rank > 0 /\ fused[q].bm25Rank > 0),
                        \/ fused[p].rank > 0 /\ fused[p].bm25Rank > 0
                        \/ /\ ~(fused[p].rank > 0 /\ fused[p].bm25Rank > 0)
                           /\ fused[p].rank > 0 /\ fused[q].rank > 0
                           /\ fused[p].rank < fused[q].rank
                 PROVE  p < q
        BY DEF BothChannelsWin
    <2>1. /\ Whole /\ InFusedOrder
          /\ semanticOf \in Builds /\ semantic \in HitLists(semanticOf)
          /\ \E b \in Builds : lexical \in HitLists(b)
        BY DEF RetrieveInv
    <2>2. /\ Ranking(semantic) /\ Len(semantic) \in 1 .. TopN
          /\ Ranking(lexical) /\ Len(lexical) \in 1 .. TopN
        BY <2>1, HitsAreRanked
    <2>3. RrfK \in Nat /\ TopN \in Nat
        BY RetrieverAssumption
    <2> DEFINE a == fused[p].chunk
               b == fused[q].chunk
    <2>4. /\ a \in AllFound /\ b \in AllFound
          /\ fused[p].rank = RankOf(semantic, a) /\ fused[q].rank = RankOf(semantic, b)
          /\ fused[p].bm25Rank = RankOf(lexical, a) /\ fused[q].bm25Rank = RankOf(lexical, b)
        BY <2>1 DEF Whole, InFusedOrder
    <2>5. /\ a \in ToSet(semantic) \cup ToSet(lexical)
          /\ b \in ToSet(semantic) \cup ToSet(lexical)
        BY <2>4 DEF AllFound
    <2>6. /\ ~(RankOf(semantic, b) > 0 /\ RankOf(lexical, b) > 0)
          /\ \/ RankOf(semantic, a) > 0 /\ RankOf(lexical, a) > 0
             \/ /\ ~(RankOf(semantic, a) > 0 /\ RankOf(lexical, a) > 0)
                /\ RankOf(semantic, a) > 0 /\ RankOf(semantic, b) > 0
                /\ RankOf(semantic, a) < RankOf(semantic, b)
        BY <2>4
    <2>7. Len(semantic) <= TopN /\ Len(lexical) <= TopN /\ TopN < RrfK + 2
        BY <2>2, <2>3
    <2>8. <<a, b>> \in Ahead(semantic, lexical, RrfK)
        <3> HIDE DEF a, b
        <3> QED
            BY <2>2, <2>3, <2>5, <2>6, <2>7, BothBeatOne
    <2> QED
        BY <2>1, <2>8 DEF InFusedOrder
<1> QED
    BY <1>1, RetrieveAlways, PTL

----------------------------------------------------------------------------
(* What is left of coherence, whatever the two indexes hold.               *)

LEMMA CoherentStarts == RetrieveInit => CoherentInv
<1> SUFFICES ASSUME RetrieveInit
             PROVE  CoherentInv
    OBVIOUS
<1>1. RetrieveInv
    BY RetrieveStarts
<1>2. DOMAIN fused = {}
    BY DEF RetrieveInit
<1> QED
    BY <1>1, <1>2 DEF RetrieveInit, CoherentInv, Described, Coherent

\* The fusion lists chunks of the two indexes, and those the semantic channel
\* found with the metadata of their build.
LEMMA FusionCoherent ==
    ASSUME RetrieveInv, QueryLexical
    PROVE  \A p \in DOMAIN fused' :
              /\ fused'[p].chunk \in Holds[semanticOf] \cup Holds[bm25Cache]
              /\ fused'[p].build \in {NoBuild, semanticOf}
              /\ fused'[p].build # NoBuild => fused'[p].chunk \in Holds[fused'[p].build]
<1>1. /\ at = "lexical" /\ semantic' = semantic /\ bm25Cache \in Builds
      /\ semanticOf \in Builds /\ semantic \in HitLists(semanticOf)
    BY DEF QueryLexical, RetrieveInv, RetrieveTyped, RetrieveTypeOK
<1>2. PICK hits \in HitLists(bm25Cache) :
        /\ lexical' = hits
        /\ fused' = [p \in DOMAIN FuseRankings(semantic, hits, RrfK) |->
                       [chunk |-> FuseRankings(semantic, hits, RrfK)[p],
                        rank |-> RankOf(semantic, FuseRankings(semantic, hits, RrfK)[p]),
                        bm25Rank |-> RankOf(hits, FuseRankings(semantic, hits, RrfK)[p]),
                        build |-> IF Contains(semantic, FuseRankings(semantic, hits, RrfK)[p])
                                  THEN semanticOf ELSE NoBuild]]
    BY DEF QueryLexical, RankOf
<1>3. /\ ToSet(semantic) \subseteq Holds[semanticOf]
      /\ ToSet(lexical') \subseteq Holds[bm25Cache]
    BY <1>1, <1>2, HitsAreRanked
<1>4. AllFound' \subseteq Holds[semanticOf] \cup Holds[bm25Cache]
    BY <1>1, <1>3 DEF AllFound
<1>5. Whole'
    BY FusionWhole
<1>6. ASSUME NEW p \in DOMAIN fused'
      PROVE  fused'[p].chunk \in Holds[semanticOf] \cup Holds[bm25Cache]
    BY <1>4, <1>5 DEF Whole
<1>7. ASSUME NEW p \in DOMAIN fused'
      PROVE  /\ fused'[p].build \in {NoBuild, semanticOf}
             /\ fused'[p].build # NoBuild =>
                   fused'[p].build = semanticOf /\ Contains(semantic, fused'[p].chunk)
    BY <1>2
<1>8. ASSUME NEW id, Contains(semantic, id)
      PROVE  id \in Holds[semanticOf]
    BY <1>3, <1>8 DEF Contains, ToSet
<1> QED
    BY <1>6, <1>7, <1>8

\* The chunk whose metadata is fetched next is one of the list.
LEMMA NextIsListed ==
    ASSUME fused \in Seq(Results), Lacking # {}
    PROVE  NextLacking \in Lacking
<1>1. Lacking \in SUBSET Nat
    BY DEF Lacking
<1>2. \E p \in Lacking : \A q \in Lacking : p <= q
    <2> HIDE DEF Lacking
    <2> QED
        BY <1>1, LeastMember
<1> QED
    BY <1>2 DEF NextLacking

\* The metadata that is fetched is that of a chunk the collection holds.
LEMMA FetchedIsHeld ==
    ASSUME RetrieveInv, FetchMetadata
    PROVE  \A p \in DOMAIN fused :
              fused'[p] = fused[p] \/ fused[p].chunk \in Holds[collection]
<1>1. /\ fused \in Seq(Results)
      /\ Held(fused[NextLacking].chunk)
      /\ fused' = [fused EXCEPT ![NextLacking].build = collection]
    BY DEF RetrieveInv, FetchMetadata
<1>2. fused[NextLacking].chunk \in Holds[collection]
    BY <1>1 DEF Held
<1>3. ASSUME NEW p \in DOMAIN fused, p # NextLacking
      PROVE  fused'[p] = fused[p]
    BY <1>1, <1>3
<1> QED
    BY <1>2, <1>3

\* A call that waits for nothing more has its metadata.
LEMMA NothingLacks ==
    ASSUME Lacking = {}
    PROVE  \A p \in DOMAIN fused : fused[p].build # NoBuild
    BY DEF Lacking

LEMMA DescribedSteps == CoherentInv /\ [RetrieveNext]_retrieveVars => Described'
<1> SUFFICES ASSUME CoherentInv, [RetrieveNext]_retrieveVars
             PROVE  Described'
    OBVIOUS
<1>1. /\ RetrieveInv
      /\ \A p \in DOMAIN fused :
            /\ fused[p].build # NoBuild => fused[p].chunk \in Holds[fused[p].build]
            /\ at \in {"cut", "returned"} => fused[p].build # NoBuild
    BY DEF CoherentInv, Described
<1>2. CASE RenameAway \/ RenameIn \/ ReplaceBm25 \/ WriteManifest \/ RebuildStops
           \/ UNCHANGED retrieveVars
    <2>1. fused' = fused /\ at' = at
        BY <1>2 DEF RenameAway, RenameIn, ReplaceBm25, WriteManifest, RebuildStops,
                    retrieveVars, call
    <2> QED
        BY <1>1, <2>1 DEF Described
<1>3. CASE Restart
    <2>1. DOMAIN fused' = {}
        BY <1>3 DEF Restart
    <2> QED
        BY <2>1 DEF Described
<1>4. CASE Call \/ QuerySemantic \/ ChannelFails \/ RerankRefused
    <2>1. fused' = fused /\ at' \notin {"cut", "returned"}
        BY <1>4 DEF Call, QuerySemantic, ChannelFails, RerankRefused
    <2> QED
        BY <1>1, <2>1 DEF Described
<1>5. CASE QueryLexical
    <2>1. at' = "metadata"
        BY <1>5 DEF QueryLexical
    <2> QED
        BY <1>1, <1>5, <2>1, FusionCoherent DEF Described
<1>6. CASE FetchMetadata
    <2>1. /\ DOMAIN fused' = DOMAIN fused /\ at' = at /\ at = "metadata"
          /\ \A p \in DOMAIN fused :
                /\ fused'[p].chunk = fused[p].chunk
                /\ fused'[p].build \in {fused[p].build, collection}
        BY <1>1, <1>6, MetadataKeeps DEF FetchMetadata
    <2>2. ASSUME NEW p \in DOMAIN fused, fused'[p].build # NoBuild
          PROVE  fused'[p].chunk \in Holds[fused'[p].build]
        BY <1>1, <1>6, <2>1, <2>2, FetchedIsHeld
    <2> QED
        BY <2>1, <2>2 DEF Described
<1>7. CASE Rerank
    <2>1. \A p \in DOMAIN fused' : \E q \in DOMAIN fused : fused'[p] = fused[q]
        BY <1>1, <1>7, RerankKeeps
    <2>2. \A p \in DOMAIN fused : fused[p].build # NoBuild
        BY <1>7, NothingLacks DEF Rerank
    <2> QED
        BY <1>1, <2>1, <2>2 DEF Described
<1>8. CASE KeepOrder
    <2>1. fused' = fused /\ \A p \in DOMAIN fused : fused[p].build # NoBuild
        BY <1>8, NothingLacks DEF KeepOrder
    <2> QED
        BY <1>1, <2>1 DEF Described
<1>9. CASE Return
    <2>1. \A p \in DOMAIN fused' : p \in DOMAIN fused /\ fused'[p] = fused[p]
        BY <1>1, <1>9, ReturnKeeps
    <2>2. \A p \in DOMAIN fused : fused[p].build # NoBuild
        BY <1>1, <1>9 DEF Return
    <2> QED
        BY <1>1, <2>1, <2>2 DEF Described
<1> QED
    BY <1>2, <1>3, <1>4, <1>5, <1>6, <1>7, <1>8, <1>9 DEF RetrieveNext, CallStep

LEMMA CoherentSteps == CoherentInv /\ [RetrieveNext]_retrieveVars => CoherentInv'
<1> SUFFICES ASSUME CoherentInv, [RetrieveNext]_retrieveVars, ~swapped'
             PROVE  Coherent'
    BY RetrieveSteps, DescribedSteps DEF CoherentInv
<1>1. /\ RetrieveInv /\ RetrieveInv'
      /\ fused \in Seq(Results) /\ bm25Cache \in Builds
    BY RetrieveSteps DEF CoherentInv, RetrieveInv, RetrieveTyped, RetrieveTypeOK
<1>2. CASE RenameAway \/ RenameIn
    BY <1>2 DEF RenameAway, RenameIn
<1>3. CASE Restart
    <2>1. DOMAIN fused' = {} /\ at' = "idle"
        BY <1>3 DEF Restart
    <2> QED
        BY <2>1 DEF Coherent
<1>4. CASE Call
    <2>1. at' = "semantic" /\ fused' = fused /\ collection' = collection
        BY <1>4 DEF Call, disk
    <2>2. DOMAIN fused = {}
        BY <1>1, <1>4 DEF Call, RetrieveInv
    <2> QED
        BY <2>1, <2>2 DEF Coherent
<1> SUFFICES ASSUME Coherent,
                    \/ ReplaceBm25 \/ WriteManifest \/ RebuildStops
                    \/ CallStep \/ UNCHANGED retrieveVars
             PROVE  Coherent'
    <2>1. ReplaceBm25 \/ WriteManifest \/ RebuildStops \/ CallStep \/ UNCHANGED retrieveVars
             => swapped' = swapped
        BY DEF ReplaceBm25, WriteManifest, RebuildStops, CallStep, QuerySemantic, QueryLexical,
               FetchMetadata, ChannelFails, Rerank, RerankRefused, KeepOrder, Return,
               retrieveVars, store
    <2> QED
        BY <1>2, <1>3, <1>4, <2>1 DEF RetrieveNext, CoherentInv
<1>5. /\ at \in {"lexical", "metadata", "cut", "returned"} => semanticOf = collection
      /\ \A p \in DOMAIN fused : fused[p].build \in {NoBuild, collection}
      /\ at = "metadata" =>
            \A p \in DOMAIN fused : fused[p].chunk \in Holds[collection] \cup Holds[bm25Cache]
      /\ at = "raised" => reranker = "faulty" \/ collection # bm25Cache
    BY DEF Coherent
<1>6. CASE ReplaceBm25 \/ WriteManifest \/ RebuildStops \/ UNCHANGED retrieveVars
    <2>1. UNCHANGED <<collection, bm25Cache, reranker, at, semanticOf, fused>>
        BY <1>6 DEF ReplaceBm25, WriteManifest, RebuildStops, retrieveVars, store, disk, call
    <2> QED
        BY <1>5, <2>1 DEF Coherent
<1> SUFFICES ASSUME CallStep, UNCHANGED <<collection, bm25Cache, reranker>>
             PROVE  Coherent'
    <2>1. CallStep => UNCHANGED <<collection, bm25Cache, reranker>>
        BY DEF CallStep, QuerySemantic, QueryLexical, FetchMetadata, ChannelFails, Rerank,
               RerankRefused, KeepOrder, Return, store, disk
    <2> QED
        BY <1>6, <2>1
<1>7. CASE QuerySemantic
    BY <1>5, <1>7 DEF QuerySemantic, Coherent
<1>8. CASE QueryLexical
    <2>1. /\ at = "lexical" /\ at' = "metadata" /\ semanticOf' = semanticOf
        BY <1>8 DEF QueryLexical
    <2> QED
        BY <1>1, <1>5, <1>8, <2>1, FusionCoherent DEF Coherent
<1>9. CASE FetchMetadata
    <2>1. /\ DOMAIN fused' = DOMAIN fused
          /\ \A p \in DOMAIN fused : /\ fused'[p].chunk = fused[p].chunk
                                    /\ fused'[p].build \in {fused[p].build, collection}
        BY <1>1, <1>9, MetadataKeeps
    <2>2. at = "metadata" /\ at' = at /\ semanticOf' = semanticOf
        BY <1>9 DEF FetchMetadata
    <2> QED
        BY <1>5, <2>1, <2>2 DEF Coherent
<1>10. CASE ChannelFails
    <2>1. at' = "raised" /\ fused' = fused
        BY <1>10 DEF ChannelFails
    <2>2. CASE collection = NoBuild
        <3>1. \A b \in Builds : b # NoBuild
            BY RetrieverAssumption DEF Builds, NoBuild
        <3> QED
            BY <1>1, <1>5, <2>1, <2>2, <3>1 DEF Coherent
    <2>3. CASE collection # NoBuild
        <3>1. at = "metadata" /\ Lacking # {} /\ ~Held(fused[NextLacking].chunk)
            BY <1>10, <2>3 DEF ChannelFails
        <3>2. NextLacking \in DOMAIN fused
            BY <1>1, <3>1, NextIsListed DEF Lacking
        <3>3. collection # bm25Cache
            BY <1>5, <2>3, <3>1, <3>2 DEF Held
        <3> QED
            BY <1>5, <2>1, <3>3 DEF Coherent
    <2> QED
        BY <2>2, <2>3
<1>11. CASE Rerank
    <2>1. \A p \in DOMAIN fused' : \E q \in DOMAIN fused : fused'[p] = fused[q]
        BY <1>1, <1>11, RerankKeeps
    <2>2. at = "metadata" /\ at' = "cut" /\ semanticOf' = semanticOf
        BY <1>11 DEF Rerank
    <2> QED
        BY <1>5, <2>1, <2>2 DEF Coherent
<1>12. CASE RerankRefused
    BY <1>5, <1>12 DEF RerankRefused, Coherent
<1>13. CASE KeepOrder
    BY <1>5, <1>13 DEF KeepOrder, Coherent
<1>14. CASE Return
    <2>1. \A p \in DOMAIN fused' : p \in DOMAIN fused /\ fused'[p] = fused[p]
        BY <1>1, <1>14, ReturnKeeps
    <2>2. at = "cut" /\ at' = "returned" /\ semanticOf' = semanticOf
        BY <1>14 DEF Return
    <2> QED
        BY <1>5, <2>1, <2>2 DEF Coherent
<1> QED
    BY <1>7, <1>8, <1>9, <1>10, <1>11, <1>12, <1>13, <1>14 DEF CallStep

\* Whatever builds a rebuild or a boot put together: nothing is returned without
\* metadata of a build that holds it, and in a call that saw no rename all of it
\* is of one build, and a chunk is missed only while the two indexes are of
\* different builds.
THEOREM CoherentServing == RetrieveSpec => []CoherentUnlessSwapped
<1>1. CoherentInv => CoherentUnlessSwapped
    BY DEF CoherentInv, Described, Coherent, CoherentUnlessSwapped
<1>2. RetrieveSpec => []CoherentInv
    BY CoherentStarts, CoherentSteps, PTL DEF RetrieveSpec
<1> QED
    BY <1>1, <1>2, PTL

----------------------------------------------------------------------------
(* What is retrieved is what a question may be answered from.              *)

\* The returned list as QueryUseCase reads it: it tells rank 1 from the others,
\* and reads the score of what the semantic channel found.
Handed(s) ==
    [i \in DOMAIN fused |->
        [chunk |-> fused[i].chunk,
         rank |-> IF fused[i].rank > 1 THEN 2 ELSE fused[i].rank,
         score |-> IF fused[i].rank > 0 THEN s ELSE NoScore]]

\* Every list that the retriever returns, with any score, is one that the query
\* flow is proved for.
THEOREM ReturnedIsRetrieval ==
    ASSUME K >= 2 * TopN, AllChunks \subseteq Chunks, NEW s \in Scores \cup {NotFinite}
    PROVE  RetrieveSpec => [](at = "returned" => Handed(s) \in Retrievals)
<1>1. ASSUME RetrieveInv, at = "returned"
      PROVE  Handed(s) \in Retrievals
    <2>1. /\ Whole /\ fused \in Seq(Results)
          /\ semanticOf \in Builds /\ semantic \in HitLists(semanticOf)
          /\ \E b \in Builds : lexical \in HitLists(b)
        BY <1>1 DEF RetrieveInv
    <2>2. PICK b \in Builds : lexical \in HitLists(b)
        BY <2>1
    <2>3. /\ Ranking(semantic) /\ Len(semantic) \in 1 .. TopN /\ ToSet(semantic) \subseteq AllChunks
          /\ Ranking(lexical) /\ ToSet(lexical) \subseteq AllChunks
        BY <2>1, <2>2, HitsAreRanked
    <2> DEFINE S == AllFound
               n == Len(fused)
               order == [i \in DOMAIN fused |-> fused[i].chunk]
               found == ToSet(semantic)
               top == semantic[1]
    <2>4. n = Cardinality(S) /\ n \in Nat /\ DOMAIN fused = 1 .. n
        BY <2>1, <2>2, Fits
    <2>5. S \in SUBSET Chunks /\ found \in SUBSET S
        BY <2>3 DEF AllFound
    <2>6. 1 \in 1 .. Len(semantic) /\ 1 \in DOMAIN semantic /\ top \in found /\ top \in S
        BY <2>3, RetrieverAssumption DEF Ranking, AllFound, ToSet
    <2>7. order \in SetToSeqs(S)
        <3>1. order \in [1 .. Cardinality(S) -> S]
            BY <2>1, <2>4 DEF Whole
        <3>2. \A i, j \in 1 .. Cardinality(S) : i # j => order[i] # order[j]
            BY <2>1, <2>4 DEF Whole
        <3> HIDE DEF order, S
        <3> QED
            BY <3>1, <3>2 DEF SetToSeqs
    <2>8. ASSUME NEW i \in DOMAIN fused
          PROVE  /\ fused[i].rank \in Nat
                 /\ fused[i].rank = 1 <=> fused[i].chunk = top
                 /\ fused[i].rank > 0 <=> fused[i].chunk \in found
        <3>1. fused[i].rank = RankOf(semantic, fused[i].chunk)
            BY <2>1 DEF Whole
        <3>2. /\ Contains(semantic, fused[i].chunk) <=> fused[i].chunk \in ToSet(semantic)
              /\ Contains(semantic, fused[i].chunk) =>
                    /\ RankOf(semantic, fused[i].chunk) \in 1 .. Len(semantic)
                    /\ semantic[RankOf(semantic, fused[i].chunk)] = fused[i].chunk
              /\ ~Contains(semantic, fused[i].chunk) => RankOf(semantic, fused[i].chunk) = 0
              /\ \A j \in 1 .. Len(semantic) :
                    semantic[j] = fused[i].chunk => RankOf(semantic, fused[i].chunk) = j
            BY <2>3, RankIsPlace
        <3>3. Len(semantic) \in Nat
            BY <2>3 DEF Ranking
        <3> QED
            BY <2>6, <3>1, <3>2, <3>3
    <2>9. Handed(s) = FusedList(order, found, top, s)
        BY <2>8 DEF Handed, FusedList
    <2>10. Handed(s) \in ListsOf(S)
        <3> HIDE DEF order, S, found, top
        <3> QED
            BY <2>5, <2>6, <2>7, <2>9 DEF ListsOf
    <2>11. PICK p \in DOMAIN fused : fused[p].chunk = top
        BY <2>1, <2>6 DEF Whole
    <2>12. p \in DOMAIN Handed(s) /\ Handed(s)[p].rank = 1 /\ Handed(s)[p].score # NoScore
        <3>1. fused[p].rank = 1
            BY <2>8, <2>11
        <3>2. s # NoScore
            BY ScoresAssumption
        <3> QED
            BY <3>1, <3>2 DEF Handed
    <2> HIDE DEF S
    <2> QED
        BY <2>5, <2>10, <2>12 DEF Retrievals
<1>2. RetrieveInv => (at = "returned" => Handed(s) \in Retrievals)
    BY <1>1
<1> QED
    BY <1>2, RetrieveAlways, PTL
=============================================================================
