-------------------------- MODULE EvaluationProofs --------------------------
(***************************************************************************)
(* Proofs about the free commands of features/evaluation: the question set *)
(* of the gate run (GateHoldout) and the report commands (EvalReports).    *)
(*                                                                         *)
(* The holdout.  Every action that touches a file takes the verdict back,  *)
(* so that a green one still describes the files; GreenIsUnseen reads that *)
(* off, and CellsBalanced takes a counting argument besides: the halves of *)
(* the pairs give an injection from the English questions of either kind   *)
(* into the Spanish ones and back.                                         *)
(*                                                                         *)
(* The reports.  What a command holds in memory is tied to what is on disk *)
(* as long as that does not change, and to its own label.                  *)
(***************************************************************************)
EXTENDS GateHoldout, EvalReports, FloorSweep, FiniteSetTheorems, SequenceTheorems, TLAPS

-----------------------------------------------------------------------------
\* Counting the questions of a paired set.

\* The size of a disjoint union.
LEMMA CardinalityOfTwo ==
    ASSUME NEW S, NEW T, IsFiniteSet(S), IsFiniteSet(T), S \cap T = {}
    PROVE  Cardinality(S \cup T) = Cardinality(S) + Cardinality(T)
<1>1. Cardinality(S \cup T) = Cardinality(S) + Cardinality(T) - Cardinality(S \cap T)
  BY FS_Union
<1>2. Cardinality(S \cap T) = 0
  BY FS_EmptySet
<1>3. Cardinality(S) \in Nat /\ Cardinality(T) \in Nat
  BY FS_CardinalityType
<1> QED
  BY <1>1, <1>2, <1>3

\* The questions of one language that are, or are not, answerable.
Cell(qs, l, a) == {i \in DOMAIN qs : qs[i].language = l /\ qs[i].answerable = a}

\* A pair has one question in each language, and they agree on answerable.
LEMMA PairHasTwoHalves ==
    ASSUME NEW qs \in Seq(Question), Paired(qs), NEW i \in DOMAIN qs, NEW m \in Languages
    PROVE  \E j \in OfPair(qs, qs[i].pair) :
              /\ qs[j].language = m /\ qs[j].answerable = qs[i].answerable
              /\ \A k \in OfPair(qs, qs[i].pair) : qs[k].language = m => k = j
<1> DEFINE P == qs[i].pair
           O == OfPair(qs, P)
           L == {qs[k].language : k \in O}
           B == {qs[k].answerable : k \in O}
<1>1. \A k \in DOMAIN qs : qs[k].pair \in Pairs /\ qs[k].answerable \in BOOLEAN
  <2>1. ASSUME NEW k \in DOMAIN qs
        PROVE  qs[k].pair \in Pairs /\ qs[k].answerable \in BOOLEAN
    <3>1. qs[k] \in Question
      OBVIOUS
    <3> QED
      BY <3>1 DEF Question
  <2> QED
    BY <2>1
<1>2. Cardinality(O) = 2 /\ L = Languages /\ Cardinality(B) = 1
  <2>1. P \in Pairs
    BY <1>1
  <2> QED
    BY <2>1 DEF Paired
<1>3. IsFiniteSet(O)
  <2>1. O \in SUBSET (1 .. Len(qs))
    BY DEF OfPair
  <2> QED
    BY <2>1, FS_Subset, FS_Interval
<1>4. \A k \in O : qs[k].answerable = qs[i].answerable
  <2>1. IsFiniteSet(B)
    <3>1. B \in SUBSET BOOLEAN
      BY <1>1 DEF OfPair
    <3>2. IsFiniteSet({TRUE}) /\ BOOLEAN = {TRUE} \cup {FALSE}
      BY FS_Singleton
    <3>3. IsFiniteSet({TRUE} \cup {FALSE})
      BY <3>2, FS_AddElement
    <3> QED
      BY <3>1, <3>2, <3>3, FS_Subset
  <2>2. PICK b : B = {b}
    BY <1>2, <2>1, FS_Singleton
  <2>3. i \in O
    BY DEF OfPair
  <2> QED
    BY <2>2, <2>3
<1>5. PICK j \in O : qs[j].language = m
  BY <1>2
<1>6. ASSUME NEW k \in O, qs[k].language = m, k # j
      PROVE  FALSE
  <2>1. PICK n \in Languages : n # m
    BY DEF Languages
  <2>2. PICK h \in O : qs[h].language = n
    BY <1>2
  <2>3. {j} \cup {k} \in SUBSET O /\ h \notin {j} \cup {k}
    BY <1>5, <1>6, <2>1, <2>2
  <2>4. Cardinality({j} \cup {k}) = 2 /\ IsFiniteSet({j} \cup {k})
    <3>1. /\ IsFiniteSet({j}) /\ Cardinality({j}) = 1
          /\ IsFiniteSet({k}) /\ Cardinality({k}) = 1
      BY FS_Singleton
    <3>2. {j} \cap {k} = {}
      BY <1>6
    <3>3. Cardinality({j} \cup {k}) = Cardinality({j}) + Cardinality({k})
      BY <3>1, <3>2, CardinalityOfTwo, Zenon
    <3>4. IsFiniteSet({j} \cup {k})
      BY <3>1, FS_Union
    <3> HIDE DEF L, B
    <3>5. 1 + 1 = 2
      OBVIOUS
    <3> QED
      BY <3>1, <3>3, <3>4, <3>5, Zenon
  <2>5. O = {j} \cup {k}
    BY <1>2, <1>3, <2>3, <2>4, FS_Subset
  <2> QED
    BY <2>2, <2>3, <2>5
<1> QED
  BY <1>4, <1>5, <1>6

\* Hence no cell of one language is larger than that of the other.
LEMMA CellFitsInTheOther ==
    ASSUME NEW qs \in Seq(Question), Paired(qs),
           NEW l \in Languages, NEW m \in Languages, NEW a \in BOOLEAN
    PROVE  /\ IsFiniteSet(Cell(qs, l, a))
           /\ Cardinality(Cell(qs, l, a)) <= Cardinality(Cell(qs, m, a))
<1> DEFINE S == Cell(qs, l, a)
           T == Cell(qs, m, a)
           f == [i \in S |-> CHOOSE j \in OfPair(qs, qs[i].pair) : j \in T]
<1>1. IsFiniteSet(S) /\ IsFiniteSet(T)
  <2>1. S \in SUBSET (1 .. Len(qs)) /\ T \in SUBSET (1 .. Len(qs))
    BY DEF Cell
  <2> QED
    BY <2>1, FS_Subset, FS_Interval
<1>2. ASSUME NEW i \in S
      PROVE  f[i] \in T /\ f[i] \in OfPair(qs, qs[i].pair)
  <2>1. PICK j \in OfPair(qs, qs[i].pair) : qs[j].language = m /\ qs[j].answerable = qs[i].answerable
    BY PairHasTwoHalves DEF Cell
  <2>2. j \in T
    BY <2>1 DEF Cell, OfPair
  <2> QED
    BY <2>1, <2>2
<1>3. ASSUME NEW i \in S, NEW k \in S, f[i] = f[k]
      PROVE  i = k
  <2>1. qs[i].pair = qs[k].pair
    BY <1>2, <1>3 DEF OfPair
  <2>2. PICK j : \A h \in OfPair(qs, qs[i].pair) : qs[h].language = l => h = j
    <3>1. i \in DOMAIN qs
      BY DEF Cell
    <3>2. \E j \in OfPair(qs, qs[i].pair) :
             /\ qs[j].language = l /\ qs[j].answerable = qs[i].answerable
             /\ \A h \in OfPair(qs, qs[i].pair) : qs[h].language = l => h = j
      BY <3>1, PairHasTwoHalves
    <3> QED
      BY <3>2
  <2>3. i \in OfPair(qs, qs[i].pair) /\ k \in OfPair(qs, qs[i].pair)
    BY <2>1 DEF OfPair, Cell
  <2> QED
    BY <2>2, <2>3 DEF Cell
<1> HIDE DEF f
<1>4. f \in Injection(S, T)
  <2>1. f \in [S -> T]
    BY <1>2 DEF f
  <2> QED
    BY <2>1, <1>3 DEF Injection, IsInjective
<1> QED
  BY <1>1, <1>4, FS_Injection

\* A paired and balanced set has a quarter of its questions in every cell.
LEMMA QuarterInEveryCell ==
    ASSUME NEW qs \in Seq(Question), Paired(qs), Balanced(qs), Total \in Nat,
           NEW l \in Languages, NEW a \in BOOLEAN
    PROVE  4 * Cardinality(Cell(qs, l, a)) = Total
<1>1. PICK m \in Languages : m # l /\ Languages = {l, m}
  BY DEF Languages
<1> DEFINE Yes == Cell(qs, l, TRUE)
           No == Cell(qs, l, FALSE)
           Theirs == Cell(qs, m, TRUE)
           Ans == {i \in DOMAIN qs : qs[i].answerable}
           Lang == {i \in DOMAIN qs : qs[i].language = l}
<1>2. /\ Ans = Yes \cup Theirs /\ Yes \cap Theirs = {}
      /\ Lang = Yes \cup No /\ Yes \cap No = {}
  <2>1. \A i \in DOMAIN qs : qs[i] \in Question
    OBVIOUS
  <2>2. \A i \in DOMAIN qs : qs[i].language \in {l, m} /\ qs[i].answerable \in {TRUE, FALSE}
    BY <1>1, <2>1 DEF Question
  <2> QED
    BY <1>1, <2>2, Zenon DEF Cell
<1>3. /\ IsFiniteSet(Yes) /\ IsFiniteSet(No) /\ IsFiniteSet(Theirs)
      /\ Cardinality(Yes) <= Cardinality(Theirs) /\ Cardinality(Theirs) <= Cardinality(Yes)
  BY <1>1, CellFitsInTheOther, Zenon
<1>4. 2 * Cardinality(Ans) = Total /\ 2 * Cardinality(Lang) = Total
  BY DEF Balanced, Half
<1>5. a = TRUE \/ a = FALSE
  OBVIOUS
<1> SUFFICES 4 * Cardinality(Yes) = Total /\ 4 * Cardinality(No) = Total
  BY <1>5, Zenon
<1> HIDE DEF Yes, No, Theirs, Ans, Lang
<1>6. Cardinality(Yes) \in Nat /\ Cardinality(No) \in Nat /\ Cardinality(Theirs) \in Nat
  BY <1>3, FS_CardinalityType
<1>7. Cardinality(Ans) = Cardinality(Yes) + Cardinality(Theirs)
  BY <1>2, <1>3, <1>6, CardinalityOfTwo
<1>8. Cardinality(Lang) = Cardinality(Yes) + Cardinality(No)
  BY <1>2, <1>3, <1>6, CardinalityOfTwo
<1> QED
  BY <1>3, <1>4, <1>6, <1>7, <1>8

-----------------------------------------------------------------------------
\* The holdout.

\* A green verdict still describes the files.
GreenHolds == Green => Verifies(holdout, frozen)

HoldoutInv == TypeOK /\ GreenHolds

\* Every change of a file takes the verdict back: verify() reads the files anew,
\* and a green verdict is about the files as they are.
THEOREM HoldoutInvariant == Spec => []HoldoutInv
<1>1. Init => HoldoutInv
  <2> SUFFICES ASSUME Init PROVE HoldoutInv
    OBVIOUS
  <2>1. PICK draft \in Drafts :
           holdout = [status |-> "draft", questions |-> draft, stamp |-> << >>, whole |-> TRUE]
    BY DEF Init
  <2>2. draft \in Seq(Question) /\ MaxEdits \in Nat
    BY GateHoldoutAssumption
  <2> QED
    BY <2>1, <2>2 DEF Init, HoldoutInv, TypeOK, GreenHolds, Green
<1>2. HoldoutInv /\ [Next]_vars => HoldoutInv'
  <2> SUFFICES ASSUME HoldoutInv, [Next]_vars PROVE HoldoutInv'
    OBVIOUS
  <2> USE DEF HoldoutInv, GreenHolds, Green
  <2>1. CASE Edit
    <3>1. /\ edits' \in 0 .. MaxEdits /\ verdict' = "none"
          /\ UNCHANGED <<frozen, writing>>
      BY <2>1, GateHoldoutAssumption DEF Edit, TypeOK
    <3>2. ASSUME NEW i \in DOMAIN holdout.questions, NEW q \in Question,
                 holdout' = [holdout EXCEPT !.questions[i] = q]
          PROVE  TypeOK'
      <4>1. [holdout.questions EXCEPT ![i] = q] \in Seq(Question)
        BY ExceptSeq DEF TypeOK
      <4> QED
        BY <3>1, <3>2, <4>1 DEF TypeOK
    <3>3. ASSUME holdout.questions # << >>,
                 holdout' = [holdout EXCEPT !.questions = SubSeq(@, 1, Len(@) - 1)]
          PROVE  TypeOK'
      <4>1. SubSeq(holdout.questions, 1, Len(holdout.questions) - 1) \in Seq(Question)
        BY <3>3 DEF TypeOK
      <4> QED
        BY <3>1, <3>3, <4>1 DEF TypeOK
    <3> QED
      BY <2>1, <3>1, <3>2, <3>3 DEF Edit
  <2>2. CASE SetStatus
    BY <2>2 DEF SetStatus, TypeOK
  <2>3. CASE EditFrozen
    <3>1. PICK t \in Seen : frozen' = [frozen EXCEPT !.texts = @ \ {t}]
      BY <2>3 DEF EditFrozen
    <3>2. frozen.texts \ {t} \in SUBSET Seen
      BY DEF TypeOK
    <3> QED
      BY <2>3, <3>1, <3>2 DEF EditFrozen, TypeOK
  <2>4. CASE BeginWrite
    BY <2>4 DEF BeginWrite, TypeOK
  <2>5. CASE EndWrite
    BY <2>5 DEF EndWrite, TypeOK
  <2>6. CASE CrashWrite
    BY <2>6 DEF CrashWrite, TypeOK
  <2>7. CASE Verify
    BY <2>7 DEF Verify, TypeOK
  <2>8. CASE UNCHANGED vars
    BY <2>8 DEF vars, TypeOK
  <2> QED
    BY <2>1, <2>2, <2>3, <2>4, <2>5, <2>6, <2>7, <2>8 DEF Next
<1> QED
  BY <1>1, <1>2, PTL DEF Spec

\* The variables of the holdout's life keep their types.
THEOREM HoldoutTypes == Spec => []TypeOK
<1>1. HoldoutInv => TypeOK
  BY DEF HoldoutInv
<1> QED
  BY <1>1, HoldoutInvariant, PTL

\* A set found green asks nothing the stamped frozen sets ask: the comparison
\* is made with the sets as they carry their own hash, or refused.
THEOREM GreenAsksTheUnseen == Spec => []GreenIsUnseen
<1>1. HoldoutInv => GreenIsUnseen
  BY DEF HoldoutInv, GreenHolds, GreenIsUnseen, Verifies, ForbiddenKnown
<1> QED
  BY <1>1, HoldoutInvariant, PTL

\* In a set found green, each language has as many answerable questions as
\* unanswerable ones, for any even number of pairs: no check of the program
\* counts that, it follows from those it does make.
THEOREM GreenIsBalanced == Spec => []CellsBalanced
<1>1. HoldoutInv => CellsBalanced
  <2> SUFFICES ASSUME HoldoutInv, Green, NEW l \in Languages, NEW a \in BOOLEAN
               PROVE  4 * Cardinality({i \in DOMAIN holdout.questions :
                             holdout.questions[i].language = l
                             /\ holdout.questions[i].answerable = a}) = Total
    BY DEF CellsBalanced
  <2>1. holdout.questions \in Seq(Question) /\ Paired(holdout.questions)
        /\ Balanced(holdout.questions)
    BY DEF HoldoutInv, TypeOK, GreenHolds, Verifies
  <2>2. Total \in Nat
    BY GateHoldoutAssumption, FS_CardinalityType DEF Total
  <2>3. 4 * Cardinality(Cell(holdout.questions, l, a)) = Total
    BY <2>1, <2>2, QuarterInEveryCell
  <2> QED
    BY <2>3 DEF Cell
<1> QED
  BY <1>1, HoldoutInvariant, PTL

-----------------------------------------------------------------------------
\* The reports.

RowValues == [ok : BOOLEAN, semantic : {None} \cup [profile : Profiles, chunks : Contents],
              lexical : {None} \cup Sources]

ReportsTyped ==
    /\ ReportsTypeOK
    /\ rows \in Seq(RowValues)
    /\ run.profile \in Profiles /\ run.alias \in BOOLEAN
    /\ pc # "idle" => run.command \in Commands
    /\ next \in Nat \ {0}
    /\ rebuild # "idle" => vectors # None /\ builds > 0
    /\ pc = "header" => Len(rows) = NumQuestions

BaselineOnly == run.alias => run.profile = Baseline.profile /\ run.mode = Baseline.mode

\* What a command holds before it measures, and from then on.
NothingYet ==
    pc \in {"idle", "verify", "checked"} => rows = << >> /\ retriever = None /\ ~swapped
InHand ==
    pc \in {"measure", "header", "write"} =>
        /\ retriever # None
        /\ \A i \in DOMAIN rows : rows[i].lexical = retriever

\* As long as the collection is not replaced, it and the rows are as labelled.
Labelled ==
    ~swapped =>
        /\ pc = "measure" => vectors.profile = run.profile
        /\ \A i \in DOMAIN rows : rows[i].semantic.profile = run.profile

\* The first of header and retriever is what the disk still says, the second is
\* the same, unless something moved in between.
FirstIsOnDisk ==
    ~moved =>
        /\ header # None /\ retriever = None => header = Provenance
        /\ header = None /\ retriever # None => retriever = Provenance
        /\ header # None /\ retriever # None => header = retriever

HeldByTheRun ==
    ReportsTyped /\ BaselineOnly /\ NothingYet /\ InHand /\ Labelled /\ FirstIsOnDisk

ReportsInv == HeldByTheRun /\ AliasIsBaseline /\ HeaderNamesTheIndex

-----------------------------------------------------------------------------
\* What a command writes is a sequence.
LEMMA OutputsAreASequence ==
    ASSUME NEW r, r.command \in Commands, r.alias \in BOOLEAN
    PROVE  Len(Outputs(r)) \in Nat
OBVIOUS

\* Only a command that was given the alias has canonical names to write to.
LEMMA CanonicalNames ==
    ASSUME NEW r, r.command \in Commands, r.profile \in Profiles, r.alias \in BOOLEAN,
           NEW i \in 1 .. Len(Outputs(r)), Outputs(r)[i].profile = "canonical"
    PROVE  r.alias
<1> DEFINE report == ReportKind[r.command]
           own == << report >> \o Details(r.command)
           aliased == IF r.command = "retrieval" THEN << report >> ELSE own
           first == [k \in DOMAIN own |-> Suffixed(own[k], r)]
           second == IF r.alias THEN [k \in DOMAIN aliased |-> Canonical(aliased[k])] ELSE << >>
<1> SUFFICES ASSUME ~r.alias PROVE FALSE
  OBVIOUS
<1> DEFINE Names == {report, "retrieval_details", "manual_review_checklist"}
<1> HIDE DEF report
<1>1. Details(r.command) \in Seq(Names)
  <2>1. << "retrieval_details" >> \in Seq(Names)
    OBVIOUS
  <2>2. << "manual_review_checklist" >> \in Seq(Names)
    OBVIOUS
  <2>3. << >> \in Seq(Names)
    OBVIOUS
  <2> QED
    BY <2>1, <2>2, <2>3 DEF Details
<1>2. own \in Seq(Names)
  BY <1>1
<1>3. first \in Seq({Suffixed(own[k], r) : k \in DOMAIN own})
  BY <1>2
<1>4. Outputs(r) = first \o << >>
  BY DEF Outputs, report
<1>5. Outputs(r) = first
  BY <1>3, <1>4
<1>6. \A k \in DOMAIN first : first[k].profile = r.profile
  BY DEF Suffixed
<1> HIDE DEF first
<1>7. Outputs(r)[i].profile = r.profile
  BY <1>3, <1>5, <1>6
<1> QED
  BY <1>7 DEF Profiles

\* A file written under a name that fits the label, whole or torn, keeps the
\* promises of the names and of the header.
LEMMA StoreKeepsTheNames ==
    ASSUME ReportsInv, pc = "write", NEW name, name.profile = "canonical" => run.alias,
           NEW whole, Store(name, Report(whole))
    PROVE  AliasIsBaseline' /\ HeaderNamesTheIndex'
<1> DEFINE report == Report(whole)
<1>1. /\ report.mode = run.mode /\ report.rows = rows /\ report.header = header
      /\ report.moved = moved /\ report.swapped = swapped
  BY DEF Report
<1>2. /\ DOMAIN files' = DOMAIN files \cup {name} /\ files'[name] = report
      /\ \A n \in DOMAIN files : n # name => files'[n] = files[n]
  BY DEF Store
<1> HIDE DEF report
<1>3. ASSUME NEW n \in DOMAIN files', n.profile = "canonical"
      PROVE  /\ files'[n].mode = Baseline.mode
             /\ files'[n].swapped \/ \A i \in DOMAIN files'[n].rows :
                                        files'[n].rows[i].semantic.profile = Baseline.profile
  <2>1. CASE n = name
    <3>1. run.profile = Baseline.profile /\ run.mode = Baseline.mode
      BY <1>3, <2>1 DEF ReportsInv, HeldByTheRun, BaselineOnly
    <3>2. ~swapped => \A i \in DOMAIN rows : rows[i].semantic.profile = run.profile
      BY DEF ReportsInv, HeldByTheRun, Labelled
    <3> QED
      BY <1>1, <1>2, <2>1, <3>1, <3>2
  <2>2. CASE n # name
    BY <1>2, <1>3, <2>2 DEF ReportsInv, AliasIsBaseline, Measurements
  <2> QED
    BY <2>1, <2>2
<1>4. ASSUME NEW n \in DOMAIN files'
      PROVE  files'[n].moved \/ \A i \in DOMAIN files'[n].rows :
                                   files'[n].rows[i].lexical = files'[n].header
  <2>1. CASE n = name
    <3>1. retriever # None /\ header # None
      BY DEF ReportsInv, HeldByTheRun, InHand, ReportsTyped, ReportsTypeOK
    <3>2. ~moved => header = retriever
      BY <3>1 DEF ReportsInv, HeldByTheRun, FirstIsOnDisk
    <3>3. \A i \in DOMAIN rows : rows[i].lexical = retriever
      BY DEF ReportsInv, HeldByTheRun, InHand
    <3> QED
      BY <1>1, <1>2, <2>1, <3>2, <3>3
  <2>2. CASE n # name
    BY <1>2, <1>4, <2>2 DEF ReportsInv, HeaderNamesTheIndex, Measurements
  <2> QED
    BY <2>1, <2>2
<1> QED
  BY <1>3, <1>4 DEF AliasIsBaseline, HeaderNamesTheIndex, Measurements

\* Only a command that was given the alias has a canonical artifact due.
LEMMA NextIsCanonical ==
    ASSUME ReportsTyped, pc = "write", next <= Len(Outputs(run)),
           Outputs(run)[next].profile = "canonical"
    PROVE  run.alias
<1>1. run.command \in Commands /\ run.profile \in Profiles /\ run.alias \in BOOLEAN
  BY DEF ReportsTyped
<1>2. next \in 1 .. Len(Outputs(run))
  BY OutputsAreASequence, <1>1 DEF ReportsTyped
<1> QED
  BY <1>1, <1>2, CanonicalNames

\* A step that leaves the files alone leaves their promises alone.
LEMMA FilesAlone ==
    ASSUME ReportsInv, UNCHANGED files
    PROVE  AliasIsBaseline' /\ HeaderNamesTheIndex'
BY DEF ReportsInv, AliasIsBaseline, HeaderNamesTheIndex, Measurements

\* What is named is there.
LEMMA SourcesAreThere ==
    ASSUME ReportsTyped
    PROVE  /\ Provenance \in Sources /\ Provenance # None
           /\ \A s \in Sources : s # None
<1>1. \A s \in Sources : s # None
  <2>1. \A s \in Sources : "chunks" \in DOMAIN s
    BY DEF Sources
  <2>2. "chunks" \notin DOMAIN None
    BY DEF None
  <2> QED
    BY <2>1, <2>2
<1>2. MaxBuilds \in Nat
  BY EvalReportsAssumption
<1>3. IF manifest = None THEN TRUE ELSE manifest.build \in 1 .. MaxBuilds
  BY DEF ReportsTyped, ReportsTypeOK
<1>4. Provenance \in Sources
  BY <1>2, <1>3 DEF ReportsTyped, ReportsTypeOK, Provenance, Sources
<1> QED
  BY <1>1, <1>4

\* A retriever is built on what the disk says.
LEMMA LoadedIsOnDisk ==
    ASSUME ReportsTyped, Build
    PROVE  LoadedIndex = Provenance
BY DEF Build, Verified, LoadedIndex, Provenance

\* What the invariant says of the command is kept when a row is recorded.
LEMMA RowKeepsTheMeasure ==
    ASSUME ReportsInv, pc = "measure", Len(rows) < NumQuestions, NEW ok \in BOOLEAN,
           rows' = Append(rows, Row(ok)),
           UNCHANGED <<disk, runs, pc, run, retriever, header, next, moved, swapped, files>>
    PROVE  HeldByTheRun'
<1>1. /\ vectors \in {None} \cup [profile : Profiles, chunks : Contents]
      /\ retriever \in {None} \cup Sources
      /\ rows \in Seq(RowValues)
  BY DEF ReportsInv, HeldByTheRun, ReportsTyped, ReportsTypeOK
<1>2. Row(ok) \in RowValues /\ Row(ok).semantic = vectors /\ Row(ok).lexical = retriever
  BY <1>1 DEF Row, RowValues
<1>3. /\ rows' \in Seq(RowValues) /\ Len(rows') = Len(rows) + 1
      /\ rows'[Len(rows) + 1] = Row(ok)
      /\ \A i \in 1 .. Len(rows) : rows'[i] = rows[i]
  BY <1>1, <1>2, AppendProperties
<1>4. \A i \in DOMAIN rows' :
         \/ rows'[i] = Row(ok)
         \/ i \in DOMAIN rows /\ rows'[i] = rows[i]
  <2>1. DOMAIN rows' = 1 .. Len(rows) + 1 /\ DOMAIN rows = 1 .. Len(rows) /\ Len(rows) \in Nat
    BY <1>1, <1>3
  <2> QED
    BY <1>3, <2>1
<1>5. Len(rows') <= NumQuestions
  BY <1>1, <1>3, EvalReportsAssumption
<1>6. ReportsTyped'
  BY <1>3, <1>5 DEF ReportsInv, HeldByTheRun, ReportsTyped, ReportsTypeOK, disk
<1>7. InHand'
  BY <1>2, <1>4 DEF ReportsInv, HeldByTheRun, InHand
<1>8. Labelled'
  BY <1>2, <1>4 DEF ReportsInv, HeldByTheRun, Labelled, disk
<1>9. BaselineOnly' /\ NothingYet' /\ FirstIsOnDisk'
  BY DEF ReportsInv, HeldByTheRun, BaselineOnly, NothingYet, FirstIsOnDisk, Provenance, disk
<1> QED
  BY <1>6, <1>7, <1>8, <1>9 DEF HeldByTheRun

\* No rows are rows.
LEMMA NoRowsYet == << >> \in Seq(RowValues) /\ Len(<< >>) <= NumQuestions
<1>1. NumQuestions \in Nat
  BY EvalReportsAssumption
<1>2. << >> \in Seq(RowValues) /\ Len(<< >>) = 0
  OBVIOUS
<1> QED
  BY <1>1, <1>2

\* A run that starts or ends is of its type when its parameters are.
LEMMA BlankIsTyped ==
    ASSUME ReportsTyped, Blank, UNCHANGED disk, pc' \in {"idle", "verify"},
           run'.profile \in Profiles, run'.alias \in BOOLEAN,
           pc' # "idle" => run'.command \in Commands
    PROVE  ReportsTyped'
<1>1. /\ inputs' \in [chunks : Contents, corpus : Corpora]
      /\ vectors' \in {None} \cup [profile : Profiles, chunks : Contents]
      /\ lexicon' \in {0} \cup Contents /\ builds' \in 0 .. MaxBuilds
      /\ manifest' \in {None} \cup [profile : Profiles, chunks : Contents, corpus : Corpora,
                                    rows : Nat, build : 1 .. MaxBuilds]
      /\ rebuild' \in {"idle", "promoted", "saved"}
      /\ rebuild' # "idle" => vectors' # None /\ builds' > 0
  BY DEF ReportsTyped, ReportsTypeOK, disk
<1>2. /\ Len(rows') <= NumQuestions /\ rows' \in Seq(RowValues)
      /\ next' \in Nat \ {0}
  BY NoRowsYet DEF Blank
<1>3. {header', retriever'} \subseteq {None} \cup Sources /\ {moved', swapped'} \subseteq BOOLEAN
  BY DEF Blank
<1>4. ReportsTypeOK'
  BY <1>1, <1>2, <1>3 DEF ReportsTypeOK
<1> QED
  BY <1>1, <1>2, <1>4 DEF ReportsTyped

\* A run that is over holds nothing.
LEMMA EndsHoldsNothing ==
    ASSUME ReportsInv, Ends, UNCHANGED <<disk, runs>>
    PROVE  HeldByTheRun'
<1>1. run'.profile = "raw-v1" /\ run'.alias = FALSE /\ "raw-v1" \in Profiles
  BY DEF Ends, NoRun, Profiles
<1>2. run'.profile \in Profiles /\ run'.alias \in BOOLEAN
  BY <1>1, Zenon
<1>3. ReportsTyped'
  BY <1>2, BlankIsTyped DEF Ends, ReportsInv, HeldByTheRun
<1>4. BaselineOnly' /\ NothingYet' /\ InHand' /\ Labelled' /\ FirstIsOnDisk'
  BY DEF Ends, Blank, NoRun, BaselineOnly, NothingYet, InHand, Labelled, FirstIsOnDisk
<1> QED
  BY <1>3, <1>4 DEF HeldByTheRun

\* Nothing built or an index of the inputs, an empty directory and no command.
LEMMA ReportsInvInit == ReportsInit => ReportsInv
<1> SUFFICES ASSUME ReportsInit PROVE ReportsInv
  OBVIOUS
<1>1. rows = << >> /\ files = << >> /\ DOMAIN rows = {} /\ DOMAIN files = {}
  BY DEF ReportsInit
<1>2. /\ vectors \in {None} \cup [profile : Profiles, chunks : Contents]
      /\ lexicon \in {0} \cup Contents /\ builds \in 0 .. MaxBuilds
      /\ manifest \in {None} \cup [profile : Profiles, chunks : Contents, corpus : Corpora,
                                   rows : Nat, build : 1 .. MaxBuilds]
      /\ inputs \in [chunks : Contents, corpus : Corpora]
  <2>1. MaxBuilds \in Nat \ {0} /\ \A c \in Contents : Rows[c] \in Nat
    BY EvalReportsAssumption DEF Contents
  <2>2. inputs \in [chunks : Contents, corpus : Corpora]
    BY DEF ReportsInit
  <2>3. 1 \in 1 .. MaxBuilds /\ {0, 1} \subseteq 0 .. MaxBuilds
    BY <2>1
  <2> QED
    BY <2>1, <2>2, <2>3 DEF ReportsInit
<1>3. ReportsTyped
  <2>1. run.profile = "raw-v1" /\ run.alias = FALSE /\ "raw-v1" \in Profiles
    BY DEF ReportsInit, NoRun, Profiles
  <2>2. run.profile \in Profiles /\ run.alias \in BOOLEAN
    BY <2>1, Zenon
  <2>3. /\ Len(rows) <= NumQuestions /\ rows \in Seq(RowValues)
        /\ pc = "idle" /\ rebuild = "idle" /\ next \in Nat \ {0}
    BY NoRowsYet DEF ReportsInit
  <2>4. {header, retriever} \subseteq {None} \cup Sources /\ {moved, swapped} \subseteq BOOLEAN
    BY DEF ReportsInit
  <2>5. ReportsTypeOK
    BY <1>2, <2>3, <2>4 DEF ReportsTypeOK
  <2> QED
    BY <2>2, <2>3, <2>5 DEF ReportsTyped
<1>4. BaselineOnly /\ NothingYet /\ InHand /\ Labelled /\ FirstIsOnDisk
  BY <1>1 DEF ReportsInit, NoRun, BaselineOnly, NothingYet, InHand, Labelled, FirstIsOnDisk
<1>5. AliasIsBaseline /\ HeaderNamesTheIndex
  BY <1>1 DEF AliasIsBaseline, HeaderNamesTheIndex
<1> QED
  BY <1>3, <1>4, <1>5 DEF ReportsInv, HeldByTheRun

\* What the operator does to the disk keeps what a command holds true.
LEMMA OperatorKeeps == ReportsInv /\ Operator => ReportsInv'
<1> SUFFICES ASSUME ReportsInv, Operator PROVE ReportsInv'
  OBVIOUS
<1>1. UNCHANGED <<runs, pc, run, retriever, rows, header, next, files>>
  BY DEF Operator, ChangeInputs, Promote, SaveLexicon, WriteManifest, RebuildStops
<1>2. AliasIsBaseline' /\ HeaderNamesTheIndex'
  BY <1>1, FilesAlone
<1>3. BaselineOnly' /\ InHand'
  BY <1>1 DEF ReportsInv, HeldByTheRun, BaselineOnly, InHand
<1>4. MaxBuilds \in Nat /\ \A c \in Contents : Rows[c] \in Nat
  BY EvalReportsAssumption DEF Contents
<1>5. HeldByTheRun
  BY DEF ReportsInv
<1> USE <1>5 DEF HeldByTheRun
<1>6. ASSUME NEW content \in Contents, NEW corpus \in Corpora, ChangeInputs(content, corpus)
      PROVE  ReportsTyped' /\ NothingYet' /\ Labelled' /\ FirstIsOnDisk'
  <2>1. ReportsTyped'
    BY <1>6 DEF ChangeInputs, ReportsTyped, ReportsTypeOK
  <2>2. NothingYet' /\ Labelled'
    BY <1>6 DEF ChangeInputs, NothingYet, Labelled
  <2>3. FirstIsOnDisk'
    BY <1>6 DEF ChangeInputs, Between, FirstIsOnDisk
  <2> QED
    BY <2>1, <2>2, <2>3
<1>7. ASSUME NEW profile \in Profiles, NEW content \in Contents, Promote(profile, content)
      PROVE  ReportsTyped' /\ NothingYet' /\ Labelled' /\ FirstIsOnDisk'
  <2>1. vectors' \in [profile : Profiles, chunks : Contents] /\ vectors' # None
    <3>1. vectors' = [profile |-> profile, chunks |-> content]
      BY <1>7 DEF Promote
    <3>2. DOMAIN vectors' = {"profile", "chunks"} /\ DOMAIN None = {"none"}
      BY <3>1 DEF None
    <3>3. "none" \notin {"profile", "chunks"}
      OBVIOUS
    <3> QED
      BY <3>1, <3>2, <3>3
  <2>2. builds' \in 0 .. MaxBuilds /\ builds' > 0
    BY <1>4, <1>7 DEF Promote, ReportsTyped, ReportsTypeOK
  <2>3. ReportsTyped'
    BY <1>7, <2>1, <2>2 DEF Promote, ReportsTyped, ReportsTypeOK
  <2>4. NothingYet' /\ FirstIsOnDisk'
    BY <1>7 DEF Promote, NothingYet, FirstIsOnDisk, Provenance
  <2>5. Labelled'
    BY <1>7 DEF Promote, Labelled
  <2> QED
    BY <2>3, <2>4, <2>5
<1>8. CASE SaveLexicon
  <2>1. lexicon' \in Contents
    BY <1>8 DEF SaveLexicon, ReportsTyped, ReportsTypeOK
  <2>2. ReportsTyped'
    BY <1>8, <2>1 DEF SaveLexicon, ReportsTyped, ReportsTypeOK
  <2>3. NothingYet' /\ Labelled' /\ FirstIsOnDisk'
    BY <1>8 DEF SaveLexicon, NothingYet, Labelled, FirstIsOnDisk, Provenance
  <2> QED
    BY <1>2, <1>3, <2>2, <2>3 DEF ReportsInv
<1>9. CASE WriteManifest
  <2>1. manifest' \in [profile : Profiles, chunks : Contents, corpus : Corpora, rows : Nat,
                       build : 1 .. MaxBuilds]
    <3>1. /\ vectors \in [profile : Profiles, chunks : Contents]
          /\ inputs \in [chunks : Contents, corpus : Corpora]
          /\ builds \in 1 .. MaxBuilds
      BY <1>4, <1>9 DEF WriteManifest, ReportsTyped, ReportsTypeOK
    <3> QED
      BY <1>4, <1>9, <3>1 DEF WriteManifest
  <2>2. ReportsTyped'
    BY <1>9, <2>1 DEF WriteManifest, ReportsTyped, ReportsTypeOK
  <2>3. NothingYet' /\ Labelled'
    BY <1>9 DEF WriteManifest, NothingYet, Labelled
  <2>4. FirstIsOnDisk'
    BY <1>9 DEF WriteManifest, Between, FirstIsOnDisk
  <2> QED
    BY <1>2, <1>3, <2>2, <2>3, <2>4 DEF ReportsInv
<1>10. CASE RebuildStops
  <2>1. ReportsTyped'
    BY <1>10 DEF RebuildStops, ReportsTyped, ReportsTypeOK
  <2>2. NothingYet' /\ Labelled' /\ FirstIsOnDisk'
    BY <1>10 DEF RebuildStops, NothingYet, Labelled, FirstIsOnDisk, Provenance
  <2> QED
    BY <1>2, <1>3, <2>1, <2>2 DEF ReportsInv
<1> QED
  BY <1>2, <1>3, <1>6, <1>7, <1>8, <1>9, <1>10 DEF Operator, ReportsInv

\* Every step keeps the invariant.
LEMMA ReportsInvNext == ReportsInv /\ [ReportsNext]_reportsVars => ReportsInv'
<1> SUFFICES ASSUME ReportsInv, [ReportsNext]_reportsVars PROVE ReportsInv'
  OBVIOUS
<1>1. HeldByTheRun /\ ReportsTyped
  BY DEF ReportsInv, HeldByTheRun
<1>2. ASSUME NEW command \in Commands, NEW profile \in Profiles, NEW mode \in Modes,
             NEW alias \in BOOLEAN, Start(command, profile, mode, alias)
      PROVE  ReportsInv'
  <2>1. AliasIsBaseline' /\ HeaderNamesTheIndex'
    BY <1>2, FilesAlone DEF Start
  <2>2. ReportsTyped'
    <3>1. /\ run'.profile \in Profiles /\ run'.alias \in BOOLEAN
          /\ run'.command \in Commands
      BY <1>2 DEF Start
    <3>2. Blank /\ UNCHANGED disk /\ pc' = "verify"
      BY <1>2 DEF Start
    <3> QED
      BY <1>1, <3>1, <3>2, BlankIsTyped
  <2>3. BaselineOnly'
    BY <1>2 DEF Start, Baseline, BaselineOnly
  <2>4. NothingYet' /\ InHand' /\ Labelled' /\ FirstIsOnDisk'
    BY <1>2 DEF Start, Blank, NothingYet, InHand, Labelled, FirstIsOnDisk
  <2> QED
    BY <2>1, <2>2, <2>3, <2>4 DEF ReportsInv, HeldByTheRun
<1>3. CASE Abort \/ Finish
  <2>1. Ends /\ UNCHANGED <<disk, runs, files>>
    BY <1>3 DEF Abort, Finish
  <2> QED
    BY <2>1, FilesAlone, EndsHoldsNothing DEF ReportsInv
<1>4. CASE ResolveHeader
  <2>1. AliasIsBaseline' /\ HeaderNamesTheIndex'
    BY <1>4, FilesAlone DEF ResolveHeader
  <2>2. header' = Provenance /\ header' \in Sources /\ header' # None /\ header = None
    BY <1>1, <1>4, SourcesAreThere DEF ResolveHeader
  <2>3. UNCHANGED <<disk, runs, pc, run, retriever, rows, next, moved, swapped, files>>
    BY <1>4 DEF ResolveHeader
  <2>4. ReportsTyped'
    BY <1>1, <2>2, <2>3 DEF ReportsTyped, ReportsTypeOK, disk
  <2>5. BaselineOnly' /\ NothingYet' /\ InHand' /\ Labelled'
    BY <1>1, <2>3 DEF HeldByTheRun, BaselineOnly, NothingYet, InHand, Labelled, disk
  <2>6. FirstIsOnDisk'
    BY <1>1, <2>2, <2>3 DEF HeldByTheRun, FirstIsOnDisk, Provenance, disk
  <2> QED
    BY <2>1, <2>4, <2>5, <2>6 DEF ReportsInv, HeldByTheRun
<1>5. CASE CheckLive
  <2>1. AliasIsBaseline' /\ HeaderNamesTheIndex'
    BY <1>5, FilesAlone DEF CheckLive
  <2>2. /\ pc = "verify" /\ pc' = "checked"
        /\ UNCHANGED <<disk, runs, run, retriever, rows, header, next, moved, swapped, files>>
    BY <1>5 DEF CheckLive
  <2>3. HeldByTheRun'
    BY <1>1, <2>2 DEF HeldByTheRun, ReportsTyped, ReportsTypeOK, BaselineOnly, NothingYet,
                      InHand, Labelled, FirstIsOnDisk, Provenance, disk
  <2> QED
    BY <2>1, <2>3 DEF ReportsInv
<1>6. CASE Build
  <2>1. AliasIsBaseline' /\ HeaderNamesTheIndex'
    BY <1>6, FilesAlone DEF Build
  <2>2. /\ retriever' = Provenance /\ retriever' \in Sources /\ retriever' # None
        /\ retriever = None /\ rows = << >>
    BY <1>1, <1>6, LoadedIsOnDisk, SourcesAreThere DEF Build, HeldByTheRun, NothingYet
  <2>3. /\ pc = "checked" /\ pc' = "measure" /\ vectors.profile = run.profile
        /\ UNCHANGED <<disk, runs, run, rows, header, next, moved, swapped, files>>
    BY <1>6 DEF Build
  <2>4. ReportsTyped'
    BY <1>1, <2>2, <2>3 DEF ReportsTyped, ReportsTypeOK, disk
  <2>5. BaselineOnly' /\ NothingYet' /\ InHand' /\ Labelled'
    BY <1>1, <2>2, <2>3 DEF HeldByTheRun, BaselineOnly, NothingYet, InHand, Labelled, disk
  <2>6. FirstIsOnDisk'
    BY <1>1, <2>2, <2>3 DEF HeldByTheRun, FirstIsOnDisk, Provenance, disk
  <2> QED
    BY <2>1, <2>4, <2>5, <2>6 DEF ReportsInv, HeldByTheRun
<1>7. CASE Ask \/ AskFails
  <2>1. PICK ok \in BOOLEAN :
          /\ pc = "measure" /\ Len(rows) < NumQuestions /\ rows' = Append(rows, Row(ok))
          /\ UNCHANGED <<disk, runs, pc, run, retriever, header, next, moved, swapped, files>>
    BY <1>7 DEF Ask, AskFails
  <2> QED
    BY <2>1, RowKeepsTheMeasure, FilesAlone DEF ReportsInv
<1>8. CASE Measured \/ BeginWriting
  <2>1. /\ UNCHANGED <<disk, runs, run, retriever, rows, header, next, moved, swapped, files>>
        /\ \/ pc = "measure" /\ pc' = "header" /\ Len(rows) = NumQuestions
           \/ pc = "header" /\ pc' = "write" /\ header # None
    BY <1>8 DEF Measured, BeginWriting
  <2>2. AliasIsBaseline' /\ HeaderNamesTheIndex'
    BY <2>1, FilesAlone
  <2>3. ReportsTyped'
    BY <1>1, <2>1 DEF ReportsTyped, ReportsTypeOK, disk
  <2>4. BaselineOnly' /\ NothingYet' /\ InHand' /\ Labelled' /\ FirstIsOnDisk'
    BY <1>1, <2>1 DEF HeldByTheRun, BaselineOnly, NothingYet, InHand, Labelled, FirstIsOnDisk,
                      Provenance, disk
  <2> QED
    BY <2>2, <2>3, <2>4 DEF ReportsInv, HeldByTheRun
<1>9. CASE Write
  <2> DEFINE name == Outputs(run)[next]
  <2>1. /\ pc = "write" /\ Store(name, Report(TRUE)) /\ next' = next + 1
        /\ UNCHANGED <<disk, runs, pc, run, retriever, rows, header, moved, swapped>>
    BY <1>9 DEF Write
  <2>2. name.profile = "canonical" => run.alias
    BY <1>1, <1>9, <2>1, NextIsCanonical DEF Write
  <2>3. AliasIsBaseline' /\ HeaderNamesTheIndex'
    BY <2>1, <2>2, StoreKeepsTheNames
  <2>4. HeldByTheRun'
    BY <1>1, <2>1 DEF HeldByTheRun, ReportsTyped, ReportsTypeOK, BaselineOnly, NothingYet,
                      InHand, Labelled, FirstIsOnDisk, Provenance, disk
  <2> QED
    BY <2>3, <2>4 DEF ReportsInv
<1>10. CASE WriteTorn
  <2> DEFINE name == Outputs(run)[next]
  <2>1. AliasIsBaseline' /\ HeaderNamesTheIndex'
    <3>1. CASE UNCHANGED files
      BY <3>1, FilesAlone
    <3>2. CASE Store(name, Report(FALSE))
      <4>1. pc = "write" /\ (name.profile = "canonical" => run.alias)
        BY <1>1, <1>10, NextIsCanonical DEF WriteTorn
      <4> QED
        BY <3>2, <4>1, StoreKeepsTheNames
    <3> QED
      BY <1>10, <3>1, <3>2 DEF WriteTorn
  <2>2. Ends /\ UNCHANGED <<disk, runs>>
    BY <1>10 DEF WriteTorn
  <2> QED
    BY <2>1, <2>2, EndsHoldsNothing DEF ReportsInv
<1>11. CASE Operator
  BY <1>11, OperatorKeeps
<1>12. CASE UNCHANGED reportsVars
  <2>1. AliasIsBaseline' /\ HeaderNamesTheIndex'
    BY <1>12, FilesAlone DEF reportsVars
  <2>2. HeldByTheRun'
    BY <1>1, <1>12 DEF reportsVars, HeldByTheRun, ReportsTyped, ReportsTypeOK, BaselineOnly,
                       NothingYet, InHand, Labelled, FirstIsOnDisk, Provenance, disk
  <2> QED
    BY <2>1, <2>2 DEF ReportsInv
<1> QED
  BY <1>2, <1>3, <1>4, <1>5, <1>6, <1>7, <1>8, <1>9, <1>10, <1>11, <1>12 DEF ReportsNext

\* What a command holds is tied to the disk while that does not move, to its own
\* label from the second check on (_eval_retriever.py:34-46), and so is what it
\* leaves in the reports directory.
THEOREM ReportsInvariant == ReportsSpec => []ReportsInv
  BY ReportsInvInit, ReportsInvNext, PTL DEF ReportsSpec

\* The type invariant of the report commands.
THEOREM ReportsTypes == ReportsSpec => []ReportsTypeOK
<1>1. ReportsInv => ReportsTypeOK
  BY DEF ReportsInv, HeldByTheRun, ReportsTyped
<1> QED
  BY <1>1, ReportsInvariant, PTL

\* The canonical names hold what a raw-v1/off run measured, on a raw-v1
\* collection unless it was replaced while that run asked, for any number of
\* commands, questions, kills, torn files, edits and rebuilds.
THEOREM AliasStaysBaseline == ReportsSpec => []AliasIsBaseline
<1>1. ReportsInv => AliasIsBaseline
  BY DEF ReportsInv
<1> QED
  BY <1>1, ReportsInvariant, PTL

\* The header of every report, early or late, names the chunks its lexical index
\* was built from and the corpus and build it was checked against, unless the
\* inputs or the manifest changed between the two moments.
THEOREM HeadersAreTrue == ReportsSpec => []HeaderNamesTheIndex
<1>1. ReportsInv => HeaderNamesTheIndex
  BY DEF ReportsInv
<1> QED
  BY <1>1, ReportsInvariant, PTL

-----------------------------------------------------------------------------
\* The floor sweep.

SweepInv == SweepTypeOK /\ (stage = "write" => partial \subseteq Range(Artifacts))

LEMMA SweepStarts == SweepInit => SweepInv
BY DEF SweepInit, SweepInv, SweepTypeOK, Absent

\* There are four artifacts to write, and a directory under way has less.
LEMMA ArtifactsLeft ==
    ASSUME NEW S, S \subseteq Range(Artifacts), Cardinality(S) < Len(Artifacts)
    PROVE  Artifacts[Cardinality(S) + 1] \in Range(Artifacts)
<1>1. Len(Artifacts) = 4 /\ DOMAIN Artifacts = 1 .. 4
  BY DEF Artifacts
<1>2. Range(Artifacts) = {Artifacts[1], Artifacts[2], Artifacts[3], Artifacts[4]}
  BY <1>1 DEF Range
<1>3. IsFiniteSet(Range(Artifacts))
  <2>1. IsFiniteSet({Artifacts[1]} \cup {Artifacts[2]})
    BY FS_Singleton, FS_AddElement
  <2>2. IsFiniteSet(({Artifacts[1]} \cup {Artifacts[2]}) \cup {Artifacts[3]})
    BY <2>1, FS_AddElement
  <2>3. IsFiniteSet((({Artifacts[1]} \cup {Artifacts[2]}) \cup {Artifacts[3]}) \cup {Artifacts[4]})
    BY <2>2, FS_AddElement
  <2>4. Range(Artifacts)
           = (({Artifacts[1]} \cup {Artifacts[2]}) \cup {Artifacts[3]}) \cup {Artifacts[4]}
    BY <1>2
  <2> QED
    BY <2>3, <2>4
<1>4. Cardinality(S) \in Nat
  BY <1>3, FS_Subset, FS_CardinalityType
<1> QED
  BY <1>1, <1>4 DEF Range

LEMMA SweepKeeps == SweepInv /\ [SweepNext]_sweepVars => SweepInv'
<1> SUFFICES ASSUME SweepInv, [SweepNext]_sweepVars PROVE SweepInv'
  OBVIOUS
<1> USE DEF SweepInv
<1>1. ASSUME NEW q \in DOMAIN Questions, Collect(q) PROVE SweepInv'
  <2>1. PICK result \in Results[q] :
           features' = [p \in DOMAIN features \cup {q} |->
                          IF p = q THEN Extract(result) ELSE features[p]]
    BY <1>1 DEF Collect
  <2>2. DOMAIN Extract(result) = {"score", "agree", "inTop", "overlap"}
    BY DEF Extract
  <2>3. DOMAIN features' = DOMAIN features \cup {q}
    BY <2>1
  <2>4. ASSUME NEW p \in DOMAIN features'
        PROVE  DOMAIN features'[p] = {"score", "agree", "inTop", "overlap"}
    BY <2>1, <2>2, <2>3 DEF SweepTypeOK
  <2>5. DOMAIN features' \subseteq DOMAIN Questions
    BY <2>3 DEF SweepTypeOK
  <2> QED
    BY <1>1, <2>4, <2>5 DEF Collect, SweepTypeOK
<1>2. CASE Collected
  BY <1>2 DEF Collected, SweepTypeOK
<1>3. CASE OpenRun
  BY <1>3 DEF OpenRun, SweepTypeOK, Absent
<1>4. CASE WriteNext
  <2>1. Artifacts[Written + 1] \in Range(Artifacts)
    BY <1>4, ArtifactsLeft DEF WriteNext, Written
  <2> QED
    BY <1>4, <2>1 DEF WriteNext, SweepTypeOK
<1>5. CASE Publish
  BY <1>5 DEF Publish, SweepTypeOK
<1>6. CASE Fail
  BY <1>6 DEF Fail, SweepTypeOK
<1>7. CASE Interrupt
  BY <1>7 DEF Interrupt, SweepTypeOK
<1>8. CASE UNCHANGED sweepVars
  BY <1>8 DEF sweepVars, SweepTypeOK
<1> QED
  BY <1>1, <1>2, <1>3, <1>4, <1>5, <1>6, <1>7, <1>8 DEF SweepNext

\* Whatever the sweep's copy of the gate says, it never refuses at or above the
\* threshold; so what a rule lets through that production refuses, it reviews.
LEMMA LetThroughIsReviewed ==
    ASSUME NEW rule, NEW q \in DOMAIN features, Fidelity,
           InProduction(features[q]) = "hard_refuse",
           Candidate(features[q], rule) # "hard_refuse"
    PROVE  /\ Candidate(features[q], CurrentRule) = "hard_refuse"
           /\ Candidate(features[q], rule) = "grounded_review"
<1>1. Candidate(features[q], CurrentRule) = "hard_refuse"
  BY DEF Fidelity
<1>2. ~(Finite(features[q].score) /\ features[q].score >= Threshold)
  BY DEF InProduction, ClassifyScore, Production
<1>3. Candidate(features[q], rule) = "grounded_review"
  BY <1>2 DEF Candidate
<1> QED
  BY <1>1, <1>3

\* The bounds of G3, read against production.
LEMMA EligibleIsBounded ==
    ASSUME SweepTypeOK, NEW rule \in Eligible, NEW l \in SetLanguages
    PROVE  Cardinality({q \in OfLanguage(Members("eval_set", FALSE), l) :
                          /\ InProduction(features[q]) = "hard_refuse"
                          /\ Candidate(features[q], rule) # "hard_refuse"})
              <= Min({MaxPerLanguage, MaxPooled})
<1> DEFINE M == Members("eval_set", FALSE)
           Anew(S) == {q \in S : /\ Candidate(features[q], CurrentRule) = "hard_refuse"
                                 /\ Candidate(features[q], rule) = "grounded_review"}
           B == {q \in OfLanguage(M, l) : /\ InProduction(features[q]) = "hard_refuse"
                                          /\ Candidate(features[q], rule) # "hard_refuse"}
<1>1. M \subseteq DOMAIN features /\ IsFiniteSet(M)
  <2>1. M \subseteq DOMAIN features
    BY DEF Members
  <2> QED
    BY <2>1, FS_Subset, FloorSweepAssumption DEF SweepTypeOK
<1>2. B \subseteq Anew(OfLanguage(M, l)) /\ Anew(OfLanguage(M, l)) \subseteq Anew(M)
      /\ Anew(M) \subseteq M
  <2>1. Fidelity
    BY DEF Eligible
  <2> QED
    BY <1>1, <2>1, LetThroughIsReviewed DEF OfLanguage
<1>3. /\ Cardinality(B) <= Cardinality(Anew(OfLanguage(M, l)))
      /\ Cardinality(Anew(OfLanguage(M, l))) <= Cardinality(Anew(M))
      /\ Cardinality(B) \in Nat /\ Cardinality(Anew(M)) \in Nat
      /\ Cardinality(Anew(OfLanguage(M, l))) \in Nat
  <2> HIDE DEF M, Anew, B
  <2>1. IsFiniteSet(Anew(M))
    BY <1>1, <1>2, FS_Subset
  <2>2. IsFiniteSet(Anew(OfLanguage(M, l)))
    BY <1>2, <2>1, FS_Subset
  <2>3. IsFiniteSet(B)
    BY <1>2, <2>2, FS_Subset
  <2> QED
    BY <1>2, <2>1, <2>2, <2>3, FS_Subset, FS_CardinalityType
<1>4. Cardinality(Anew(M)) <= MaxPooled /\ Cardinality(Anew(OfLanguage(M, l))) <= MaxPerLanguage
  BY DEF Eligible, Containment, NewlyReviewed
<1>5. MaxPooled \in Nat /\ MaxPerLanguage \in Nat
  BY FloorSweepAssumption
<1>6. Min({MaxPerLanguage, MaxPooled}) \in {MaxPerLanguage, MaxPooled}
  <2>1. \E x \in {MaxPerLanguage, MaxPooled} : \A y \in {MaxPerLanguage, MaxPooled} : x <= y
    BY <1>5
  <2> QED
    BY <2>1 DEF Min
<1> HIDE DEF M, Anew, B
<1>7. Cardinality(B) <= MaxPooled /\ Cardinality(B) <= MaxPerLanguage
  BY <1>3, <1>4, <1>5
<1> QED
  BY <1>6, <1>7 DEF M, B

\* The sweep keeps its types, for any question set, retrieval and interruption.
THEOREM SweepTypes == SweepSpec => []SweepTypeOK
<1>1. SweepInv => SweepTypeOK
  BY DEF SweepInv
<1> QED
  BY <1>1, SweepStarts, SweepKeeps, PTL DEF SweepSpec

\* Whatever floors, signals and limits the sweep is given and whatever the
\* retriever returns (NaN included): an eligible rule lets past production's
\* gate no more unanswerable questions of a language than G3 allows.
THEOREM EligibleContains == SweepSpec => []EligibleIsContained
<1>1. SweepInv => EligibleIsContained
  BY EligibleIsBounded DEF SweepInv, EligibleIsContained
<1> QED
  BY <1>1, SweepStarts, SweepKeeps, PTL DEF SweepSpec

\* Nor does an eligible rule refuse more answerable questions of a language
\* than the gate in production, which the sweep has only its own copy of.
THEOREM EligibleHarmless == SweepSpec => []EligibleHarmsNobody
<1>1. ASSUME NEW rule \in Eligible, NEW l \in SetLanguages
      PROVE  WronglyRefused(rule, l)
                <= Cardinality({q \in OfLanguage(Members("eval_set", TRUE), l) :
                                   InProduction(features[q]) = "hard_refuse"})
  <2> DEFINE M == OfLanguage(Members("eval_set", TRUE), l)
  <2>1. WronglyRefused(rule, l) <= WronglyRefused(CurrentRule, l)
    BY DEF Eligible, Reduction
  <2>2. \A q \in M : Candidate(features[q], CurrentRule) = InProduction(features[q])
    BY DEF Eligible, Fidelity, OfLanguage, Members
  <2>3. {q \in M : Candidate(features[q], CurrentRule) = "hard_refuse"}
           = {q \in M : InProduction(features[q]) = "hard_refuse"}
    BY <2>2
  <2> QED
    BY <2>1, <2>3 DEF WronglyRefused
<1>2. EligibleHarmsNobody
  BY <1>1 DEF EligibleHarmsNobody
<1> QED
  BY <1>2, PTL
=============================================================================
