-------------------------- MODULE GateImportProofs --------------------------
(***************************************************************************)
(* Write-once runs and single-use imports, for any number of runs of one   *)
(* second, any checklist, and any edits and kills.                         *)
(*                                                                         *)
(* Three layers.  The run directory: whoever is writing owns the .partial  *)
(* directory alone.  The grades: what an import has read it has matched    *)
(* against the baseline, and it writes what it has read; both hold for     *)
(* any number of importers.  The marker: it takes that no two imports run  *)
(* at once, which the code does not see to (see MCGateImportTwice).        *)
(*                                                                         *)
(* Then the comparison whose files these are, for any matrices, scores,    *)
(* replies and repeats.  Its invariant says which rows are there (one for  *)
(* every question, arm and repeat the run is past), which band each has,   *)
(* and that a confident row of one arm is, through the cache of the        *)
(* repeat, the row of the other.                                           *)
(***************************************************************************)
EXTENDS GateImport, GateRun, TLAPS, FiniteSetTheorems, FunctionTheorems

Contents == Writers \cup {Damaged}
Directories == UNION {[names -> Contents] : names \in SUBSET ToSet(RunFiles)}

-----------------------------------------------------------------------------
(* The run directory.                                                      *)

WriterStates == {"start", "no final", "no partial", "writing", "done", "failed"}

\* A run that is writing has .partial to itself, and everything in it is its own.
Owned ==
    /\ partial \in Directories \cup {NoDir}
    /\ writer \in [Writers -> WriterStates]
    /\ \A w \in Writers : writer[w] = "writing" =>
          /\ partial # NoDir
          /\ \A f \in DOMAIN partial : partial[f] = w
          /\ \A v \in Writers : writer[v] = "writing" => v = w

RunInv ==
    /\ Owned
    /\ final = NoDir => \A w \in Writers : writer[w] # "done"
    /\ final # NoDir => DOMAIN final = ToSet(RunFiles) /\ DOMAIN sums = ToSet(RunFiles)
    /\ OneWholeRun

LEMMA DirectoryIsNotNoDir ==
    ASSUME NEW names \in SUBSET ToSet(RunFiles), NEW d \in [names -> Contents]
    PROVE  d # NoDir /\ d \in Directories
BY NoDirAssumption DEF Directories, Contents

LEMMA RunStarts == Init => RunInv
BY DEF Init, RunInv, Owned, OneWholeRun, WriterStates

LEMMA WriteFileKeeps == ASSUME RunInv, NEW w \in Writers, WriteFile(w) PROVE RunInv'
<1>1. PICK i \in DOMAIN RunFiles :
          partial' = [f \in DOMAIN partial \cup {RunFiles[i]} |->
                         IF f = RunFiles[i] THEN w ELSE partial[f]]
    BY DEF WriteFile
<1>2. /\ writer[w] = "writing" /\ partial # NoDir
      /\ UNCHANGED <<final, sums, writer>>
    BY DEF WriteFile
<1>3. \A f \in DOMAIN partial : partial[f] = w
    BY <1>2 DEF RunInv, Owned
<1> DEFINE names == DOMAIN partial \cup {RunFiles[i]}
<1>4. names \in SUBSET ToSet(RunFiles)
    <2>1. DOMAIN partial \in SUBSET ToSet(RunFiles)
        BY <1>2 DEF RunInv, Owned, Directories
    <2>2. RunFiles[i] \in ToSet(RunFiles)
        BY DEF ToSet
    <2> QED
        BY <2>1, <2>2
<1>5. DOMAIN partial' = names /\ \A f \in names : partial'[f] = w
    BY <1>1, <1>3
<1>6. partial' \in [names -> Contents]
    BY <1>1, <1>3 DEF Contents
<1> HIDE DEF names
<1>7. partial' # NoDir /\ partial' \in Directories
    BY <1>4, <1>6, DirectoryIsNotNoDir
<1>8. Owned'
    BY <1>2, <1>5, <1>7 DEF RunInv, Owned
<1> QED
    BY <1>2, <1>8 DEF RunInv, OneWholeRun

LEMMA FinalizeKeeps == ASSUME RunInv, NEW w \in Writers, Finalize(w) PROVE RunInv'
<1>1. /\ writer[w] = "writing" /\ partial # NoDir /\ DOMAIN partial = ToSet(RunFiles)
      /\ \A f \in DOMAIN partial : partial[f] = w
    BY DEF Finalize, RunInv, Owned
<1>2. CASE final = NoDir
    <2>1. /\ final' = partial /\ sums' = partial /\ partial' = NoDir
          /\ writer' = [writer EXCEPT ![w] = "done"]
        BY <1>2 DEF Finalize, Goes
    <2>2. \A v \in Writers : writer[v] # "done"
        BY <1>2 DEF RunInv
    <2>3. /\ writer' \in [Writers -> WriterStates] /\ writer'[w] = "done"
          /\ \A v \in Writers \ {w} : writer'[v] = writer[v]
        BY <2>1 DEF RunInv, Owned, WriterStates
    <2>4. Owned'
        BY <1>1, <2>1, <2>3 DEF RunInv, Owned
    <2> QED
        BY <1>1, <2>1, <2>2, <2>3, <2>4 DEF RunInv, OneWholeRun
<1>3. CASE final # NoDir
    <2>1. writer' = [writer EXCEPT ![w] = "failed"] /\ UNCHANGED files
        BY <1>3 DEF Finalize, Goes
    <2> QED
        BY <1>1, <2>1 DEF RunInv, Owned, OneWholeRun, WriterStates, files
<1> QED
    BY <1>2, <1>3

LEMMA RunKept == RunInv /\ [Next]_vars => RunInv'
<1> SUFFICES ASSUME RunInv, [Next]_vars PROVE RunInv'
    OBVIOUS
<1>1. CASE UNCHANGED <<files, writer>>
    BY <1>1 DEF RunInv, Owned, OneWholeRun, files
<1>2. ASSUME NEW w \in Writers,
             CheckFinal(w) \/ CheckPartial(w) \/ KillWriter(w)
      PROVE  RunInv'
    <2>1. PICK pc \in {"no final", "no partial", "failed"} :
              writer' = [writer EXCEPT ![w] = pc]
        BY <1>2 DEF CheckFinal, CheckPartial, KillWriter, Goes
    <2>2. writer[w] # "done" /\ UNCHANGED files
        BY <1>2 DEF CheckFinal, CheckPartial, KillWriter
    <2> QED
        BY <2>1, <2>2 DEF RunInv, Owned, OneWholeRun, WriterStates, files
<1>3. ASSUME NEW w \in Writers, MakePartial(w)
      PROVE  RunInv'
    <2>1. writer[w] = "no partial" /\ UNCHANGED <<final, sums>>
        BY <1>3 DEF MakePartial
    <2>2. CASE partial = NoDir
        <3>1. writer' = [writer EXCEPT ![w] = "writing"] /\ partial' = << >>
            BY <1>3, <2>2 DEF MakePartial, Goes
        <3>2. << >> \in [{} -> Contents]
            OBVIOUS
        <3>3. partial' # NoDir /\ partial' \in Directories /\ DOMAIN partial' = {}
            BY <3>1, <3>2, DirectoryIsNotNoDir
        <3>4. \A v \in Writers : writer[v] # "writing"
            BY <2>2 DEF RunInv, Owned
        <3> QED
            BY <2>1, <3>1, <3>3, <3>4 DEF RunInv, Owned, OneWholeRun, WriterStates
    <2>3. CASE partial # NoDir
        <3>1. writer' = [writer EXCEPT ![w] = "failed"] /\ partial' = partial
            BY <1>3, <2>3 DEF MakePartial, Goes
        <3> QED
            BY <2>1, <3>1 DEF RunInv, Owned, OneWholeRun, WriterStates
    <2> QED
        BY <2>2, <2>3
<1>4. CASE DamageFile
    <2>1. PICK f \in Immutable : final' = [final EXCEPT ![f] = Damaged]
        BY <1>4 DEF DamageFile
    <2>2. final # NoDir /\ UNCHANGED <<partial, sums, writer>>
        BY <1>4 DEF DamageFile
    <2>3. PICK w \in Writers :
              /\ writer[w] = "done"
              /\ \A g \in ToSet(RunFiles) : sums[g] = w /\ final[g] \in {w, Damaged}
              /\ \A v \in Writers \ {w} : writer[v] # "done"
        BY <2>2 DEF RunInv, OneWholeRun
    <2>4. f \in ToSet(RunFiles)
        BY DEF Immutable
    <2>5. final' \in [ToSet(RunFiles) -> Contents] /\ DOMAIN final' = ToSet(RunFiles)
          /\ \A g \in ToSet(RunFiles) : final'[g] \in {w, Damaged}
        BY <2>1, <2>2, <2>3, <2>4 DEF RunInv, Contents
    <2>6. final' # NoDir
        BY <2>5, DirectoryIsNotNoDir
    <2> QED
        BY <2>2, <2>3, <2>5, <2>6 DEF RunInv, Owned, OneWholeRun
<1>5. CASE EditCsv \/ \E i \in Importers :
             \/ BeginImport(i) \/ ReadChecklist(i) \/ WriteImportManifest(i)
             \/ WriteComparison(i) \/ WriteMarker(i) \/ KillImport(i)
    <2>1. UNCHANGED <<files, writer>>
        BY <1>5 DEF EditCsv, BeginImport, ReadChecklist, WriteImportManifest, WriteComparison,
                    WriteMarker, KillImport
    <2> QED
        BY <1>1, <2>1
<1> QED
    BY <1>1, <1>2, <1>3, <1>4, <1>5, WriteFileKeeps, FinalizeKeeps DEF Next, vars

\* A run directory holds every file of one run, whatever else ran in the same
\* second or was killed half-way.
THEOREM RunsAreWriteOnce == Spec => []OneWholeRun
<1>1. RunInv => OneWholeRun
    BY DEF RunInv
<1> QED
    BY <1>1, RunStarts, RunKept, PTL DEF Spec

-----------------------------------------------------------------------------
(* The grades.                                                             *)

ImportStates == {"idle", "verified", "graded", "manifest", "comparison"}
Reading == {"graded", "manifest", "comparison"}
Checklists == Csvs \cup {FreshCsv}

\* What an import has read, and what it has written, was fit to be imported.
Graded ==
    /\ csv \in Checklists
    /\ importer \in [Importers -> [pc : ImportStates, read : Checklists \cup {<< >>},
                                   attempt : Nat]]
    /\ attempts \in Nat
    /\ \A i \in Importers : importer[i].pc \in Reading =>
          importer[i].read \in Checklists /\ Importable(importer[i].read)
    /\ imported.whole => imported.rows \in Checklists /\ Importable(imported.rows)

\* The checklist as write_run_dir leaves it is a list, with no grade in it.
LEMMA FreshIsUngraded ==
    /\ Len(FreshCsv) \in Nat /\ DOMAIN FreshCsv = 1 .. Len(FreshCsv)
    /\ \A r \in ToSet(FreshCsv) : r.mark = ""
<1> DEFINE S == {[id |-> r, sound |-> TRUE, mark |-> ""] : r \in Baseline}
<1>1. IsFiniteSet(S)
    <2> DEFINE f == [r \in Baseline |-> [id |-> r, sound |-> TRUE, mark |-> ""]]
    <2>1. f \in Surjection(Baseline, S)
        BY DEF Surjection
    <2> HIDE DEF f, S
    <2> QED
        BY <2>1, ImportAssumption, FS_Surjection
<1>2. \A r \in S : r.mark = ""
    <2> SUFFICES ASSUME NEW r \in Baseline
                 PROVE  [id |-> r, sound |-> TRUE, mark |-> ""].mark = ""
        BY Zenon
    <2> QED
        OBVIOUS
<1>3. FreshCsv = SetToSeq(S)
    BY DEF FreshCsv
<1> HIDE DEF S
<1>4. Cardinality(S) \in Nat /\ \E g \in [1 .. Cardinality(S) -> S] : IsInjective(g)
    BY <1>1, FS_CardinalityType DEF ExistsBijection, Bijection, Injection
<1>5. FreshCsv \in [1 .. Cardinality(S) -> S]
    BY <1>3, <1>4 DEF SetToSeq
<1>6. FreshCsv \in Seq(S)
    BY <1>4, <1>5
<1>7. Len(FreshCsv) = Cardinality(S) /\ DOMAIN FreshCsv = 1 .. Cardinality(S)
    BY <1>4, <1>5, <1>6
<1> QED
    BY <1>2, <1>4, <1>5, <1>7 DEF ToSet

\* A checklist that matches the baseline and is graded throughout has exactly
\* one graded row for every id of the baseline.
LEMMA GradedThroughout ==
    ASSUME NEW rows, Len(rows) \in Nat, DOMAIN rows = 1 .. Len(rows), Importable(rows)
    PROVE  /\ Len(rows) = Cardinality(Baseline)
           /\ \A r \in Baseline : \E g \in ToSet(rows) : g.id = r /\ g.sound /\ g.mark # ""
<1>1. /\ \A i, j \in 1 .. Len(rows) : rows[i].id = rows[j].id => i = j
      /\ {r.id : r \in ToSet(rows)} = Baseline
      /\ \A r \in ToSet(rows) : r.sound /\ r.mark # ""
    BY DEF Importable, MatchesBaseline
<1>2. \A i \in 1 .. Len(rows) : rows[i] \in ToSet(rows)
    BY DEF ToSet
<1>3. \A r \in Baseline : \E i \in 1 .. Len(rows) : rows[i].id = r
    BY <1>1 DEF ToSet
<1> DEFINE ids == [i \in 1 .. Len(rows) |-> rows[i].id]
<1>4. ids \in [1 .. Len(rows) -> Baseline]
    BY <1>1, <1>2
<1>5. ids \in Bijection(1 .. Len(rows), Baseline)
    BY <1>1, <1>3, <1>4 DEF Bijection, Injection, Surjection, IsInjective
<1>6. ExistsBijection(1 .. Len(rows), Baseline)
    BY <1>5 DEF ExistsBijection
<1>7. Len(rows) = Cardinality(Baseline)
    BY <1>6, FS_CountingElements
<1> QED
    BY <1>1, <1>2, <1>3, <1>7

LEMMA GradesStart == Init => Graded
BY DEF Init, Graded, Checklists, Idle, ImportStates, Reading, Absent

LEMMA GradesKept == Graded /\ [Next]_vars => Graded'
<1> SUFFICES ASSUME Graded, [Next]_vars PROVE Graded'
    OBVIOUS
<1> USE DEF Graded, Reading, ImportStates
<1>1. CASE UNCHANGED <<csv, importer, importFiles, attempts>>
    BY <1>1 DEF importFiles
<1>2. CASE EditCsv
    BY <1>2 DEF EditCsv, Checklists, importFiles
<1>3. ASSUME NEW i \in Importers, BeginImport(i)
      PROVE  Graded'
    BY <1>3 DEF BeginImport, importFiles
<1>4. ASSUME NEW i \in Importers, ReadChecklist(i)
      PROVE  Graded'
    <2>1. CASE Importable(csv)
        <3>1. importer' = [importer EXCEPT ![i] = [importer[i] EXCEPT !.pc = "graded", !.read = csv]]
            BY <1>4, <2>1 DEF ReadChecklist
        <3> QED
            BY <1>4, <2>1, <3>1 DEF ReadChecklist, importFiles
    <2>2. CASE ~Importable(csv)
        <3>1. importer' = [importer EXCEPT ![i] = Idle]
            BY <1>4, <2>2 DEF ReadChecklist
        <3> QED
            BY <1>4, <3>1 DEF ReadChecklist, importFiles, Idle
    <2> QED
        BY <2>1, <2>2
<1>5. ASSUME NEW i \in Importers, WriteImportManifest(i)
      PROVE  Graded'
    BY <1>5 DEF WriteImportManifest, At, Comes, Written
<1>6. ASSUME NEW i \in Importers, WriteComparison(i) \/ WriteMarker(i)
      PROVE  Graded'
    BY <1>6 DEF WriteComparison, WriteMarker, At, Comes, Idle
<1>7. ASSUME NEW i \in Importers, KillImport(i)
      PROVE  Graded'
    <2>1. imported' = imported \/ ~imported'.whole
        BY <1>7 DEF KillImport, importFiles, Torn, Absent
    <2> QED
        BY <1>7, <2>1 DEF KillImport, Idle
<1>8. CASE DamageFile \/ \E w \in Writers :
              \/ CheckFinal(w) \/ CheckPartial(w) \/ MakePartial(w)
              \/ WriteFile(w) \/ Finalize(w) \/ KillWriter(w)
    <2>1. UNCHANGED <<csv, importer, importFiles, attempts>>
        BY <1>8 DEF DamageFile, CheckFinal, CheckPartial, MakePartial, WriteFile, Finalize,
                    KillWriter, notWriting
    <2> QED
        BY <1>1, <2>1
<1> QED
    BY <1>1, <1>2, <1>3, <1>4, <1>5, <1>6, <1>7, <1>8 DEF Next, vars

\* What is imported has one grade for every row of the sealed checklist and for
\* no other, however many imports run at once.
THEOREM ImportsAreGraded == Spec => []EveryBaselineRowGraded
<1>1. Graded => EveryBaselineRowGraded
    <2> SUFFICES ASSUME Graded, imported.whole
                 PROVE  /\ Len(imported.rows) = Cardinality(Baseline)
                        /\ \A r \in Baseline : \E g \in ToSet(imported.rows) :
                              g.id = r /\ g.sound /\ g.mark # ""
        BY DEF EveryBaselineRowGraded
    <2>1. Importable(imported.rows)
        BY DEF Graded
    <2>2. Len(imported.rows) \in Nat /\ DOMAIN imported.rows = 1 .. Len(imported.rows)
        BY ImportAssumption, FreshIsUngraded DEF Graded, Checklists
    <2> QED
        BY <2>1, <2>2, GradedThroughout
<1> QED
    BY <1>1, GradesStart, GradesKept, PTL DEF Spec

-----------------------------------------------------------------------------
(* The marker, with one import at a time.                                  *)

OneImporter == \A i, j \in Importers : i = j

\* An import under way has seen no marker, and what it has written is its own.
Marked ==
    /\ \A i \in Importers : importer[i].pc # "idle" => marker = "absent"
    /\ \A i \in Importers : importer[i].pc \in {"manifest", "comparison"} =>
          imported = Written(i)
    /\ \A i \in Importers : importer[i].pc = "comparison" => compared = Written(i)
    /\ MarkerMeansOneImport

LEMMA MarkStarts == Init => Marked
BY DEF Init, Marked, MarkerMeansOneImport, Idle

LEMMA MarkKept == ASSUME OneImporter, Graded, Marked, [Next]_vars PROVE Marked'
<1> USE DEF Graded, Marked, Written, OneImporter
<1>1. CASE UNCHANGED <<importer, importFiles>>
    BY <1>1 DEF importFiles, MarkerMeansOneImport
<1>2. ASSUME NEW i \in Importers, BeginImport(i)
      PROVE  Marked'
    BY <1>2 DEF BeginImport, importFiles, MarkerMeansOneImport
<1>3. ASSUME NEW i \in Importers, ReadChecklist(i)
      PROVE  Marked'
    <2>1. UNCHANGED importFiles /\ importer'[i].pc \in {"idle", "graded"} /\ importer[i].pc # "idle"
        BY <1>3 DEF ReadChecklist, Idle, At
    <2> QED
        BY <2>1 DEF importFiles, MarkerMeansOneImport
<1>4. ASSUME NEW i \in Importers, WriteImportManifest(i)
      PROVE  Marked'
    BY <1>4 DEF WriteImportManifest, At, Comes, MarkerMeansOneImport
<1>5. ASSUME NEW i \in Importers, WriteComparison(i)
      PROVE  Marked'
    BY <1>5 DEF WriteComparison, At, Comes, MarkerMeansOneImport
<1>6. ASSUME NEW i \in Importers, WriteMarker(i)
      PROVE  Marked'
    <2>1. imported = Written(i) /\ compared = Written(i) /\ marker' = "whole"
        BY <1>6 DEF WriteMarker, At
    <2>2. imported.whole /\ compared.whole /\ imported = compared
        BY <2>1, Zenon
    <2>3. \A j \in Importers : importer'[j].pc = "idle"
        BY <1>6 DEF WriteMarker, Idle
    <2>4. UNCHANGED <<imported, compared>>
        BY <1>6 DEF WriteMarker
    <2> QED
        BY <2>2, <2>3, <2>4 DEF MarkerMeansOneImport
<1>7. ASSUME NEW i \in Importers, KillImport(i)
      PROVE  Marked'
    <2>1. importer[i].pc # "idle" /\ marker = "absent" /\ marker' # "whole"
        BY <1>7 DEF KillImport, At, importFiles
    <2>2. \A j \in Importers : importer'[j].pc = "idle"
        BY <1>7 DEF KillImport, Idle
    <2> QED
        BY <2>1, <2>2 DEF MarkerMeansOneImport
<1>8. CASE EditCsv \/ DamageFile \/ \E w \in Writers :
              \/ CheckFinal(w) \/ CheckPartial(w) \/ MakePartial(w)
              \/ WriteFile(w) \/ Finalize(w) \/ KillWriter(w)
    <2>1. UNCHANGED <<importer, importFiles>>
        BY <1>8 DEF EditCsv, DamageFile, CheckFinal, CheckPartial, MakePartial, WriteFile,
                    Finalize, KillWriter, notWriting
    <2> QED
        BY <1>1, <2>1
<1> QED
    BY <1>1, <1>2, <1>3, <1>4, <1>5, <1>6, <1>7, <1>8 DEF Next, vars

LEMMA AlwaysMarked == OneImporter /\ Spec => [](Graded /\ Marked)
<1> SUFFICES ASSUME OneImporter PROVE Spec => [](Graded /\ Marked)
    OBVIOUS
<1>1. Graded /\ Marked /\ [Next]_vars => Marked'
    BY MarkKept
<1> QED
    BY <1>1, GradesStart, GradesKept, MarkStarts, PTL DEF Spec

\* A whole marker vouches for both other files of one and the same import.
THEOREM MarkerVouches == OneImporter /\ Spec => []MarkerMeansOneImport
<1>1. Marked => MarkerMeansOneImport
    BY DEF Marked
<1> QED
    BY <1>1, AlwaysMarked, PTL

\* When an import is complete, nothing writes its files again.
THEOREM ImportsOnce == OneImporter /\ Spec => SingleUse
<1>1. Marked /\ [Next]_vars => [marker = "whole" => UNCHANGED importFiles]_vars
    <2> SUFFICES ASSUME Marked, [Next]_vars, marker = "whole" PROVE UNCHANGED importFiles
        OBVIOUS
    <2>1. \A i \in Importers : importer[i].pc = "idle"
        BY DEF Marked
    <2> QED
        BY <2>1 DEF Next, vars, importFiles, notWriting, EditCsv, DamageFile, CheckFinal,
           CheckPartial, MakePartial, WriteFile, Finalize, KillWriter, BeginImport,
           ReadChecklist, WriteImportManifest, WriteComparison, WriteMarker, KillImport, At
<1> QED
    BY <1>1, AlwaysMarked, PTL DEF Spec, SingleUse

-----------------------------------------------------------------------------
(* The rows of a comparison.                                               *)

ArmNames == {"binary", "grounded_review"}

Rows == [repeat : Nat \ {0}, policy : ArmNames, question : Questions, refused : BOOLEAN,
         status : {"ok", "error"}, cites : BOOLEAN, trace : {"clean", "limited", "fallback"},
         band : Bands, forwarded : BOOLEAN, made : Nat]

\* The row of arm a, repeat r and turn t of a matrix has been recorded.
Passed(m, r, a, t) ==
    \/ m = "holdout" /\ matrix = "canary" /\ r <= asked["holdout"]
    \/ m = matrix /\ r < repeat
    \/ m = matrix /\ r = repeat /\ client = "open" /\ (a < arm \/ (a = arm /\ t < turn))

IdAt(m, r, a, t) == <<Arms[a], r, Order[m][t]>>

Kept(id) == \E i \in DOMAIN outcomes : RowId(outcomes[i]) = id

\* One row for every question, arm and repeat that the run is past, and no other.
RowsInPlace ==
    /\ outcomes \in Seq(Rows)
    /\ \A i, j \in DOMAIN outcomes : RowId(outcomes[i]) = RowId(outcomes[j]) => i = j
    /\ phase = "running" =>
          \A m \in Matrices, r \in Nat \ {0}, a \in {1, 2} : \A t \in DOMAIN Order[m] :
             Kept(IdAt(m, r, a, t)) <=> Passed(m, r, a, t)
    /\ phase = "written" =>
          \A m \in Matrices, r \in Nat \ {0}, a \in {1, 2} : \A t \in DOMAIN Order[m] :
             Kept(IdAt(m, r, a, t)) <=> r <= asked[m]

\* Where the run is.
InPlace ==
    /\ phase \in {"capture", "preflight", "running", "unwinding", "written", "refused", "aborted"}
    /\ matrix \in Matrices /\ \A m \in Matrices : asked[m] \in 1 .. MaxRepeats
    /\ repeat \in Nat \ {0} /\ repeat <= asked[matrix] + 1
    /\ arm \in {1, 2, 3} /\ turn \in DOMAIN Order[matrix]
    /\ client \in {"open", "closed"}
    /\ phase = "running" /\ client = "closed" => turn = 1
    /\ phase = "running" /\ arm = 3 => turn = 1
    /\ phase = "running" /\ client = "open" => repeat <= asked[matrix]
    /\ client = "open" => phase \in {"running", "unwinding"}
    /\ phase \in {"capture", "preflight", "refused"} =>
          outcomes = << >> /\ client = "closed" /\ matrix = "holdout" /\ repeat = 1 /\ turn = 1
    /\ score \in [Questions -> (UNION Range(ScoresOf)) \cup {NoScore}]
    /\ \A q \in Questions : Finite(score[q]) => score[q] \in Nat

CacheInPlace ==
    /\ DOMAIN cache \subseteq Questions \X {"grounded_review", "confident"}
    /\ \A k \in DOMAIN cache :
          cache[k].made \in Nat /\ cache[k].reply.says \in Says /\ cache[k].reply.says # "fails"

\* A row has the band of its question under its arm; without a call it refuses.
Banded ==
    \A i \in DOMAIN outcomes :
       LET o == outcomes[i]
       IN  /\ o.band = BandUnder(o.policy, o.question)
           /\ o.band = "hard_refuse" => o.refused
           /\ o.status = "error" => ~o.refused
           /\ o.forwarded => o.band # "hard_refuse"

\* The reply that a confident question of this repeat had is in the cache ...
Cached ==
    phase = "running" /\ client = "open" =>
       \A i \in DOMAIN outcomes :
          LET o == outcomes[i]
              k == <<o.question, "confident">>
          IN  o.repeat = repeat /\ o.question \in QuestionsIn(matrix)
              /\ o.band = "confident" /\ o.status = "ok" /\ o.policy = "binary"
              => k \in DOMAIN cache /\ o.refused = (cache[k].reply.says = "declines")

\* ... and so the other arm has it too.
Shared ==
    \A i, j \in DOMAIN outcomes :
       LET o == outcomes[i]
           g == outcomes[j]
       IN  o.policy = "binary" /\ g.policy = "grounded_review"
           /\ o.repeat = g.repeat /\ o.question = g.question
           /\ o.band = "confident" /\ o.status = "ok" /\ g.status = "ok"
           => o.refused = g.refused

Reported ==
    /\ phase # "written" => report = NoReport
    /\ phase = "written" => report = Scored(report.verdicts)

CompareInv ==
    InPlace /\ CacheInPlace /\ RowsInPlace /\ Banded /\ Cached /\ Shared /\ Reported

LEMMA Matrix ==
    ASSUME NEW m \in Matrices
    PROVE  /\ Len(Order[m]) \in Nat \ {0} /\ DOMAIN Order[m] = 1 .. Len(Order[m])
           /\ \A t, u \in DOMAIN Order[m] : Order[m][t] = Order[m][u] => t = u
           /\ \A t \in DOMAIN Order[m] : Order[m][t] \in QuestionsIn(m)
           /\ \A q \in QuestionsIn(m) : \E t \in DOMAIN Order[m] : Order[m][t] = q
           /\ QuestionsIn(m) \subseteq Questions
<1>1. /\ Len(Order[m]) \in Nat \ {0} /\ DOMAIN Order[m] = 1 .. Len(Order[m])
      /\ IsInjective(Order[m]) /\ Range(Order[m]) = QuestionsIn(m)
    BY RunAssumption
<1>2. \A t, u \in DOMAIN Order[m] : Order[m][t] = Order[m][u] => t = u
    BY <1>1 DEF IsInjective
<1>3. QuestionsIn(m) \subseteq Questions
    BY DEF QuestionsIn, Questions
<1> QED
    BY <1>1, <1>2, <1>3 DEF Range

LEMMA IdPlaced ==
    ASSUME NEW o \in Rows, NEW m \in Matrices, o.question \in QuestionsIn(m)
    PROVE  \E a \in {1, 2} : \E t \in DOMAIN Order[m] :
              RowId(o) = IdAt(m, o.repeat, a, t) /\ o.policy = Arms[a] /\ o.question = Order[m][t]
<1>1. PICK t \in DOMAIN Order[m] : Order[m][t] = o.question
    BY Matrix
<1>2. PICK a \in {1, 2} : Arms[a] = o.policy
    BY DEF Rows, ArmNames, Arms
<1> QED
    BY <1>1, <1>2 DEF RowId, IdAt

\* The two policies differ in the grey band only.
LEMMA BandsCompare ==
    ASSUME NEW q \in Questions, InPlace
    PROVE  /\ \A p \in ArmNames : BandUnder(p, q) \in Bands
           /\ BandUnder("binary", q) # "grounded_review"
           /\ BandUnder("binary", q) = "confident" <=> BandUnder("grounded_review", q) = "confident"
<1>1. /\ Finite(score[q]) => score[q] \in Nat
      /\ ~Finite(NoScore) /\ Threshold \in Nat /\ Floor \in Nat /\ Floor < Threshold
    BY RunAssumption DEF InPlace, Finite
<1> QED
    BY <1>1 DEF BandUnder, Setting, ClassifyScore, Bands, ArmNames

-----------------------------------------------------------------------------
(* One more row.                                                           *)

LEMMA AtPlace ==
    ASSUME CompareInv, AtQuestion
    PROVE  /\ arm \in {1, 2} /\ turn \in DOMAIN Order[matrix] /\ matrix \in Matrices
           /\ phase = "running" /\ client = "open"
           /\ question = Order[matrix][turn] /\ question \in QuestionsIn(matrix)
           /\ question \in Questions /\ Arms[arm] \in ArmNames
           /\ repeat \in Nat \ {0} /\ repeat <= asked[matrix]
           /\ band = BandUnder(Arms[arm], question) /\ band \in Bands
<1>1. arm \in {1, 2} /\ Arms[arm] \in ArmNames
    BY DEF CompareInv, InPlace, AtQuestion, Arms, ArmNames
<1>2. /\ turn \in DOMAIN Order[matrix] /\ matrix \in Matrices /\ repeat \in Nat \ {0}
      /\ phase = "running" /\ client = "open" /\ repeat <= asked[matrix]
    BY DEF CompareInv, InPlace, AtQuestion
<1>3. question = Order[matrix][turn]
    BY DEF question, QuestionsOf
<1>4. question \in QuestionsIn(matrix) /\ question \in Questions
    BY <1>2, <1>3, Matrix
<1>5. band = BandUnder(Arms[arm], question)
    BY DEF band
<1>6. band \in Bands
    BY <1>1, <1>4, <1>5, BandsCompare DEF CompareInv
<1> QED
    BY <1>1, <1>2, <1>3, <1>4, <1>5, <1>6

LEMMA RecordPlaces ==
    ASSUME CompareInv, AtQuestion, NEW o \in Rows, Record(o),
           o.repeat = repeat, o.policy = Arms[arm], o.question = question
    PROVE  /\ InPlace' /\ RowsInPlace'
           /\ DOMAIN outcomes' = DOMAIN outcomes \cup {Len(outcomes) + 1}
           /\ Len(outcomes) + 1 \notin DOMAIN outcomes
           /\ \A i \in DOMAIN outcomes : outcomes'[i] = outcomes[i]
           /\ outcomes'[Len(outcomes) + 1] = o
           /\ \A i \in DOMAIN outcomes :
                 outcomes[i].repeat = repeat /\ outcomes[i].question = question =>
                    arm = 2 /\ outcomes[i].policy = "binary"
<1> DEFINE n == Len(outcomes) + 1
<1>1. /\ outcomes \in Seq(Rows) /\ DOMAIN outcomes = 1 .. Len(outcomes) /\ Len(outcomes) \in Nat
      /\ outcomes' = Append(outcomes, o)
    BY DEF CompareInv, RowsInPlace, Record
<1>2. /\ DOMAIN outcomes' = DOMAIN outcomes \cup {n} /\ n \notin DOMAIN outcomes
      /\ \A i \in DOMAIN outcomes : outcomes'[i] = outcomes[i]
      /\ outcomes'[n] = o /\ outcomes' \in Seq(Rows)
    BY <1>1
<1>3. /\ arm \in {1, 2} /\ turn \in DOMAIN Order[matrix] /\ matrix \in Matrices
      /\ phase = "running" /\ client = "open" /\ repeat \in Nat \ {0}
      /\ question = Order[matrix][turn] /\ question \in QuestionsIn(matrix)
    BY AtPlace
<1>4. /\ UNCHANGED <<phase, score, asked, matrix, repeat, client, report>>
      /\ IF turn < Len(Order[matrix]) THEN turn' = turn + 1 /\ arm' = arm
                                      ELSE turn' = 1 /\ arm' = arm + 1
    BY DEF Record, Advance, QuestionsOf
<1>5. DOMAIN Order[matrix] = 1 .. Len(Order[matrix]) /\ Len(Order[matrix]) \in Nat \ {0}
    BY <1>3, Matrix
<1>6. /\ turn' \in DOMAIN Order[matrix] /\ arm' \in {1, 2, 3}
      /\ arm' = 3 => turn' = 1
    BY <1>3, <1>4, <1>5
<1>7. InPlace'
    BY <1>3, <1>4, <1>6 DEF CompareInv, InPlace
<1>8. RowId(o) = IdAt(matrix, repeat, arm, turn)
    BY <1>3 DEF RowId, IdAt
<1>9. \A m \in Matrices, r \in Nat \ {0}, a \in {1, 2} : \A t \in DOMAIN Order[m] :
         Kept(IdAt(m, r, a, t)) <=> Passed(m, r, a, t)
    BY <1>3 DEF CompareInv, RowsInPlace
<1>10. ~Kept(RowId(o))
    <2>1. ~Passed(matrix, repeat, arm, turn)
        <3>1. ~(repeat < repeat) /\ ~(arm < arm) /\ ~(turn < turn)
            BY <1>3, <1>5
        <3> QED
            BY <3>1 DEF Passed
    <2> QED
        BY <1>3, <1>8, <1>9, <2>1
<1>11. \A i, j \in DOMAIN outcomes' : RowId(outcomes'[i]) = RowId(outcomes'[j]) => i = j
    <2>1. \A i, j \in DOMAIN outcomes : RowId(outcomes[i]) = RowId(outcomes[j]) => i = j
        BY DEF CompareInv, RowsInPlace
    <2>2. \A i \in DOMAIN outcomes : RowId(outcomes[i]) # RowId(o)
        BY <1>10 DEF Kept
    <2> QED
        BY <1>2, <2>1, <2>2
<1>12. ASSUME NEW m \in Matrices, NEW r \in Nat \ {0}, NEW a \in {1, 2}, NEW t \in DOMAIN Order[m]
       PROVE  Kept(IdAt(m, r, a, t))' <=> Passed(m, r, a, t)'
    <2>1. Kept(IdAt(m, r, a, t))' <=> Kept(IdAt(m, r, a, t)) \/ IdAt(m, r, a, t) = RowId(o)
        <3> DEFINE id == IdAt(m, r, a, t)
        <3> HIDE DEF id
        <3>1. (\E i \in DOMAIN outcomes' : RowId(outcomes'[i]) = id)
                <=> (\E i \in DOMAIN outcomes : RowId(outcomes[i]) = id) \/ id = RowId(o)
            BY <1>2
        <3>2. id' = id
            BY DEF id, IdAt
        <3> QED
            BY <3>1, <3>2 DEF Kept, id
    <2>2. IdAt(m, r, a, t) = RowId(o) <=> m = matrix /\ r = repeat /\ a = arm /\ t = turn
        <3>1. ASSUME IdAt(m, r, a, t) = RowId(o)
              PROVE  m = matrix /\ r = repeat /\ a = arm /\ t = turn
            <4>1. Arms[a] = Arms[arm] /\ r = repeat /\ Order[m][t] = Order[matrix][turn]
                BY <1>8, <3>1 DEF IdAt
            <4>2. a = arm
                BY <1>3, <4>1 DEF Arms
            <4>3. Order[m][t] \in QuestionsIn(m) /\ Order[matrix][turn] \in QuestionsIn(matrix)
                BY <1>3, Matrix
            <4>4. m = matrix
                BY <1>3, <4>1, <4>3, QuestionsAssumption DEF QuestionsIn, Matrices
            <4>5. t = turn
                BY <1>3, <4>1, <4>4, Matrix
            <4> QED
                BY <4>1, <4>2, <4>4, <4>5
        <3> QED
            BY <1>8, <3>1
    <2>3. Passed(m, r, a, t)' <=>
             Passed(m, r, a, t) \/ (m = matrix /\ r = repeat /\ a = arm /\ t = turn)
        <3>1. m = matrix => t \in 1 .. Len(Order[matrix])
            BY <1>5
        <3>2. m = matrix => ((a < arm' \/ (a = arm' /\ t < turn'))
                  <=> (a < arm \/ (a = arm /\ t < turn) \/ (a = arm /\ t = turn)))
            BY <1>3, <1>4, <1>5, <3>1
        <3> QED
            BY <1>3, <1>4, <3>2 DEF Passed
    <2> QED
        BY <1>9, <2>1, <2>2, <2>3
<1>13. RowsInPlace'
    <2>1. phase' = "running" /\ phase' # "written"
        BY <1>3, <1>4
    <2>2. outcomes' \in Seq(Rows)
        BY <1>2
    <2> QED
        BY <1>11, <1>12, <2>1, <2>2 DEF RowsInPlace
<1>14. ASSUME NEW i \in DOMAIN outcomes, outcomes[i].repeat = repeat, outcomes[i].question = question
       PROVE  arm = 2 /\ outcomes[i].policy = "binary"
    <2>1. outcomes[i] \in Rows
        BY <1>1
    <2>2. PICK a \in {1, 2} : Arms[a] = outcomes[i].policy
        BY <2>1 DEF Rows, ArmNames, Arms
    <2>3. RowId(outcomes[i]) = IdAt(matrix, repeat, a, turn)
        BY <1>3, <1>14, <2>2 DEF RowId, IdAt
    <2>4. Passed(matrix, repeat, a, turn)
        BY <1>3, <1>9, <2>3 DEF Kept
    <2>5. a < arm
        <3>1. ~(repeat < repeat) /\ ~(turn < turn)
            BY <1>3, <1>5
        <3> QED
            BY <2>4, <3>1 DEF Passed
    <2> QED
        BY <1>3, <2>2, <2>5 DEF Arms
<1> QED
    BY <1>2, <1>7, <1>13, <1>14

\* What every way to record a row leaves to show: that it has its band, and
\* what the cache says of it.
LEMMA RecordKeeps ==
    ASSUME CompareInv, AtQuestion, NEW o \in Rows, Record(o), CacheInPlace',
           o.repeat = repeat, o.policy = Arms[arm], o.question = question, o.band = band,
           o.band = "hard_refuse" => o.refused,
           o.status = "error" => ~o.refused,
           o.forwarded => o.band # "hard_refuse",
           \A k \in DOMAIN cache : k \in DOMAIN cache' /\ cache'[k] = cache[k],
           o.band = "confident" /\ o.status = "ok" =>
              Key \in DOMAIN cache' /\ o.refused = (cache'[Key].reply.says = "declines")
    PROVE  CompareInv'
<1> DEFINE n == Len(outcomes) + 1
<1>1. /\ InPlace' /\ RowsInPlace'
      /\ DOMAIN outcomes' = DOMAIN outcomes \cup {n}
      /\ \A i \in DOMAIN outcomes : outcomes'[i] = outcomes[i]
      /\ outcomes'[n] = o
      /\ \A i \in DOMAIN outcomes :
            outcomes[i].repeat = repeat /\ outcomes[i].question = question =>
               arm = 2 /\ outcomes[i].policy = "binary"
    BY RecordPlaces
<1>2. /\ UNCHANGED <<phase, score, asked, matrix, repeat, client, report>>
      /\ phase = "running" /\ client = "open" /\ question \in Questions
      /\ question \in QuestionsIn(matrix)
      /\ Arms[arm] \in ArmNames /\ band = BandUnder(Arms[arm], question)
    BY AtPlace DEF Record
<1> HIDE DEF n
<1>3. Banded'
    <2> SUFFICES ASSUME NEW i \in DOMAIN outcomes'
                 PROVE  /\ outcomes'[i].band = BandUnder(outcomes'[i].policy, outcomes'[i].question)
                        /\ outcomes'[i].band = "hard_refuse" => outcomes'[i].refused
                        /\ outcomes'[i].status = "error" => ~outcomes'[i].refused
                        /\ outcomes'[i].forwarded => outcomes'[i].band # "hard_refuse"
        BY <1>2 DEF Banded, BandUnder
    <2>1. CASE i \in DOMAIN outcomes
        BY <1>1, <2>1 DEF CompareInv, Banded
    <2>2. CASE i = n
        BY <1>1, <1>2, <2>2
    <2> QED
        BY <1>1, <2>1, <2>2
<1>4. Cached'
    <2> SUFFICES ASSUME NEW i \in DOMAIN outcomes', outcomes'[i].repeat = repeat,
                        outcomes'[i].question \in QuestionsIn(matrix),
                        outcomes'[i].band = "confident", outcomes'[i].status = "ok",
                        outcomes'[i].policy = "binary"
                 PROVE  /\ <<outcomes'[i].question, "confident">> \in DOMAIN cache'
                        /\ outcomes'[i].refused
                             = (cache'[<<outcomes'[i].question, "confident">>].reply.says = "declines")
        BY <1>2 DEF Cached
    <2>1. CASE i \in DOMAIN outcomes
        BY <1>1, <1>2, <2>1 DEF CompareInv, Cached
    <2>2. CASE i = n
        BY <1>1, <2>2 DEF Key
    <2> QED
        BY <1>1, <2>1, <2>2
<1>5. ASSUME NEW i \in DOMAIN outcomes, outcomes[i].policy = "binary", arm = 2,
             outcomes[i].repeat = repeat, outcomes[i].question = question,
             outcomes[i].band = "confident", outcomes[i].status = "ok", o.status = "ok"
      PROVE  outcomes[i].refused = o.refused
    <2>1. outcomes[i].band = BandUnder("binary", question)
        BY <1>5 DEF CompareInv, Banded
    <2>2. band = "confident"
        BY <1>2, <1>5, <2>1, BandsCompare DEF CompareInv, Arms
    <2>3. /\ <<question, "confident">> \in DOMAIN cache
          /\ outcomes[i].refused = (cache[<<question, "confident">>].reply.says = "declines")
        BY <1>2, <1>5 DEF CompareInv, Cached
    <2>4. Key = <<question, "confident">>
        BY <2>2 DEF Key
    <2> QED
        BY <1>5, <2>2, <2>3, <2>4
<1>6. Shared'
    <2> SUFFICES ASSUME NEW i \in DOMAIN outcomes', NEW j \in DOMAIN outcomes',
                        outcomes'[i].policy = "binary", outcomes'[j].policy = "grounded_review",
                        outcomes'[i].repeat = outcomes'[j].repeat,
                        outcomes'[i].question = outcomes'[j].question,
                        outcomes'[i].band = "confident", outcomes'[i].status = "ok",
                        outcomes'[j].status = "ok"
                 PROVE  outcomes'[i].refused = outcomes'[j].refused
        BY DEF Shared
    <2>1. CASE i \in DOMAIN outcomes /\ j \in DOMAIN outcomes
        <3>1. outcomes'[i] = outcomes[i] /\ outcomes'[j] = outcomes[j]
            BY <1>1, <2>1
        <3> QED
            BY <2>1, <3>1 DEF CompareInv, Shared
    <2>2. CASE i \in DOMAIN outcomes /\ j = n
        BY <1>1, <1>5, <2>2
    <2>3. CASE i = n /\ j \in DOMAIN outcomes
        BY <1>1, <2>3
    <2>4. CASE i = n /\ j = n
        BY <2>4
    <2> QED
        BY <1>1, <2>1, <2>2, <2>3, <2>4
<1>7. Reported'
    BY <1>2 DEF CompareInv, Reported
<1> QED
    BY <1>1, <1>3, <1>4, <1>6, <1>7 DEF CompareInv

\* A row of the place the run is at.
RowHere(o, refused, status, forwarded) ==
    /\ o \in Rows /\ o.repeat = repeat /\ o.policy = Arms[arm]
    /\ o.question = question /\ o.band = band
    /\ o.refused = refused /\ o.status = status /\ o.forwarded = forwarded

LEMMA RecordedRow ==
    ASSUME CompareInv, AtQuestion, NEW refused \in BOOLEAN, NEW status \in {"ok", "error"},
           NEW cites \in BOOLEAN, NEW trace \in {"clean", "limited", "fallback"},
           NEW forwarded \in BOOLEAN, NEW made \in Nat
    PROVE  RowHere(Outcome(refused, status, cites, trace, forwarded, made),
                   refused, status, forwarded)
<1>1. question \in Questions /\ band \in Bands /\ Arms[arm] \in ArmNames /\ repeat \in Nat \ {0}
    BY AtPlace
<1> DEFINE o == Outcome(refused, status, cites, trace, forwarded, made)
<1>2. o = [repeat |-> repeat, policy |-> Arms[arm], question |-> question,
           refused |-> refused, status |-> status, cites |-> cites, trace |-> trace,
           band |-> band, forwarded |-> forwarded, made |-> made]
    BY DEF Outcome
<1> HIDE DEF o
<1>3. o \in Rows
    BY <1>1, <1>2 DEF Rows
<1>4. RowHere(o, refused, status, forwarded)
    BY <1>2, <1>3 DEF RowHere
<1> QED
    BY <1>4 DEF o

LEMMA RefusalRecorded == ASSUME CompareInv, RefuseWithoutCall PROVE CompareInv'
<1> DEFINE o == Outcome(TRUE, "ok", FALSE, "clean", FALSE, 0)
<1>1. AtQuestion /\ band = "hard_refuse" /\ cache' = cache /\ Record(o)
    BY DEF RefuseWithoutCall
<1>2. RowHere(o, TRUE, "ok", FALSE)
    BY <1>1, RecordedRow
<1> HIDE DEF o
<1>3. CacheInPlace'
    BY <1>1 DEF CompareInv, CacheInPlace
<1> QED
    BY <1>1, <1>2, <1>3, RecordKeeps DEF RowHere

LEMMA ReplyRecorded ==
    ASSUME CompareInv, AtQuestion, NEW reply, reply.says \in Says,
           NEW forwarded \in BOOLEAN, NEW made \in Nat,
           forwarded => reply.trace \in {"clean", "limited", "fallback"}
    PROVE  RowHere(Recorded(reply, forwarded, made), reply.says = "declines",
                   IF reply.says = "fails" THEN "error" ELSE "ok", forwarded)
<1> DEFINE trace == IF forwarded THEN reply.trace ELSE "clean"
           declines == reply.says = "declines"
           cites == reply.says = "cites"
<1>1. /\ trace \in {"clean", "limited", "fallback"}
      /\ declines \in BOOLEAN /\ cites \in BOOLEAN
    OBVIOUS
<1>2. CASE reply.says = "fails"
    <2>1. Recorded(reply, forwarded, made) = Outcome(FALSE, "error", FALSE, trace, forwarded, made)
        BY <1>2 DEF Recorded
    <2> HIDE DEF trace
    <2>2. RowHere(Outcome(FALSE, "error", FALSE, trace, forwarded, made), FALSE, "error", forwarded)
        BY <1>1, RecordedRow
    <2>3. RowHere(Recorded(reply, forwarded, made), FALSE, "error", forwarded)
        BY <2>1, <2>2
    <2>4. declines = FALSE
        BY <1>2
    <2> QED
        BY <1>2, <2>3, <2>4
<1>3. CASE reply.says # "fails"
    <2>1. Recorded(reply, forwarded, made) = Outcome(declines, "ok", cites, trace, forwarded, made)
        BY <1>3 DEF Recorded
    <2> HIDE DEF trace, declines, cites
    <2>2. RowHere(Outcome(declines, "ok", cites, trace, forwarded, made), declines, "ok", forwarded)
        BY <1>1, RecordedRow
    <2>3. RowHere(Recorded(reply, forwarded, made), declines, "ok", forwarded)
        BY <2>1, <2>2
    <2> QED
        BY <1>3, <2>3 DEF declines
<1> QED
    BY <1>2, <1>3

LEMMA CacheRecorded == ASSUME CompareInv, AnswerFromCache PROVE CompareInv'
<1> DEFINE reply == cache[Key].reply
           o == Recorded(reply, FALSE, cache[Key].made)
<1>1. /\ AtQuestion /\ band # "hard_refuse" /\ cache' = cache /\ Record(o)
      /\ Key \in DOMAIN cache
    BY DEF AnswerFromCache
<1>2. reply.says \in Says /\ reply.says # "fails" /\ cache[Key].made \in Nat
    BY <1>1 DEF CompareInv, CacheInPlace
<1>3. RowHere(o, reply.says = "declines", "ok", FALSE)
    <2> HIDE DEF reply
    <2>1. RowHere(o, reply.says = "declines",
                  IF reply.says = "fails" THEN "error" ELSE "ok", FALSE)
        BY <1>1, <1>2, ReplyRecorded
    <2> QED
        BY <1>2, <2>1
<1> HIDE DEF o
<1>4. CacheInPlace'
    BY <1>1 DEF CompareInv, CacheInPlace
<1> QED
    BY <1>1, <1>3, <1>4, RecordKeeps DEF RowHere

LEMMA ModelRecorded == ASSUME CompareInv, AnswerFromModel PROVE CompareInv'
<1>1. AtQuestion /\ band # "hard_refuse" /\ Key \notin DOMAIN cache
    BY DEF AnswerFromModel
<1>2. PICK reply \in RepliesOf[question] :
        /\ Record(Recorded(reply, TRUE, repeat))
        /\ cache' = IF reply.says = "fails" THEN cache
                    ELSE [k \in DOMAIN cache \cup {Key} |->
                            IF k = Key THEN [reply |-> reply, made |-> repeat] ELSE cache[k]]
    BY DEF AnswerFromModel
<1> DEFINE o == Recorded(reply, TRUE, repeat)
<1>3. /\ repeat \in Nat /\ question \in Questions
      /\ Key \in Questions \X {"grounded_review", "confident"}
    BY <1>1, AtPlace DEF Key, Bands
<1>4. reply.says \in Says /\ reply.trace \in {"clean", "limited", "fallback"}
    BY <1>2, <1>3, RunAssumption
<1>5. RowHere(o, reply.says = "declines", IF reply.says = "fails" THEN "error" ELSE "ok", TRUE)
    BY <1>1, <1>3, <1>4, ReplyRecorded
<1> HIDE DEF o
<1>6. /\ \A k \in DOMAIN cache : k \in DOMAIN cache' /\ cache'[k] = cache[k]
      /\ reply.says # "fails" => Key \in DOMAIN cache' /\ cache'[Key].reply = reply
    BY <1>1, <1>2
<1>7. CacheInPlace'
    <2>1. /\ DOMAIN cache \subseteq Questions \X {"grounded_review", "confident"}
          /\ \A k \in DOMAIN cache :
                cache[k].made \in Nat /\ cache[k].reply.says \in Says /\ cache[k].reply.says # "fails"
        BY DEF CompareInv, CacheInPlace
    <2>2. CASE reply.says = "fails"
        BY <1>2, <2>1, <2>2 DEF CacheInPlace
    <2>3. CASE reply.says # "fails"
        <3>1. /\ DOMAIN cache' = DOMAIN cache \cup {Key}
              /\ cache'[Key] = [reply |-> reply, made |-> repeat]
              /\ \A k \in DOMAIN cache : cache'[k] = cache[k]
            BY <1>1, <1>2, <2>3
        <3>2. cache'[Key].reply = reply /\ cache'[Key].made = repeat
            BY <3>1
        <3>3. DOMAIN cache' \subseteq Questions \X {"grounded_review", "confident"}
            BY <1>3, <2>1, <3>1
        <3>4. \A k \in DOMAIN cache' :
                cache'[k].made \in Nat /\ cache'[k].reply.says \in Says /\ cache'[k].reply.says # "fails"
            BY <1>3, <1>4, <2>1, <2>3, <3>1, <3>2
        <3> QED
            BY <3>3, <3>4 DEF CacheInPlace
    <2> QED
        BY <2>2, <2>3
<1>8. Record(o)
    BY <1>2 DEF o
<1>9. o.status = "error" => ~o.refused
    BY <1>5 DEF RowHere
<1>10. o.status = "ok" => reply.says # "fails"
    BY <1>5 DEF RowHere
<1> QED
    BY <1>1, <1>5, <1>6, <1>7, <1>8, <1>9, <1>10, RecordKeeps DEF RowHere

-----------------------------------------------------------------------------
(* The other steps.                                                        *)

LEMMA RunBegins == RunInit => CompareInv
<1> SUFFICES ASSUME RunInit PROVE CompareInv
    OBVIOUS
<1>1. outcomes = << >> /\ cache = << >> /\ DOMAIN outcomes = {} /\ DOMAIN cache = {}
    BY DEF RunInit
<1>2. InPlace
    <2>1. 1 \in DOMAIN Order["holdout"] /\ "holdout" \in Matrices
        BY Matrix DEF Matrices
    <2>2. \A m \in Matrices : asked[m] \in 1 .. MaxRepeats
        BY DEF RunInit, Matrices
    <2>3. /\ score \in [Questions -> (UNION Range(ScoresOf)) \cup {NoScore}]
          /\ \A q \in Questions : ~Finite(score[q])
        BY DEF RunInit, Finite
    <2>4. 1 <= asked["holdout"] + 1
        BY <2>1, <2>2, RunAssumption
    <2>5. /\ phase = "capture" /\ matrix = "holdout" /\ repeat = 1 /\ arm = 1 /\ turn = 1
          /\ client = "closed"
        BY DEF RunInit
    <2> QED
        BY <1>1, <2>1, <2>2, <2>3, <2>4, <2>5 DEF InPlace
<1>3. CacheInPlace /\ Banded /\ Cached /\ Shared
    BY <1>1 DEF CacheInPlace, Banded, Cached, Shared
<1>4. RowsInPlace
    BY <1>1 DEF RunInit, RowsInPlace
<1>5. Reported
    BY DEF RunInit, Reported
<1> QED
    BY <1>2, <1>3, <1>4, <1>5 DEF CompareInv

\* Nothing but where the run is changes.
Still == UNCHANGED <<outcomes, score, report, asked>>

LEMMA StillKeeps ==
    ASSUME CompareInv, Still, InPlace', CacheInPlace', RowsInPlace', Cached',
           phase # "written", phase' # "written"
    PROVE  CompareInv'
<1>1. Banded'
    BY DEF CompareInv, Banded, Still, BandUnder
<1>2. Shared'
    BY DEF CompareInv, Shared, Still
<1>3. Reported'
    BY DEF CompareInv, Reported, Still
<1> QED
    BY <1>1, <1>2, <1>3 DEF CompareInv

LEMMA NothingRecorded ==
    ASSUME CompareInv, phase \in {"capture", "preflight"}
    PROVE  /\ outcomes = << >> /\ DOMAIN outcomes = {}
           /\ \A m \in Matrices, r \in Nat \ {0}, a \in {1, 2} : \A t \in DOMAIN Order[m] :
                 ~Kept(IdAt(m, r, a, t)) /\ ~Passed(m, r, a, t)
<1>1. outcomes = << >> /\ client = "closed" /\ matrix = "holdout" /\ repeat = 1
    BY DEF CompareInv, InPlace
<1>2. \A r \in Nat \ {0} : ~(r < 1)
    OBVIOUS
<1> QED
    BY <1>1, <1>2 DEF Kept, Passed

LEMMA CaptureKeeps == ASSUME CompareInv, Capture PROVE CompareInv'
<1>1. /\ phase = "capture" /\ phase' = "preflight"
      /\ score' \in {s \in [Questions -> UNION Range(ScoresOf)] :
                       \A q \in Questions : s[q] \in ScoresOf[q]}
      /\ UNCHANGED <<asked, matrix, repeat, arm, turn, client, cache, collector, outcomes, report>>
    BY DEF Capture, place
<1>2. outcomes = << >> /\ DOMAIN outcomes = {}
    BY <1>1, NothingRecorded
<1>3. /\ score' \in [Questions -> (UNION Range(ScoresOf)) \cup {NoScore}]
      /\ \A q \in Questions : Finite(score'[q]) => score'[q] \in Nat
    BY <1>1, RunAssumption
<1>4. InPlace'
    BY <1>1, <1>2, <1>3 DEF CompareInv, InPlace
<1>5. CacheInPlace' /\ Banded' /\ Cached' /\ Shared'
    BY <1>1, <1>2 DEF CompareInv, CacheInPlace, Banded, Cached, Shared
<1>6. RowsInPlace'
    BY <1>1, <1>2 DEF RowsInPlace
<1>7. Reported'
    BY <1>1 DEF CompareInv, Reported
<1> QED
    BY <1>4, <1>5, <1>6, <1>7 DEF CompareInv

LEMMA PreflightKeeps == ASSUME CompareInv, PreflightFails \/ PreflightPasses PROVE CompareInv'
<1>1. /\ phase = "preflight" /\ phase' \in {"refused", "running"}
      /\ UNCHANGED <<score, asked, matrix, repeat, arm, turn, client, cache, collector, outcomes, report>>
    BY DEF PreflightFails, PreflightPasses, place
<1>2. /\ outcomes = << >> /\ DOMAIN outcomes = {}
      /\ \A m \in Matrices, r \in Nat \ {0}, a \in {1, 2} : \A t \in DOMAIN Order[m] :
            ~Kept(IdAt(m, r, a, t)) /\ ~Passed(m, r, a, t)
    BY <1>1, NothingRecorded
<1>3. InPlace'
    BY <1>1, <1>2 DEF CompareInv, InPlace
<1>4. CacheInPlace' /\ Cached'
    BY <1>1, <1>2 DEF CompareInv, CacheInPlace, Cached
<1>5. RowsInPlace'
    <2>1. \A m \in Matrices, r \in Nat \ {0}, a \in {1, 2} : \A t \in DOMAIN Order[m] :
             Kept(IdAt(m, r, a, t))' <=> Passed(m, r, a, t)'
        BY <1>1, <1>2 DEF Kept, Passed, IdAt
    <2> QED
        BY <1>1, <1>2, <2>1 DEF RowsInPlace
<1> QED
    BY <1>1, <1>3, <1>4, <1>5, StillKeeps DEF Still

LEMMA OpenKeeps == ASSUME CompareInv, OpenClient PROVE CompareInv'
<1>1. /\ phase = "running" /\ client = "closed" /\ repeat <= asked[matrix]
      /\ client' = "open" /\ cache' = << >> /\ arm' = 1 /\ turn' = 1
      /\ UNCHANGED <<phase, score, asked, matrix, repeat, outcomes, report>>
    BY DEF OpenClient
<1>2. /\ matrix \in Matrices /\ outcomes \in Seq(Rows) /\ 1 \in DOMAIN Order[matrix]
      /\ repeat \in Nat \ {0}
    BY Matrix DEF CompareInv, InPlace, RowsInPlace
<1>3. InPlace'
    BY <1>1, <1>2 DEF CompareInv, InPlace
<1>4. \A m \in Matrices, r \in Nat \ {0}, a \in {1, 2} : \A t \in DOMAIN Order[m] :
         /\ Kept(IdAt(m, r, a, t)) <=> Passed(m, r, a, t)
         /\ Passed(m, r, a, t)' <=> Passed(m, r, a, t)
    <2>1. \A m \in Matrices, r \in Nat \ {0}, a \in {1, 2} : \A t \in DOMAIN Order[m] :
             Kept(IdAt(m, r, a, t)) <=> Passed(m, r, a, t)
        BY <1>1 DEF CompareInv, RowsInPlace
    <2>2. ASSUME NEW m \in Matrices, NEW r \in Nat \ {0}, NEW a \in {1, 2}, NEW t \in DOMAIN Order[m]
          PROVE  Passed(m, r, a, t)' <=> Passed(m, r, a, t)
        <3>1. ~(a < 1) /\ ~(t < 1)
            BY Matrix
        <3> QED
            BY <1>1, <3>1 DEF Passed
    <2> QED
        BY <2>1, <2>2
<1>5. RowsInPlace'
    <2>1. \A m \in Matrices, r \in Nat \ {0}, a \in {1, 2} : \A t \in DOMAIN Order[m] :
             Kept(IdAt(m, r, a, t))' <=> Passed(m, r, a, t)'
        BY <1>1, <1>4 DEF Kept, IdAt
    <2>2. \A i, j \in DOMAIN outcomes : RowId(outcomes[i]) = RowId(outcomes[j]) => i = j
        BY DEF CompareInv, RowsInPlace
    <2> QED
        BY <1>1, <1>2, <2>1, <2>2 DEF RowsInPlace
<1>6. ASSUME NEW i \in DOMAIN outcomes, outcomes[i].repeat = repeat,
             outcomes[i].question \in QuestionsIn(matrix)
      PROVE  FALSE
    <2>1. outcomes[i] \in Rows
        BY <1>2
    <2>2. PICK a \in {1, 2} : \E t \in DOMAIN Order[matrix] :
             RowId(outcomes[i]) = IdAt(matrix, outcomes[i].repeat, a, t)
        BY <1>2, <1>6, <2>1, IdPlaced
    <2>3. PICK t \in DOMAIN Order[matrix] : RowId(outcomes[i]) = IdAt(matrix, repeat, a, t)
        BY <1>6, <2>2
    <2>4. Passed(matrix, repeat, a, t)
        BY <1>2, <1>4, <2>3 DEF Kept
    <2>5. ~(repeat < repeat)
        BY <1>2
    <2> QED
        BY <1>1, <2>4, <2>5 DEF Passed
<1>7. CacheInPlace'
    BY <1>1 DEF CacheInPlace
<1>8. Cached'
    BY <1>1, <1>6 DEF Cached
<1> QED
    BY <1>1, <1>3, <1>5, <1>7, <1>8, StillKeeps DEF Still

LEMMA InterruptKeeps == ASSUME CompareInv, Interrupt PROVE CompareInv'
<1>1. /\ phase = "running" /\ client = "open" /\ phase' = "unwinding"
      /\ UNCHANGED <<score, asked, matrix, repeat, arm, turn, client, cache, collector, outcomes, report>>
    BY DEF Interrupt, AtQuestion, place
<1>2. InPlace'
    BY <1>1 DEF CompareInv, InPlace
<1>3. CacheInPlace' /\ Cached' /\ RowsInPlace'
    BY <1>1 DEF CompareInv, CacheInPlace, Cached, RowsInPlace
<1> QED
    BY <1>1, <1>2, <1>3, StillKeeps DEF Still

LEMMA CloseKeeps == ASSUME CompareInv, CloseClient PROVE CompareInv'
<1>1. /\ client = "open" /\ client' = "closed"
      /\ phase = "unwinding" \/ arm > Len(Arms)
      /\ \/ phase' = "aborted" /\ repeat' = repeat
         \/ phase = "running" /\ phase' = "running" /\ repeat' = repeat + 1
      /\ UNCHANGED <<score, asked, matrix, arm, turn, cache, collector, outcomes, report>>
    BY DEF CloseClient
<1>2. /\ phase \in {"running", "unwinding"} /\ matrix \in Matrices /\ repeat \in Nat \ {0}
      /\ phase = "running" => arm = 3 /\ turn = 1 /\ repeat <= asked[matrix]
      /\ asked[matrix] \in Nat
    BY <1>1, RunAssumption DEF CompareInv, InPlace, Arms
<1>3. InPlace'
    BY <1>1, <1>2 DEF CompareInv, InPlace
<1>4. CacheInPlace' /\ Cached'
    BY <1>1 DEF CompareInv, CacheInPlace, Cached
<1>5. RowsInPlace'
    <2>1. /\ outcomes \in Seq(Rows)
          /\ \A i, j \in DOMAIN outcomes : RowId(outcomes[i]) = RowId(outcomes[j]) => i = j
        BY DEF CompareInv, RowsInPlace
    <2>2. CASE phase' = "aborted"
        BY <1>1, <2>1, <2>2 DEF RowsInPlace
    <2>3. CASE phase = "running" /\ phase' = "running" /\ repeat' = repeat + 1
        <3>1. ASSUME NEW m \in Matrices, NEW r \in Nat \ {0}, NEW a \in {1, 2}, NEW t \in DOMAIN Order[m]
              PROVE  Kept(IdAt(m, r, a, t))' <=> Passed(m, r, a, t)'
            <4>1. Kept(IdAt(m, r, a, t)) <=> Passed(m, r, a, t)
                BY <2>3 DEF CompareInv, RowsInPlace
            <4>2. a < arm /\ (r < repeat + 1 <=> r < repeat \/ r = repeat)
                BY <1>2, <2>3
            <4>3. Passed(m, r, a, t)' <=> Passed(m, r, a, t)
                BY <1>1, <2>3, <4>2 DEF Passed
            <4>4. Kept(IdAt(m, r, a, t))' <=> Kept(IdAt(m, r, a, t))
                BY <1>1 DEF Kept, IdAt
            <4> QED
                BY <4>1, <4>3, <4>4
        <3> QED
            BY <1>1, <2>1, <2>3, <3>1 DEF RowsInPlace
    <2> QED
        BY <1>1, <2>2, <2>3
<1> QED
    BY <1>1, <1>2, <1>3, <1>4, <1>5, StillKeeps DEF Still

\* A matrix that is done has every repeat asked for.
LEMMA DoneRows ==
    ASSUME CompareInv, MatrixDone, NEW m \in Matrices, NEW r \in Nat \ {0}, NEW a \in {1, 2},
           NEW t \in DOMAIN Order[m]
    PROVE  Kept(IdAt(m, r, a, t)) <=> (m = "holdout" \/ matrix = "canary") /\ r <= asked[m]
<1>1. /\ phase = "running" /\ client = "closed" /\ repeat > asked[matrix]
      /\ matrix \in Matrices /\ repeat \in Nat /\ repeat <= asked[matrix] + 1
      /\ asked[matrix] \in Nat /\ asked[m] \in Nat
    BY RunAssumption DEF MatrixDone, CompareInv, InPlace
<1>2. Kept(IdAt(m, r, a, t)) <=> Passed(m, r, a, t)
    BY <1>1 DEF CompareInv, RowsInPlace
<1>3. m = matrix => (r < repeat <=> r <= asked[m])
    BY <1>1
<1> QED
    BY <1>1, <1>2, <1>3 DEF Passed, Matrices

LEMMA CanaryKeeps == ASSUME CompareInv, StartCanary PROVE CompareInv'
<1>1. /\ MatrixDone /\ phase = "running" /\ client = "closed"
      /\ matrix = "holdout" /\ matrix' = "canary" /\ repeat' = 1
      /\ UNCHANGED <<phase, score, asked, arm, turn, client, cache, collector, outcomes, report>>
    BY DEF StartCanary, MatrixDone
<1>2. /\ turn = 1 /\ 1 \in DOMAIN Order["canary"] /\ "canary" \in Matrices
      /\ asked["canary"] \in Nat
    BY <1>1, Matrix, RunAssumption DEF CompareInv, InPlace, Matrices
<1>3. InPlace'
    BY <1>1, <1>2 DEF CompareInv, InPlace
<1>4. CacheInPlace' /\ Cached'
    BY <1>1 DEF CompareInv, CacheInPlace, Cached
<1>5. RowsInPlace'
    <2>1. ASSUME NEW m \in Matrices, NEW r \in Nat \ {0}, NEW a \in {1, 2}, NEW t \in DOMAIN Order[m]
          PROVE  Kept(IdAt(m, r, a, t))' <=> Passed(m, r, a, t)'
        <3>1. Kept(IdAt(m, r, a, t)) <=> m = "holdout" /\ r <= asked[m]
            BY <1>1, DoneRows
        <3>2. Passed(m, r, a, t)' <=> m = "holdout" /\ r <= asked["holdout"]
            BY <1>1 DEF Passed
        <3>3. Kept(IdAt(m, r, a, t))' <=> Kept(IdAt(m, r, a, t))
            BY <1>1 DEF Kept, IdAt
        <3> QED
            BY <3>1, <3>2, <3>3
    <2>2. /\ outcomes \in Seq(Rows)
          /\ \A i, j \in DOMAIN outcomes : RowId(outcomes[i]) = RowId(outcomes[j]) => i = j
        BY DEF CompareInv, RowsInPlace
    <2> QED
        BY <1>1, <2>1, <2>2 DEF RowsInPlace
<1> QED
    BY <1>1, <1>3, <1>4, <1>5, StillKeeps DEF Still

LEMMA WriteKeeps == ASSUME CompareInv, WriteRun PROVE CompareInv'
<1>1. /\ MatrixDone /\ phase = "running" /\ client = "closed" /\ matrix = "canary"
      /\ report' = Scored(NoVerdicts) /\ phase' = "written"
      /\ UNCHANGED <<score, asked, matrix, repeat, arm, turn, client, cache, collector, outcomes>>
    BY DEF WriteRun, MatrixDone, place
<1>2. InPlace'
    BY <1>1 DEF CompareInv, InPlace
<1>3. CacheInPlace' /\ Cached' /\ Banded' /\ Shared'
    BY <1>1 DEF CompareInv, CacheInPlace, Cached, Banded, Shared, BandUnder
<1>4. RowsInPlace'
    <2>1. ASSUME NEW m \in Matrices, NEW r \in Nat \ {0}, NEW a \in {1, 2}, NEW t \in DOMAIN Order[m]
          PROVE  Kept(IdAt(m, r, a, t))' <=> r <= asked'[m]
        <3>1. Kept(IdAt(m, r, a, t)) <=> r <= asked[m]
            BY <1>1, DoneRows
        <3>2. Kept(IdAt(m, r, a, t))' <=> Kept(IdAt(m, r, a, t))
            BY <1>1 DEF Kept, IdAt
        <3> QED
            BY <1>1, <3>1, <3>2
    <2>2. \A m \in Matrices, r \in Nat \ {0}, a \in {1, 2} : \A t \in DOMAIN Order[m] :
             Kept(IdAt(m, r, a, t))' <=> r <= asked'[m]
        BY <2>1
    <2>3. /\ outcomes \in Seq(Rows)
          /\ \A i, j \in DOMAIN outcomes : RowId(outcomes[i]) = RowId(outcomes[j]) => i = j
        BY DEF CompareInv, RowsInPlace
    <2> QED
        BY <1>1, <2>2, <2>3 DEF RowsInPlace, IdAt
<1>5. Reported'
    <2>1. report'.verdicts = NoVerdicts /\ RowsOf("holdout")' = RowsOf("holdout")
          /\ RowsOf("canary")' = RowsOf("canary")
        BY <1>1 DEF Scored, RowsOf
    <2> QED
        BY <1>1, <2>1 DEF Reported, Scored
<1> QED
    BY <1>2, <1>3, <1>4, <1>5 DEF CompareInv

LEMMA ImportKeeps == ASSUME CompareInv, ImportVerdicts PROVE CompareInv'
<1>1. PICK verdicts :
         /\ phase = "written" /\ report' = Scored(verdicts)
         /\ UNCHANGED <<phase, score, asked, matrix, repeat, arm, turn, client, cache, collector, outcomes>>
    BY DEF ImportVerdicts, place
<1>2. InPlace'
    BY <1>1 DEF CompareInv, InPlace
<1>3. CacheInPlace' /\ Cached' /\ Banded' /\ Shared'
    BY <1>1 DEF CompareInv, CacheInPlace, Cached, Banded, Shared, BandUnder
<1>4. RowsInPlace'
    BY <1>1 DEF CompareInv, RowsInPlace, Kept, IdAt
<1>5. Reported'
    <2>1. report'.verdicts = verdicts /\ RowsOf("holdout")' = RowsOf("holdout")
          /\ RowsOf("canary")' = RowsOf("canary")
        BY <1>1 DEF Scored, RowsOf
    <2> QED
        BY <1>1, <2>1 DEF Reported, Scored
<1> QED
    BY <1>2, <1>3, <1>4, <1>5 DEF CompareInv

LEMMA RunIdles == ASSUME CompareInv, UNCHANGED runVars PROVE CompareInv'
<1> USE DEF runVars
<1>1. InPlace' /\ CacheInPlace'
    BY DEF CompareInv, InPlace, CacheInPlace
<1>2. RowsInPlace'
    BY DEF CompareInv, RowsInPlace, Kept, IdAt, Passed
<1>3. Banded' /\ Cached' /\ Shared'
    BY DEF CompareInv, Banded, Cached, Shared, BandUnder
<1>4. Reported'
    BY DEF CompareInv, Reported, Scored, RowsOf
<1> QED
    BY <1>1, <1>2, <1>3, <1>4 DEF CompareInv

LEMMA RunGoesOn == ASSUME CompareInv, [RunNext]_runVars PROVE CompareInv'
<1> QED
    BY CaptureKeeps, PreflightKeeps, OpenKeeps, CloseKeeps, RefusalRecorded, CacheRecorded,
       ModelRecorded, CanaryKeeps, WriteKeeps, InterruptKeeps, ImportKeeps, RunIdles
    DEF RunNext, RunStep

LEMMA RunInvariant == RunSpec => []CompareInv
<1>1. CompareInv /\ [RunNext]_runVars => CompareInv'
    BY RunGoesOn
<1> QED
    BY RunBegins, <1>1, PTL DEF RunSpec

\* The variables keep their types, whatever the questions, the scores and the
\* replies, and however many repeats are asked for.
THEOREM RunTypes == RunSpec => []RunTypeOK
<1>1. CompareInv => RunTypeOK
    <2> SUFFICES ASSUME CompareInv PROVE RunTypeOK
        OBVIOUS
    <2>1. /\ phase \in {"capture", "preflight", "running", "unwinding", "written", "refused", "aborted"}
          /\ score \in [Questions -> (UNION Range(ScoresOf)) \cup {NoScore}]
          /\ matrix \in Matrices /\ turn \in DOMAIN QuestionsOf(matrix)
          /\ client \in {"open", "closed"}
        BY DEF CompareInv, InPlace, QuestionsOf
    <2>2. repeat \in 1 .. MaxRepeats + 1 /\ arm \in 1 .. Len(Arms) + 1
        <3>1. /\ repeat \in Nat \ {0} /\ repeat <= asked[matrix] + 1 /\ asked[matrix] \in 1 .. MaxRepeats
              /\ arm \in {1, 2, 3} /\ Len(Arms) = 2 /\ MaxRepeats \in Nat
            BY <2>1, RunAssumption DEF CompareInv, InPlace, Arms
        <3> QED
            BY <3>1
    <2>3. DOMAIN cache \subseteq Questions \X {"grounded_review", "confident"}
        BY DEF CompareInv, CacheInPlace
    <2>4. \A o \in ToSet(outcomes) :
             /\ o.status = "error" => ~o.refused
             /\ o.forwarded => o.band # "hard_refuse"
        BY DEF CompareInv, Banded, ToSet
    <2>5. report.verdicts.given => phase = "written"
        BY DEF CompareInv, Reported, NoReport, NoVerdicts
    <2> QED
        BY <2>1, <2>2, <2>3, <2>4, <2>5 DEF RunTypeOK
<1> QED
    BY RunInvariant, <1>1, PTL

-----------------------------------------------------------------------------
(* What the gates say.                                                     *)

LEMMA GatesSay ==
    ASSUME NEW h, NEW c, NEW v, NEW a, NEW b
    PROVE  LET g == Gates(h, c, v, a, b)
               every == Range(h) \cup Range(c)
           IN  /\ g.no_errors = NoErrors(every)
               /\ g.improves_global = Improves(h)
               /\ AllPass(g) =>
                     /\ NoErrors(every) /\ v.given
                     /\ \A o \in every : o.trace # "fallback" /\ o.trace # "limited"
                     /\ Conform(h, FULL_REPEATS, a) /\ Conform(c, CANARY_REPEATS, b)
<1> DEFINE g == Gates(h, c, v, a, b)
           every == Range(h) \cup Range(c)
<1>1. /\ {"no_errors", "no_fallback", "no_rate_limiting", "citation_faithfulness", "repeats_conform"}
            \subseteq DOMAIN g
      /\ g.no_errors = NoErrors(every)
      /\ g.no_fallback = (\A o \in every : o.trace # "fallback")
      /\ g.no_rate_limiting = (\A o \in every : o.trace # "limited")
      /\ g.improves_global = Improves(h)
      /\ g.citation_faithfulness =>  v.given
      /\ g.repeats_conform => Conform(h, FULL_REPEATS, a) /\ Conform(c, CANARY_REPEATS, b)
    BY DEF Gates
<1>2. AllPass(g) => /\ g.no_errors /\ g.no_fallback /\ g.no_rate_limiting
                    /\ g.citation_faithfulness /\ g.repeats_conform
    BY <1>1 DEF AllPass
<1> HIDE DEF g, every
<1> QED
    BY <1>1, <1>2 DEF g, every

LEMMA RowsOfMatrix ==
    ASSUME NEW m \in Matrices
    PROVE  /\ DOMAIN RowsOf(m) = {i \in DOMAIN outcomes : outcomes[i].question \in QuestionsIn(m)}
           /\ \A i \in DOMAIN RowsOf(m) : RowsOf(m)[i] = outcomes[i]
           /\ Range(RowsOf(m)) = {outcomes[i] : i \in DOMAIN RowsOf(m)}
BY DEF RowsOf, Restrict, Range

\* Repeats conform: each of them is there, under either policy, and no other.
LEMMA ConformRows ==
    ASSUME NEW m \in Matrices, NEW n \in Nat, Conform(RowsOf(m), n, QuestionsIn(m)),
           NEW q \in QuestionsIn(m), NEW p \in ToSet(Arms)
    PROVE  /\ \A r \in 1 .. n : \E i \in DOMAIN RowsOf(m) : RowId(outcomes[i]) = <<p, r, q>>
           /\ \A i \in DOMAIN RowsOf(m) :
                 outcomes[i].question = q /\ outcomes[i].policy = p => outcomes[i].repeat <= n
<1> DEFINE rows == RowsOf(m)
           cell == {i \in DOMAIN rows : rows[i].question = q /\ rows[i].policy = p}
<1>1. {rows[i].repeat : i \in cell} = 1 .. n
    BY DEF Conform
<1>2. \A i \in DOMAIN rows : rows[i] = outcomes[i]
    BY RowsOfMatrix
<1> HIDE DEF rows
<1>3. \A r \in 1 .. n : \E i \in cell : rows[i].repeat = r
    BY <1>1
<1>4. \A i \in cell : rows[i].repeat <= n
    BY <1>1
<1> QED
    BY <1>2, <1>3, <1>4 DEF rows, RowId

LEMMA EveryRow ==
    ASSUME CompareInv, NEW i \in DOMAIN outcomes
    PROVE  \E m \in Matrices : /\ i \in DOMAIN RowsOf(m) /\ outcomes[i].question \in QuestionsIn(m)
                               /\ outcomes[i] \in Range(RowsOf("holdout")) \cup Range(RowsOf("canary"))
<1>1. outcomes[i] \in Rows
    BY DEF CompareInv, RowsInPlace
<1>2. outcomes[i].question \in Holdout \cup Canary
    BY <1>1 DEF Rows, Questions
<1>3. PICK m \in Matrices : outcomes[i].question \in QuestionsIn(m)
    BY <1>2 DEF QuestionsIn, Matrices
<1>4. i \in DOMAIN RowsOf(m)
    BY <1>3, RowsOfMatrix
<1>5. outcomes[i] \in Range(RowsOf(m))
    BY <1>4, RowsOfMatrix
<1> QED
    BY <1>3, <1>4, <1>5 DEF Matrices

\* ALL PASS is said only on full evidence, of any matrices and any number of
\* repeats: a repeat asked for too few fails repeats_conform, one too many
\* does so too, and what bent a call is in its row.
THEOREM ShipFullEvidence == RunSpec => []ShipOnlyOnFullEvidence
<1>1. CompareInv => ShipOnlyOnFullEvidence
    <2> SUFFICES ASSUME CompareInv, report # NoReport, AllPass(report.gates)
                 PROVE  /\ report.verdicts.given
                        /\ \A q \in Questions, p \in ToSet(Arms) :
                              \A r \in 1 .. (IF q \in Holdout THEN FULL_REPEATS ELSE CANARY_REPEATS) :
                                 \E o \in ToSet(outcomes) :
                                    RowId(o) = <<p, r, q>> /\ ~Errored(o) /\ o.trace = "clean"
                        /\ \A o \in ToSet(outcomes) :
                              o.repeat <= (IF o.question \in Holdout THEN FULL_REPEATS
                                                                      ELSE CANARY_REPEATS)
        BY DEF ShipOnlyOnFullEvidence
    <2> DEFINE every == Range(RowsOf("holdout")) \cup Range(RowsOf("canary"))
               needed(m) == IF m = "holdout" THEN FULL_REPEATS ELSE CANARY_REPEATS
    <2>1. report.gates = Gates(RowsOf("holdout"), RowsOf("canary"), report.verdicts, Holdout, Canary)
        <3>1. report = Scored(report.verdicts)
            BY DEF CompareInv, Reported
        <3> QED
            BY <3>1 DEF Scored
    <2>2. /\ NoErrors(every) /\ report.verdicts.given
          /\ \A o \in every : o.trace # "fallback" /\ o.trace # "limited"
          /\ Conform(RowsOf("holdout"), FULL_REPEATS, Holdout)
          /\ Conform(RowsOf("canary"), CANARY_REPEATS, Canary)
        BY <2>1, GatesSay
    <2>3. \A i \in DOMAIN outcomes : outcomes[i] \in every /\ outcomes[i] \in Rows
        BY EveryRow DEF CompareInv, RowsInPlace
    <2>4. \A i \in DOMAIN outcomes : outcomes[i].status # "error" /\ outcomes[i].trace = "clean"
        BY <2>2, <2>3 DEF NoErrors, Rows
    <2>5. \A m \in Matrices : needed(m) \in Nat /\ Conform(RowsOf(m), needed(m), QuestionsIn(m))
        BY <2>2, QuestionsAssumption DEF Matrices, QuestionsIn
    <2>6. ASSUME NEW q \in Questions
          PROVE  \E m \in Matrices : q \in QuestionsIn(m)
                    /\ needed(m) = (IF q \in Holdout THEN FULL_REPEATS ELSE CANARY_REPEATS)
        BY QuestionsAssumption DEF Questions, QuestionsIn, Matrices
    <2> HIDE DEF every, needed
    <2>7. ASSUME NEW q \in Questions, NEW p \in ToSet(Arms),
                 NEW r \in 1 .. (IF q \in Holdout THEN FULL_REPEATS ELSE CANARY_REPEATS)
          PROVE  \E o \in ToSet(outcomes) :
                    RowId(o) = <<p, r, q>> /\ ~Errored(o) /\ o.trace = "clean"
        <3>1. PICK m \in Matrices : q \in QuestionsIn(m) /\ r \in 1 .. needed(m)
            BY <2>6, <2>7
        <3>2. PICK i \in DOMAIN RowsOf(m) : RowId(outcomes[i]) = <<p, r, q>>
            BY <2>5, <3>1, ConformRows
        <3>3. i \in DOMAIN outcomes
            BY <3>2, RowsOfMatrix
        <3> QED
            BY <2>4, <3>2, <3>3 DEF Errored, ToSet
    <2>8. ASSUME NEW i \in DOMAIN outcomes
          PROVE  outcomes[i].repeat <= (IF outcomes[i].question \in Holdout THEN FULL_REPEATS
                                                                           ELSE CANARY_REPEATS)
        <3>1. PICK m \in Matrices : i \in DOMAIN RowsOf(m) /\ outcomes[i].question \in QuestionsIn(m)
            BY EveryRow
        <3>2. outcomes[i].policy \in ToSet(Arms)
            BY <2>3 DEF Rows, ArmNames, ToSet, Arms
        <3>3. outcomes[i].repeat <= needed(m)
            BY <2>5, <3>1, <3>2, ConformRows
        <3>4. needed(m) = (IF outcomes[i].question \in Holdout THEN FULL_REPEATS ELSE CANARY_REPEATS)
            BY <3>1, QuestionsAssumption DEF needed, QuestionsIn, Matrices
        <3> QED
            BY <3>3, <3>4
    <2> QED
        BY <2>2, <2>7, <2>8 DEF ToSet
<1> QED
    BY RunInvariant, <1>1, PTL

-----------------------------------------------------------------------------
(* The two arms, row by row.                                               *)

\* Two rows are the same question of the same repeat.
Twins(i, j) ==
    outcomes[i].repeat = outcomes[j].repeat /\ outcomes[i].question = outcomes[j].question

\* In a comparison that was written, every row has its twin in the other arm.
LEMMA EveryTwin ==
    ASSUME CompareInv, phase = "written", NEW i \in DOMAIN outcomes, NEW p \in ArmNames
    PROVE  \E j \in DOMAIN outcomes : Twins(i, j) /\ outcomes[j].policy = p
<1>1. outcomes[i] \in Rows
    BY DEF CompareInv, RowsInPlace
<1>2. PICK m \in Matrices : outcomes[i].question \in QuestionsIn(m)
    BY <1>1 DEF Rows, Questions, QuestionsIn, Matrices
<1>3. PICK a \in {1, 2} : \E t \in DOMAIN Order[m] :
         RowId(outcomes[i]) = IdAt(m, outcomes[i].repeat, a, t) /\ outcomes[i].question = Order[m][t]
    BY <1>1, <1>2, IdPlaced
<1>4. PICK t \in DOMAIN Order[m] :
         RowId(outcomes[i]) = IdAt(m, outcomes[i].repeat, a, t) /\ outcomes[i].question = Order[m][t]
    BY <1>3
<1>5. PICK b \in {1, 2} : Arms[b] = p
    BY DEF ArmNames, Arms
<1>6. outcomes[i].repeat \in Nat \ {0}
    BY <1>1 DEF Rows
<1>7. /\ Kept(IdAt(m, outcomes[i].repeat, a, t)) <=> outcomes[i].repeat <= asked[m]
      /\ Kept(IdAt(m, outcomes[i].repeat, b, t)) <=> outcomes[i].repeat <= asked[m]
    BY <1>6 DEF CompareInv, RowsInPlace
<1>8. Kept(IdAt(m, outcomes[i].repeat, b, t))
    BY <1>4, <1>7 DEF Kept
<1>9. PICK j \in DOMAIN outcomes : RowId(outcomes[j]) = IdAt(m, outcomes[i].repeat, b, t)
    BY <1>8 DEF Kept
<1>10. outcomes[j].policy = p /\ outcomes[j].repeat = outcomes[i].repeat
       /\ outcomes[j].question = outcomes[i].question
    BY <1>4, <1>5, <1>9 DEF RowId, IdAt
<1> QED
    BY <1>10 DEF Twins

\* Rows of one arm that all have a twin among T are no more than T.
LEMMA TwinsCount ==
    ASSUME CompareInv, NEW S \in SUBSET DOMAIN outcomes, NEW T \in SUBSET DOMAIN outcomes,
           NEW p, \A i \in S : outcomes[i].policy = p,
           \A k \in S : \E j \in T : Twins(k, j)
    PROVE  Cardinality(S) <= Cardinality(T) /\ Cardinality(S) \in Nat /\ Cardinality(T) \in Nat
<1>1. IsFiniteSet(DOMAIN outcomes)
    <2>1. outcomes \in Seq(Rows)
        BY DEF CompareInv, RowsInPlace
    <2>2. DOMAIN outcomes = 1 .. Len(outcomes) /\ Len(outcomes) \in Nat
        BY <2>1
    <2> QED
        BY <2>2, FS_Interval
<1>2. IsFiniteSet(S) /\ IsFiniteSet(T)
    BY <1>1, FS_Subset
<1> DEFINE twin == [i \in S |-> CHOOSE j \in T : Twins(i, j)]
<1>3. \A i \in S : twin[i] \in T /\ Twins(i, twin[i])
    OBVIOUS
<1>4. twin \in [S -> T]
    BY <1>3
<1> HIDE DEF twin
<1>5. ASSUME NEW i \in S, NEW k \in S, twin[i] = twin[k] PROVE i = k
    <2>1. Twins(i, twin[i]) /\ Twins(k, twin[i])
        BY <1>3, <1>5
    <2>2. RowId(outcomes[i]) = RowId(outcomes[k])
        BY <2>1 DEF Twins, RowId
    <2> QED
        BY <2>2 DEF CompareInv, RowsInPlace
<1>6. twin \in Injection(S, T)
    BY <1>4, <1>5 DEF Injection, IsInjective
<1>7. Cardinality(S) <= Cardinality(T)
    BY <1>2, <1>6, FS_Injection
<1> QED
    BY <1>2, <1>7, FS_CardinalityType

\* The answerable holdout rows of an arm, and those refused.
AskedOf(p) ==
    {i \in DOMAIN outcomes : outcomes[i].policy = p /\ outcomes[i].question \in Answerable}

RefusedOf(p) == {i \in AskedOf(p) : outcomes[i].refused}

LEMMA HoldoutRate ==
    ASSUME CompareInv, NEW p \in ArmNames
    PROVE  RefusalRate(Of(RowsOf("holdout"), p), TRUE)
             = IF AskedOf(p) = {} THEN <<0, 1>>
               ELSE <<Cardinality(RefusedOf(p)), Cardinality(AskedOf(p))>>
<1> DEFINE rows == Of(RowsOf("holdout"), p)
           qs == {i \in DOMAIN rows : (rows[i].question \in HasAnswer) = TRUE}
           refused == {i \in qs : rows[i].refused}
<1>1. /\ DOMAIN RowsOf("holdout") = {i \in DOMAIN outcomes : outcomes[i].question \in Holdout}
      /\ \A i \in DOMAIN RowsOf("holdout") : RowsOf("holdout")[i] = outcomes[i]
    BY RowsOfMatrix DEF Matrices, QuestionsIn
<1>2. /\ DOMAIN rows = {i \in DOMAIN outcomes : outcomes[i].question \in Holdout
                                                  /\ outcomes[i].policy = p}
      /\ \A i \in DOMAIN rows : rows[i] = outcomes[i]
    BY <1>1 DEF Of, Restrict
<1> HIDE DEF rows
<1>3. \A q \in Holdout : q \in HasAnswer <=> q \in Answerable
    BY QuestionsAssumption DEF HasAnswer, Canary
<1>4. qs = AskedOf(p)
    BY <1>2, <1>3, QuestionsAssumption DEF AskedOf
<1>5. refused = RefusedOf(p)
    BY <1>2, <1>4 DEF RefusedOf
<1>6. RefusalRate(rows, TRUE)
        = IF qs = {} THEN <<0, 1>> ELSE <<Cardinality(refused), Cardinality(qs)>>
    BY DEF RefusalRate
<1> QED
    BY <1>4, <1>5, <1>6 DEF rows

\* Whatever the model says: were the rows of the grey band all refused, the
\* policy under review would refuse at least what the other does.
LEMMA NoGreyNoGain ==
    ASSUME CompareInv, phase = "written", NoErrors(Range(RowsOf("holdout"))),
           \A i \in AskedOf("grounded_review") :
              outcomes[i].band = "grounded_review" => outcomes[i].refused
    PROVE  ~Improves(RowsOf("holdout"))
<1> DEFINE b == "binary"
           g == "grounded_review"
<1>1. b \in ArmNames /\ g \in ArmNames
    BY DEF ArmNames
<1>2. \A p \in ArmNames :
         /\ AskedOf(p) \in SUBSET DOMAIN outcomes
         /\ RefusedOf(p) \in SUBSET DOMAIN outcomes
         /\ \A i \in AskedOf(p) : outcomes[i].policy = p
         /\ \A i \in RefusedOf(p) : outcomes[i].policy = p
    BY DEF AskedOf, RefusedOf
<1>3. ASSUME NEW p \in ArmNames, NEW u \in ArmNames, NEW i \in AskedOf(p)
      PROVE  \E j \in AskedOf(u) : Twins(i, j)
    <2>1. PICK j \in DOMAIN outcomes : Twins(i, j) /\ outcomes[j].policy = u
        BY <1>2, EveryTwin
    <2> QED
        BY <2>1 DEF AskedOf, Twins
<1>4. ASSUME NEW i \in RefusedOf(b)
      PROVE  \E j \in RefusedOf(g) : Twins(i, j)
    <2>1. i \in AskedOf(b) /\ outcomes[i].refused = TRUE
        BY DEF RefusedOf, CompareInv, RowsInPlace, Rows
    <2>2. PICK j \in AskedOf(g) : Twins(i, j)
        BY <1>1, <1>3, <2>1
    <2>3. /\ i \in DOMAIN outcomes /\ j \in DOMAIN outcomes
          /\ outcomes[i].policy = b /\ outcomes[j].policy = g
          /\ outcomes[i].question = outcomes[j].question
          /\ outcomes[i].repeat = outcomes[j].repeat
          /\ outcomes[i].question \in Answerable
        BY <2>1, <2>2 DEF AskedOf, Twins
    <2>4. outcomes[i].status = "ok" /\ outcomes[j].status = "ok"
        <3>1. i \in DOMAIN RowsOf("holdout") /\ j \in DOMAIN RowsOf("holdout")
            BY <2>3, RowsOfMatrix, QuestionsAssumption DEF Matrices, QuestionsIn
        <3>2. outcomes[i] \in Range(RowsOf("holdout")) /\ outcomes[j] \in Range(RowsOf("holdout"))
            BY <3>1, RowsOfMatrix DEF Matrices
        <3>3. outcomes[i] \in Rows /\ outcomes[j] \in Rows
            BY <2>3 DEF CompareInv, RowsInPlace
        <3> QED
            BY <3>2, <3>3 DEF NoErrors, Rows
    <2> DEFINE q == outcomes[i].question
    <2>5. /\ outcomes[i].band = BandUnder(b, q) /\ outcomes[j].band = BandUnder(g, q)
          /\ outcomes[j].band = "hard_refuse" => outcomes[j].refused
        BY <2>3 DEF CompareInv, Banded
    <2>6. q \in Questions
        BY <2>3, QuestionsAssumption DEF Questions
    <2>7. /\ BandUnder(g, q) \in Bands
          /\ BandUnder(b, q) = "confident" <=> BandUnder(g, q) = "confident"
        BY <1>1, <2>6, BandsCompare DEF CompareInv
    <2>8. CASE outcomes[i].band = "confident"
        <3>1. outcomes[j].refused = outcomes[i].refused
            BY <2>3, <2>4, <2>8 DEF CompareInv, Shared
        <3> QED
            BY <2>1, <2>2, <3>1 DEF RefusedOf
    <2>9. CASE outcomes[i].band # "confident"
        <3>1. outcomes[j].band \in {"hard_refuse", "grounded_review"}
            BY <2>5, <2>7, <2>9 DEF Bands
        <3>2. outcomes[j].refused
            BY <2>2, <2>5, <3>1
        <3> QED
            BY <2>2, <3>2 DEF RefusedOf
    <2> QED
        BY <2>8, <2>9
<1> DEFINE N == Cardinality(AskedOf(b))
           M == Cardinality(AskedOf(g))
           R == Cardinality(RefusedOf(b))
           S == Cardinality(RefusedOf(g))
<1>5. N <= M /\ N \in Nat /\ M \in Nat
    BY <1>1, <1>2, <1>3, TwinsCount
<1>6. M <= N
    BY <1>1, <1>2, <1>3, TwinsCount
<1>7. R <= S /\ R \in Nat /\ S \in Nat
    <2>1. /\ RefusedOf(b) \in SUBSET DOMAIN outcomes /\ RefusedOf(g) \in SUBSET DOMAIN outcomes
          /\ \A i \in RefusedOf(b) : outcomes[i].policy = b
        BY DEF RefusedOf, AskedOf
    <2>2. \A i \in RefusedOf(b) : \E j \in RefusedOf(g) : Twins(i, j)
        BY <1>4
    <2> HIDE DEF b, g
    <2> QED
        BY <2>1, <2>2, TwinsCount
<1>8. AskedOf(b) = {} <=> AskedOf(g) = {}
    BY <1>1, <1>3
<1> DEFINE x == RefusalRate(Of(RowsOf("holdout"), g), TRUE)
           y == RefusalRate(Of(RowsOf("holdout"), b), TRUE)
<1>9. /\ x = IF AskedOf(g) = {} THEN <<0, 1>> ELSE <<S, M>>
      /\ y = IF AskedOf(b) = {} THEN <<0, 1>> ELSE <<R, N>>
    BY <1>1, HoldoutRate
<1>10. Improves(RowsOf("holdout")) <=> x[1] * y[2] < y[1] * x[2]
    BY DEF Improves, Below
<1> HIDE DEF N, M, R, S, x, y
<1>11. \/ x[1] = 0 /\ x[2] = 1 /\ y[1] = 0 /\ y[2] = 1
       \/ x[1] = S /\ x[2] = M /\ y[1] = R /\ y[2] = N
    BY <1>8, <1>9
<1>12. ~(S * N < R * M)
    <2>1. N = M
        BY <1>5, <1>6
    <2>2. R * N <= S * N
        BY <1>5, <1>7
    <2>3. R * N \in Nat /\ S * N \in Nat
        BY <1>5, <1>7
    <2> QED
        BY <2>1, <2>2, <2>3
<1> QED
    BY <1>10, <1>11, <1>12

\* An improvement that is reported is the policy's, whatever the model says to
\* whatever prompt: without an answered question of the grey band the arms
\* refuse the same, row by row.
THEOREM GainIsCausal == RunSpec => []ImprovementIsCausal
<1>1. CompareInv => ImprovementIsCausal
    <2> SUFFICES ASSUME CompareInv, report # NoReport, report.gates.improves_global, report.gates.no_errors
                 PROVE  \E o, c \in ToSet(outcomes) :
                           /\ o.question \in Answerable /\ o.band = "grounded_review" /\ ~o.refused
                           /\ c.question = o.question /\ c.policy = "binary" /\ c.refused
        BY DEF ImprovementIsCausal
    <2>1. phase = "written" /\ report = Scored(report.verdicts)
        BY DEF CompareInv, Reported
    <2>2. report.gates = Gates(RowsOf("holdout"), RowsOf("canary"), report.verdicts, Holdout, Canary)
        BY <2>1 DEF Scored
    <2>3. Improves(RowsOf("holdout")) /\ NoErrors(Range(RowsOf("holdout")) \cup Range(RowsOf("canary")))
        BY <2>2, GatesSay
    <2>4. NoErrors(Range(RowsOf("holdout")))
        BY <2>3 DEF NoErrors
    <2>5. PICK i \in AskedOf("grounded_review") :
             outcomes[i].band = "grounded_review" /\ ~outcomes[i].refused
        BY <2>1, <2>3, <2>4, NoGreyNoGain
    <2>6. i \in DOMAIN outcomes /\ outcomes[i].question \in Answerable
        BY DEF AskedOf
    <2>7. PICK j \in DOMAIN outcomes : Twins(i, j) /\ outcomes[j].policy = "binary"
        BY <2>1, <2>6, EveryTwin DEF ArmNames
    <2> DEFINE q == outcomes[i].question
    <2>8. outcomes[j].question = q /\ outcomes[i].policy = "grounded_review"
        BY <2>7 DEF Twins, AskedOf
    <2>9. /\ outcomes[i].band = BandUnder("grounded_review", q)
          /\ outcomes[j].band = BandUnder("binary", q)
          /\ outcomes[j].band = "hard_refuse" => outcomes[j].refused
        BY <2>6, <2>7, <2>8 DEF CompareInv, Banded
    <2>10. q \in Questions
        BY <2>6, QuestionsAssumption DEF Questions
    <2>11. /\ BandUnder("binary", q) \in Bands
           /\ BandUnder("binary", q) # "grounded_review"
           /\ BandUnder("binary", q) = "confident" <=> BandUnder("grounded_review", q) = "confident"
        BY <2>10, BandsCompare DEF CompareInv, ArmNames
    <2>12. outcomes[j].refused
        BY <2>5, <2>9, <2>11 DEF Bands
    <2> QED
        BY <2>5, <2>6, <2>7, <2>8, <2>12 DEF ToSet
<1> QED
    BY RunInvariant, <1>1, PTL
=============================================================================
