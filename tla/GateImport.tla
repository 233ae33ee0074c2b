----------------------------- MODULE GateImport -----------------------------
(***************************************************************************)
(* The files of a paid comparison: write_run_dir (gate_eval/artifacts.py)  *)
(* builds <run_id>.partial and renames it, a person grades the checklist,  *)
(* and import_verdicts_into_run (gate_generation_eval.py) checks the       *)
(* sealed files and the graded checklist before it writes three files more.*)
(*                                                                         *)
(* Two runs of the same second have the same run_id.  Any process may be   *)
(* killed at any step; a sealed file may come to harm.  The content of a   *)
(* run's file is the run it is of, its digest likewise.                    *)
(***************************************************************************)
EXTENDS Integers, Sequences, FiniteSets, SequencesExt, Functions

CONSTANTS
    Writers,      \* runs that share one run_id
    Importers,    \* processes that import verdicts into the run directory
    Answered,     \* ids of the checklist rows of answered questions ...
    Unsafe,       \* ... and of the answered unanswerable ones
    Csvs,         \* the states of blind_checklist.csv an editor may leave
    MaxEdits,     \* bound on the edits of it
    MaxKills,     \* bound on the processes killed
    MaxAttempts,  \* bound on the imports begun
    NoDir,        \* a directory that is not there
    Damaged       \* the content of a file that came to harm

Baseline == Answered \cup Unsafe
Marks == {"y", "n", ""}

\* The files of a run, in the order they are written.
RunFiles == <<"run_manifest.json", "retrieval.jsonl", "outcomes.jsonl", "comparison.md",
              "blind_checklist.csv", "blind_checklist.baseline.json", "arm_map.sealed.json">>

ASSUME ImportAssumption ==
    /\ Answered \cap Unsafe = {} /\ Baseline # {} /\ IsFiniteSet(Baseline)
    /\ MaxEdits \in Nat /\ MaxKills \in Nat /\ MaxAttempts \in Nat
    /\ Damaged \notin Writers
    /\ \A rows \in Csvs :
          /\ Len(rows) \in Nat /\ DOMAIN rows = 1 .. Len(rows)
          /\ \A i \in DOMAIN rows : rows[i].mark \in Marks

\* NoDir is no directory: no function from files to what they hold.
ASSUME NoDirAssumption ==
    \A names \in SUBSET ToSet(RunFiles) : NoDir \notin [names -> Writers \cup {Damaged}]

\* immutable_files of the import.
Immutable == ToSet(RunFiles) \ {"comparison.md", "blind_checklist.csv"}

VARIABLES
    partial,     \* the directory <run_id>.partial: contents by file name, or NoDir
    final,       \* the directory <run_id>, likewise
    sums,        \* checksums.txt of the directory that became final
    writer,      \* where each run is in write_run_dir
    csv,         \* the rows of blind_checklist.csv in the run directory
    importer,    \* where each import is: [pc, read, attempt]
    imported,    \* import_manifest.json: [whole, of], or absent
    compared,    \* comparison.import.md, likewise
    marker,      \* checksums.import.txt: "absent", "torn" or "whole"
    attempts,    \* history: imports begun
    edits, kills \* counters of the bounds

files == <<partial, final, sums>>
importFiles == <<imported, compared, marker>>
bounds == <<edits, kills>>
vars == <<files, writer, csv, importer, importFiles, attempts, bounds>>

Absent == [whole |-> FALSE, of |-> 0]
Torn(file) == file' = Absent

Idle == [pc |-> "idle", read |-> << >>, attempt |-> 0]

FreshCsv == SetToSeq({[id |-> r, sound |-> TRUE, mark |-> ""] : r \in Baseline})

Init ==
    /\ partial = NoDir /\ final = NoDir /\ sums = << >>
    /\ writer = [w \in Writers |-> "start"]
    /\ csv = FreshCsv
    /\ importer = [i \in Importers |-> Idle]
    /\ imported = Absent /\ compared = Absent /\ marker = "absent"
    /\ attempts = 0 /\ edits = 0 /\ kills = 0

-----------------------------------------------------------------------------
(* write_run_dir, check by check and file by file.                         *)

notWriting == <<csv, importer, importFiles, attempts, bounds>>

Goes(w, pc) == writer' = [writer EXCEPT ![w] = pc]

CheckFinal(w) ==
    /\ writer[w] = "start"
    /\ Goes(w, IF final = NoDir THEN "no final" ELSE "failed")
    /\ UNCHANGED <<files, notWriting>>

CheckPartial(w) ==
    /\ writer[w] = "no final"
    /\ Goes(w, IF partial = NoDir THEN "no partial" ELSE "failed")
    /\ UNCHANGED <<files, notWriting>>

\* A slip: a directory that is there already will do.
MakePartialOrShare(w) ==
    /\ writer[w] = "no partial"
    /\ Goes(w, "writing")
    /\ partial' = IF partial = NoDir THEN << >> ELSE partial
    /\ UNCHANGED <<final, sums, notWriting>>

\* mkdir(exist_ok=False)
MakePartial(w) ==
    /\ writer[w] = "no partial"
    /\ IF partial = NoDir
       THEN Goes(w, "writing") /\ partial' = << >>
       ELSE Goes(w, "failed") /\ UNCHANGED partial
    /\ UNCHANGED <<final, sums, notWriting>>

WriteFile(w) ==
    /\ writer[w] = "writing" /\ partial # NoDir
    /\ \E i \in DOMAIN RunFiles :
          /\ {RunFiles[j] : j \in 1 .. i - 1} \subseteq DOMAIN partial
          /\ RunFiles[i] \notin DOMAIN partial
          /\ partial' = [f \in DOMAIN partial \cup {RunFiles[i]} |->
                            IF f = RunFiles[i] THEN w ELSE partial[f]]
    /\ UNCHANGED <<final, sums, writer, notWriting>>

\* checksums.txt, and the rename, which fails on a directory that is there.
Finalize(w) ==
    /\ writer[w] = "writing" /\ partial # NoDir /\ DOMAIN partial = ToSet(RunFiles)
    /\ IF final = NoDir
       THEN /\ final' = partial /\ sums' = partial /\ partial' = NoDir
            /\ Goes(w, "done")
       ELSE Goes(w, "failed") /\ UNCHANGED files
    /\ UNCHANGED notWriting

KillWriter(w) ==
    /\ writer[w] \notin {"done", "failed"} /\ kills < MaxKills
    /\ Goes(w, "failed") /\ kills' = kills + 1
    /\ UNCHANGED <<files, csv, importer, importFiles, attempts, edits>>

-----------------------------------------------------------------------------
(* What happens to a finished run before its import, or meanwhile.         *)

EditCsv ==
    /\ final # NoDir /\ edits < MaxEdits
    /\ csv' \in Csvs
    /\ edits' = edits + 1
    /\ UNCHANGED <<files, writer, importer, importFiles, attempts, kills>>

\* Nobody touches the sealed files while an import reads them; one is enough.
DamageFile ==
    /\ final # NoDir /\ Damaged \notin Range(final)
    /\ \A i \in Importers : importer[i].pc = "idle"
    /\ \E f \in Immutable : final' = [final EXCEPT ![f] = Damaged]
    /\ UNCHANGED <<partial, sums, writer, notWriting>>

-----------------------------------------------------------------------------
(* import_verdicts_into_run.                                               *)

\* A slip: a row that is missing is not missed.
MatchesBaselineRows(rows) ==
    /\ \A i, j \in DOMAIN rows : rows[i].id = rows[j].id => i = j
    /\ {r.id : r \in ToSet(rows)} \subseteq Baseline
    /\ \A r \in ToSet(rows) : r.sound

\* _verify_against_baseline: the row set of the baseline, no row twice, none
\* altered; the order of the rows does not matter.
MatchesBaseline(rows) ==
    /\ \A i, j \in DOMAIN rows : rows[i].id = rows[j].id => i = j
    /\ {r.id : r \in ToSet(rows)} = Baseline
    /\ \A r \in ToSet(rows) : r.sound

\* import_human_verdicts raises on an empty, a foreign or an ungraded list,
\* and the import when it counts other unsafe answers than outcomes.jsonl.
Importable(rows) ==
    /\ rows # << >> /\ MatchesBaseline(rows)
    /\ \A r \in ToSet(rows) : r.mark # ""
    /\ Cardinality({i \in DOMAIN rows : rows[i].id \in Unsafe}) = Cardinality(Unsafe)

SealsHold == \A f \in Immutable : final[f] = sums[f]

At(i, pc) == importer[i].pc = pc
Comes(i, pc) == importer' = [importer EXCEPT ![i].pc = pc]

\* A slip: the completion marker of an import before is not looked for.
BeginUnmarked(i) ==
    /\ At(i, "idle") /\ final # NoDir /\ attempts < MaxAttempts
    /\ SealsHold
    /\ importer' = [importer EXCEPT ![i] =
                      [pc |-> "verified", read |-> << >>, attempt |-> attempts + 1]]
    /\ attempts' = attempts + 1
    /\ UNCHANGED <<files, writer, csv, importFiles, bounds>>

\* No completion marker, and every sealed file as it was sealed.  Otherwise
\* the import raises, and has changed nothing.
BeginImport(i) ==
    /\ At(i, "idle") /\ final # NoDir /\ attempts < MaxAttempts
    /\ marker = "absent"
    /\ SealsHold
    /\ importer' = [importer EXCEPT ![i] =
                      [pc |-> "verified", read |-> << >>, attempt |-> attempts + 1]]
    /\ attempts' = attempts + 1
    /\ UNCHANGED <<files, writer, csv, importFiles, bounds>>

ReadChecklist(i) ==
    /\ At(i, "verified")
    /\ importer' = [importer EXCEPT ![i] =
                      IF Importable(csv) THEN [@ EXCEPT !.pc = "graded", !.read = csv]
                                         ELSE Idle]
    /\ UNCHANGED <<files, writer, csv, importFiles, attempts, bounds>>

Written(i) == [whole |-> TRUE, of |-> importer[i].attempt, rows |-> importer[i].read]

WriteImportManifest(i) ==
    /\ At(i, "graded") /\ Comes(i, "manifest")
    /\ imported' = Written(i)
    /\ UNCHANGED <<files, writer, csv, compared, marker, attempts, bounds>>

\* A slip: the import is marked complete as soon as its verdicts are stored.
WriteComparisonMarked(i) ==
    /\ At(i, "manifest") /\ Comes(i, "comparison")
    /\ marker' = "whole"
    /\ UNCHANGED <<files, writer, csv, imported, compared, attempts, bounds>>

WriteComparison(i) ==
    /\ At(i, "manifest") /\ Comes(i, "comparison")
    /\ compared' = Written(i)
    /\ UNCHANGED <<files, writer, csv, imported, marker, attempts, bounds>>

WriteMarker(i) ==
    /\ At(i, "comparison")
    /\ importer' = [importer EXCEPT ![i] = Idle]
    /\ marker' = "whole"
    /\ UNCHANGED <<files, writer, csv, imported, compared, attempts, bounds>>

\* Killed, perhaps inside a write_text, which truncates before it writes.
KillImport(i) ==
    /\ ~At(i, "idle") /\ kills < MaxKills
    /\ importer' = [importer EXCEPT ![i] = Idle]
    /\ kills' = kills + 1
    /\ \/ UNCHANGED importFiles
       \/ At(i, "graded") /\ Torn(imported) /\ UNCHANGED <<compared, marker>>
       \/ At(i, "manifest") /\ Torn(compared) /\ UNCHANGED <<imported, marker>>
       \/ At(i, "comparison") /\ marker' = "torn" /\ UNCHANGED <<imported, compared>>
    /\ UNCHANGED <<files, writer, csv, attempts, edits>>

Next ==
    \/ \E w \in Writers : \/ CheckFinal(w) \/ CheckPartial(w) \/ MakePartial(w)
                          \/ WriteFile(w) \/ Finalize(w) \/ KillWriter(w)
    \/ EditCsv \/ DamageFile
    \/ \E i \in Importers : \/ BeginImport(i) \/ ReadChecklist(i) \/ WriteImportManifest(i)
                            \/ WriteComparison(i) \/ WriteMarker(i) \/ KillImport(i)

Spec == Init /\ [][Next]_vars

-----------------------------------------------------------------------------
(* Properties.                                                             *)

\* The variables keep their types.
TypeOK ==
    /\ partial # NoDir => DOMAIN partial \subseteq ToSet(RunFiles)
    /\ final # NoDir => DOMAIN final = ToSet(RunFiles) /\ DOMAIN sums = ToSet(RunFiles)
    /\ writer \in [Writers -> {"start", "no final", "no partial", "writing", "done", "failed"}]
    /\ csv \in Csvs \cup {FreshCsv}
    /\ \A i \in Importers :
          importer[i].pc \in {"idle", "verified", "graded", "manifest", "comparison"}
    /\ marker \in {"absent", "torn", "whole"}
    /\ edits \in 0 .. MaxEdits /\ kills \in 0 .. MaxKills /\ attempts \in 0 .. MaxAttempts

\* Runs are write-once: a run directory holds every file of one run, and what
\* was sealed is of the same run, whatever ran in the same second or was
\* killed half-way.
OneWholeRun ==
    final # NoDir =>
        \E w \in Writers :
           /\ writer[w] = "done"
           /\ \A f \in ToSet(RunFiles) : sums[f] = w /\ final[f] \in {w, Damaged}
           /\ \A v \in Writers \ {w} : writer[v] # "done"

\* What is imported has a grade for every row of the sealed checklist and for
\* no other: a checklist that lost its unsafe rows, or that repeats its good
\* ones, is never graded.
EveryBaselineRowGraded ==
    imported.whole =>
        /\ Len(imported.rows) = Cardinality(Baseline)
        /\ \A r \in Baseline : \E g \in ToSet(imported.rows) :
              g.id = r /\ g.sound /\ g.mark # ""

\* A whole marker vouches for both other files of one and the same import.
MarkerMeansOneImport ==
    marker = "whole" =>
        imported.whole /\ compared.whole /\ imported = compared

\* An import is single-use: when it is complete, nothing writes its files again.
SingleUse == [][marker = "whole" => UNCHANGED importFiles]_vars

\* What docs/superpowers/plans/2026-09-03-audit-fixes-tdd-plan.md says of the
\* marker of an import: "a crash mid-import leaves partial artifacts without a
\* marker and allows a clean retry".
CrashLeavesNoMarker ==
    (\A i \in Importers : importer[i].pc = "idle") /\ marker # "absent" => marker = "whole"
=============================================================================
