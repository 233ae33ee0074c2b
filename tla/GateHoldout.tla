---------------------------- MODULE GateHoldout ----------------------------
(***************************************************************************)
(* features/evaluation/gate_holdout_integrity.py: the question set of the  *)
(* paid gate run, from draft to frozen.  A human edits the questions and   *)
(* sets the status, --write stamps them with their hash, --verify accepts  *)
(* or refuses.  The set must be balanced and paired, every expected chunk  *)
(* must exist, and no question may have been seen: the texts are compared  *)
(* with the two frozen sets, which carry stamps of their own and may be    *)
(* edited as well (eval_set_integrity, regression_set_integrity).          *)
(*                                                                         *)
(* Texts are normalised; a hash is the questions it was computed over.     *)
(***************************************************************************)
EXTENDS Integers, Sequences, FiniteSets

CONSTANTS
    Pairs,       \* pair ids; an even number of them
    Fresh,       \* texts nobody has asked before
    Seen,        \* texts of the frozen sets
    Chunks,      \* chunk ids of chunks.jsonl
    Drafts,      \* the sequences of questions the author may begin with
    MaxEdits     \* bound on the edits of the holdout

NoChunk == "no such chunk"
Languages == {"en", "es"}
Golds == {{}, {NoChunk}} \cup {{c} : c \in Chunks}
Question == [pair : Pairs, text : Fresh \cup Seen, language : Languages,
             answerable : BOOLEAN, expected : Golds]
Total == 2 * Cardinality(Pairs)

ASSUME GateHoldoutAssumption ==
    /\ IsFiniteSet(Pairs) /\ Cardinality(Pairs) % 2 = 0
    /\ Fresh \cap Seen = {} /\ NoChunk \notin Chunks /\ MaxEdits \in Nat
    /\ Drafts \subseteq Seq(Question)

VARIABLES
    holdout,    \* the file: [status, questions, stamp, whole]
    frozen,     \* the frozen sets taken together: [texts, stamp, whole]
    edits,      \* edits made so far
    writing,    \* "idle", or which of the files --write is at: "holdout" or "frozen"
    verdict     \* what --verify said of the files as they are: "none" when one
                \* has changed since, "green" or "refused"

vars == <<holdout, frozen, edits, writing, verdict>>

-----------------------------------------------------------------------------
\* The checks.

OfPair(qs, pair) == {i \in DOMAIN qs : qs[i].pair = pair}

\* _validate_question, without the comparison of texts.
WellFormed(q) == q.answerable => q.expected # {} /\ q.expected \subseteq Chunks

\* A slip: the two halves need not agree on what is answerable.
PairedByLanguage(qs) ==
    \A pair \in Pairs :
        /\ Cardinality(OfPair(qs, pair)) = 2
        /\ {qs[i].language : i \in OfPair(qs, pair)} = Languages

\* _validate_pairs
Paired(qs) ==
    \A pair \in Pairs :
        /\ Cardinality(OfPair(qs, pair)) = 2
        /\ {qs[i].language : i \in OfPair(qs, pair)} = Languages
        /\ Cardinality({qs[i].answerable : i \in OfPair(qs, pair)}) = 1
        /\ (\E i \in OfPair(qs, pair) : qs[i].answerable)
              => Cardinality({qs[i].expected : i \in OfPair(qs, pair)}) = 1

Distinct(qs) == \A i, j \in DOMAIN qs : i # j => qs[i].text # qs[j].text

Half(n) == 2 * n = Total
Balanced(qs) ==
    /\ Half(Cardinality({i \in DOMAIN qs : qs[i].answerable}))
    /\ \A l \in Languages : Half(Cardinality({i \in DOMAIN qs : qs[i].language = l}))

\* A slip: the frozen sets are read without a look at their stamps.
ForbiddenUnchecked(set) == set.whole

\* _forbidden_question_texts: the sets are there and carry their own hash.
ForbiddenKnown(set) == set.whole /\ set.stamp = set.texts

\* verify
Verifies(file, set) ==
    /\ file.whole /\ file.stamp = file.questions
    /\ file.status = "frozen"
    /\ Len(file.questions) = Total
    /\ ForbiddenKnown(set)
    /\ \A i \in DOMAIN file.questions :
          WellFormed(file.questions[i]) /\ file.questions[i].text \notin set.texts
    /\ Distinct(file.questions) /\ Paired(file.questions) /\ Balanced(file.questions)

-----------------------------------------------------------------------------
\* The author changes one thing about a question, or drops the last one.
Edit ==
    /\ writing = "idle" /\ edits < MaxEdits
    /\ edits' = edits + 1 /\ verdict' = "none"
    /\ \/ \E i \in DOMAIN holdout.questions : \E q \in Question :
             /\ Cardinality({f \in DOMAIN q : q[f] # holdout.questions[i][f]}) = 1
             /\ holdout' = [holdout EXCEPT !.questions[i] = q]
       \/ /\ holdout.questions # << >>
          /\ holdout' = [holdout EXCEPT !.questions = SubSeq(@, 1, Len(@) - 1)]
    /\ UNCHANGED <<frozen, writing>>

SetStatus ==
    /\ writing = "idle" /\ holdout.status = "draft"
    /\ holdout' = [holdout EXCEPT !.status = "frozen"] /\ verdict' = "none"
    /\ UNCHANGED <<frozen, edits, writing>>

\* Somebody takes a question out of a frozen set, and may stamp it again.
EditFrozen ==
    /\ frozen.whole /\ frozen.texts = Seen /\ writing = "idle"
    /\ \E t \in Seen : frozen' = [frozen EXCEPT !.texts = @ \ {t}]
    /\ verdict' = "none" /\ UNCHANGED <<holdout, edits, writing>>

\* --write: a frozen set is opened for writing at once.
BeginWrite ==
    /\ writing = "idle"
    /\ \/ holdout.whole /\ writing' = "holdout" /\ UNCHANGED <<holdout, frozen>>
       \/ /\ frozen.whole /\ writing' = "frozen"
          /\ frozen' = [frozen EXCEPT !.whole = FALSE] /\ UNCHANGED holdout
    /\ verdict' = "none" /\ UNCHANGED edits

\* write: the holdout is replaced by a temporary file, a frozen set is
\* rewritten in place and whole again only now.
EndWrite ==
    /\ writing # "idle"
    /\ holdout' = IF writing = "holdout" THEN [holdout EXCEPT !.stamp = holdout.questions]
                                         ELSE holdout
    /\ frozen' = IF writing = "frozen"
                 THEN [texts |-> frozen.texts, stamp |-> frozen.texts, whole |-> TRUE]
                 ELSE frozen
    /\ writing' = "idle" /\ verdict' = "none" /\ UNCHANGED edits

\* --write is killed.
CrashWrite ==
    /\ writing # "idle" /\ writing' = "idle"
    /\ UNCHANGED <<holdout, frozen, edits, verdict>>

\* --verify, and the first thing a paid run does.
Verify ==
    /\ verdict' = IF Verifies(holdout, frozen) THEN "green" ELSE "refused"
    /\ UNCHANGED <<holdout, frozen, edits, writing>>

Init ==
    /\ \E draft \in Drafts :
          holdout = [status |-> "draft", questions |-> draft, stamp |-> << >>, whole |-> TRUE]
    /\ frozen = [texts |-> Seen, stamp |-> Seen, whole |-> TRUE]
    /\ edits = 0 /\ writing = "idle" /\ verdict = "none"

Next == Edit \/ SetStatus \/ EditFrozen \/ BeginWrite \/ EndWrite \/ CrashWrite \/ Verify

Spec == Init /\ [][Next]_vars

-----------------------------------------------------------------------------
\* The variables keep their types.
TypeOK ==
    /\ holdout \in [status : {"draft", "frozen"}, questions : Seq(Question),
                   stamp : Seq(Question), whole : BOOLEAN]
    /\ frozen \in [texts : SUBSET Seen, stamp : SUBSET Seen, whole : BOOLEAN]
    /\ edits \in 0 .. MaxEdits /\ writing \in {"idle", "holdout", "frozen"}
    /\ verdict \in {"none", "green", "refused"}

Green == verdict = "green"

\* "a green integrity check must mean a real, frozen, balanced 48-question /
\* 24-pair holdout" (gate_holdout_integrity.py:154-155): in either language half
\* of the questions is answerable.  No check counts that; it follows from the
\* pairs and the two counts together.
CellsBalanced ==
    Green => \A l \in Languages, a \in BOOLEAN :
        4 * Cardinality({i \in DOMAIN holdout.questions :
              holdout.questions[i].language = l /\ holdout.questions[i].answerable = a}) = Total

\* Nothing in a set found green had been asked in the frozen sets as they were
\* last stamped: "the comparison can never be silently narrowed by a missing or
\* tampered file" (gate_holdout_integrity.py:62-64).
GreenIsUnseen ==
    Green => \A i \in DOMAIN holdout.questions : holdout.questions[i].text \notin frozen.stamp

=============================================================================
