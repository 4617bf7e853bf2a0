------------------------------ MODULE Evaluation ------------------------------
(***************************************************************************)
(* The offline evaluation: `collect' saves closed, unmerged pull requests  *)
(* of GitHub as the cases of a dataset, `label' writes a file with a line  *)
(* per case that a person fills in, and `run' lets the analyzer predict    *)
(* every case and scores the predictions against the labels.               *)
(*                                                                         *)
(* One person uses the tool, one command at a time; GitHub goes on         *)
(* meanwhile.  What an analyzer may answer, and what verification makes of *)
(* it, is the subject of Verification.  Rates are kept as the counts they  *)
(* are quotients of.                                                       *)
(***************************************************************************)
EXTENDS Naturals, SequencesExt

CONSTANTS
  Numbers,    \* pull requests of the repository
  Reasons,    \* outcomes that state a reason
  Unknown,    \* the outcome that states none
  Writings,   \* what a person may write as the outcomes of a line
  Answers,    \* outcomes an analyzer may answer
  Limit,      \* the number of cases to collect
  MaxClaims,  \* bound of the model: decision claims of an answer
  MaxChanges, \* bound of the model: changes on GitHub
  MaxEdits    \* bound of the model: changes to the lines by hand

Vocabulary == Reasons \cup {Unknown}

ASSUME OutcomeAssumption == Unknown \notin Reasons
ASSUME SetAssumption     == IsFiniteSet(Numbers) /\ IsFiniteSet(Reasons)
ASSUME LineAssumption    == \A w \in Writings : w \in Seq(Range(w))
ASSUME BoundAssumption   == {Limit, MaxClaims, MaxChanges, MaxEdits} \subseteq Nat

VARIABLES
  github,  \* the state of each pull request, and the number of changes
  stage,   \* the command that is running
  listed,  \* collect: numbers that are still to be fetched
  stats,   \* collect: CollectStats
  cases,   \* <dataset>/cases: the state each saved snapshot shows
  labels,  \* <dataset>/labels.jsonl: its lines, once there is such a file
  edits,   \* how often a person has changed the file
  gold,    \* run: the labels that were loaded
  todo,    \* run: cases that are still to be predicted
  preds,   \* run: the predictions made
  score    \* run: the counters of Evaluate

dataset == <<cases, labels, edits>>
running == <<gold, todo, preds, score>>
vars    == <<github, stage, listed, stats, dataset, running>>

NoCase  == "none"
Missing == <<[case |-> NoCase, outcomes |-> <<>>]>>

Kinds  == {"discussion", "other"}  \* DecisionEvidenceKinds, and all others
Claims == UNION {[1..k -> (SUBSET Kinds) \ {{}}] : k \in 0..MaxClaims}

NoStats == [fetched |-> 0, saved |-> 0, skippedMerged |-> 0, failed |-> 0]

Zero == [cases |-> 0, labeled |-> 0, skipped |-> 0, unlabeled |-> 0,
         exact |-> 0, goldUnknown |-> 0, predUnknown |-> 0, unknownAgree |-> 0,
         class |-> [v \in Vocabulary |-> [gold |-> 0, pred |-> 0, tp |-> 0, fp |-> 0]],
         tp |-> 0, fp |-> 0, fn |-> 0,
         realGold |-> 0, covered |-> 0, decision |-> 0, grounded |-> 0]

Counters == [cases : Nat, labeled : Nat, skipped : Nat, unlabeled : Nat,
             exact : Nat, goldUnknown : Nat, predUnknown : Nat, unknownAgree : Nat,
             class : [Vocabulary -> [gold : Nat, pred : Nat, tp : Nat, fp : Nat]],
             tp : Nat, fp : Nat, fn : Nat,
             realGold : Nat, covered : Nat, decision : Nat, grounded : Nat]

Init ==
  /\ github = [state |-> [n \in Numbers |-> "closed"], changes |-> 0]
  /\ stage  = "idle"
  /\ listed = {}
  /\ stats  = NoStats
  /\ cases  = [n \in Numbers |-> NoCase]
  /\ labels = Missing
  /\ edits  = 0
  /\ gold   = [n \in {} |-> {}]
  /\ todo   = {}
  /\ preds  = [n \in {} |-> {}]
  /\ score  = Zero

-----------------------------------------------------------------------------
(* GitHub *)

Change(n) ==
  /\ github.changes < MaxChanges
  /\ \E to \in {"open", "closed", "merged"} :
       /\ <<github.state[n], to>> \in {<<"closed", "open">>, <<"open", "closed">>, <<"open", "merged">>}
       /\ github' = [state |-> [github.state EXCEPT ![n] = to], changes |-> github.changes + 1]
  /\ UNCHANGED <<stage, listed, stats, dataset, running>>

-----------------------------------------------------------------------------
(* eval collect *)

\* The closed pull requests of the first pages, without those that are merged by now.
BeginCollect ==
  /\ stage = "idle"
  /\ stage'  = "collecting"
  /\ listed' \in SUBSET {n \in Numbers : github.state[n] = "closed"}
  /\ stats'  = NoStats
  /\ UNCHANGED <<github, dataset, running>>

Counts(outcome) == [stats EXCEPT !.fetched = @ + 1, ![outcome] = @ + 1]

\* Mutant: what the list said will do.
FetchMutant(n) ==
  /\ stage = "collecting" /\ n \in listed /\ stats.saved < Limit
  /\ listed' = listed \ {n}
  /\ \/ stats' = Counts("failed") /\ UNCHANGED cases
     \/ stats' = Counts("saved") /\ cases' = [cases EXCEPT ![n] = github.state[n]]
  /\ UNCHANGED <<github, stage, labels, edits, running>>

\* FetchSnapshot, and SaveCase unless it shows a merge.
Fetch(n) ==
  /\ stage = "collecting" /\ n \in listed /\ stats.saved < Limit
  /\ listed' = listed \ {n}
  /\ \/ stats' = Counts("failed") /\ UNCHANGED cases
     \/ github.state[n] = "merged" /\ stats' = Counts("skippedMerged") /\ UNCHANGED cases
     \/ /\ github.state[n] # "merged"
        /\ stats' = Counts("saved") /\ cases' = [cases EXCEPT ![n] = github.state[n]]
  /\ UNCHANGED <<github, stage, labels, edits, running>>

\* The list or the limit is at an end, or an error or a person ends it early.
EndCollect ==
  /\ stage = "collecting"
  /\ stage'  = "idle"
  /\ listed' = {}
  /\ stats'  = NoStats
  /\ UNCHANGED <<github, dataset, running>>

-----------------------------------------------------------------------------
(* eval label, and the work of the annotator *)

Cases == {n \in Numbers : cases[n] # NoCase}

\* Whatever the file held, it now has a line without outcomes per case.
\* The directory of the cases comes with the first case.
ScaffoldLabels ==
  /\ stage = "idle" /\ Cases # {}
  /\ labels' = [k \in 1..Cardinality(Cases) |->
                  [case |-> SetToSeq(Cases)[k], outcomes |-> <<>>]]
  /\ UNCHANGED <<github, stage, listed, stats, cases, edits, running>>

Edit(lines) ==
  /\ stage = "idle" /\ labels # Missing /\ edits < MaxEdits
  /\ labels' = lines
  /\ edits'  = edits + 1
  /\ UNCHANGED <<github, stage, listed, stats, cases, running>>

Annotate(k, w) == k \in DOMAIN labels /\ Edit([labels EXCEPT ![k].outcomes = w])
AddLine(n, w)  == Edit(Append(labels, [case |-> n, outcomes |-> w]))
RemoveLine(k)  == k \in DOMAIN labels /\ Edit(RemoveAt(labels, k))

-----------------------------------------------------------------------------
(* eval run *)

\* Mutant: unknown may stand beside a reason.
ValidMutant(w) ==
  w # <<>> /\ Range(w) \subseteq Vocabulary /\ IsInjective(w)

\* ValidateOutcomes
Valid(w) ==
  /\ w # <<>> /\ Range(w) \subseteq Vocabulary /\ IsInjective(w)
  /\ Unknown \in Range(w) => Len(w) = 1

\* LoadLabels: one bad line refuses all; of the lines for a case the last counts.
Loads   == labels # Missing /\ \A k \in DOMAIN labels : Valid(labels[k].outcomes)
LastLine(k) == \A l \in DOMAIN labels : labels[l].case = labels[k].case => l <= k
Loaded  ==
  LET last == {k \in DOMAIN labels : LastLine(k)}
  IN  [n \in {labels[k].case : k \in last} |->
         Range(labels[CHOOSE k \in last : labels[k].case = n].outcomes)]

\* Without cases or labels it exits with an error.
BeginRun ==
  /\ stage = "idle" /\ Cases # {} /\ Loads
  /\ stage' = "running"
  /\ gold'  = Loaded
  /\ todo'  = Cases
  /\ UNCHANGED <<github, listed, stats, dataset, preds, score>>

\* VerifiedOutcomes
Verified(answer) ==
  IF answer \cap Vocabulary = {} THEN {Unknown} ELSE answer \cap Vocabulary

\* Predict: an analyzer that fails predicts unknown, and says so.
Predictions ==
  {[outcomes |-> {Unknown}, decision |-> 0, grounded |-> 0, failed |-> TRUE]} \cup
  {[outcomes |-> Verified(a), decision |-> Len(c), failed |-> FALSE,
    grounded |-> Cardinality({k \in DOMAIN c : "discussion" \in c[k]})] : a \in Answers, c \in Claims}

One(b) == IF b THEN 1 ELSE 0

\* Mutant: a failure is scored as the unknown it predicts.
CountedMutant(n, p) == n \in DOMAIN gold

\* Labeled, and not a failure.
Counted(n, p) == n \in DOMAIN gold /\ ~p.failed

\* Mutant: what is predicted is compared with what is predicted.
ScoredMutant(s, g, p) ==
  [s EXCEPT !.labeled = @ + 1, !.exact = @ + One(g \subseteq p.outcomes),
    !.tp = @ + Cardinality(g \cap p.outcomes),
    !.fp = @ + Cardinality(p.outcomes \ g),
    !.fn = @ + Cardinality(g \ p.outcomes)]

\* One iteration of Evaluate for a prediction that counts.
Scored(s, g, p) ==
  [s EXCEPT
    !.labeled      = @ + 1,
    !.exact        = @ + One(g = p.outcomes),
    !.goldUnknown  = @ + One(g = {Unknown}),
    !.predUnknown  = @ + One(p.outcomes = {Unknown}),
    !.unknownAgree = @ + One(g = {Unknown} /\ p.outcomes = {Unknown}),
    !.class        = [v \in Vocabulary |->
                        [gold |-> @[v].gold + One(v \in g),
                         pred |-> @[v].pred + One(v \in p.outcomes),
                         tp   |-> @[v].tp + One(v \in g /\ v \in p.outcomes),
                         fp   |-> @[v].fp + One(v \notin g /\ v \in p.outcomes)]],
    !.tp           = @ + Cardinality(g \cap p.outcomes),
    !.fp           = @ + Cardinality(p.outcomes \ g),
    !.fn           = @ + Cardinality(g \ p.outcomes),
    !.realGold     = @ + One(g # {Unknown}),
    !.covered      = @ + One(g # {Unknown} /\ p.decision > 0),
    !.decision     = @ + p.decision,
    !.grounded     = @ + p.grounded]

Uncounted(s, n) ==
  IF n \in DOMAIN gold THEN [s EXCEPT !.labeled = @ + 1, !.skipped = @ + 1]
                       ELSE [s EXCEPT !.unlabeled = @ + 1]

\* Predict and the iteration of Evaluate that looks at the prediction.
Predict(n, p) ==
  /\ stage = "running" /\ n \in todo
  /\ todo'  = todo \ {n}
  /\ preds' = [m \in DOMAIN preds \cup {n} |-> IF m = n THEN p ELSE preds[m]]
  /\ LET s == [score EXCEPT !.cases = @ + 1] IN
       score' = IF Counted(n, p) THEN Scored(s, gold[n], p) ELSE Uncounted(s, n)
  /\ UNCHANGED <<github, stage, listed, stats, dataset, gold>>

\* The report is written beside those of earlier runs.
EndRun ==
  /\ stage = "running" /\ todo = {}
  /\ stage' = "idle"
  /\ gold'  = [n \in {} |-> {}]
  /\ preds' = [n \in {} |-> {}]
  /\ score' = Zero
  /\ UNCHANGED <<github, listed, stats, dataset, todo>>

-----------------------------------------------------------------------------
Next ==
  \/ BeginCollect \/ EndCollect \/ ScaffoldLabels \/ BeginRun \/ EndRun
  \/ \E n \in Numbers :
       \/ Change(n) \/ Fetch(n)
       \/ \E w \in Writings : AddLine(n, w)
       \/ \E p \in Predictions : Predict(n, p)
  \/ \E k \in DOMAIN labels : RemoveLine(k) \/ \E w \in Writings : Annotate(k, w)

Spec == Init /\ [][Next]_vars

-----------------------------------------------------------------------------
(* Properties *)

Labelings == {{Unknown}} \cup ((SUBSET Reasons) \ {{}})

\* What was collected is counted, no more is saved than was asked for, and no
\* saved pull request was merged when it was fetched, however long before that
\* the list was read: the dataset is of the kind the pipeline is for.
CollectedIsUnmerged ==
  /\ stats \in [DOMAIN NoStats -> Nat]
  /\ stats.fetched = stats.saved + stats.skippedMerged + stats.failed
  /\ stats.saved <= Limit
  /\ cases \in [Numbers -> {NoCase, "closed", "open"}]

\* What a run scores against is what the protocol lets a label say, whatever
\* people wrote: some reasons, or that none is established.
GoldIsLabeling ==
  /\ gold \in [DOMAIN gold -> Labelings]
  /\ stage # "running" => DOMAIN gold = {}

\* Each case is predicted once, and a run begins with nothing counted.
PredictedOnce ==
  /\ preds \in [DOMAIN preds -> Predictions]
  /\ DOMAIN preds \subseteq Numbers \ todo
  /\ score \in Counters
  /\ stage # "running" => DOMAIN preds = {} /\ score = Zero

\* Types, the three above, and that only commands that run have something to do.
IInv ==
  /\ stage \in {"idle", "collecting", "running"}
  /\ github.state \in [Numbers -> {"closed", "open", "merged"}]
  /\ listed \in SUBSET Numbers /\ todo \in SUBSET Numbers
  /\ labels \in Seq([case : Numbers \cup {NoCase}, outcomes : Writings \cup {<<>>}])
  /\ CollectedIsUnmerged
  /\ GoldIsLabeling
  /\ PredictedOnce

Scorable == {n \in DOMAIN preds : n \in DOMAIN gold /\ ~preds[n].failed}
Number(P(_)) == Cardinality({n \in Scorable : P(n)})

\* The sum of a function to the naturals, as what it counts, one by one.
Total(f) == Cardinality(UNION {{x} \X (1..f[x]) : x \in DOMAIN f})

\* A report is about the cases with a label that the analyzer did not fail on:
\* each count is that of a set of them.  A failure is no "unknown", and the
\* cases without a label, or with a failure, change no rate.
ReportsScorableOnly ==
  LET pred(n) == preds[n].outcomes
      Agrees(n) == gold[n] = pred(n)
      GoldUnknown(n) == gold[n] = {Unknown}
      PredUnknown(n) == pred(n) = {Unknown}
  IN /\ score.cases = Cardinality(DOMAIN preds)
     /\ score.unlabeled = Cardinality(DOMAIN preds \ DOMAIN gold)
     /\ score.labeled - score.skipped = Cardinality(Scorable)
     /\ score.exact = Number(Agrees)
     /\ score.goldUnknown = Number(GoldUnknown)
     /\ score.predUnknown = Number(PredUnknown)
     /\ score.unknownAgree = Number(LAMBDA n : GoldUnknown(n) /\ PredUnknown(n))
     /\ score.class = [v \in Vocabulary |->
          [gold |-> Number(LAMBDA n : v \in gold[n]),
           pred |-> Number(LAMBDA n : v \in pred(n)),
           tp   |-> Number(LAMBDA n : v \in gold[n] \cap pred(n)),
           fp   |-> Number(LAMBDA n : v \in pred(n) \ gold[n])]]
     /\ score.covered = Number(LAMBDA n : ~GoldUnknown(n) /\ preds[n].decision > 0)
     /\ score.decision = Total([n \in Scorable |-> preds[n].decision])
     /\ score.grounded = Total([n \in Scorable |-> preds[n].grounded])

\* The micro average, the classes and the exact matches tell one story: the
\* average pools the classes, and it is perfect when every case matches, and
\* only then.
AveragesAgree ==
  LET Pooled(field) == Total([v \in Vocabulary |-> score.class[v][field]]) IN
  /\ score.tp = Pooled("tp") /\ score.fp = Pooled("fp")
  /\ score.tp + score.fn = Pooled("gold")
  /\ score.fp + score.fn = 0 <=> score.exact = score.labeled - score.skipped
  /\ score.grounded <= score.decision

\* Validation keeps "unknown" apart from the reasons, so that the cases divide
\* into those coverage is about and those that count for the agreement, and
\* the class of "unknown" has no others.
UnknownStandsAlone ==
  /\ score.realGold + score.goldUnknown = score.labeled - score.skipped
  /\ score.class[Unknown].gold = score.goldUnknown
  /\ score.class[Unknown].tp >= score.unknownAgree
  /\ score.covered <= score.realGold
=============================================================================
