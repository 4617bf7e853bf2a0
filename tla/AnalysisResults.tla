--------------------------- MODULE AnalysisResults ---------------------------
(***************************************************************************)
(* What the jobs of one repository leave in the database, and what         *)
(* retention takes away again.                                             *)
(*                                                                         *)
(* A tombstone job saves the analysis in one transaction, the embeddings   *)
(* in a second and the decision relations in a third; a similarity job     *)
(* saves the snapshot, lists the history, replaces the matches row by row  *)
(* and adds their relations.  Each may fail after any of these steps and   *)
(* be tried again, or not.  Retention deletes relations, Tombstones and    *)
(* pull requests in three statements, each by a timestamp of its own, and  *)
(* foreign keys take their dependents along; deleting the repository takes *)
(* everything, while jobs of it are still at work.                         *)
(*                                                                         *)
(* A revision number stands for the content of a snapshot and for all that *)
(* was derived from it; 0 means that there is no row.  Every attempt finds *)
(* a new revision on GitHub, so that no two of them can be mistaken for    *)
(* one another.  Days pass in ticks; a job takes minutes and sees at most  *)
(* one of them.                                                            *)
(***************************************************************************)
EXTENDS Integers

CONSTANTS
  PRs,            \* pull requests of the repository
  AnalysedPRs,    \* those that get tombstone jobs
  ComparedPRs,    \* those that get similarity jobs
  Retention,      \* retention_days of the repository, in ticks
  MaxAttempts,    \* bound of the model: attempts of jobs, of both kinds
  MaxId           \* bound of the model: ids of Tombstones

ASSUME PRAssumption == AnalysedPRs \cup ComparedPRs \subseteq PRs
ASSUME RetentionAssumption == Retention \in Nat \ {0}
ASSUME BoundAssumption == MaxId \in Nat /\ MaxAttempts \in Nat

VARIABLES
  pr,          \* pull_requests, with the age of updated_at
  evidence,    \* evidence_items, by the revision they were taken from
  tomb,        \* tombstones with their claims, and the age of updated_at
  lastId,      \* the id sequence of tombstones
  emb,         \* tombstone_embeddings, by the revision they encode
  graph,       \* decision_relations of a Tombstone, with the age of created_at
  match,       \* similarity_matches
  edges,       \* decision_relations similar_to, with the age of created_at
  analysis,    \* per pull request, how far its tombstone job is
  comparison,  \* per pull request, how far its similarity job is
  analysed,    \* history: how the last attempt of a tombstone job ended
  compared,    \* history: revision the last attempt of a similarity job
               \* compared, 0 if it failed
  attempts,    \* attempts so far
  deleted      \* the repository is gone

results == <<pr, evidence, tomb, lastId, emb, graph, match, edges>>
history == <<analysed, compared, attempts>>
vars    == <<results, analysis, comparison, history, deleted>>

Age      == 0..(Retention + 1)
Rev      == 0..MaxAttempts
Verdicts == {"none", "ok", "failed"}

NoPR   == [rev |-> 0, age |-> 0]
NoTomb == [id |-> 0, rev |-> 0, active |-> FALSE, age |-> 0, touched |-> FALSE]

AnalysisStage   == {"none", "fetched", "saved", "embedded"}
ComparisonStage == {"none", "fetched", "stored", "compared", "inserting", "relating"}
NoAnalysis      == [stage |-> "none", rev |-> 0, id |-> 0, late |-> FALSE]
NoComparison    == [stage |-> "none", rev |-> 0, found |-> {}, todo |-> {}, late |-> FALSE]

PullRequests == [rev : Rev, age : Age]
Tombstones   == [id : 0..MaxId, rev : Rev, active : BOOLEAN, age : Age, touched : BOOLEAN]
Relations    == [pr : PRs, id : 1..MaxId, rev : Rev, age : Age]
Matches      == [new : PRs, old : PRs, rev : Rev]
Edges        == [new : PRs, old : PRs, age : Age]
Analyses     == [stage : AnalysisStage, rev : Rev, id : 0..MaxId, late : BOOLEAN]
Comparisons  == [stage : ComparisonStage, rev : Rev, found : SUBSET PRs, todo : SUBSET PRs,
                 late : BOOLEAN]

TypeOK ==
  /\ pr         \in [PRs -> PullRequests]
  /\ evidence   \in [PRs -> Rev]
  /\ tomb       \in [PRs -> Tombstones]
  /\ lastId     \in 0..MaxId
  /\ emb        \in [PRs -> Rev]
  /\ graph      \in SUBSET Relations
  /\ match      \in SUBSET Matches
  /\ edges      \in SUBSET Edges
  /\ analysis   \in [PRs -> Analyses]
  /\ comparison \in [PRs -> Comparisons]
  /\ analysed   \in [PRs -> Verdicts]
  /\ compared   \in [PRs -> Rev]
  /\ attempts   \in 0..MaxAttempts
  /\ deleted    \in BOOLEAN

Init ==
  /\ pr         = [p \in PRs |-> NoPR]
  /\ evidence   = [p \in PRs |-> 0]
  /\ tomb       = [p \in PRs |-> NoTomb]
  /\ lastId     = 0
  /\ emb        = [p \in PRs |-> 0]
  /\ graph      = {}
  /\ match      = {}
  /\ edges      = {}
  /\ analysis   = [p \in PRs |-> NoAnalysis]
  /\ comparison = [p \in PRs |-> NoComparison]
  /\ analysed   = [p \in PRs |-> "none"]
  /\ compared   = [p \in PRs |-> 0]
  /\ attempts   = 0
  /\ deleted    = FALSE

-----------------------------------------------------------------------------
(* A tombstone job *)

\* RepositoryForJob, FetchSnapshot, analysis and verification: nothing is written.
BeginAnalysis(p) ==
  /\ p \in AnalysedPRs /\ ~deleted
  /\ analysis[p].stage = "none"
  /\ attempts < MaxAttempts
  /\ attempts' = attempts + 1
  /\ analysis' = [analysis EXCEPT ![p] = [NoAnalysis EXCEPT !.stage = "fetched",
                                                            !.rev = attempts + 1]]
  /\ UNCHANGED <<results, comparison, analysed, compared, deleted>>

\* Mutant: no foreign keys to repositories.
RepositoryExistsMutant == TRUE

\* REFERENCES repositories(id)
RepositoryExists == ~deleted

\* Mutant: the items of an earlier analysis are not deleted.
ReplaceEvidenceMutant(p, r) == evidence' = [evidence EXCEPT ![p] = IF @ = 0 THEN r ELSE @]

\* DELETE FROM evidence_items and INSERT of the ranked items.
ReplaceEvidence(p, r) == evidence' = [evidence EXCEPT ![p] = r]

\* A new Tombstone is ACTIVE; an old one keeps its id and state.
UpsertTombstone(p, r) ==
  LET new == tomb[p].id = 0 IN
  /\ new => lastId < MaxId
  /\ lastId' = IF new THEN lastId + 1 ELSE lastId
  /\ tomb'   = [tomb EXCEPT ![p] = [id |-> IF new THEN lastId + 1 ELSE @.id, rev |-> r,
                                    active |-> new \/ @.active, age |-> 0, touched |-> FALSE]]

\* One transaction: the pull request, its evidence, the Tombstone, its claims.
SaveAnalysis(p) ==
  LET r == analysis[p].rev IN
  /\ analysis[p].stage = "fetched" /\ RepositoryExists
  /\ pr' = [pr EXCEPT ![p] = [rev |-> r, age |-> 0]]
  /\ ReplaceEvidence(p, r)
  /\ UpsertTombstone(p, r)
  /\ analysis' = [analysis EXCEPT ![p].stage = "saved"]
  /\ UNCHANGED <<emb, graph, match, edges, comparison, history, deleted>>

\* Mutant: ON CONFLICT DO NOTHING.
UpsertEmbeddingsMutant(p, r) == emb' = [emb EXCEPT ![p] = IF @ = 0 THEN r ELSE @]

\* ON CONFLICT (tombstone_id) DO UPDATE
UpsertEmbeddings(p, r) == emb' = [emb EXCEPT ![p] = r]

\* TombstoneIDForPR finds the row, EmbedResult asks the provider, and the
\* foreign key finds the row still there.
SaveEmbeddings(p) ==
  /\ analysis[p].stage = "saved"
  /\ tomb[p].id # 0
  /\ UpsertEmbeddings(p, analysis[p].rev)
  /\ analysis' = [analysis EXCEPT ![p].stage = "embedded", ![p].id = tomb[p].id]
  /\ UNCHANGED <<pr, evidence, tomb, lastId, graph, match, edges, comparison,
                 history, deleted>>

\* One transaction: DELETE by the key of the Tombstone, then the new edges.
\* Relations refer to the repository only.  The job is done.
UpsertDecisionRelations(p) ==
  LET a == analysis[p] IN
  /\ a.stage = "embedded" /\ RepositoryExists
  /\ graph' = {g \in graph : g.id # a.id}
                \cup {[pr |-> p, id |-> a.id, rev |-> a.rev, age |-> 0]}
  /\ analysis' = [analysis EXCEPT ![p] = NoAnalysis]
  /\ analysed' = [analysed EXCEPT ![p] = "ok"]
  /\ UNCHANGED <<pr, evidence, tomb, lastId, emb, match, edges, comparison,
                 compared, attempts, deleted>>

\* An error, or the death of the worker, at any point: this attempt is over.
\* The next one, of this job or of a later one, begins again with a fetch.
FailAnalysis(p) ==
  /\ analysis[p].stage # "none"
  /\ analysis' = [analysis EXCEPT ![p] = NoAnalysis]
  /\ analysed' = [analysed EXCEPT ![p] = "failed"]
  /\ UNCHANGED <<results, comparison, compared, attempts, deleted>>

-----------------------------------------------------------------------------
(* A similarity job *)

BeginComparison(n) ==
  /\ n \in ComparedPRs /\ ~deleted
  /\ comparison[n].stage = "none"
  /\ attempts < MaxAttempts
  /\ attempts' = attempts + 1
  /\ comparison' = [comparison EXCEPT ![n] = [NoComparison EXCEPT !.stage = "fetched",
                                                                  !.rev = attempts + 1]]
  /\ UNCHANGED <<results, analysis, analysed, compared, deleted>>

SaveSnapshotOnly(n) ==
  /\ comparison[n].stage = "fetched" /\ RepositoryExists
  /\ pr' = [pr EXCEPT ![n] = [rev |-> comparison[n].rev, age |-> 0]]
  /\ comparison' = [comparison EXCEPT ![n].stage = "stored"]
  /\ UNCHANGED <<evidence, tomb, lastId, emb, graph, match, edges, analysis,
                 history, deleted>>

\* What ListTombstones joins: a Tombstone whose pull request is there.
Visible(p) == tomb[p].id # 0 /\ pr[p].rev # 0

\* ListTombstones and CompareWithSemantic: the ACTIVE history of others; which
\* of them score 60% or more is left open.
Compare(n) ==
  /\ comparison[n].stage = "stored"
  /\ \E found \in SUBSET {o \in PRs \ {n} : Visible(o) /\ tomb[o].active} :
       comparison' = [comparison EXCEPT ![n].stage = "compared", ![n].found = found]
  /\ UNCHANGED <<results, analysis, history, deleted>>

\* Mutant: old matches are kept.
DeleteMatchesMutant(n) == UNCHANGED match

\* DELETE FROM similarity_matches WHERE new_pr_number
DeleteMatches(n) == match' = {m \in match : m.new # n}

\* SaveSimilarityMatches has no transaction: first the DELETE,
ClearMatches(n) ==
  /\ comparison[n].stage = "compared"
  /\ DeleteMatches(n)
  /\ comparison' = [comparison EXCEPT ![n].stage = "inserting",
                                      ![n].todo = comparison[n].found]
  /\ UNCHANGED <<pr, evidence, tomb, lastId, emb, graph, edges, analysis,
                 history, deleted>>

\* then one INSERT after the other, each with two foreign keys.
InsertMatch(n, o) ==
  /\ comparison[n].stage = "inserting" /\ o \in comparison[n].todo
  /\ pr[n].rev # 0 /\ pr[o].rev # 0
  /\ match' = match \cup {[new |-> n, old |-> o, rev |-> comparison[n].rev]}
  /\ comparison' = [comparison EXCEPT ![n].todo = @ \ {o}]
  /\ UNCHANGED <<pr, evidence, tomb, lastId, emb, graph, edges, analysis,
                 history, deleted>>

BeginRelating(n) ==
  /\ comparison[n].stage = "inserting" /\ comparison[n].todo = {}
  /\ comparison' = [comparison EXCEPT ![n].stage = "relating",
                                      ![n].todo = comparison[n].found]
  /\ UNCHANGED <<results, analysis, history, deleted>>

\* UpsertSimilarityRelations: one upsert after the other, nothing is deleted.
RelateMatch(n, o) ==
  /\ comparison[n].stage = "relating" /\ o \in comparison[n].todo /\ RepositoryExists
  /\ edges' = {e \in edges : e.new # n \/ e.old # o}
                \cup {[new |-> n, old |-> o, age |-> 0]}
  /\ comparison' = [comparison EXCEPT ![n].todo = @ \ {o}]
  /\ UNCHANGED <<pr, evidence, tomb, lastId, emb, graph, match, analysis,
                 history, deleted>>

\* The optional check run is best effort; the job is done.
EndComparison(n) ==
  /\ comparison[n].stage = "relating" /\ comparison[n].todo = {}
  /\ comparison' = [comparison EXCEPT ![n] = NoComparison]
  /\ compared'   = [compared EXCEPT ![n] = comparison[n].rev]
  /\ UNCHANGED <<results, analysis, analysed, attempts, deleted>>

FailComparison(n) ==
  /\ comparison[n].stage # "none"
  /\ comparison' = [comparison EXCEPT ![n] = NoComparison]
  /\ compared'   = [compared EXCEPT ![n] = 0]
  /\ UNCHANGED <<results, analysis, analysed, attempts, deleted>>

-----------------------------------------------------------------------------
(* Others *)

\* SetTombstoneState, by a webhook or a person: updated_at is set, too.
SetTombstoneState(p, active) ==
  /\ tomb[p].id # 0
  /\ tomb' = [tomb EXCEPT ![p].active = active, ![p].age = 0, ![p].touched = TRUE]
  /\ UNCHANGED <<pr, evidence, lastId, emb, graph, match, edges, analysis,
                 comparison, history, deleted>>

\* Everything of the repository, by ON DELETE CASCADE.
DeleteRepository ==
  /\ ~deleted
  /\ deleted'  = TRUE
  /\ pr'       = [p \in PRs |-> NoPR]
  /\ evidence' = [p \in PRs |-> 0]
  /\ tomb'     = [p \in PRs |-> NoTomb]
  /\ emb'      = [p \in PRs |-> 0]
  /\ graph'    = {}
  /\ match'    = {}
  /\ edges'    = {}
  /\ UNCHANGED <<lastId, analysis, comparison, history>>

Expired(age) == age > Retention

\* Mutant: only relations of Tombstones that are there.
PruneRelationsMutant ==
  LET gone == {g \in graph : Expired(g.age) /\ tomb[g.pr].id = g.id} IN
  /\ gone # {}
  /\ graph' = graph \ gone
  /\ UNCHANGED <<pr, evidence, tomb, lastId, emb, match, edges, analysis, comparison,
                 history, deleted>>

\* PruneExpiredData has three statements and no transaction; the worker and the
\* cron invocations sweep at the same time, and any statement may fail, so that
\* their statements come in any order.  Relations go by created_at,
PruneRelations ==
  /\ (\E g \in graph : Expired(g.age)) \/ \E e \in edges : Expired(e.age)
  /\ graph' = {g \in graph : ~Expired(g.age)}
  /\ edges' = {e \in edges : ~Expired(e.age)}
  /\ UNCHANGED <<pr, evidence, tomb, lastId, emb, match, analysis, comparison,
                 history, deleted>>

TombExpired(p) == Expired(tomb[p].age)

\* Tombstones by updated_at, with their claims and embeddings,
PruneTombstones ==
  /\ \E p \in PRs : TombExpired(p)
  /\ tomb'  = [p \in PRs |-> IF TombExpired(p) THEN NoTomb ELSE tomb[p]]
  /\ emb'   = [p \in PRs |-> IF TombExpired(p) THEN 0 ELSE emb[p]]
  /\ UNCHANGED <<pr, evidence, lastId, graph, match, edges, analysis, comparison,
                 history, deleted>>

\* pull requests by updated_at, with their evidence and matches.
PrunePullRequests ==
  LET gone == {p \in PRs : Expired(pr[p].age)} IN
  /\ gone # {}
  /\ pr'       = [p \in PRs |-> IF p \in gone THEN NoPR ELSE pr[p]]
  /\ evidence' = [p \in PRs |-> IF p \in gone THEN 0 ELSE evidence[p]]
  /\ match'    = {m \in match : m.new \notin gone /\ m.old \notin gone}
  /\ UNCHANGED <<tomb, lastId, emb, graph, edges, analysis, comparison, history,
                 deleted>>

Older(age) == IF age > Retention THEN age ELSE age + 1

\* A day passes; a job sees at most one.
Tick ==
  /\ \A p \in PRs : ~analysis[p].late /\ ~comparison[p].late
  /\ pr'    = [p \in PRs |-> IF pr[p].rev = 0 THEN NoPR ELSE [pr[p] EXCEPT !.age = Older(@)]]
  /\ tomb'  = [p \in PRs |-> IF tomb[p].id = 0 THEN NoTomb
                                               ELSE [tomb[p] EXCEPT !.age = Older(@)]]
  /\ graph' = {[g EXCEPT !.age = Older(@)] : g \in graph}
  /\ edges' = {[e EXCEPT !.age = Older(@)] : e \in edges}
  /\ analysis'   = [p \in PRs |-> [analysis[p] EXCEPT !.late = analysis[p].stage # "none"]]
  /\ comparison' = [p \in PRs |-> [comparison[p] EXCEPT !.late = comparison[p].stage # "none"]]
  /\ UNCHANGED <<evidence, lastId, emb, match, history, deleted>>

-----------------------------------------------------------------------------
Analyse(p) ==
  \/ SaveAnalysis(p) \/ SaveEmbeddings(p) \/ UpsertDecisionRelations(p) \/ FailAnalysis(p)

CompareWithHistory(n) ==
  \/ SaveSnapshotOnly(n) \/ Compare(n) \/ ClearMatches(n)
  \/ \E o \in PRs : InsertMatch(n, o) \/ RelateMatch(n, o)
  \/ BeginRelating(n) \/ EndComparison(n) \/ FailComparison(n)

Next ==
  \/ \E p \in PRs :
       \/ BeginAnalysis(p) \/ Analyse(p)
       \/ BeginComparison(p) \/ CompareWithHistory(p)
       \/ \E active \in BOOLEAN : SetTombstoneState(p, active)
  \/ DeleteRepository
  \/ PruneRelations \/ PruneTombstones \/ PrunePullRequests
  \/ Tick

Spec == Init /\ [][Next]_vars

\* Days pass, jobs end somehow, and sweeps get through again and again.
Fairness ==
  /\ WF_vars(Tick)
  /\ \A p \in PRs : WF_vars(Analyse(p)) /\ WF_vars(CompareWithHistory(p))
  /\ WF_vars(PruneRelations) /\ WF_vars(PruneTombstones) /\ WF_vars(PrunePullRequests)

FairSpec == Spec /\ Fairness

-----------------------------------------------------------------------------
(* Properties *)

\* A Tombstone whose last job was successful is of one piece: its embeddings
\* and its relations, where they have not expired, are those of the analysis
\* it shows, although the three are saved one after the other and earlier
\* attempts may have ended between any two of them.
WholeWhenDone ==
  \A p \in PRs :
    analysed[p] = "ok" /\ analysis[p].stage = "none" /\ tomb[p].id # 0
      => /\ emb[p] = tomb[p].rev
         /\ \A g \in graph : g.id = tomb[p].id => g.rev = tomb[p].rev

\* A Tombstone that cites evidence which is not there has outlived it: its
\* state was changed after the analysis, or it has expired itself and waits for
\* the next sweep.  It never stands beside the evidence of another analysis.
EvidenceIsLostByAgeOnly ==
  \A p \in PRs :
    tomb[p].id # 0 /\ evidence[p] # tomb[p].rev
      => evidence[p] = 0 /\ (tomb[p].touched \/ TombExpired(p))

\* The matches of a pull request after a successful similarity job are those
\* that this job found: none is left over from an earlier revision or from an
\* attempt that ended in the middle.
MatchesOfLastComparison ==
  \A m \in match :
    compared[m.new] # 0 /\ comparison[m.new].stage = "none" => m.rev = compared[m.new]

\* Nothing of a deleted repository comes back, whatever jobs were at work on
\* it: each of their statements has a foreign key to hold it up.
NothingAfterDeletion ==
  deleted =>
    /\ \A p \in PRs : pr[p].rev = 0 /\ evidence[p] = 0 /\ tomb[p].id = 0 /\ emb[p] = 0
    /\ graph = {} /\ match = {} /\ edges = {}

\* Types, and the deletion that no job undoes.
IInv ==
  /\ TypeOK /\ NothingAfterDeletion
  /\ \A p \in PRs : analysis[p].stage = "embedded" => analysis[p].id # 0

\* Relations have no foreign key to their Tombstone and may outlive it, or be
\* written after it is gone, but not for good.
OrphansGo ==
  \A i \in 1..MaxId :
    (\E g \in graph : g.id = i /\ tomb[g.pr].id # i) ~> ~\E g \in graph : g.id = i
=============================================================================
