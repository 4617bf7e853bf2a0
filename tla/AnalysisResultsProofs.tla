------------------------- MODULE AnalysisResultsProofs -------------------------
(***************************************************************************)
(* For every number of pull requests, of attempts and of days: what the    *)
(* statements of the jobs, the sweeps and a deletion leave in the tables.  *)
(***************************************************************************)
EXTENDS AnalysisResults, TLAPS

\* Rows without content are rows.
LEMMA Nothings ==
  /\ NoPR \in PullRequests /\ NoTomb \in Tombstones
  /\ NoAnalysis \in Analyses /\ NoComparison \in Comparisons
<1>1. 0 \in Rev /\ 0 \in Age /\ 0 \in 0..MaxId
  BY BoundAssumption, RetentionAssumption DEF Rev, Age
<1>2. NoPR \in PullRequests
  BY <1>1 DEF NoPR, PullRequests
<1>3. NoTomb \in Tombstones
  BY <1>1 DEF NoTomb, Tombstones
<1>4. NoAnalysis \in Analyses
  BY <1>1 DEF NoAnalysis, Analyses, AnalysisStage
<1>5. NoComparison \in Comparisons
  BY <1>1 DEF NoComparison, Comparisons, ComparisonStage
<1> QED BY <1>2, <1>3, <1>4, <1>5

LEMMA InitIInv == Init => IInv
<1> SUFFICES ASSUME Init PROVE IInv
  OBVIOUS
<1>1. 0 \in Rev /\ 0 \in 0..MaxId /\ 0 \in 0..MaxAttempts
  BY BoundAssumption DEF Rev
<1>2. TypeOK
  BY <1>1, Nothings DEF Init, TypeOK, Verdicts
<1> QED BY <1>2 DEF Init, IInv, NothingAfterDeletion, NoAnalysis

\* What a row that is written holds.
LEMMA Fields ==
  ASSUME TypeOK, NEW p \in PRs
  PROVE  /\ tomb[p] \in Tombstones /\ tomb[p].id \in 0..MaxId
         /\ pr[p] \in PullRequests
         /\ analysis[p] \in Analyses /\ analysis[p].rev \in Rev /\ analysis[p].id \in 0..MaxId
         /\ comparison[p] \in Comparisons /\ comparison[p].rev \in Rev
         /\ comparison[p].found \in SUBSET PRs /\ comparison[p].todo \in SUBSET PRs
<1>1. /\ tomb[p] \in Tombstones /\ pr[p] \in PullRequests
      /\ analysis[p] \in Analyses /\ comparison[p] \in Comparisons
  BY DEF TypeOK
<1>2. tomb[p].id \in 0..MaxId
  BY <1>1 DEF Tombstones
<1>3. analysis[p].rev \in Rev /\ analysis[p].id \in 0..MaxId
  BY <1>1 DEF Analyses
<1>4. /\ comparison[p].rev \in Rev
      /\ comparison[p].found \in SUBSET PRs /\ comparison[p].todo \in SUBSET PRs
  BY <1>1 DEF Comparisons
<1> QED BY <1>1, <1>2, <1>3, <1>4

\* A row that is written with another stage is a row.
LEMMA Staged ==
  ASSUME TypeOK, NEW p \in PRs, NEW s \in AnalysisStage, NEW t \in ComparisonStage,
         NEW i \in 0..MaxId, NEW r \in Rev, NEW F \in SUBSET PRs
  PROVE  /\ [analysis[p] EXCEPT !.stage = s] \in Analyses
         /\ [[analysis[p] EXCEPT !.stage = s] EXCEPT !.id = i] \in Analyses
         /\ [NoAnalysis EXCEPT !.stage = s, !.rev = r] \in Analyses
         /\ [comparison[p] EXCEPT !.stage = t] \in Comparisons
         /\ [comparison[p] EXCEPT !.todo = F] \in Comparisons
         /\ [[comparison[p] EXCEPT !.stage = t] EXCEPT !.todo = F] \in Comparisons
         /\ [[comparison[p] EXCEPT !.stage = t] EXCEPT !.found = F] \in Comparisons
         /\ [NoComparison EXCEPT !.stage = t, !.rev = r] \in Comparisons
<1>1. analysis[p] \in Analyses /\ comparison[p] \in Comparisons
  BY Fields
<1>2. NoAnalysis \in Analyses /\ NoComparison \in Comparisons
  BY Nothings
<1>3. /\ [analysis[p] EXCEPT !.stage = s] \in Analyses
      /\ [[analysis[p] EXCEPT !.stage = s] EXCEPT !.id = i] \in Analyses
  BY <1>1 DEF Analyses
<1>4. [NoAnalysis EXCEPT !.stage = s, !.rev = r] \in Analyses
  BY <1>2 DEF Analyses
<1>5. /\ [comparison[p] EXCEPT !.stage = t] \in Comparisons
      /\ [comparison[p] EXCEPT !.todo = F] \in Comparisons
      /\ [[comparison[p] EXCEPT !.stage = t] EXCEPT !.todo = F] \in Comparisons
      /\ [[comparison[p] EXCEPT !.stage = t] EXCEPT !.found = F] \in Comparisons
  BY <1>1 DEF Comparisons
<1>6. [NoComparison EXCEPT !.stage = t, !.rev = r] \in Comparisons
  BY <1>2 DEF Comparisons
<1> QED BY <1>3, <1>4, <1>5, <1>6

LEMMA BeginSteps ==
  ASSUME IInv, NEW p \in PRs, BeginAnalysis(p) \/ BeginComparison(p)
  PROVE  IInv'
<1>1. attempts' \in 0..MaxAttempts /\ attempts + 1 \in Rev /\ attempts' = attempts + 1
  BY BoundAssumption DEF BeginAnalysis, BeginComparison, IInv, TypeOK, Rev
<1>2. UNCHANGED <<results, analysed, compared, deleted>>
  BY DEF BeginAnalysis, BeginComparison
<1>3. CASE BeginAnalysis(p)
  <2>1. /\ [NoAnalysis EXCEPT !.stage = "fetched", !.rev = attempts + 1] \in Analyses
        /\ analysis' = [analysis EXCEPT ![p] = [NoAnalysis EXCEPT !.stage = "fetched",
                                                                  !.rev = attempts + 1]]
        /\ comparison' = comparison
    <3>1. "fetched" \in AnalysisStage /\ "none" \in ComparisonStage /\ 0 \in 0..MaxId
      BY BoundAssumption DEF AnalysisStage, ComparisonStage
    <3> QED BY <1>1, <1>3, <3>1, Staged DEF BeginAnalysis, IInv
  <2> QED BY <1>1, <1>2, <2>1 DEF IInv, TypeOK, NothingAfterDeletion, results
<1>4. CASE BeginComparison(p)
  <2>1. /\ [NoComparison EXCEPT !.stage = "fetched", !.rev = attempts + 1] \in Comparisons
        /\ comparison' = [comparison EXCEPT ![p] = [NoComparison EXCEPT !.stage = "fetched",
                                                                        !.rev = attempts + 1]]
        /\ analysis' = analysis
    <3>1. "none" \in AnalysisStage /\ "fetched" \in ComparisonStage /\ 0 \in 0..MaxId
      BY BoundAssumption DEF AnalysisStage, ComparisonStage
    <3> QED BY <1>1, <1>4, <3>1, Staged DEF BeginComparison, IInv
  <2> QED BY <1>1, <1>2, <2>1 DEF IInv, TypeOK, NothingAfterDeletion, results
<1> QED BY <1>3, <1>4

LEMMA AnalyseStep ==
  ASSUME IInv, NEW p \in PRs, Analyse(p)
  PROVE  IInv'
<1> DEFINE a == analysis[p]
<1>1. TypeOK /\ a.rev \in Rev /\ a.id \in 0..MaxId /\ 0 \in Age
  BY Fields, RetentionAssumption DEF IInv, Age
<1>2. "none" \in ComparisonStage /\ {"saved", "embedded"} \subseteq AnalysisStage
  BY DEF ComparisonStage, AnalysisStage
<1>3. CASE SaveAnalysis(p)
  <2>1. [pr EXCEPT ![p] = [rev |-> a.rev, age |-> 0]] \in [PRs -> PullRequests]
    BY <1>1 DEF TypeOK, PullRequests
  <2>2. /\ lastId' \in 0..MaxId
        /\ tomb' \in [PRs -> Tombstones]
    <3>1. PICK i \in 0..MaxId, b \in BOOLEAN :
            /\ tomb' = [tomb EXCEPT ![p] = [id |-> i, rev |-> a.rev, active |-> b, age |-> 0,
                                            touched |-> FALSE]]
            /\ lastId' \in 0..MaxId
      <4>1. /\ tomb[p].id = 0 => lastId < MaxId
            /\ lastId' = IF tomb[p].id = 0 THEN lastId + 1 ELSE lastId
            /\ tomb' = [tomb EXCEPT ![p] = [id |-> IF tomb[p].id = 0 THEN lastId + 1 ELSE tomb[p].id,
                                            rev |-> a.rev,
                                            active |-> tomb[p].id = 0 \/ tomb[p].active,
                                            age |-> 0, touched |-> FALSE]]
        BY <1>1, <1>3 DEF SaveAnalysis, UpsertTombstone, TypeOK
      <4>2. lastId \in 0..MaxId /\ tomb[p].id \in 0..MaxId
        BY <1>1, Fields DEF TypeOK
      <4>3. CASE tomb[p].id = 0
        <5>1. lastId + 1 \in 0..MaxId /\ lastId' = lastId + 1
          BY <4>1, <4>2, <4>3, BoundAssumption
        <5>2. tomb' = [tomb EXCEPT ![p] = [id |-> lastId + 1, rev |-> a.rev, active |-> TRUE,
                                           age |-> 0, touched |-> FALSE]]
          BY <4>1, <4>3
        <5> QED BY <5>1, <5>2
      <4>4. CASE tomb[p].id # 0
        <5>1. tomb[p].active \in BOOLEAN
          BY <1>1, Fields DEF Tombstones
        <5> QED BY <4>1, <4>2, <4>4, <5>1
      <4> QED BY <4>3, <4>4
    <3>2. [id |-> i, rev |-> a.rev, active |-> b, age |-> 0, touched |-> FALSE] \in Tombstones
      BY <1>1 DEF Tombstones
    <3> QED BY <1>1, <3>1, <3>2 DEF TypeOK
  <2>3. [analysis[p] EXCEPT !.stage = "saved"] \in Analyses
    BY <1>1, <1>2, Staged
  <2>4. /\ ~deleted /\ UNCHANGED <<emb, graph, match, edges, comparison, history, deleted>>
        /\ evidence' = [evidence EXCEPT ![p] = a.rev]
        /\ pr' = [pr EXCEPT ![p] = [rev |-> a.rev, age |-> 0]]
        /\ analysis' = [analysis EXCEPT ![p].stage = "saved"]
    BY <1>3 DEF SaveAnalysis, RepositoryExists, ReplaceEvidence
  <2>5. \A q \in PRs : analysis'[q].stage = "embedded" => analysis'[q].id # 0
    BY <1>1, <2>4 DEF IInv, TypeOK
  <2> HIDE DEF a
  <2> QED BY <1>1, <2>1, <2>2, <2>3, <2>4, <2>5 DEF IInv, TypeOK, NothingAfterDeletion, history
<1>4. CASE SaveEmbeddings(p)
  <2>1. /\ tomb[p].id # 0 /\ emb' = [emb EXCEPT ![p] = a.rev]
        /\ analysis' = [analysis EXCEPT ![p] = [[analysis[p] EXCEPT !.stage = "embedded"]
                                                  EXCEPT !.id = tomb[p].id]]
        /\ UNCHANGED <<pr, evidence, tomb, lastId, graph, match, edges, comparison, history, deleted>>
    BY <1>1, <1>4 DEF SaveEmbeddings, UpsertEmbeddings, TypeOK
  <2>2. [[analysis[p] EXCEPT !.stage = "embedded"] EXCEPT !.id = tomb[p].id] \in Analyses
    BY <1>1, <1>2, Fields, Staged
  <2>3. ~deleted
    BY <2>1 DEF IInv, NothingAfterDeletion
  <2>4. \A q \in PRs : analysis'[q].stage = "embedded" => analysis'[q].id # 0
    BY <1>1, <2>1 DEF IInv, TypeOK, Analyses
  <2> HIDE DEF a
  <2> QED BY <1>1, <2>1, <2>2, <2>3, <2>4 DEF IInv, TypeOK, NothingAfterDeletion, history
<1>5. CASE UpsertDecisionRelations(p)
  <2>1. /\ ~deleted /\ a.stage = "embedded"
        /\ graph' = {g \in graph : g.id # a.id} \cup {[pr |-> p, id |-> a.id, rev |-> a.rev, age |-> 0]}
        /\ analysis' = [analysis EXCEPT ![p] = NoAnalysis]
        /\ analysed' = [analysed EXCEPT ![p] = "ok"]
        /\ UNCHANGED <<pr, evidence, tomb, lastId, emb, match, edges, comparison, compared, attempts, deleted>>
    BY <1>5 DEF UpsertDecisionRelations, RepositoryExists
  <2>2. [pr |-> p, id |-> a.id, rev |-> a.rev, age |-> 0] \in Relations
    <3>1. a.id \in 1..MaxId
      BY <1>1, <2>1, BoundAssumption DEF IInv
    <3> QED BY <1>1, <3>1 DEF Relations
  <2>3. graph' \in SUBSET Relations
    BY <1>1, <2>1, <2>2 DEF TypeOK
  <2>4. analysed' \in [PRs -> Verdicts] /\ analysis' \in [PRs -> Analyses]
    BY <1>1, <2>1, Nothings DEF TypeOK, Verdicts
  <2>5. \A q \in PRs : analysis'[q].stage = "embedded" => analysis'[q].id # 0
    BY <1>1, <2>1 DEF IInv, TypeOK, NoAnalysis
  <2> HIDE DEF a
  <2> QED BY <1>1, <2>1, <2>3, <2>4, <2>5 DEF IInv, TypeOK, NothingAfterDeletion
<1>6. CASE FailAnalysis(p)
  <2>1. /\ analysis' = [analysis EXCEPT ![p] = NoAnalysis]
        /\ analysed' = [analysed EXCEPT ![p] = "failed"]
        /\ UNCHANGED <<results, comparison, compared, attempts, deleted>>
    BY <1>6 DEF FailAnalysis
  <2>2. \A q \in PRs : analysis'[q].stage = "embedded" => analysis'[q].id # 0
    BY <1>1, <2>1 DEF IInv, TypeOK, NoAnalysis
  <2> QED BY <1>1, <2>1, <2>2, Nothings DEF IInv, TypeOK, NothingAfterDeletion, results, Verdicts
<1> QED BY <1>3, <1>4, <1>5, <1>6 DEF Analyse

LEMMA CompareStep ==
  ASSUME IInv, NEW n \in PRs, CompareWithHistory(n)
  PROVE  IInv'
<1> DEFINE c == comparison[n]
<1>1. TypeOK /\ c.rev \in Rev /\ c.found \in SUBSET PRs /\ c.todo \in SUBSET PRs /\ 0 \in Age
  BY Fields, RetentionAssumption DEF IInv, Age
<1>2. /\ {"stored", "compared", "inserting", "relating"} \subseteq ComparisonStage
      /\ "none" \in AnalysisStage /\ 0 \in 0..MaxId
  BY BoundAssumption DEF ComparisonStage, AnalysisStage
<1>3. CASE SaveSnapshotOnly(n)
  <2>1. [pr EXCEPT ![n] = [rev |-> c.rev, age |-> 0]] \in [PRs -> PullRequests]
    BY <1>1 DEF TypeOK, PullRequests
  <2>2. [comparison EXCEPT ![n] = [comparison[n] EXCEPT !.stage = "stored"]] \in [PRs -> Comparisons]
    BY <1>1, <1>2, Staged DEF TypeOK
  <2> QED BY <1>3, <2>1, <2>2 DEF SaveSnapshotOnly, RepositoryExists, IInv, TypeOK,
             NothingAfterDeletion, history
<1>4. CASE Compare(n)
  <2>1. PICK F \in SUBSET PRs :
          comparison' = [comparison EXCEPT ![n] = [[comparison[n] EXCEPT !.stage = "compared"]
                                                     EXCEPT !.found = F]]
    BY <1>1, <1>4 DEF Compare, TypeOK
  <2>2. comparison' \in [PRs -> Comparisons]
    BY <1>1, <1>2, <2>1, Staged DEF TypeOK
  <2> QED BY <1>4, <2>2 DEF Compare, IInv, TypeOK, NothingAfterDeletion, results, history
<1>5. CASE ClearMatches(n)
  <2>1. comparison' = [comparison EXCEPT ![n] = [[comparison[n] EXCEPT !.stage = "inserting"]
                                                   EXCEPT !.todo = c.found]]
    BY <1>1, <1>5 DEF ClearMatches, TypeOK
  <2>2. comparison' \in [PRs -> Comparisons]
    BY <1>1, <1>2, <2>1, Staged DEF TypeOK
  <2> QED BY <1>5, <2>2 DEF ClearMatches, DeleteMatches, IInv, TypeOK, NothingAfterDeletion, history
<1>6. ASSUME NEW o \in PRs, InsertMatch(n, o) \/ RelateMatch(n, o) PROVE IInv'
  <2>1. comparison' = [comparison EXCEPT ![n] = [comparison[n] EXCEPT !.todo = c.todo \ {o}]]
    BY <1>6 DEF InsertMatch, RelateMatch
  <2>2. comparison' \in [PRs -> Comparisons]
    BY <1>1, <1>2, <2>1, Staged DEF TypeOK
  <2>3. CASE InsertMatch(n, o)
    <3>1. [new |-> n, old |-> o, rev |-> c.rev] \in Matches
      BY <1>1 DEF Matches
    <3>2. ~deleted
      BY <2>3 DEF InsertMatch, IInv, NothingAfterDeletion
    <3> QED BY <2>2, <2>3, <3>1, <3>2 DEF InsertMatch, IInv, TypeOK, NothingAfterDeletion, history
  <2>4. CASE RelateMatch(n, o)
    <3>1. [new |-> n, old |-> o, age |-> 0] \in Edges
      BY <1>1 DEF Edges
    <3> QED BY <2>2, <2>4, <3>1 DEF RelateMatch, RepositoryExists, IInv, TypeOK,
               NothingAfterDeletion, history
  <2> QED BY <1>6, <2>3, <2>4
<1>7. CASE BeginRelating(n)
  <2>1. comparison' = [comparison EXCEPT ![n] = [[comparison[n] EXCEPT !.stage = "relating"]
                                                   EXCEPT !.todo = c.found]]
    BY <1>1, <1>7 DEF BeginRelating, TypeOK
  <2>2. comparison' \in [PRs -> Comparisons]
    BY <1>1, <1>2, <2>1, Staged DEF TypeOK
  <2> QED BY <1>7, <2>2 DEF BeginRelating, IInv, TypeOK, NothingAfterDeletion, results, history
<1>8. CASE EndComparison(n) \/ FailComparison(n)
  <2>1. 0 \in Rev
    BY BoundAssumption DEF Rev
  <2> QED BY <1>1, <1>8, <2>1, Nothings DEF EndComparison, FailComparison, IInv, TypeOK,
             NothingAfterDeletion, results
<1> QED BY <1>3, <1>4, <1>5, <1>6, <1>7, <1>8 DEF CompareWithHistory

LEMMA SetStateStep ==
  ASSUME IInv, NEW p \in PRs, NEW active \in BOOLEAN, SetTombstoneState(p, active)
  PROVE  IInv'
<1>1. tomb[p] \in Tombstones /\ 0 \in Age /\ tomb[p].id # 0
  BY Fields, RetentionAssumption DEF IInv, SetTombstoneState, Age
<1>2. tomb' = [tomb EXCEPT ![p] = [tomb[p] EXCEPT !.active = active, !.age = 0, !.touched = TRUE]]
  BY DEF SetTombstoneState, IInv, TypeOK
<1>3. [tomb[p] EXCEPT !.active = active, !.age = 0, !.touched = TRUE] \in Tombstones
  BY <1>1 DEF Tombstones
<1>4. ~deleted
  BY <1>1 DEF IInv, NothingAfterDeletion
<1> QED BY <1>2, <1>3, <1>4 DEF SetTombstoneState, IInv, TypeOK, NothingAfterDeletion, history

LEMMA SweepSteps ==
  ASSUME IInv, DeleteRepository \/ PruneRelations \/ PruneTombstones \/ PrunePullRequests
  PROVE  IInv'
<1>1. 0 \in Rev /\ TypeOK
  BY BoundAssumption DEF Rev, IInv
<1>2. CASE DeleteRepository
  BY <1>1, <1>2, Nothings DEF DeleteRepository, IInv, TypeOK, NothingAfterDeletion, history, NoPR, NoTomb
<1>3. CASE PruneRelations
  BY <1>1, <1>3 DEF PruneRelations, IInv, TypeOK, NothingAfterDeletion, history
<1>4. CASE PruneTombstones
  <2>1. tomb' \in [PRs -> Tombstones] /\ emb' \in [PRs -> Rev]
    BY <1>1, <1>4, Nothings DEF PruneTombstones, TypeOK
  <2>2. \A p \in PRs : tomb[p].id = 0 /\ emb[p] = 0 => tomb'[p].id = 0 /\ emb'[p] = 0
    BY <1>4 DEF PruneTombstones, NoTomb
  <2> QED BY <1>1, <1>4, <2>1, <2>2 DEF PruneTombstones, IInv, TypeOK, NothingAfterDeletion, history
<1>5. CASE PrunePullRequests
  <2>1. pr' \in [PRs -> PullRequests] /\ evidence' \in [PRs -> Rev]
    BY <1>1, <1>5, Nothings DEF PrunePullRequests, TypeOK
  <2>2. \A p \in PRs : pr[p].rev = 0 /\ evidence[p] = 0 => pr'[p].rev = 0 /\ evidence'[p] = 0
    BY <1>5 DEF PrunePullRequests, NoPR
  <2> QED BY <1>1, <1>5, <2>1, <2>2 DEF PrunePullRequests, IInv, TypeOK, NothingAfterDeletion, history
<1> QED BY <1>2, <1>3, <1>4, <1>5

LEMMA OlderAge == ASSUME NEW age \in Age PROVE Older(age) \in Age /\ (Expired(age) => Older(age) = age)
BY RetentionAssumption DEF Age, Older, Expired

LEMMA TickStep == ASSUME IInv, Tick PROVE IInv'
<1>1. pr' \in [PRs -> PullRequests] /\ \A p \in PRs : pr[p].rev = 0 => pr'[p].rev = 0
  <2>1. ASSUME NEW p \in PRs PROVE [pr[p] EXCEPT !.age = Older(@)] \in PullRequests
    BY OlderAge DEF IInv, TypeOK, PullRequests
  <2> QED BY <2>1, Nothings DEF Tick, NoPR
<1>2. tomb' \in [PRs -> Tombstones] /\ \A p \in PRs : tomb[p].id = 0 => tomb'[p].id = 0
  <2>1. ASSUME NEW p \in PRs PROVE [tomb[p] EXCEPT !.age = Older(@)] \in Tombstones
    BY OlderAge DEF IInv, TypeOK, Tombstones
  <2> QED BY <2>1, Nothings DEF Tick, NoTomb
<1>3. graph' \in SUBSET Relations /\ edges' \in SUBSET Edges
  <2>1. ASSUME NEW g \in graph PROVE [g EXCEPT !.age = Older(@)] \in Relations
    BY OlderAge DEF IInv, TypeOK, Relations
  <2>2. ASSUME NEW e \in edges PROVE [e EXCEPT !.age = Older(@)] \in Edges
    BY OlderAge DEF IInv, TypeOK, Edges
  <2> QED BY <2>1, <2>2 DEF Tick
<1>4. /\ analysis' \in [PRs -> Analyses]
      /\ \A p \in PRs : analysis'[p].stage = analysis[p].stage /\ analysis'[p].id = analysis[p].id
  <2>1. ASSUME NEW p \in PRs
        PROVE  /\ [analysis[p] EXCEPT !.late = analysis[p].stage # "none"] \in Analyses
               /\ [analysis[p] EXCEPT !.late = analysis[p].stage # "none"].stage = analysis[p].stage
               /\ [analysis[p] EXCEPT !.late = analysis[p].stage # "none"].id = analysis[p].id
    BY DEF IInv, TypeOK, Analyses
  <2> QED BY <2>1 DEF Tick
<1>5. comparison' \in [PRs -> Comparisons]
  <2>1. ASSUME NEW p \in PRs
        PROVE  [comparison[p] EXCEPT !.late = comparison[p].stage # "none"] \in Comparisons
    <3>1. \A b \in BOOLEAN, c \in Comparisons : [c EXCEPT !.late = b] \in Comparisons
      BY DEF Comparisons
    <3>2. comparison[p] \in Comparisons /\ (comparison[p].stage # "none") \in BOOLEAN
      BY Fields DEF IInv
    <3> QED BY <3>1, <3>2
  <2> QED BY <2>1 DEF Tick
<1>6. UNCHANGED <<evidence, lastId, emb, match, history, deleted>>
  BY DEF Tick
<1>7. (graph = {} => graph' = {}) /\ (edges = {} => edges' = {})
  BY DEF Tick
<1>8. TypeOK'
  BY <1>1, <1>2, <1>3, <1>4, <1>5, <1>6 DEF IInv, TypeOK, history
<1>9. NothingAfterDeletion'
  BY <1>1, <1>2, <1>6, <1>7 DEF IInv, NothingAfterDeletion
<1> QED BY <1>4, <1>8, <1>9 DEF IInv

LEMMA NextIInv == IInv /\ [Next]_vars => IInv'
<1> SUFFICES ASSUME IInv, [Next]_vars PROVE IInv'
  OBVIOUS
<1>1. ASSUME NEW p \in PRs, BeginAnalysis(p) \/ BeginComparison(p) PROVE IInv'
  BY <1>1, BeginSteps
<1>2. ASSUME NEW p \in PRs, Analyse(p) PROVE IInv'
  BY <1>2, AnalyseStep
<1>3. ASSUME NEW p \in PRs, CompareWithHistory(p) PROVE IInv'
  BY <1>3, CompareStep
<1>4. ASSUME NEW p \in PRs, NEW active \in BOOLEAN, SetTombstoneState(p, active) PROVE IInv'
  BY <1>4, SetStateStep
<1>5. CASE DeleteRepository \/ PruneRelations \/ PruneTombstones \/ PrunePullRequests
  BY <1>5, SweepSteps
<1>6. CASE Tick
  BY <1>6, TickStep
<1>7. CASE UNCHANGED vars
  BY <1>7 DEF vars, results, history, IInv, TypeOK, NothingAfterDeletion
<1> QED BY <1>1, <1>2, <1>3, <1>4, <1>5, <1>6, <1>7 DEF Next

\* The tables keep their types, and a deleted repository stays empty, whatever
\* jobs of it were at work when it was deleted.
THEOREM ResultsInvariance == Spec => []IInv
<1> QED BY InitIInv, NextIInv, PTL DEF Spec

-----------------------------------------------------------------------------
(* The evidence of a Tombstone goes by age only. *)

\* A Tombstone that was not touched since its analysis is as old as the row
\* its evidence hangs on, or older; so it has expired when the row has.
EvidenceAges ==
  \A p \in PRs :
    tomb[p].id # 0 =>
      /\ evidence[p] \in {0, tomb[p].rev}
      /\ evidence[p] = 0 => tomb[p].touched \/ TombExpired(p)
      /\ ~tomb[p].touched /\ pr[p].rev # 0 => pr[p].age <= tomb[p].age

\* Attempts count from one, and a row that is not there has no age.
Revised ==
  \A p \in PRs :
    /\ analysis[p].stage # "none" => analysis[p].rev # 0
    /\ comparison[p].stage # "none" => comparison[p].rev # 0
    /\ pr[p].rev = 0 => pr[p].age = 0

\* A job works on a row of its own.
LEMMA OthersAnalyse ==
  ASSUME IInv, NEW p \in PRs, NEW q \in PRs, p # q, BeginAnalysis(q) \/ Analyse(q)
  PROVE  /\ analysis'[p] = analysis[p] /\ comparison' = comparison
         /\ tomb'[p] = tomb[p] /\ evidence'[p] = evidence[p] /\ pr'[p] = pr[p] /\ emb'[p] = emb[p]
         /\ analysed'[p] = analysed[p] /\ compared' = compared
<1>1. /\ DOMAIN analysis = PRs /\ DOMAIN tomb = PRs /\ DOMAIN evidence = PRs /\ DOMAIN pr = PRs
      /\ DOMAIN emb = PRs /\ DOMAIN analysed = PRs
  BY DEF IInv, TypeOK
<1>2. CASE BeginAnalysis(q)
  BY <1>1, <1>2 DEF BeginAnalysis, results
<1>3. CASE SaveAnalysis(q)
  BY <1>1, <1>3 DEF SaveAnalysis, ReplaceEvidence, UpsertTombstone, history
<1>4. CASE SaveEmbeddings(q)
  BY <1>1, <1>4 DEF SaveEmbeddings, UpsertEmbeddings, history
<1>5. CASE UpsertDecisionRelations(q)
  BY <1>1, <1>5 DEF UpsertDecisionRelations
<1>6. CASE FailAnalysis(q)
  BY <1>1, <1>6 DEF FailAnalysis, results
<1> QED BY <1>2, <1>3, <1>4, <1>5, <1>6 DEF Analyse

LEMMA OthersCompare ==
  ASSUME IInv, NEW p \in PRs, NEW q \in PRs, p # q, BeginComparison(q) \/ CompareWithHistory(q)
  PROVE  comparison'[p] = comparison[p] /\ compared'[p] = compared[p]
<1>1. DOMAIN comparison = PRs /\ DOMAIN compared = PRs
  BY DEF IInv, TypeOK
<1> QED BY <1>1 DEF BeginComparison, CompareWithHistory, SaveSnapshotOnly, Compare, ClearMatches,
           InsertMatch, RelateMatch, BeginRelating, EndComparison, FailComparison, history

\* The revision an attempt works on is its own number.
LEMMA AnalysisRevision ==
  ASSUME IInv, NEW p \in PRs, BeginAnalysis(p) \/ Analyse(p)
  PROVE  \/ analysis'[p] = NoAnalysis
         \/ analysis'[p].stage # "none" /\ analysis'[p].rev = attempts + 1
         \/ analysis[p].stage # "none" /\ analysis'[p].rev = analysis[p].rev
<1>1. DOMAIN analysis = PRs /\ analysis[p] \in Analyses
  BY Fields DEF IInv, TypeOK
<1>2. CASE BeginAnalysis(p)
  BY <1>1, <1>2 DEF BeginAnalysis, NoAnalysis
<1>3. CASE SaveAnalysis(p)
  BY <1>1, <1>3 DEF SaveAnalysis, Analyses
<1>4. CASE SaveEmbeddings(p)
  <2>1. analysis'[p] = [[analysis[p] EXCEPT !.stage = "embedded"] EXCEPT !.id = tomb[p].id]
    BY <1>1, <1>4 DEF SaveEmbeddings
  <2> QED BY <1>1, <1>4, <2>1 DEF SaveEmbeddings, Analyses
<1>5. CASE UpsertDecisionRelations(p) \/ FailAnalysis(p)
  BY <1>1, <1>5 DEF UpsertDecisionRelations, FailAnalysis
<1> QED BY <1>2, <1>3, <1>4, <1>5 DEF Analyse

LEMMA ComparisonRevision ==
  ASSUME IInv, NEW p \in PRs, BeginComparison(p) \/ CompareWithHistory(p)
  PROVE  \/ comparison'[p] = NoComparison
         \/ comparison'[p].stage # "none" /\ comparison'[p].rev = attempts + 1
         \/ comparison[p].stage # "none" /\ comparison'[p].rev = comparison[p].rev
<1>1. DOMAIN comparison = PRs /\ comparison[p] \in Comparisons
  BY Fields DEF IInv, TypeOK
<1>2. CASE BeginComparison(p)
  BY <1>1, <1>2 DEF BeginComparison, NoComparison
<1>3. CASE SaveSnapshotOnly(p)
  BY <1>1, <1>3 DEF SaveSnapshotOnly, Comparisons
<1>4. CASE Compare(p)
  <2>1. PICK F \in SUBSET PRs :
          comparison'[p] = [[comparison[p] EXCEPT !.stage = "compared"] EXCEPT !.found = F]
    BY <1>1, <1>4 DEF Compare
  <2> QED BY <1>1, <1>4, <2>1 DEF Compare, Comparisons
<1>5. CASE ClearMatches(p) \/ BeginRelating(p)
  <2>1. PICK t \in {"inserting", "relating"} :
          comparison'[p] = [[comparison[p] EXCEPT !.stage = t] EXCEPT !.todo = comparison[p].found]
    BY <1>1, <1>5 DEF ClearMatches, BeginRelating
  <2> QED BY <1>1, <1>5, <2>1 DEF ClearMatches, BeginRelating, Comparisons
<1>6. ASSUME NEW o \in PRs, InsertMatch(p, o) \/ RelateMatch(p, o)
      PROVE  comparison[p].stage # "none" /\ comparison'[p].rev = comparison[p].rev
  <2>1. comparison'[p] = [comparison[p] EXCEPT !.todo = comparison[p].todo \ {o}]
    BY <1>1, <1>6 DEF InsertMatch, RelateMatch
  <2> QED BY <1>1, <1>6, <2>1 DEF InsertMatch, RelateMatch, Comparisons
<1>7. CASE EndComparison(p) \/ FailComparison(p)
  BY <1>1, <1>7 DEF EndComparison, FailComparison
<1> QED BY <1>2, <1>3, <1>4, <1>5, <1>6, <1>7 DEF CompareWithHistory

LEMMA RevisedStep == ASSUME IInv, Revised, [Next]_vars PROVE Revised'
<1> SUFFICES ASSUME NEW p \in PRs
             PROVE  /\ analysis'[p].stage # "none" => analysis'[p].rev # 0
                    /\ comparison'[p].stage # "none" => comparison'[p].rev # 0
                    /\ pr'[p].rev = 0 => pr'[p].age = 0
  BY DEF Revised
<1>1. /\ analysis[p].stage # "none" => analysis[p].rev # 0
      /\ comparison[p].stage # "none" => comparison[p].rev # 0
      /\ pr[p].rev = 0 => pr[p].age = 0
      /\ attempts \in Nat
      /\ DOMAIN analysis = PRs /\ DOMAIN comparison = PRs /\ DOMAIN pr = PRs
  BY BoundAssumption DEF Revised, IInv, TypeOK
<1>2. \/ analysis'[p] = analysis[p] \/ analysis'[p] = NoAnalysis
      \/ analysis'[p].stage # "none" /\ analysis'[p].rev = attempts + 1
      \/ analysis[p].stage # "none" /\ analysis'[p].rev = analysis[p].rev
      \/ analysis'[p].stage = analysis[p].stage /\ analysis'[p].rev = analysis[p].rev
  <2>1. ASSUME NEW q \in PRs, BeginAnalysis(q) \/ Analyse(q)
        PROVE  \/ analysis'[p] = analysis[p] \/ analysis'[p] = NoAnalysis
               \/ analysis'[p].stage # "none" /\ analysis'[p].rev = attempts + 1
               \/ analysis[p].stage # "none" /\ analysis'[p].rev = analysis[p].rev
    BY <2>1, OthersAnalyse, AnalysisRevision
  <2>2. CASE Tick
    <3>1. analysis'[p].stage = analysis[p].stage /\ analysis'[p].rev = analysis[p].rev
      BY <2>2, Fields DEF Tick, IInv, Analyses
    <3> QED BY <3>1
  <2>3. CASE UNCHANGED analysis
    BY <2>3
  <2> QED BY <2>1, <2>2, <2>3, ZenonT(60) DEF Next, vars, BeginComparison, CompareWithHistory, SaveSnapshotOnly,
        Compare, ClearMatches, InsertMatch, RelateMatch, BeginRelating, EndComparison, FailComparison,
        SetTombstoneState, DeleteRepository, PruneRelations, PruneTombstones, PrunePullRequests
<1>3. \/ comparison'[p] = comparison[p] \/ comparison'[p] = NoComparison
      \/ comparison'[p].stage # "none" /\ comparison'[p].rev = attempts + 1
      \/ comparison[p].stage # "none" /\ comparison'[p].rev = comparison[p].rev
      \/ comparison'[p].stage = comparison[p].stage /\ comparison'[p].rev = comparison[p].rev
  <2>1. ASSUME NEW q \in PRs, BeginComparison(q) \/ CompareWithHistory(q)
        PROVE  \/ comparison'[p] = comparison[p] \/ comparison'[p] = NoComparison
               \/ comparison'[p].stage # "none" /\ comparison'[p].rev = attempts + 1
               \/ comparison[p].stage # "none" /\ comparison'[p].rev = comparison[p].rev
    BY <2>1, OthersCompare, ComparisonRevision
  <2>2. CASE Tick
    <3>1. comparison'[p].stage = comparison[p].stage /\ comparison'[p].rev = comparison[p].rev
      BY <2>2, Fields DEF Tick, IInv, Comparisons
    <3> QED BY <3>1
  <2>3. CASE UNCHANGED comparison
    BY <2>3
  <2> QED BY <2>1, <2>2, <2>3 DEF Next, vars, BeginAnalysis, Analyse, SaveAnalysis, SaveEmbeddings,
        UpsertDecisionRelations, FailAnalysis,
        SetTombstoneState, DeleteRepository, PruneRelations, PruneTombstones, PrunePullRequests
<1>4. \/ pr'[p] = pr[p] \/ pr'[p] = NoPR \/ pr'[p].age = 0 \/ pr'[p].rev # 0
  <2>1. CASE Tick
    <3>1. pr'[p] = NoPR \/ pr'[p].rev # 0
      BY <2>1, Fields DEF Tick, IInv, PullRequests
    <3> QED BY <3>1
  <2>2. CASE UNCHANGED pr
    BY <2>2
  <2>3. CASE DeleteRepository \/ PrunePullRequests
    BY <2>3 DEF DeleteRepository, PrunePullRequests
  <2>4. ASSUME NEW q \in PRs, SaveAnalysis(q) \/ SaveSnapshotOnly(q)
        PROVE  pr'[p] = pr[p] \/ pr'[p].age = 0
    BY <1>1, <2>4 DEF SaveAnalysis, SaveSnapshotOnly
  <2> QED BY <2>1, <2>2, <2>3, <2>4, ZenonT(60) DEF Next, vars, results, BeginAnalysis, Analyse, SaveEmbeddings,
        UpsertDecisionRelations, FailAnalysis, BeginComparison, CompareWithHistory,
        Compare, ClearMatches, InsertMatch, RelateMatch, BeginRelating, EndComparison, FailComparison,
        SetTombstoneState, PruneRelations, PruneTombstones
<1> QED BY <1>1, <1>2, <1>3, <1>4 DEF NoAnalysis, NoComparison, NoPR

LEMMA InitRevised == Init => Revised
<1> SUFFICES ASSUME Init PROVE Revised
  OBVIOUS
<1>1. ASSUME NEW p \in PRs
      PROVE  analysis[p].stage = "none" /\ comparison[p].stage = "none" /\ pr[p].age = 0
  BY DEF Init, NoAnalysis, NoComparison, NoPR
<1> QED BY <1>1 DEF Revised

LEMMA Ages ==
  ASSUME IInv, NEW p \in PRs
  PROVE  /\ pr[p].age \in Nat /\ tomb[p].age \in Nat /\ Retention \in Nat
         /\ Older(tomb[p].age) \in Nat /\ Older(pr[p].age) \in Nat
         /\ pr[p].age <= tomb[p].age => Older(pr[p].age) <= Older(tomb[p].age)
         /\ Expired(tomb[p].age) => Expired(Older(tomb[p].age))
<1>1. pr[p].age \in Age /\ tomb[p].age \in Age
  BY Fields DEF IInv, PullRequests, Tombstones
<1> QED BY <1>1, RetentionAssumption DEF Age, Older, Expired

LEMMA EvidenceAgesStep == ASSUME IInv, Revised, EvidenceAges, [Next]_vars PROVE EvidenceAges'
<1> SUFFICES ASSUME NEW p \in PRs, tomb'[p].id # 0
             PROVE  /\ evidence'[p] \in {0, tomb'[p].rev}
                    /\ evidence'[p] = 0 => tomb'[p].touched \/ Expired(tomb'[p].age)
                    /\ ~tomb'[p].touched /\ pr'[p].rev # 0 => pr'[p].age <= tomb'[p].age
  BY DEF EvidenceAges, TombExpired
<1>1. DOMAIN pr = PRs /\ DOMAIN tomb = PRs /\ DOMAIN evidence = PRs
  BY DEF IInv, TypeOK
<1>2. tomb[p].id # 0 =>
        /\ evidence[p] \in {0, tomb[p].rev}
        /\ evidence[p] = 0 => tomb[p].touched \/ Expired(tomb[p].age)
        /\ ~tomb[p].touched /\ pr[p].rev # 0 => pr[p].age <= tomb[p].age
  BY DEF EvidenceAges, TombExpired
<1>3. CASE UNCHANGED <<pr, evidence, tomb>>
  BY <1>2, <1>3
<1>4. ASSUME NEW q \in PRs, SaveAnalysis(q)
      PROVE  /\ evidence'[p] \in {0, tomb'[p].rev}
             /\ evidence'[p] = 0 => tomb'[p].touched \/ Expired(tomb'[p].age)
             /\ ~tomb'[p].touched /\ pr'[p].rev # 0 => pr'[p].age <= tomb'[p].age
  <2>1. CASE q = p
    <3>1. /\ tomb'[p].rev = analysis[p].rev /\ tomb'[p].age = 0 /\ ~tomb'[p].touched
          /\ evidence'[p] = analysis[p].rev /\ pr'[p].age = 0
      BY <1>1, <1>4, <2>1 DEF SaveAnalysis, UpsertTombstone, ReplaceEvidence
    <3>2. analysis[p].rev # 0
      BY <1>4, <2>1 DEF SaveAnalysis, Revised
    <3> QED BY <3>1, <3>2
  <2>2. CASE q # p
    BY <1>2, <1>4, <2>2, OthersAnalyse DEF Analyse
  <2> QED BY <2>1, <2>2
<1>5. ASSUME NEW n \in PRs, SaveSnapshotOnly(n)
      PROVE  /\ evidence'[p] \in {0, tomb'[p].rev}
             /\ evidence'[p] = 0 => tomb'[p].touched \/ Expired(tomb'[p].age)
             /\ ~tomb'[p].touched /\ pr'[p].rev # 0 => pr'[p].age <= tomb'[p].age
  <2>1. tomb' = tomb /\ evidence' = evidence /\ (pr'[p] = pr[p] \/ pr'[p].age = 0)
    BY <1>1, <1>5 DEF SaveSnapshotOnly
  <2> QED BY <1>2, <2>1, Ages
<1>6. ASSUME NEW q \in PRs, NEW active \in BOOLEAN, SetTombstoneState(q, active)
      PROVE  /\ evidence'[p] \in {0, tomb'[p].rev}
             /\ evidence'[p] = 0 => tomb'[p].touched \/ Expired(tomb'[p].age)
             /\ ~tomb'[p].touched /\ pr'[p].rev # 0 => pr'[p].age <= tomb'[p].age
  <2>1. pr' = pr /\ evidence' = evidence
    BY <1>6 DEF SetTombstoneState
  <2>2. CASE q = p
    <3>1. tomb'[p] = [tomb[p] EXCEPT !.active = active, !.age = 0, !.touched = TRUE]
      BY <1>1, <1>6, <2>2 DEF SetTombstoneState
    <3>2. tomb[p].id # 0
      BY <1>6, <2>2 DEF SetTombstoneState
    <3>3. tomb'[p].touched /\ tomb'[p].rev = tomb[p].rev
      BY <3>1, Fields DEF IInv, Tombstones
    <3> QED BY <1>2, <2>1, <3>2, <3>3
  <2>3. CASE q # p
    <3>1. tomb'[p] = tomb[p]
      BY <1>1, <1>6, <2>3 DEF SetTombstoneState
    <3> QED BY <1>2, <2>1, <3>1
  <2> QED BY <2>2, <2>3
<1>7. CASE DeleteRepository
  BY <1>7 DEF DeleteRepository, NoTomb
<1>8. CASE PruneTombstones
  <2>1. tomb'[p] = tomb[p] /\ pr' = pr /\ evidence' = evidence
    BY <1>8 DEF PruneTombstones, NoTomb
  <2> QED BY <1>2, <2>1
<1>9. CASE PrunePullRequests
  <2>1. tomb' = tomb
    BY <1>9 DEF PrunePullRequests
  <2>2. CASE Expired(pr[p].age)
    <3>1. pr'[p].rev = 0 /\ evidence'[p] = 0
      BY <1>9, <2>2 DEF PrunePullRequests, NoPR
    <3>2. pr[p].rev # 0
      BY <2>2, RetentionAssumption DEF Revised, Expired
    <3>3. ~tomb[p].touched => Expired(tomb[p].age)
      BY <1>2, <2>1, <2>2, <3>2, Ages DEF Expired
    <3> QED BY <2>1, <3>1, <3>3
  <2>3. CASE ~Expired(pr[p].age)
    <3>1. pr'[p] = pr[p] /\ evidence'[p] = evidence[p]
      BY <1>9, <2>3 DEF PrunePullRequests
    <3> QED BY <1>2, <2>1, <3>1
  <2> QED BY <2>2, <2>3
<1>10. CASE Tick
  <2>1. evidence' = evidence
    BY <1>10 DEF Tick
  <2>2. tomb[p].id # 0 /\ tomb'[p] = [tomb[p] EXCEPT !.age = Older(@)]
    BY <1>10 DEF Tick, NoTomb
  <2>3. tomb'[p].rev = tomb[p].rev /\ tomb'[p].touched = tomb[p].touched /\ tomb'[p].age = Older(tomb[p].age)
    BY <2>2, Fields DEF IInv, Tombstones
  <2>4. CASE pr[p].rev = 0
    <3>1. pr'[p].rev = 0
      BY <1>10, <2>4 DEF Tick, NoPR
    <3> QED BY <1>2, <2>1, <2>2, <2>3, <3>1, Ages
  <2>5. CASE pr[p].rev # 0
    <3>1. pr'[p] = [pr[p] EXCEPT !.age = Older(@)]
      BY <1>10, <2>5 DEF Tick
    <3>2. pr'[p].age = Older(pr[p].age)
      BY <3>1, Fields DEF IInv, PullRequests
    <3> QED BY <1>2, <2>1, <2>2, <2>3, <2>5, <3>2, Ages
  <2> QED BY <2>4, <2>5
<1> QED
  BY <1>3, <1>4, <1>5, <1>6, <1>7, <1>8, <1>9, <1>10, ZenonT(60)
  DEF Next, vars, results, BeginAnalysis, Analyse, SaveEmbeddings, UpsertDecisionRelations, FailAnalysis,
      BeginComparison, CompareWithHistory, Compare, ClearMatches, InsertMatch, RelateMatch,
      BeginRelating, EndComparison, FailComparison, PruneRelations

\* A Tombstone never stands beside the evidence of another analysis, and
\* beside none only when it was touched or has expired.
THEOREM EvidenceByAge == Spec => []EvidenceIsLostByAgeOnly
<1>1. Init => EvidenceAges
  BY DEF Init, EvidenceAges, NoTomb
<1>2. IInv /\ Revised /\ [Next]_vars => Revised'
  BY RevisedStep
<1>3. IInv /\ Revised /\ EvidenceAges /\ [Next]_vars => EvidenceAges'
  BY EvidenceAgesStep
<1>4. EvidenceAges => EvidenceIsLostByAgeOnly
  BY DEF EvidenceAges, EvidenceIsLostByAgeOnly
<1> QED BY InitIInv, NextIInv, InitRevised, <1>1, <1>2, <1>3, <1>4, PTL DEF Spec

-----------------------------------------------------------------------------
(* The matches of a pull request are of one comparison. *)

\* From the DELETE to the end of the attempt, what is there was inserted by it.
MatchesOfOne(n) ==
  /\ compared[n] # 0 /\ comparison[n].stage = "none" =>
       \A m \in match : m.new = n => m.rev = compared[n]
  /\ comparison[n].stage \in {"inserting", "relating"} =>
       \A m \in match : m.new = n => m.rev = comparison[n].rev

AllMatchesOfOne == \A n \in PRs : MatchesOfOne(n)

\* Neither a step of others, nor one of the sweeps, adds a match of n.
LEMMA MatchesKept ==
  ASSUME NEW n \in PRs, MatchesOfOne(n),
         \A m \in match' : m.new = n => m \in match,
         compared'[n] = compared[n],
         comparison'[n].stage = comparison[n].stage, comparison'[n].rev = comparison[n].rev
  PROVE  MatchesOfOne(n)'
BY DEF MatchesOfOne

LEMMA OwnMatches ==
  ASSUME IInv, NEW n \in PRs, MatchesOfOne(n), BeginComparison(n) \/ CompareWithHistory(n)
  PROVE  MatchesOfOne(n)'
<1>1. /\ DOMAIN comparison = PRs /\ DOMAIN compared = PRs /\ comparison[n] \in Comparisons
  BY Fields DEF IInv, TypeOK
<1>2. CASE BeginComparison(n)
  BY <1>1, <1>2 DEF BeginComparison, NoComparison, MatchesOfOne
<1>3. CASE SaveSnapshotOnly(n)
  <2>1. comparison'[n].stage = "stored"
    BY <1>1, <1>3 DEF SaveSnapshotOnly, Comparisons
  <2> QED BY <2>1 DEF MatchesOfOne
<1>4. CASE Compare(n)
  <2>1. PICK F \in SUBSET PRs :
          comparison'[n] = [[comparison[n] EXCEPT !.stage = "compared"] EXCEPT !.found = F]
    BY <1>1, <1>4 DEF Compare
  <2>2. comparison'[n].stage = "compared"
    BY <1>1, <2>1 DEF Comparisons
  <2> QED BY <2>2 DEF MatchesOfOne
<1>5. CASE ClearMatches(n)
  <2>1. comparison'[n] = [[comparison[n] EXCEPT !.stage = "inserting"] EXCEPT !.todo = comparison[n].found]
    BY <1>1, <1>5 DEF ClearMatches
  <2>2. comparison'[n].stage = "inserting"
    BY <1>1, <2>1 DEF Comparisons
  <2>3. \A m \in match' : m.new # n
    BY <1>5 DEF ClearMatches, DeleteMatches
  <2> QED BY <2>2, <2>3 DEF MatchesOfOne
<1>6. ASSUME NEW o \in PRs, InsertMatch(n, o) \/ RelateMatch(n, o) PROVE MatchesOfOne(n)'
  <2>1. comparison'[n] = [comparison[n] EXCEPT !.todo = comparison[n].todo \ {o}]
    BY <1>1, <1>6 DEF InsertMatch, RelateMatch
  <2>2. /\ comparison'[n].stage = comparison[n].stage /\ comparison'[n].rev = comparison[n].rev
        /\ comparison[n].stage \in {"inserting", "relating"}
    BY <1>1, <1>6, <2>1 DEF InsertMatch, RelateMatch, Comparisons
  <2>3. \A m \in match' : m \in match \/ m = [new |-> n, old |-> o, rev |-> comparison[n].rev]
    BY <1>6 DEF InsertMatch, RelateMatch
  <2> QED BY <2>2, <2>3 DEF MatchesOfOne
<1>7. CASE BeginRelating(n)
  <2>1. comparison'[n] = [[comparison[n] EXCEPT !.stage = "relating"] EXCEPT !.todo = comparison[n].found]
    BY <1>1, <1>7 DEF BeginRelating
  <2>2. /\ comparison'[n].stage = "relating" /\ comparison'[n].rev = comparison[n].rev
        /\ comparison[n].stage = "inserting" /\ match' = match
    BY <1>1, <1>7, <2>1 DEF BeginRelating, Comparisons, results
  <2> QED BY <2>2 DEF MatchesOfOne
<1>8. CASE EndComparison(n)
  <2>1. /\ comparison'[n].stage = "none" /\ compared'[n] = comparison[n].rev
        /\ comparison[n].stage = "relating" /\ match' = match
    BY <1>1, <1>8 DEF EndComparison, NoComparison, results
  <2> QED BY <2>1 DEF MatchesOfOne
<1>9. CASE FailComparison(n)
  <2>1. comparison'[n].stage = "none" /\ compared'[n] = 0
    BY <1>1, <1>9 DEF FailComparison, NoComparison
  <2> QED BY <2>1 DEF MatchesOfOne
<1> QED BY <1>2, <1>3, <1>4, <1>5, <1>6, <1>7, <1>8, <1>9 DEF CompareWithHistory

LEMMA MatchesStep == ASSUME IInv, AllMatchesOfOne, [Next]_vars PROVE AllMatchesOfOne'
<1> SUFFICES ASSUME NEW n \in PRs PROVE MatchesOfOne(n)'
  BY DEF AllMatchesOfOne
<1>1. MatchesOfOne(n)
  BY DEF AllMatchesOfOne
<1>2. ASSUME NEW q \in PRs, BeginComparison(q) \/ CompareWithHistory(q) PROVE MatchesOfOne(n)'
  <2>1. CASE q = n
    BY <1>1, <1>2, <2>1, OwnMatches
  <2>2. CASE q # n
    <3>1. \A m \in match' : m.new = n => m \in match
      BY <1>2, <2>2 DEF BeginComparison, CompareWithHistory, SaveSnapshotOnly, Compare, ClearMatches,
         DeleteMatches, InsertMatch, RelateMatch, BeginRelating, EndComparison, FailComparison, results
    <3> QED BY <1>1, <1>2, <2>2, <3>1, OthersCompare, MatchesKept
  <2> QED BY <2>1, <2>2
<1>3. CASE Tick
  <2>1. /\ match' = match /\ compared' = compared
        /\ comparison'[n] = [comparison[n] EXCEPT !.late = comparison[n].stage # "none"]
    BY <1>3 DEF Tick, history
  <2>2. comparison'[n].stage = comparison[n].stage /\ comparison'[n].rev = comparison[n].rev
    BY <2>1, Fields DEF IInv, Comparisons
  <2> QED BY <1>1, <2>1, <2>2, MatchesKept
<1>4. CASE (\A m \in match' : m \in match) /\ UNCHANGED <<compared, comparison>>
  BY <1>1, <1>4, MatchesKept
<1>5. ASSUME NEW q \in PRs, BeginAnalysis(q) \/ Analyse(q) PROVE UNCHANGED <<match, compared, comparison>>
  BY <1>5 DEF BeginAnalysis, Analyse, SaveAnalysis, SaveEmbeddings, UpsertDecisionRelations,
     FailAnalysis, results, history
<1>6. CASE \/ DeleteRepository \/ PruneRelations \/ PruneTombstones \/ PrunePullRequests
           \/ UNCHANGED vars \/ \E q \in PRs, active \in BOOLEAN : SetTombstoneState(q, active)
  <2>1. (\A m \in match' : m \in match) /\ UNCHANGED <<compared, comparison>>
    BY <1>6 DEF SetTombstoneState, DeleteRepository, PruneRelations, PruneTombstones,
       PrunePullRequests, vars, results, history
  <2> QED BY <1>4, <2>1
<1> QED BY <1>2, <1>3, <1>4, <1>5, <1>6 DEF Next

\* What a similarity job shows, when it was successful, is what it found.
THEOREM MatchesByJob == Spec => []MatchesOfLastComparison
<1>1. Init => AllMatchesOfOne
  BY DEF Init, AllMatchesOfOne, MatchesOfOne
<1>2. IInv /\ AllMatchesOfOne /\ [Next]_vars => AllMatchesOfOne'
  BY MatchesStep
<1>3. IInv /\ AllMatchesOfOne => MatchesOfLastComparison
  BY DEF IInv, TypeOK, Matches, AllMatchesOfOne, MatchesOfOne, MatchesOfLastComparison
<1> QED BY InitIInv, NextIInv, <1>1, <1>2, <1>3, PTL DEF Spec

-----------------------------------------------------------------------------
(* A Tombstone whose job was successful is of one piece. *)

\* No id is used twice: relations, and a job that knows the id of its
\* Tombstone, have no other row with it in mind.
IdsApart ==
  /\ \A g \in graph : g.id <= lastId
  /\ \A p \in PRs :
       /\ tomb[p].id <= lastId
       /\ analysis[p].stage = "embedded" => analysis[p].id <= lastId
       /\ \A q \in PRs \ {p} :
            /\ tomb[p].id # 0 => tomb[q].id # tomb[p].id
            /\ analysis[p].stage = "embedded" => tomb[q].id # analysis[p].id

\* How far the pieces agree while the job goes on, if the row is still there.
Pieces(p) ==
  tomb[p].id # 0 =>
    /\ analysis[p].stage = "saved" => tomb[p].rev = analysis[p].rev
    /\ analysis[p].stage = "embedded" =>
         /\ tomb[p].rev = analysis[p].rev /\ emb[p] = tomb[p].rev
         /\ tomb[p].id = analysis[p].id
    /\ analysed[p] = "ok" /\ analysis[p].stage = "none" =>
         /\ emb[p] = tomb[p].rev
         /\ \A g \in graph : g.id = tomb[p].id => g.rev = tomb[p].rev

AllOfOnePiece == IdsApart /\ \A p \in PRs : Pieces(p)

\* What is left of the rows, when others work or rows are deleted.
LEMMA PiecesKept ==
  ASSUME NEW p \in PRs, Pieces(p),
         tomb'[p].id # 0 => /\ tomb'[p].id = tomb[p].id /\ tomb'[p].rev = tomb[p].rev
                            /\ emb'[p] = emb[p],
         analysis'[p].stage = analysis[p].stage, analysis'[p].rev = analysis[p].rev,
         analysis'[p].id = analysis[p].id, analysed'[p] = analysed[p],
         \A g \in graph' : g.id = tomb'[p].id =>
           \E h \in graph : h.id = g.id /\ h.rev = g.rev
  PROVE  Pieces(p)'
BY DEF Pieces

LEMMA IdsKept ==
  ASSUME IdsApart, IInv, lastId' = lastId,
         \A p \in PRs : /\ tomb'[p].id \in {0, tomb[p].id}
                        /\ analysis'[p].stage = "embedded" =>
                             analysis[p].stage = "embedded" /\ analysis'[p].id = analysis[p].id,
         \A g \in graph' : \E h \in graph : h.id = g.id
  PROVE  IdsApart'
<1>1. lastId \in Nat
  BY BoundAssumption DEF IInv, TypeOK
<1>2. \A g \in graph' : g.id <= lastId'
  BY DEF IdsApart
<1>3. ASSUME NEW p \in PRs
      PROVE  /\ tomb'[p].id <= lastId'
             /\ analysis'[p].stage = "embedded" => analysis'[p].id <= lastId'
             /\ \A q \in PRs \ {p} :
                  /\ tomb'[p].id # 0 => tomb'[q].id # tomb'[p].id
                  /\ analysis'[p].stage = "embedded" => tomb'[q].id # analysis'[p].id
  <2>1. tomb'[p].id <= lastId'
    BY <1>1 DEF IdsApart
  <2>2. analysis[p].stage = "embedded" => analysis[p].id # 0
    BY DEF IInv
  <2> QED BY <2>1, <2>2 DEF IdsApart
<1> QED BY <1>2, <1>3 DEF IdsApart

LEMMA SaveAnalysisPieces ==
  ASSUME IInv, AllOfOnePiece, NEW p \in PRs, SaveAnalysis(p)
  PROVE  AllOfOnePiece'
<1>0. PICK i : i = IF tomb[p].id = 0 THEN lastId + 1 ELSE tomb[p].id
  OBVIOUS
<1>1. /\ DOMAIN tomb = PRs /\ DOMAIN analysis = PRs /\ lastId \in Nat
      /\ \A q \in PRs : tomb[q].id \in Nat
  <2>1. \A q \in PRs : tomb[q].id \in 0..MaxId
    BY Fields DEF IInv
  <2> QED BY <2>1, BoundAssumption DEF IInv, TypeOK
<1>2. /\ tomb'[p].id = i /\ tomb'[p].rev = analysis[p].rev
      /\ lastId' = IF tomb[p].id = 0 THEN lastId + 1 ELSE lastId
      /\ \A q \in PRs \ {p} : tomb'[q] = tomb[q]
      /\ graph' = graph /\ emb' = emb /\ analysed' = analysed
  BY <1>0, <1>1 DEF SaveAnalysis, UpsertTombstone, history
<1>3. /\ analysis'[p] = [analysis[p] EXCEPT !.stage = "saved"]
      /\ \A q \in PRs \ {p} : analysis'[q] = analysis[q]
  BY <1>1 DEF SaveAnalysis
<1>4. analysis'[p].stage = "saved" /\ analysis'[p].rev = analysis[p].rev
  BY <1>3, Fields DEF IInv, Analyses
<1>5. i # 0 /\ i <= lastId' /\ lastId <= lastId' /\ lastId' \in Nat
  BY <1>0, <1>1, <1>2 DEF AllOfOnePiece, IdsApart
<1>6. \A q \in PRs \ {p} :
        /\ tomb[q].id # i
        /\ analysis[q].stage = "embedded" => analysis[q].id # i
  <2>1. ASSUME NEW q \in PRs \ {p}
        PROVE  tomb[q].id # i /\ (analysis[q].stage = "embedded" => analysis[q].id # i)
    <3>1. tomb[q].id \in Nat /\ analysis[q].id \in Nat
      BY <1>1, Fields, BoundAssumption DEF IInv
    <3>2. CASE tomb[p].id = 0
      BY <1>0, <1>1, <3>1, <3>2 DEF AllOfOnePiece, IdsApart
    <3>3. CASE tomb[p].id # 0
      BY <1>0, <3>3 DEF AllOfOnePiece, IdsApart
    <3> QED BY <3>2, <3>3
  <2> QED BY <2>1
<1>7. IdsApart'
  <2>1. ASSUME NEW g \in graph' PROVE g.id <= lastId'
    <3>1. g \in graph /\ g.id \in Nat
      BY <1>2, BoundAssumption DEF IInv, TypeOK, Relations
    <3> QED BY <1>1, <1>5, <3>1 DEF AllOfOnePiece, IdsApart
  <2>2. ASSUME NEW q \in PRs
        PROVE  /\ tomb'[q].id <= lastId'
               /\ analysis'[q].stage = "embedded" => analysis'[q].id <= lastId'
               /\ \A r \in PRs \ {q} :
                    /\ tomb'[q].id # 0 => tomb'[r].id # tomb'[q].id
                    /\ analysis'[q].stage = "embedded" => tomb'[r].id # analysis'[q].id
    <3>1. CASE q = p
      <4>1. tomb'[q].id = i /\ analysis'[q].stage # "embedded"
        BY <1>2, <1>4, <3>1
      <4>2. ASSUME NEW r \in PRs \ {q} PROVE tomb'[r].id # i
        <5>1. tomb'[r] = tomb[r] /\ tomb[r].id # i
          BY <1>2, <1>6, <3>1
        <5> QED BY <5>1
      <4> QED BY <1>5, <4>1, <4>2
    <3>2. CASE q # p
      <4>1. tomb'[q] = tomb[q] /\ analysis'[q] = analysis[q] /\ tomb[q].id \in Nat
        BY <1>1, <1>2, <1>3, <3>2
      <4>2. tomb[q].id <= lastId'
        BY <1>1, <1>5, <4>1 DEF AllOfOnePiece, IdsApart
      <4>3. analysis[q].stage = "embedded" => analysis[q].id <= lastId'
        <5>1. analysis[q].id \in Nat
          BY Fields, BoundAssumption DEF IInv
        <5> QED BY <1>1, <1>5, <5>1 DEF AllOfOnePiece, IdsApart
      <4>4. ASSUME NEW r \in PRs \ {q}
            PROVE  /\ tomb'[q].id # 0 => tomb'[r].id # tomb'[q].id
                   /\ analysis'[q].stage = "embedded" => tomb'[r].id # analysis'[q].id
        <5>1. CASE r = p
          <6>1. tomb'[r].id = i
            BY <1>2, <5>1
          <6>2. tomb[q].id # i /\ (analysis[q].stage = "embedded" => analysis[q].id # i)
            BY <1>6, <3>2
          <6> QED BY <4>1, <6>1, <6>2
        <5>2. CASE r # p
          BY <1>2, <4>1, <4>4, <5>2 DEF AllOfOnePiece, IdsApart
        <5> QED BY <5>1, <5>2
      <4> QED BY <4>1, <4>2, <4>3, <4>4
    <3> QED BY <3>1, <3>2
  <2> QED BY <2>1, <2>2 DEF IdsApart
<1>8. ASSUME NEW q \in PRs PROVE Pieces(q)'
  <2>1. CASE q = p
    BY <1>2, <1>4, <2>1 DEF Pieces
  <2>2. CASE q # p
    BY <1>2, <1>3, <2>2, PiecesKept DEF AllOfOnePiece
  <2> QED BY <2>1, <2>2
<1> QED BY <1>7, <1>8 DEF AllOfOnePiece

LEMMA SaveEmbeddingsPieces ==
  ASSUME IInv, AllOfOnePiece, NEW p \in PRs, SaveEmbeddings(p)
  PROVE  AllOfOnePiece'
<1>1. DOMAIN analysis = PRs /\ DOMAIN emb = PRs /\ analysis[p] \in Analyses
  BY Fields DEF IInv, TypeOK
<1>2. /\ analysis[p].stage = "saved" /\ tomb[p].id # 0
      /\ UNCHANGED <<tomb, lastId, graph, analysed>>
      /\ emb'[p] = analysis[p].rev /\ \A q \in PRs \ {p} : emb'[q] = emb[q]
      /\ analysis'[p] = [[analysis[p] EXCEPT !.stage = "embedded"] EXCEPT !.id = tomb[p].id]
      /\ \A q \in PRs \ {p} : analysis'[q] = analysis[q]
  BY <1>1 DEF SaveEmbeddings, UpsertEmbeddings, history
<1>3. /\ analysis'[p].stage = "embedded" /\ analysis'[p].rev = analysis[p].rev
      /\ analysis'[p].id = tomb[p].id
  BY <1>1, <1>2 DEF Analyses
<1>4. IdsApart'
  <2>1. ASSUME NEW q \in PRs
        PROVE  /\ analysis'[q].stage = "embedded" => analysis'[q].id <= lastId
               /\ \A r \in PRs \ {q} : analysis'[q].stage = "embedded" => tomb[r].id # analysis'[q].id
    <3>1. CASE q = p
      <4>1. analysis'[q].id = tomb[p].id /\ tomb[p].id <= lastId
        BY <1>3, <3>1 DEF AllOfOnePiece, IdsApart
      <4>2. ASSUME NEW r \in PRs \ {q} PROVE tomb[r].id # tomb[p].id
        BY <1>2, <3>1 DEF AllOfOnePiece, IdsApart
      <4> QED BY <4>1, <4>2
    <3>2. CASE q # p
      <4>1. analysis'[q] = analysis[q]
        BY <1>2, <3>2
      <4> QED BY <4>1 DEF AllOfOnePiece, IdsApart
    <3> QED BY <3>1, <3>2
  <2> QED BY <1>2, <2>1 DEF AllOfOnePiece, IdsApart
<1>5. ASSUME NEW q \in PRs PROVE Pieces(q)'
  <2>1. CASE q = p
    BY <1>2, <1>3, <2>1 DEF AllOfOnePiece, Pieces
  <2>2. CASE q # p
    BY <1>2, <2>2, PiecesKept DEF AllOfOnePiece
  <2> QED BY <2>1, <2>2
<1> QED BY <1>4, <1>5 DEF AllOfOnePiece

LEMMA RelationsPieces ==
  ASSUME IInv, AllOfOnePiece, NEW p \in PRs, UpsertDecisionRelations(p)
  PROVE  AllOfOnePiece'
<1> DEFINE a == analysis[p]
<1>1. /\ DOMAIN analysis = PRs /\ DOMAIN analysed = PRs
  BY DEF IInv, TypeOK
<1>2. /\ a.stage = "embedded" /\ UNCHANGED <<tomb, lastId, emb>>
      /\ graph' = {g \in graph : g.id # a.id} \cup {[pr |-> p, id |-> a.id, rev |-> a.rev, age |-> 0]}
      /\ analysis'[p].stage = "none"
      /\ \A q \in PRs \ {p} : analysis'[q] = analysis[q] /\ analysed'[q] = analysed[q]
  BY <1>1 DEF UpsertDecisionRelations, NoAnalysis
<1>3. a.id <= lastId /\ a.id # 0 /\ \A q \in PRs \ {p} : tomb[q].id # a.id
  BY <1>2 DEF AllOfOnePiece, IdsApart, IInv
<1> HIDE DEF a
<1>4. \A g \in graph' : g.id <= lastId'
  BY <1>2, <1>3 DEF AllOfOnePiece, IdsApart
<1>5. IdsApart'
  BY <1>2, <1>4 DEF AllOfOnePiece, IdsApart
<1>6. ASSUME NEW q \in PRs PROVE Pieces(q)'
  <2>1. CASE q = p
    <3>1. tomb[p].id # 0 => tomb[p].rev = a.rev /\ emb[p] = tomb[p].rev /\ tomb[p].id = a.id
      BY <1>2 DEF AllOfOnePiece, Pieces, a
    <3>2. \A g \in graph' : g.id = a.id => g.rev = a.rev
      BY <1>2
    <3> QED BY <1>2, <2>1, <3>1, <3>2 DEF Pieces
  <2>2. CASE q # p
    <3>1. \A g \in graph' : g.id = tomb[q].id => g \in graph
      BY <1>2, <1>3, <2>2
    <3> QED BY <1>2, <2>2, <3>1, PiecesKept DEF AllOfOnePiece
  <2> QED BY <2>1, <2>2
<1> QED BY <1>5, <1>6 DEF AllOfOnePiece

\* The start of an attempt, and its failure, end what is said of the last one.
LEMMA OutsidePieces ==
  ASSUME IInv, AllOfOnePiece, NEW p \in PRs, BeginAnalysis(p) \/ FailAnalysis(p)
  PROVE  AllOfOnePiece'
<1>1. DOMAIN analysis = PRs /\ DOMAIN analysed = PRs
  BY DEF IInv, TypeOK
<1>2. /\ UNCHANGED <<tomb, lastId, emb, graph>>
      /\ \A q \in PRs \ {p} : analysis'[q] = analysis[q] /\ analysed'[q] = analysed[q]
      /\ analysis'[p].stage = "fetched" \/ (analysis'[p].stage = "none" /\ analysed'[p] = "failed")
  <2>1. CASE BeginAnalysis(p)
    BY <1>1, <2>1 DEF BeginAnalysis, NoAnalysis, results
  <2>2. CASE FailAnalysis(p)
    BY <1>1, <2>2 DEF FailAnalysis, NoAnalysis, results
  <2> QED BY <2>1, <2>2
<1>3. IdsApart'
  BY <1>2 DEF AllOfOnePiece, IdsApart
<1>4. ASSUME NEW q \in PRs PROVE Pieces(q)'
  BY <1>2, PiecesKept DEF AllOfOnePiece, Pieces
<1> QED BY <1>3, <1>4 DEF AllOfOnePiece

LEMMA PiecesStep == ASSUME IInv, AllOfOnePiece, [Next]_vars PROVE AllOfOnePiece'
<1>1. ASSUME NEW p \in PRs, BeginAnalysis(p) \/ Analyse(p) PROVE AllOfOnePiece'
  BY <1>1, SaveAnalysisPieces, SaveEmbeddingsPieces, RelationsPieces, OutsidePieces DEF Analyse
<1>2. ASSUME lastId' = lastId, analysed' = analysed,
             \A p \in PRs :
               /\ tomb'[p].id # 0 => /\ tomb'[p].id = tomb[p].id /\ tomb'[p].rev = tomb[p].rev
                                     /\ emb'[p] = emb[p]
               /\ analysis'[p].stage = analysis[p].stage /\ analysis'[p].rev = analysis[p].rev
               /\ analysis'[p].id = analysis[p].id,
             \A g \in graph' : \E h \in graph : h.id = g.id /\ h.rev = g.rev
      PROVE  AllOfOnePiece'
  BY <1>2, IdsKept, PiecesKept DEF AllOfOnePiece
<1>3. CASE Tick
  <2>1. lastId' = lastId /\ analysed' = analysed /\ emb' = emb
    BY <1>3 DEF Tick, history
  <2>2. ASSUME NEW p \in PRs, tomb'[p].id # 0 PROVE tomb'[p].id = tomb[p].id /\ tomb'[p].rev = tomb[p].rev
    <3>1. tomb'[p] = [tomb[p] EXCEPT !.age = Older(@)]
      BY <1>3, <2>2 DEF Tick, NoTomb
    <3> QED BY <3>1, Fields DEF IInv, Tombstones
  <2>3. ASSUME NEW p \in PRs
        PROVE  /\ analysis'[p].stage = analysis[p].stage /\ analysis'[p].rev = analysis[p].rev
               /\ analysis'[p].id = analysis[p].id
    <3>1. analysis'[p] = [analysis[p] EXCEPT !.late = analysis[p].stage # "none"]
      BY <1>3 DEF Tick
    <3> QED BY <3>1, Fields DEF IInv, Analyses
  <2>4. ASSUME NEW g \in graph' PROVE \E h \in graph : h.id = g.id /\ h.rev = g.rev
    <3>1. PICK h \in graph : g = [h EXCEPT !.age = Older(@)]
      BY <1>3 DEF Tick
    <3>2. h \in Relations
      BY DEF IInv, TypeOK
    <3>3. h.id = g.id /\ h.rev = g.rev
      BY <3>1, <3>2 DEF Relations
    <3> QED BY <3>3
  <2> QED BY <1>2, <2>1, <2>2, <2>3, <2>4
<1>4. ASSUME NEW p \in PRs, NEW active \in BOOLEAN, SetTombstoneState(p, active) PROVE AllOfOnePiece'
  <2>1. UNCHANGED <<lastId, analysed, emb, analysis, graph>>
    BY <1>4 DEF SetTombstoneState, history
  <2>2. ASSUME NEW q \in PRs PROVE tomb'[q].id = tomb[q].id /\ tomb'[q].rev = tomb[q].rev
    <3>1. /\ DOMAIN tomb = PRs /\ tomb[q] \in Tombstones
      BY Fields DEF IInv, TypeOK
    <3>2. \/ tomb'[q] = tomb[q]
          \/ tomb'[q] = [tomb[q] EXCEPT !.active = active, !.age = 0, !.touched = TRUE]
      BY <1>4, <3>1 DEF SetTombstoneState
    <3> QED BY <3>1, <3>2 DEF Tombstones
  <2> QED BY <1>2, <2>1, <2>2
<1>5. CASE DeleteRepository \/ PruneRelations \/ PruneTombstones \/ PrunePullRequests \/ UNCHANGED vars
  <2>1. UNCHANGED <<lastId, analysed, analysis>> /\ graph' \in SUBSET graph
    BY <1>5 DEF DeleteRepository, PruneRelations, PruneTombstones, PrunePullRequests, vars, results, history
  <2>2. ASSUME NEW q \in PRs, tomb'[q].id # 0
        PROVE  /\ tomb'[q].id = tomb[q].id /\ tomb'[q].rev = tomb[q].rev /\ emb'[q] = emb[q]
    BY <1>5, <2>2 DEF DeleteRepository, PruneRelations, PruneTombstones, PrunePullRequests, vars,
       results, NoTomb
  <2> QED BY <1>2, <2>1, <2>2
<1>6. ASSUME NEW n \in PRs, BeginComparison(n) \/ CompareWithHistory(n) PROVE AllOfOnePiece'
  <2>1. UNCHANGED <<lastId, analysed, analysis, tomb, emb, graph>>
    BY <1>6 DEF BeginComparison, CompareWithHistory, SaveSnapshotOnly, Compare, ClearMatches,
       InsertMatch, RelateMatch, BeginRelating, EndComparison, FailComparison, results, history
  <2> QED BY <1>2, <2>1
<1> QED BY <1>1, <1>3, <1>4, <1>5, <1>6 DEF Next

\* After a successful job the embeddings and the relations of a Tombstone are
\* those of the analysis it shows, however many attempts ended half way.
THEOREM WholeByJob == Spec => []WholeWhenDone
<1>1. Init => AllOfOnePiece
  BY DEF Init, AllOfOnePiece, IdsApart, Pieces, NoTomb, NoAnalysis
<1>2. IInv /\ AllOfOnePiece /\ [Next]_vars => AllOfOnePiece'
  BY PiecesStep
<1>3. AllOfOnePiece => WholeWhenDone
  BY DEF AllOfOnePiece, Pieces, WholeWhenDone
<1> QED BY InitIInv, NextIInv, <1>1, <1>2, <1>3, PTL DEF Spec
=============================================================================
