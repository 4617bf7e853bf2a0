# PR Tombstone: a TLA+ verification project

PR Tombstone (Go, PostgreSQL, one GitHub App) writes a *Tombstone* for every pull
request that was closed without being merged: what was tried, why it was
abandoned, with the evidence for each claim.  This directory models the parts of
the program where processes, messages and time meet, checks the models with TLC,
and proves the invariants that matter most with TLAPS.

All paths below are relative to the repository (`src/`).

## 1. Inventory

| Component | State it keeps | Operations | Interacts with |
|---|---|---|---|
| analysis queue (`internal/repository/store.go` 191-246, `internal/jobs/worker.go`, `migrations/001`, `003`) | `analysis_jobs`: key, status, attempts, run_after, updated_at; per worker the job it has claimed | EnqueueUnique, ClaimJob, CompleteJob, FailJob, RecoverStaleJobs, PruneOperationalData, cascade from `repositories`; Run, RunBatch, runOne | webhook handler, dashboard and backfill produce; workers consume |
| webhook delivery ledger (`internal/httpapi/server.go` 180-345, `store.go` 172-189) | `webhook_deliveries`: received_at, processed_at | RecordDelivery, CompleteDelivery, ReleaseDelivery | GitHub sends; the statements of the event run between record and completion |
| Tombstone lifecycle (`server.go` 303-338, 467-537, 626-656; `store.go` 275-370, 477-500) | `tombstones.state`, `pull_requests` row | SetTombstoneState, SaveAnalysis, SaveSnapshotOnly, PUT state, reanalyze, backfill | GitHub, people, two kinds of jobs write one row |
| analysis pipeline (`internal/ingest/service.go`, `store.go` 275-465, 711-801) | files, commits, evidence, claims, embeddings, `decision_relations`, `similarity_matches` | Process and the transactions it runs | queue, GitHub client, retention |
| retention (`store.go` 653-678, `worker.go` 47-65, 128-149) | ages of all rows, `maintenance_runs` | DeleteExpiredPayloads, PruneExpiredData, PruneOperationalData, ClaimMaintenance | everything it deletes |
| installations and repositories (`store.go` 132-170, `server.go` 241-307) | `installations`, `repositories` | UpsertInstallation, SuspendInstallation, DeleteInstallation, EnsureRepository, DeleteRepositoryByGitHubID | webhooks, OAuth login, cascades into every table |
| dashboard access (`internal/httpapi/auth.go`, `middleware.go`, `internal/repository/auth.go`) | sessions, `user_installations` snapshot and its age | oauthCallback, oauthLogout, resolveSession, CheckRepositoryAccess | installations, GitHub OAuth |
| verification and scoring (`service.go` 173-269, `internal/evidence`, `internal/similarity`, `internal/confidence`) | none | VerifyResult, VerifiedOutcomes, verifiedAreas, Rank, ForAnalysis, Compare | pipeline |
| GitHub client (`internal/github`) | installation token cache | getJSON with retries, listPages, InstallationToken, FetchSnapshot | pipeline, backfill |
| migrations (`store.go` 48-130, `internal/repository/migrations`) | `schema_migrations`, an advisory lock | Migrate | server, worker and function instances at start |
| serverless entry point (`vercelapp/handler.go`) | the loaded application, `maintenance_runs` | loadApplication, handleCron, RunBatch | migrations, queue, retention |
| offline evaluation (`internal/eval`, `cmd/eval`) | a dataset: `cases/`, `labels.jsonl`, `results/` | collect, label, run | GitHub client, analyzer, verification |
| analyzers and embedding providers | none | calls to a language model, heuristics | pipeline |
| read-only API and dashboard (`web/`) | none | queries, rendering | store |
| configuration, metrics, version | environment, counters | parsing, counting | - |

What is hard in this system, and what the properties are for:

* **A queue without owners.**  A claimed job has no owner column and no fencing
  token; `CompleteJob` and `FailJob` write `WHERE id=$1`.  Only a time budget
  keeps a slow worker from settling a job that was given to somebody else.
* **Lost last words.**  The error of `FailJob` is dropped, that of `CompleteJob`
  logged; the row stays `running`, and the unique index drops new events of its
  key until somebody recovers it.
* **A ledger without owners.**  A delivery is reserved, carried out and marked;
  any of the statements may fail, and requests of one delivery may overlap.
* **Three writers of one Tombstone** (webhooks, jobs that read GitHub some time
  before they write, people) and no version to compare.
* **Webhooks** that come late, twice or in another order.
* **A pipeline of several transactions** and retries that may end between them.
* **Processes that start together** on one database, of one build or of several,
  and die with a lock or a lease in their hands.
* **An evaluation** whose dataset is collected while GitHub moves on, and labelled
  by people who mistype.

`PROJECT.json` lists each hazard at its line with the properties that cover it.


## 2. How the models are built

* One SQL statement, or one transaction, is one step; so is one answer of
  GitHub.  Between two steps of an actor every other actor may move.
* Data is abstract: a snapshot is a revision number, a job key or a repository is
  a model value, a text is the set of phrases the program looks for, its length,
  the width of its runes, and whether PostgreSQL takes it (valid UTF-8 without
  U+0000).  What a language model says is arbitrary.
* Clocks are relative (time since, time left) and stop where no comparison in
  the code can tell larger values apart, so that a clock cuts no behaviour short.
* Constants named `Max...` that are called "bound of the model" limit the number
  of events; all others are values of the program in smaller units.
* Variables called "history" are not in the program; properties need them.
* Variables that "never change" are parameters of the environment TLC chooses in
  the initial state (`orderly`, `direct`, `release`, `fleet`, `watched`), so that one
  run covers each of them and a property may speak of the case it is about.
* A definition called `...Mutant` is what a plausible mistake would make of the
  definition that follows it; no module uses one.

| Module | Stands for | State | Actions |
|---|---|---|---|
| `JobLease` | what the queue promises: a job is held by one worker, who alone settles it | `status`, `key`, `holds` | Submit, Take, TakeUnheard, Settle, Abandon, Requeue, Remove |
| `JobQueue` | `analysis_jobs`, `worker.go` | row: `status`, `key`, `attempts`, `wait` (run_after), `age` (updated_at); worker: `phase`, `job`, `elapsed` | the statements of the store under their names; `ClaimUnheard` (commit error after the commit), `FailJobRejected` (backoff overflow), `PersistLost`, `Crash`, `Start`/`Return` (Run, RunBatch) |
| `WebhookDelivery` | `webhook`, `webhook_deliveries` | `row`, `age`; per request `pc`, `done`, `elapsed`; GitHub's `sends`, `accepted` | Receive, RecordDelivery, AnswerDuplicate, RunStatement, CompleteDelivery, ReleaseDelivery and a failing form of each |
| `TombstoneLifecycle` | one pull request and its Tombstone | `gh`, `inbox`, `job`, `snapshot`, `prRow`, `tombstone` | GitHub (Push, Close, Merge, Reopen, Replay), one handler per action, PutState, Reanalyze, Backfill..., the steps of both jobs |
| `AnalysisResults` | what the two kinds of job leave in the tables, retention, deletion | one variable per table, by revision; `analysis`, `comparison` for jobs | each transaction of `Process`, the three sweeps of PruneExpiredData, DeleteRepository |
| `Installations` | `installations`, `repositories` | `inst`, `row`; GitHub's `app`, `owner`; `inbox`, `login` | what happens at GitHub, each statement of the handler, each step of the login callback |
| `HistoryImport` | backfill through the GitHub client | the list at GitHub; `cached`, `token`; `page`, `attempt`, `values`, `todo` | BeginImport, TokenArrives, PageArrives, RequestFails, EnqueueUnique, ... |
| `Migration` | `Migrate`, and starting | `lock`, `ledger`, `schema`; per process `release`, `pc`, `next` | Open, Acquire, CreateLedger, Skip, Refuse, RunScript, Record, Commit, Unlock; `CommitUnheard`, `Fails`, `UnlockFails`, `Crash`, `SessionEnds` |
| `Deployment` | the processes of `Migration` once they serve: housekeeping of `worker.go`, the maintenance lease | `expired`, `leaseDue`; per worker `sweepDue`, `houseDue`; per function `batch` | Housekeeping, ClaimMaintenance, Cleanup, a failing form of each, Die, the clocks |
| `Evaluation` | `cmd/eval` | `cases`, `labels`; `listed`, `stats` of collect; `gold`, `todo`, `preds`, `score` of run | Fetch, ScaffoldLabels, the edits of a person, BeginRun, Predict, EndRun |
| `Verification` | evidence, prompt, claims, confidence, tables | `phase` of Process, `snapshot`, `evidence`, `answer` (history), `result`, `overall`, `saved` | RankEvidence, AnalyzeByRules or AnalyzeByModel, Verify, SaveAnalysis; the functions of the code are operators of the same names |

`MC...` modules give TLC its instances, `...Proofs` modules hold the theorems:
`AnswerProofs` those of `Verification` and of `Evaluation`, `DeploymentProofs` those of
`Migration` and of `Deployment`, the others those of the module in their name.

How the modules fit together: `WebhookDelivery` counts the statements of an event
and says when they run again; `TombstoneLifecycle` and `Installations` say what
those statements do, with repeated and reordered deliveries as inputs.
`TombstoneLifecycle` relies on what `JobQueue` is shown to implement (`JobLease`):
one unfinished job of a key, one worker on it.  `AnalysisResults` opens the step
that `TombstoneLifecycle` takes when a job saves; `Verification` opens what is
saved; `HistoryImport` opens the backfill.  `Deployment` extends `Migration`: the same
processes start, serve and clean, and when they die everything they had in memory
is lost at once.  What its sweeps remove is the subject of `AnalysisResults`,
`WebhookDelivery` and `JobQueue`.  `Evaluation` scores what `Verification` lets
through.

## 3. Runs

Properties are defined, with their meaning, at the end of each module.

| Run | Question and answer | Bounds |
|---|---|---|
| `queue` | A polling worker and a cron worker share the queue; anything may crash or be lost.  No two workers on one key (`ExclusiveExecution`), verdicts are final, attempts beyond five are owed to faults, SQL without owners implements leases, every job ends (`JobsSettle`), interrupted jobs recover. | 2 keys in 2 repositories, 2 ids, 2 faults; 2 attempts before giving up and an overflow at the fourth, so that retry, giving up and the overflow all happen |
| `queue_run` | **Violated**: with a polling worker alone an interrupted job is never recovered. | 1 worker |
| `delivery` | Requests of one delivery overlap, fail anywhere, expire.  Statements run in one request at a time, run again only after a failure, are not lost if nobody repeats too soon, and are carried out in the end. | 1 delivery (deliveries share nothing), 3 requests at once, 6 in all, 3 faults |
| `lifecycle` | Two modes.  Webhooks in order, failing jobs: once settled the Tombstone agrees with GitHub if the webhook found it (`SettledStateAgrees`), a merge is missed only by a stale first analysis, a closed pull request gets its Tombstone.  Webhooks repeated and out of order, people, backfills: `ARCHIVED_AS_MERGED` still means merged. | 4 changes in order: push, close, reopen, merge; 2 changes and 1 repetition in disorder; 1 retry |
| `lifecycle_reopen` | **Violated**: a pull request reopened before its first analysis is saved stays `ACTIVE`. | 2 changes |
| `results` | Jobs that end between any two transactions, retention, deletion.  After success the result is whole; evidence is lost by age only; matches are those of the last comparison; nothing returns after deletion (`IInv`); orphaned relations go. | an analysed and a compared pull request, 3 attempts, 2 Tombstone ids |
| `installations` | Repositories added, removed and transferred, statements that fail, a login.  Once handled the rows agree with GitHub, up to what a login wrote late; a row disappears only if the repository really left.  The inductive invariant `IInv` is checked along. | 2 installations, 2 repositories, 4 events, 1 fault, 1 login |
| `verification` | Every founded claim and no other is kept, with its text; the tables refuse a result for the causes `RefusedForCause` lists, always for them and never for another; outcomes stay in their vocabulary and areas are files (`ResultIsWellFormed`); the prompt keeps its budget and its order. | prompts of 3 items and 7 bytes, 2 areas, all combinations of a few weights, lengths, texts and citations; two timeline events with and without numbers, texts that are not whole on either side |
| `verification_context` | **Violated**: a context file cut inside a rune keeps the Tombstone from being written. | as before |
| `deployment` | A worker and a function start together, of the same build or not, behind a pooler or not, and anything may die.  Who serves finds every migration of its build; with sessions of their own nobody migrates beside another; nobody waits for ever; expired rows go although neither the lease nor a clock is given back. | 2 processes, every fleet of them, builds of one or two files of which one was edited, 2 faults |
| `evaluation` | GitHub moves while cases are collected; people fill in labels and mistype; the analyzer fails.  Nothing merged is saved; only valid labels are scored; reports count what is labelled and did not fail; micro average, classes and exact matches agree. | 2 pull requests, a limit of 1 that ends a collection before its list, 2 reasons, a typo and all mixtures with `unknown`, 2 changes, 2 edits |
| `history_import` | The list moves while it is read page by page.  Pull requests that stay put are queued; a token lasts as long as the import, although others store tokens of any age in the cache at any time and GitHub may answer slowly.  `IInv` says of every page that is read what the proof needs. | 3 pull requests, pages of 2, limit 3, 2 changes |

Two of everything is enough for what these properties can tell apart: collisions
are between two workers, two requests, two jobs or two pages.  Three requests are
used where a third can take what the first gave back.  Attempts, changes and
faults are counted so that each recovery can be interrupted at least once.

### Disagreements with the documents

Shown by a run:

1. `queue_run`: `docs/IMPLEMENTATION.md:91` promises recovery after 15 minutes;
   `worker.go:40` recovers once, when `Run` starts.  A row that stays `running`
   makes `EnqueueUnique` drop every later job of its key.
2. `lifecycle_reopen`: `docs/IMPLEMENTATION.md:71` says `reopened` suspends the
   Tombstone; if there is none yet, `SaveAnalysis` later inserts an `ACTIVE` one.
3. `verification_context`: `service.go:117` says context files never block
   preservation; `service.go:126` cuts them by bytes, and a `TEXT` column refuses
   what is not valid UTF-8.  `compact` (`analyzer.go:263`) cuts findings in the
   same way; `RefusedForCause` has both among its causes.

Met while modelling, with no run of their own:

4. `docs/DELETION.md:8` says the marker of a deleted installation contains no
   repository content; `EnsureRepository` never looks at the marker, and a delivery
   handled after `installation.deleted` leaves repositories behind it.
5. `docs/VERCEL.md` recommends a pooled connection string; `Migrate` relies on an
   advisory lock of a session.  `SchemaIsRecorded` and `ServingIsMigrated` hold all
   the same, by the primary key of the ledger; a loser exits and starts again.
6. The comment at `store.go:248` says that ClaimMaintenance coordinates long-running
   workers too; `Run` does not call it.
7. `docs/VERCEL.md` lists the work of a batch as jobs first, then recovery and
   housekeeping; `RunBatch` does the jobs last.
8. `docs/RETENTION.md:5` calls 24 hours a fixed maximum; the sweep comes up to an
   hour later, on a daily cron schedule up to a day.
9. `docs/EVAL.md:92` and the report count a timeline event as discussion;
   `DecisionEvidenceKinds` (`eval.go:42`) leaves it out on purpose.
10. `docs/EVAL.md:54` says to leave an unreadable case unlabelled; a line that
    `label` scaffolded must be removed for that, since one without outcomes refuses
    the whole file.
11. `report.go:20` prints exact matches over all labelled cases beside a rate over
    the scored ones.
12. `README.md:13` and `docs/IMPLEMENTATION.md:79` say that timeline events are
    captured.  `client.go:260` makes their key of GitHub's number, and every event to
    which GitHub gives none gets `timeline:0`: two of them on one pull request break the key
    of `evidence_items` on every attempt, and no Tombstone is written
    (`EventsCollide`, one of the causes of `RefusedForCause`).
13. Neither gate looks for U+0000.  A language model that answers it in the summary or
    in a founded claim has its result refused by TEXT and JSONB (`store.go:334`,
    `store.go:354`); the job is retried, and fails again if the answer is the same.
14. `eval.go:2`, `collect.go:12` and `docs/EVAL.md:5` speak of closed-unmerged pull
    requests; `collect.go:59` looks at merged only, so one that was reopened between the
    list and its fetch is saved as a case.  `IInv` of `Evaluation` allows it.
15. `Migrate` looks for the files of its own build only: an older build starts, and
    goes on serving, on a schema that is ahead of it.  `ServingIsMigrated` does not
    speak of that.

## 4. Fairness

Only liveness properties use it, and each conjunct has its reason in the code.

* `JobQueue`: clocks run; a stopped worker is started again (`restart:
  unless-stopped`, cron); `Process` returns (its context ends after five minutes)
  and the outcome is persisted; an invocation of RunBatch ends.  Claiming needs
  strong fairness, because an invocation that ends takes the chance away.  No
  fairness makes anything crash, fail or be lost.
* `WebhookDelivery`: handlers run to their end, clocks run.  One conjunct is not
  the server's: a delivery that was not accepted is sent again.  GitHub does not do
  that by itself, a person does; `RetriesConverge` says what that effort is worth.
* `TombstoneLifecycle`: deliveries in hand are finished and the worker works.
* `AnalysisResults`: days pass, jobs end in some way, sweeps are repeated.
* `Deployment`: a process that exits is started again (`restart: unless-stopped`,
  the next request of a function), PostgreSQL ends dead sessions, hours pass, the
  worker's loop and the cron requests go on.  The lock needs strong fairness, since
  it is taken and given back by others in between; PostgreSQL's lock queue is first
  come, first served.  Cleanups may fail as long as faults last.

## 5. Proofs

TLAPS checks the eight `...Proofs` modules for every number of workers, jobs, keys,
requests, deliveries, installations, pages, cases and changes, and for evidence, answers
and limits of every size, from the assumptions named in the modules.  Every safety
property of a run that passes is a theorem.  The assumptions that carry weight are about
time: a job takes no longer than `StaleAfter` (`TimingAssumption`: 5 minutes and 5 seconds against 15), a handler no longer than
`RetakeAfter` (`BudgetAssumption`: 10 seconds against 5 minutes), an import no longer
than the life a cached token must have left (`TimeAssumption` of `HistoryImport`).
They hold by the numbers in the code and would fail with others.  The other
assumptions say what kind of thing a constant is.

*Queue.*  `ExclusiveExecution` is not inductive: nothing in the statements ties a
worker to its row.  `IInv` adds `ClaimIsCurrent` (the row of a busy worker is
running and exactly as old as its claim), `OneActivePerKey` (the partial unique
index), `KeysAssigned` and `DeletedUnderWorker` (a row that vanished under its
worker took its repository along).  With `ClaimIsCurrent` a busy worker's row
cannot be stale, hence is never given away, hence two workers have two rows, hence
two keys.  From `IInv` follow `Invariance`, `TypeCorrect`, `Exclusion`, `Finality`
(an action property) and `Implementation`: each step of the queue is a step of
`JobLease` or none.  `Attempts` has an invariant of its own, `AttemptsInv`: a job
that waits, or was abandoned, has an attempt to spare, or a fault to show for it.

*Ledger.*  `ReservationIsCurrent` is the same idea for a reservation and its
request; `RunsAreRecorded` says that a delivery that was run once more than it
failed is marked as processed, or a handler is about to mark it, or it was pruned
and no longer comes.  They yield `LedgerInvariance`, `HandlingExclusion` and
`RepeatsAccounted`.  `PatientNotLost` looks at deliveries that were never repeated
within the life of a reservation.  The danger is a row that a fault left behind, which
answers the next request with "duplicate" although nothing was run.  `LeftoversExpire`
says that such a delivery has one request at most, and that a row which no request owns
has expired by the time one comes; so the duplicate is answered for a processed row
only, and `MarksAreEarned` says that such a row was carried out.

*Lifecycle.*  `ArchivedWasMerged` is not inductive either: a job may save what it
read long ago, a webhook may come late.  `MergesAreFinal` says why that does no harm:
whoever knows of a merge (an event that was sent, a snapshot in a job's hands) is
right about it for ever, since nothing that happens on GitHub undoes a merge.  With
webhooks in order more can be said.  `EventsTellState` reads GitHub's state off the
last event that sets it; `OrderInv` says that what is handled is older than what is
still to come, that a row which heard of the last event handled shows that event's
state, or a merge that an analysis knew of before, and that a merge the row does not
show is either still to be heard of or newer than the analysis in the row, for which
`SnapshotsAreOlder` dates the snapshots in the jobs' hands.  Together this is `IInv`
(`LifecycleInvariance`), and once all is settled it leaves `SettledAgreement` and
`MissedMerges`; `Archive` needs no order.  `Modes` is arbitrary, so the theorems hold
with and without disorder and people.

*Results.*  `IInv` (types, nothing after deletion, a job that has stored embeddings
knows an id) is inductive.  The other three properties need what is true of a job
half way: for `EvidenceByAge`, the pull request of a Tombstone that nobody touched is
never older than the Tombstone (`EvidenceAges`), so that it does not go first; for `MatchesByJob`, from the DELETE
on all matches of a pull request are of the running attempt; for `WholeByJob`, what of
the Tombstone, the embeddings and the relations is of the attempt's revision at each
stage (`Pieces`), and that no id is given out twice (`IdsApart`), without which a job
whose Tombstone was deleted meanwhile could write the relations of another.

*Migration.*  `MInv` says what each process may rely on: with sessions of its own the
lock is its own (`MigratesAlone`), the ledger lists the scripts in effect without gap
or repetition (`SchemaIsRecorded`), and files it has passed are recorded with its
checksums (`PassedAreRecorded`), which also holds where the lock excludes nobody, since
of two transactions that record one name the second waits and fails.
`MigratedBeforeServing` follows, and `Deployment` inherits it because nothing it adds
touches a variable of `Migration` (`DeploymentInvariance`, `DeploymentMigrated`).  The
proofs of both modules are in `DeploymentProofs`.

*Installations.*  The tables lag behind GitHub, and with deliveries in any order they
may say much that is no longer true; `KnowledgeInv` is what remains: no row, delivery or
login names a repository of an installation that never had it.  It is all that
`DeletedOnlyWhenLeft`, an action property, rests on.  With deliveries in order nothing
about the tables alone is inductive: a statement brings a row closer to GitHub or, with
a login or an old delivery, away from it, while the delivery that corrects it waits.  So
`OrderInv` speaks of the tables and the inbox together: some position, the table being
position 0, places the repository where GitHub has it (`Placed`, `Displaced`), or shows
the installation as it is (`InstallationShown`), and no delivery behind it says
otherwise.  An event adds a position, a statement moves one from the inbox into the
table, a failure moves nothing, because the statements may be run again; a login that
writes what GitHub has taken back is what `late` collects.  With an empty inbox position
0 is left: `SettledRows`.

*Verification.*  Its properties hold by what functions compute and not by interleaving,
so the work is in lemmas about sequences.  The model has one operator that
sorts and filters, `Ordered`: the element of position `p` is the one with `p` positions up
to and including its own (`Place`).  Filtering is ordering by position (`Kept`), the first
occurrences (`Firsts`) are a filter, `Rank` orders by score and then by position, which is
what a stable sort means.  A lemma on `Ordered` (places are a bijection, for every set of
positions and every key) then serves them all.  Sums and the budget of a prompt are
recursive functions, about which an induction is needed after all; `Induction` has it in
a form the provers can use, about a set of numbers in place of a predicate, from the
fact that a set which is not empty has a least element.

`VInv` says of a result what stage it is in.  What an analyzer hands over is `Handed`: the
answer of the rules, or that of a model sifted once.  What is verified is a `Gate`: each
list of claims `Sifts` the answer (the founded claims, in order, each with the known ones
of its citations) and is `Linked` to the evidence.  The second gate keeps every founded
claim, since what was sifted comes through a second time whole (`FilteredTwice`); that is
`Founds`.  For `RefusalExplained` each reason that `SaveAnalysis` may have is followed back to
what came in.  What `Cited` hands to the tables is known and has no repetition, so the keys of
`claim_evidence` are never the reason.  Keys of evidence are distinct exactly when no two
items share one (`DistinctOneByOne`: with a value at two positions there are fewer values than
positions), and a shared one is an entry that GitHub lists twice or the key of events without a
number.  A claim that is not whole is verified exactly where the answer has a founded one, as
`Sifts` keeps texts and leaves nothing else (`SiftsBroken`).
`WellFormed` bounds the confidences
(`Clamped`; an average of shares is one) and reads outcomes and areas off `Firsts`.
`WithinBudget` follows the bytes used: they never fall, so what is taken is a prefix, and
they never pass the budget, since `Cut` cuts to what is left of it; an item of which nothing
fits is taken all the same, so only a budget that is used up to the byte ends the list.
Whole items stay whole because `Cut` goes back to a multiple of the width.  It relies on `RankStays`: sorting
what `Rank` has sorted changes nothing, so `ForAnalysis` may sort again.

The assumptions are about types: GitHub's lists and the answer of a model are what the
JSON decoders let through (`InputAssumption`, `AnswerAssumption`), and text that is whole
ends with a rune.  `PredictionsAgree` ties `Evaluation` to this: what Predict makes of
anything handed over, on any evidence, is one of the predictions `Evaluation` chooses from.

*Evaluation.*  `EvaluationInvariance`: the guard of `Fetch` looks at the snapshot and
not at the list, so no interleaving with GitHub saves a merged case; `LoadLabels` looks
at every line, so whatever people write only labels of the protocol are scored.  The
three properties of a report compare counters the loop adds up with the size of a set of
predictions, so their invariants say the same in the middle of a run: a step predicts
one case more (`PredictedOnce`), the set grows by one element or not at all, and so does
its counter (`ReportCounts`).  Sums are sizes as well: `Total` counts pairs of an index
and a number up to its value, which turns the addition of a summand into a disjoint union.
`AveragePools` adds the columns of the classes; the average is perfect only if every
case matches because a labelling and a prediction of which neither has a reason the other
lacks are equal.  `UnknownSeparate` follows from `GoldIsLabeling`: "unknown" stands alone
in a label.

*Import.*  `TokenAges` relates two clocks: while an import works, the life its token
has left and the time it has used add up to more than the margin.  Each tick moves
both, and the handler's time is over before the token's (`TokenLasts`).  It takes
nothing from the cache after an import has its token: other goroutines store theirs at
any time, of any age, over better ones too, since `InstallationToken` gives the lock
back between its look at the cache and its store.  Of a token that an import asks for
itself only this is used: GitHub gives it out while the import waits, so it has aged no
more than the import when the answer comes.
`QuietFound` is about a list that changes while it is read by page numbers.  A pull
request that is left alone can only be pushed back, unless one before it is reopened
(`shrunk`); so while pages are read, each one whose place is before the next page was
read at that place or an earlier one (`QuietAreRead`).  It takes that all pages before
the last one were full (`PagesAreFull`), so that positions in what was read are
positions in the list, and that a page which is not full is the end of the list.
`QuietAreLeft` follows them into the queue.  `todo` holds positions of what was read and
not numbers, since a pull request that was pushed over the edge of a page is read twice.

TLC checks the `IInv` of these components on the instances of the runs.  The auxiliary
invariants of single properties, and `VInv`, are stated in the modules of their proofs; of
those the runs check what follows from them.

## 6. Only model-checked

Liveness (`JobsSettle`, `InterruptedJobsRecover`, `RetriesConverge`,
`ClosedGetsTombstone`, `OrphansGo`, `ServesOrRefuses`, `ExpiredRowsGo`), which the
prover cannot do; with it everything that rests on ENABLED.  These hold on the
instances above, and for no other size is anything claimed.

The three violations are counterexamples, which TLC finds and no proof could.

## 7. Not modelled

* Dashboard sessions and access: each request decides for itself, from a snapshot of
  permissions; only what a login writes into installations and repositories is here.
* A change of `retention_days`.
* The text of migrations: a script is its checksum.
* Similarity scores and embeddings: sums of fractions over texts.  The models keep
  which pull requests are compared and what is stored.
* Floating-point numbers: `Verification` computes in hundredths, `Evaluation` keeps
  the counts of which rates are quotients, and leaves out the macro average and F1.
* The rendering of an evaluation report, the fixture tool.
* The read-only API, the web interface, configuration, metrics, version: no state
  that other parts rely on.
* The names of repositories and accounts, and what texts other than evidence, summary and
  claims hold: titles, names of files and messages of errors are taken to be whole.
* What a process does between `Migrate` and serving; that configuration may be refused there.
* What a push is owed that arrives while a job of its pull request is running
  (`store.go:197` drops its job).

## 8. Plan

1. Proofs: safety of the abstract specifications of point 3.
2. The lists of FetchSnapshot in `HistoryImport`, so that twins come from pages.
3. An abstract specification of a Tombstone (absent, shown, archived) that
   `TombstoneLifecycle` implements, and one of the schema (a prefix of one sequence of
   scripts that only grows) that `Migration` implements where builds agree.
4. A job budget in `JobQueue` that ends a batch in the middle of `Process`.
