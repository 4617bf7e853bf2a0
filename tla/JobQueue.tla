------------------------------ MODULE JobQueue ------------------------------
(***************************************************************************)
(* The analysis queue of PR Tombstone: the analysis_jobs table, the        *)
(* statements of repository.Store that touch it, and the workers of        *)
(* package jobs that run them (Worker.Run, a process that polls for ever,  *)
(* and Worker.RunBatch, a cron invocation).                                *)
(*                                                                         *)
(* Every SQL statement is one step; a worker may die between any two.      *)
(* Clocks are relative: `wait' is the time left to run_after, `age' the    *)
(* time since updated_at of a running job, `elapsed' the time since the    *)
(* claim of the job a worker is busy with.  All three stop at the point    *)
(* where no comparison in the code can tell them from larger values, so    *)
(* no behaviour is cut short by a clock.                                   *)
(***************************************************************************)
EXTENDS Integers

CONSTANTS
  Keys,          \* (repository, PR number, kind): what the unique index is on
  NoKey,         \* the key of an id that was never inserted
  Repos,         \* repository ids
  RepoOf,        \* the repository of a key
  JobIds,        \* values of the id sequence; the set bounds the model
  Workers,       \* worker processes and cron invocations
  BatchWorkers,  \* those that run RunBatch; the others run Run
  NoJob,         \* what an unoccupied worker works on
  MaxAttempts,   \* 5: FailJob gives up from this attempt on
  OverflowAt,    \* 29: first attempt whose backoff does not fit an int4
  BackoffBase,   \* 15 seconds
  BackoffCap,    \* 900 seconds
  JobBudget,     \* claim + 5 minutes of jobCtx + 5 seconds of persistCtx
  StaleAfter,    \* 15 minutes
  AttemptBound,  \* bound of the model: claims of one job
  MaxFaults      \* bound of the model: crashes and lost statements

VARIABLES
  status,    \* analysis_jobs.status; "absent": not inserted yet
  key,       \* repository_id, pr_number, kind
  attempts,  \* analysis_jobs.attempts
  wait,      \* run_after - now, for a pending job
  age,       \* now - updated_at, for a running job
  phase,     \* where each worker is in runOne
  job,       \* the job each worker claimed
  elapsed,   \* how long ago it claimed it
  dead,      \* repositories that were deleted
  faults     \* crashes and lost statements so far

jobVars    == <<status, key, attempts, wait, age>>
workerVars == <<phase, job, elapsed>>
vars       == <<status, key, attempts, wait, age, phase, job, elapsed, dead, faults>>

JobStatus == {"absent", "pending", "running", "completed", "failed", "deleted"}
Active    == {"pending", "running"}
Phase     == {"off", "idle", "processing", "ok", "err"}

Lesser(a, b) == IF a < b THEN a ELSE b

\* LEAST(900, 15 * power(2, attempts-1)); a claim has made attempts >= 1.
Backoff(a) == Lesser(BackoffCap, BackoffBase * 2^(a - 1))

ASSUME IdAssumption == JobIds \subseteq Nat /\ NoJob \notin JobIds
ASSUME KeyAssumption == NoKey \notin Keys /\ RepoOf \in [Keys -> Repos]
ASSUME WorkerAssumption == BatchWorkers \subseteq Workers
ASSUME AttemptAssumption ==
  /\ MaxAttempts \in Nat \ {0}
  /\ AttemptBound \in Nat
  /\ OverflowAt \in Nat
  /\ MaxAttempts < OverflowAt
  /\ MaxFaults \in Nat
ASSUME BackoffAssumption == \A a \in 1..AttemptBound : Backoff(a) \in Nat

\* The whole of a job, claim and last statement included, takes less than the
\* 15 minutes after which RecoverStaleJobs gives it to somebody else.
ASSUME TimingAssumption ==
  /\ JobBudget \in Nat
  /\ StaleAfter \in Nat
  /\ JobBudget <= StaleAfter

TypeOK ==
  /\ status   \in [JobIds -> JobStatus]
  /\ key      \in [JobIds -> Keys \cup {NoKey}]
  /\ attempts \in [JobIds -> 0..AttemptBound]
  /\ wait     \in [JobIds -> Nat]
  /\ age      \in [JobIds -> 0..(StaleAfter + 1)]
  /\ phase    \in [Workers -> Phase]
  /\ job      \in [Workers -> JobIds \cup {NoJob}]
  /\ elapsed  \in [Workers -> 0..JobBudget]
  /\ dead     \subseteq Repos
  /\ faults   \in 0..MaxFaults

Init ==
  /\ status   = [j \in JobIds |-> "absent"]
  /\ key      = [j \in JobIds |-> NoKey]
  /\ attempts = [j \in JobIds |-> 0]
  /\ wait     = [j \in JobIds |-> 0]
  /\ age      = [j \in JobIds |-> 0]
  /\ phase    = [w \in Workers |-> "off"]
  /\ job      = [w \in Workers |-> NoJob]
  /\ elapsed  = [w \in Workers |-> 0]
  /\ dead     = {}
  /\ faults   = 0

-----------------------------------------------------------------------------
(* Predicates *)

Executing(w) == phase[w] \in {"processing", "ok", "err"}

\* Some worker still works on j.
Held(j) == \E w \in Workers : Executing(w) /\ job[w] = j

\* A job that its worker left behind.
Interrupted(j) == status[j] = "running" /\ ~Held(j)

\* WHERE status='pending' AND run_after<=NOW(); the model takes no notice of
\* a job that has used up its AttemptBound.
Ready(j) == status[j] = "pending" /\ wait[j] = 0 /\ attempts[j] < AttemptBound

\* ORDER BY id LIMIT 1
Oldest(j) == Ready(j) /\ \A i \in JobIds : Ready(i) => j <= i

\* Mutant: one attempt too many.
GivesUpMutant(a) == a > MaxAttempts

\* attempts>=5, in FailJob.
GivesUp(a) == a >= MaxAttempts

\* Mutants: workers that are declared dead while they may still be working, and
\* jobs that are not recovered after their last attempt.
StaleTooSoonMutant(j)  == status[j] = "running" /\ age[j] >= JobBudget
StaleAttemptMutant(j)  == status[j] = "running" /\ age[j] > StaleAfter /\ ~GivesUp(attempts[j])

\* WHERE status='running' AND updated_at < NOW() - staleAfter
Stale(j) == status[j] = "running" /\ age[j] > StaleAfter

\* The next value of the id sequence.
NextId(j) ==
  /\ status[j] = "absent"
  /\ \A i \in JobIds : i > j => status[i] = "absent"

-----------------------------------------------------------------------------
(* The producers: webhook handler, backfill, reanalyze *)

\* Mutant: no unique index.
EnqueueMutant(k) ==
  /\ RepoOf[k] \notin dead
  /\ \E j \in JobIds :
       /\ NextId(j)
       /\ status' = [status EXCEPT ![j] = "pending"]
       /\ key'    = [key EXCEPT ![j] = k]
  /\ UNCHANGED <<attempts, wait, age, workerVars, dead, faults>>

\* INSERT ... ON CONFLICT DO NOTHING against the partial unique index; a
\* conflicting insert succeeds and changes nothing, so it is a stutter.
Enqueue(k) ==
  /\ RepoOf[k] \notin dead
  /\ \A i \in JobIds : status[i] \in Active => key[i] # k
  /\ \E j \in JobIds :
       /\ NextId(j)
       /\ status' = [status EXCEPT ![j] = "pending"]
       /\ key'    = [key EXCEPT ![j] = k]
  /\ UNCHANGED <<attempts, wait, age, workerVars, dead, faults>>

\* ON DELETE CASCADE from repositories, whatever the state of its jobs.
DeleteRepository(r) ==
  /\ r \notin dead
  /\ dead' = dead \cup {r}
  /\ LET gone == {j \in JobIds : status[j] # "absent" /\ key[j] \in Keys
                                   /\ RepoOf[key[j]] = r}
     IN /\ status' = [j \in JobIds |-> IF j \in gone THEN "deleted" ELSE status[j]]
        /\ wait'   = [j \in JobIds |-> IF j \in gone THEN 0 ELSE wait[j]]
        /\ age'    = [j \in JobIds |-> IF j \in gone THEN 0 ELSE age[j]]
  /\ UNCHANGED <<key, attempts, workerVars, faults>>

-----------------------------------------------------------------------------
(* The workers *)

\* Mutant: nobody looks for interrupted jobs.
RecoverMutant == UNCHANGED jobVars

\* Run and RunBatch begin with RecoverStaleJobs; neither calls it again.
\* It does not look at attempts.
RecoverStaleJobs ==
  /\ status' = [j \in JobIds |-> IF Stale(j) THEN "pending" ELSE status[j]]
  /\ wait'   = [j \in JobIds |-> IF Stale(j) THEN 0 ELSE wait[j]]
  /\ age'    = [j \in JobIds |-> IF Stale(j) THEN 0 ELSE age[j]]
  /\ UNCHANGED <<key, attempts>>

Start(w) ==
  /\ phase[w] = "off"
  /\ phase' = [phase EXCEPT ![w] = "idle"]
  /\ RecoverStaleJobs
  /\ UNCHANGED <<job, elapsed, dead, faults>>

\* The row of the job a claim takes: FOR UPDATE SKIP LOCKED makes the
\* transaction one step among the other claims.
TakeRow(j) ==
  /\ Oldest(j)
  /\ status'   = [status EXCEPT ![j] = "running"]
  /\ attempts' = [attempts EXCEPT ![j] = @ + 1]
  /\ age'      = [age EXCEPT ![j] = 0]
  /\ UNCHANGED <<key, wait>>

ClaimJob(w) ==
  /\ phase[w] = "idle"
  /\ \E j \in JobIds :
       /\ TakeRow(j)
       /\ job' = [job EXCEPT ![w] = j]
  /\ phase'   = [phase EXCEPT ![w] = "processing"]
  /\ elapsed' = [elapsed EXCEPT ![w] = 0]
  /\ UNCHANGED <<dead, faults>>

\* The commit reaches the database and its answer does not reach the worker:
\* Run logs the error and goes on, RunBatch returns it.
ClaimUnheard(w) ==
  /\ phase[w] = "idle"
  /\ faults < MaxFaults
  /\ \E j \in JobIds : TakeRow(j)
  /\ phase'  = [phase EXCEPT ![w] = IF w \in BatchWorkers THEN "off" ELSE "idle"]
  /\ faults' = faults + 1
  /\ UNCHANGED <<job, elapsed, dead>>

\* Service.Process returns, by itself or because jobCtx expired.
Process(w) ==
  /\ phase[w] = "processing"
  /\ \E outcome \in {"ok", "err"} : phase' = [phase EXCEPT ![w] = outcome]
  /\ UNCHANGED <<jobVars, job, elapsed, dead, faults>>

\* What runOne leaves behind: the worker loops.
Release(w) ==
  /\ phase'   = [phase EXCEPT ![w] = "idle"]
  /\ job'     = [job EXCEPT ![w] = NoJob]
  /\ elapsed' = [elapsed EXCEPT ![w] = 0]

\* UPDATE ... SET status='completed' WHERE id=$1: no test of the old status.
CompleteJob(w) ==
  /\ phase[w] = "ok"
  /\ LET j == job[w] IN
       IF status[j] \in {"absent", "deleted"}
         THEN UNCHANGED jobVars
         ELSE /\ status' = [status EXCEPT ![j] = "completed"]
              /\ age'    = [age EXCEPT ![j] = 0]
              /\ wait'   = [wait EXCEPT ![j] = 0]
              /\ UNCHANGED <<key, attempts>>
  /\ Release(w)
  /\ UNCHANGED <<dead, faults>>

\* UPDATE ... SET status = CASE WHEN attempts>=5 THEN 'failed' ELSE 'pending'.
FailJob(w) ==
  /\ phase[w] = "err"
  /\ LET j == job[w] IN
       /\ attempts[j] < OverflowAt
       /\ IF status[j] \in {"absent", "deleted"}
            THEN UNCHANGED jobVars
            ELSE LET again == ~GivesUp(attempts[j]) IN
                 /\ status' = [status EXCEPT ![j] = IF again THEN "pending" ELSE "failed"]
                 /\ wait'   = [wait EXCEPT ![j] = IF again THEN Backoff(attempts[j]) ELSE 0]
                 /\ age'    = [age EXCEPT ![j] = 0]
                 /\ UNCHANGED <<key, attempts>>
  /\ Release(w)
  /\ UNCHANGED <<dead, faults>>

\* (15 * power(2, attempts-1))::int is out of range: the statement fails,
\* runOne drops the error and the row stays 'running'.
FailJobRejected(w) ==
  /\ phase[w] = "err"
  /\ attempts[job[w]] >= OverflowAt
  /\ Release(w)
  /\ UNCHANGED <<jobVars, dead, faults>>

\* CompleteJob or FailJob does not get through in its 5 seconds.  runOne
\* ignores the one error and reports the other; the row stays 'running'.
PersistLost(w) ==
  /\ phase[w] \in {"ok", "err"}
  /\ faults < MaxFaults
  /\ faults' = faults + 1
  /\ Release(w)
  /\ UNCHANGED <<jobVars, dead>>

\* RunBatch returns: no job, maxJobs reached, or its budget used up; Run
\* returns when its process is told to stop.
Return(w) ==
  /\ phase[w] = "idle"
  /\ phase' = [phase EXCEPT ![w] = "off"]
  /\ UNCHANGED <<jobVars, job, elapsed, dead, faults>>

\* The process is killed, or the platform ends the invocation.
Crash(w) ==
  /\ phase[w] # "off"
  /\ faults < MaxFaults
  /\ faults'  = faults + 1
  /\ phase'   = [phase EXCEPT ![w] = "off"]
  /\ job'     = [job EXCEPT ![w] = NoJob]
  /\ elapsed' = [elapsed EXCEPT ![w] = 0]
  /\ UNCHANGED <<jobVars, dead>>

\* DELETE of completed and failed rows past their retention; which of them
\* are old enough is left open.
PruneOperationalData ==
  \E J \in SUBSET {j \in JobIds : status[j] \in {"completed", "failed"}} :
    /\ J # {}
    /\ status' = [j \in JobIds |-> IF j \in J THEN "deleted" ELSE status[j]]
    /\ UNCHANGED <<key, attempts, wait, age, workerVars, dead, faults>>

\* Mutant: jobCtx has no deadline.
TickMutant ==
  /\ elapsed' = [w \in Workers |-> IF Executing(w) THEN Lesser(elapsed[w] + 1, JobBudget) ELSE 0]
  /\ age'  = [j \in JobIds |-> IF status[j] = "running"
                                 THEN Lesser(age[j] + 1, StaleAfter + 1) ELSE 0]
  /\ wait' = [j \in JobIds |-> IF wait[j] > 0 THEN wait[j] - 1 ELSE 0]
  /\ UNCHANGED <<status, key, attempts, phase, job, dead, faults>>

\* Time passes, but no further than the budget of a busy worker: every call
\* in Process and the two statements after it carry a context with a deadline.
Tick ==
  /\ \A w \in Workers : Executing(w) => elapsed[w] < JobBudget
  /\ elapsed' = [w \in Workers |-> IF Executing(w) THEN elapsed[w] + 1 ELSE 0]
  /\ age'  = [j \in JobIds |-> IF status[j] = "running"
                                 THEN Lesser(age[j] + 1, StaleAfter + 1) ELSE 0]
  /\ wait' = [j \in JobIds |-> IF wait[j] > 0 THEN wait[j] - 1 ELSE 0]
  /\ UNCHANGED <<status, key, attempts, phase, job, dead, faults>>

Next ==
  \/ \E k \in Keys : Enqueue(k)
  \/ \E r \in Repos : DeleteRepository(r)
  \/ \E w \in Workers :
       \/ Start(w) \/ ClaimJob(w) \/ ClaimUnheard(w) \/ Process(w)
       \/ CompleteJob(w) \/ FailJob(w) \/ FailJobRejected(w)
       \/ PersistLost(w) \/ Return(w) \/ Crash(w)
  \/ PruneOperationalData
  \/ Tick

Spec == Init /\ [][Next]_vars

\* What the deployment guarantees: clocks run; a stopped worker is restarted
\* (restart: unless-stopped) or invoked again by cron; Process returns and the
\* worker persists the outcome; an invocation ends.  A claim needs strong
\* fairness: an invocation that ends in between takes the chance away.
Fairness ==
  /\ WF_vars(Tick)
  /\ SF_vars(\E w \in Workers : ClaimJob(w))
  /\ \A w \in Workers :
       /\ WF_vars(Start(w))
       /\ WF_vars(Process(w))
       /\ WF_vars(CompleteJob(w) \/ FailJob(w) \/ FailJobRejected(w))
  /\ \A w \in BatchWorkers : WF_vars(Return(w))

FairSpec == Spec /\ Fairness

-----------------------------------------------------------------------------
(* Properties *)

\* At no time do two workers analyse the same pull request for the same
\* purpose: SaveAnalysis, SaveSimilarityMatches and the embedding writes of
\* one key never interleave.  Nothing in the statements says so; it rests on
\* JobBudget <= StaleAfter and on the partial unique index.
ExclusiveExecution ==
  \A v, w \in Workers :
    v # w /\ Executing(v) /\ Executing(w) => key[job[v]] # key[job[w]]

\* CompleteJob and FailJob update by id alone, and never bring a finished
\* job back to life or change its verdict.
TerminalIsFinal ==
  [][\A j \in JobIds :
       status[j] \in {"completed", "failed", "deleted"}
         => status'[j] \in {status[j], "deleted"}]_vars

\* "failures ... stop after five attempts": a job runs a sixth time only
\* because the outcome of an earlier run was lost, one extra run for each
\* loss, until the backoff no longer fits its type.
AttemptsAccounted ==
  \A j \in JobIds :
    attempts[j] <= OverflowAt => attempts[j] <= MaxAttempts + faults

\* The queue never wedges: every job that is in it ends, whatever worker
\* died, and with it the index entry that makes Enqueue drop new events;
\* unless its backoff no longer fits its type.
JobsSettle ==
  \A j \in JobIds :
    status[j] \in Active ~> status[j] \notin Active \/ attempts[j] >= OverflowAt

\* "interrupted running jobs recover after 15 minutes"
InterruptedJobsRecover ==
  \A j \in JobIds : Interrupted(j) ~> status[j] # "running"

\* What makes the first two properties inductive: a busy
\* worker's job is still marked as running and was updated exactly when the
\* worker claimed it, unless its repository is gone.
ClaimIsCurrent ==
  \A w \in Workers : Executing(w) =>
    /\ job[w] \in JobIds
    /\ status[job[w]] \in {"running", "deleted"}
    /\ status[job[w]] = "running" => age[job[w]] = elapsed[w] /\ attempts[job[w]] >= 1

\* The partial unique index analysis_jobs_active_unique_idx.
OneActivePerKey ==
  \A i, j \in JobIds :
    i # j /\ status[i] \in Active /\ status[j] \in Active => key[i] # key[j]

\* Ids are handed out in order and carry a key; deleted repositories own
\* nothing but deleted rows.
KeysAssigned ==
  \A j \in JobIds :
    /\ status[j] = "absent" <=> key[j] = NoKey
    /\ key[j] \in Keys /\ RepoOf[key[j]] \in dead => status[j] = "deleted"

\* A job that vanished under its worker took the whole repository with it.
DeletedUnderWorker ==
  \A w \in Workers :
    Executing(w) /\ status[job[w]] = "deleted" => RepoOf[key[job[w]]] \in dead

\* The inductive invariant: a busy worker holds a current row, keys are unique among
\* unfinished jobs, hence no two workers share one.
IInv == /\ TypeOK /\ ClaimIsCurrent /\ ExclusiveExecution /\ OneActivePerKey
        /\ KeysAssigned /\ DeletedUnderWorker

\* Why AttemptsAccounted holds: a job that waits has an attempt to spare, and
\* so has one that was left behind, for whoever left it counts as a fault.
AttemptsInv ==
  \A j \in JobIds :
    /\ status[j] = "absent" => attempts[j] = 0
    /\ attempts[j] <= OverflowAt => attempts[j] <= MaxAttempts + faults
    /\ status[j] = "pending" \/ Interrupted(j)
         => attempts[j] >= OverflowAt \/ attempts[j] < MaxAttempts + faults

\* The queue implements leases: a worker holds the job it is busy with for
\* as long as the row exists.
Holds == [w \in Workers |->
            IF Executing(w) /\ status[job[w]] = "running" THEN job[w] ELSE NoJob]

Lease == INSTANCE JobLease WITH holds <- Holds

ImplementsLease == Lease!Spec
=============================================================================
