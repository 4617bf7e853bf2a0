--------------------------- MODULE JobQueueProofs ---------------------------
(***************************************************************************)
(* Proofs about JobQueue, for every number of jobs, workers, keys, faults  *)
(* and attempts, and every pair of time limits with JobBudget <= StaleAfter. *)
(***************************************************************************)
EXTENDS JobQueue, TLAPS

LEMMA InitIInv == Init => IInv
<1> SUFFICES ASSUME Init PROVE IInv
  OBVIOUS
<1>1. TypeOK
  BY AttemptAssumption, TimingAssumption
  DEF Init, TypeOK, JobStatus, Phase
<1>2. ClaimIsCurrent /\ ExclusiveExecution /\ DeletedUnderWorker
  BY DEF Init, ClaimIsCurrent, ExclusiveExecution, DeletedUnderWorker, Executing
<1>3. OneActivePerKey /\ KeysAssigned
  BY KeyAssumption DEF Init, OneActivePerKey, KeysAssigned, Active
<1> QED BY <1>1, <1>2, <1>3 DEF IInv

(***************************************************************************)
(* One lemma per action.                                                   *)
(***************************************************************************)
LEMMA EnqueueStep == ASSUME IInv, NEW k \in Keys, Enqueue(k) PROVE IInv'
<1> USE DEF IInv
<1>1. PICK j \in JobIds : /\ NextId(j)
                          /\ status' = [status EXCEPT ![j] = "pending"]
                          /\ key' = [key EXCEPT ![j] = k]
  BY DEF Enqueue
<1>2. UNCHANGED <<attempts, wait, age, phase, job, elapsed, dead, faults>>
  BY DEF Enqueue, workerVars
<1>3. TypeOK'
  BY <1>1, <1>2 DEF TypeOK, JobStatus
<1>4. \A w \in Workers : Executing(w) => job[w] # j
  BY <1>1 DEF ClaimIsCurrent, NextId
<1>5. ClaimIsCurrent'
  BY <1>1, <1>2, <1>4 DEF ClaimIsCurrent, Executing, TypeOK
<1>6. ExclusiveExecution'
  BY <1>1, <1>2, <1>4 DEF ExclusiveExecution, ClaimIsCurrent, Executing, TypeOK
<1>7. OneActivePerKey'
  BY <1>1 DEF OneActivePerKey, Enqueue, Active, TypeOK, JobStatus
<1>8. KeysAssigned'
  BY <1>1, <1>2, KeyAssumption DEF KeysAssigned, Enqueue, TypeOK, NextId
<1>9. DeletedUnderWorker'
  BY <1>1, <1>2, <1>4 DEF DeletedUnderWorker, ClaimIsCurrent, Executing, TypeOK
<1> QED BY <1>3, <1>5, <1>6, <1>7, <1>8, <1>9

LEMMA DeleteRepositoryStep ==
  ASSUME IInv, NEW r \in Repos, DeleteRepository(r) PROVE IInv'
<1> USE DEF IInv
<1> DEFINE gone == {j \in JobIds : status[j] # "absent" /\ key[j] \in Keys
                                     /\ RepoOf[key[j]] = r}
<1>1. /\ status' = [j \in JobIds |-> IF j \in gone THEN "deleted" ELSE status[j]]
      /\ wait'   = [j \in JobIds |-> IF j \in gone THEN 0 ELSE wait[j]]
      /\ age'    = [j \in JobIds |-> IF j \in gone THEN 0 ELSE age[j]]
      /\ dead' = dead \cup {r}
      /\ UNCHANGED <<key, attempts, phase, job, elapsed, faults>>
  BY DEF DeleteRepository, workerVars
<1> HIDE DEF gone
<1>2. TypeOK'
  BY <1>1, TimingAssumption DEF TypeOK, JobStatus
<1>3. ClaimIsCurrent'
  BY <1>1 DEF ClaimIsCurrent, Executing, TypeOK
<1>4. ExclusiveExecution'
  BY <1>1 DEF ExclusiveExecution, Executing
<1>5. OneActivePerKey'
  BY <1>1 DEF OneActivePerKey, Active, TypeOK
<1>6. KeysAssigned'
  BY <1>1, KeyAssumption DEF KeysAssigned, TypeOK, gone
<1>7. DeletedUnderWorker'
  BY <1>1 DEF DeletedUnderWorker, ClaimIsCurrent, Executing, TypeOK, gone
<1> QED BY <1>2, <1>3, <1>4, <1>5, <1>6, <1>7

\* A job somebody is busy with is never stale: it was updated when it was
\* claimed, and its worker stops at JobBudget.
LEMMA BusyIsNotStale ==
  ASSUME IInv, NEW w \in Workers, Executing(w) PROVE ~Stale(job[w])
BY TimingAssumption DEF IInv, ClaimIsCurrent, Stale, TypeOK

LEMMA StartStep == ASSUME IInv, NEW w \in Workers, Start(w) PROVE IInv'
<1> USE DEF IInv
<1>1. /\ status' = [j \in JobIds |-> IF Stale(j) THEN "pending" ELSE status[j]]
      /\ wait'   = [j \in JobIds |-> IF Stale(j) THEN 0 ELSE wait[j]]
      /\ age'    = [j \in JobIds |-> IF Stale(j) THEN 0 ELSE age[j]]
      /\ phase[w] = "off"
      /\ phase' = [phase EXCEPT ![w] = "idle"]
      /\ UNCHANGED <<key, attempts, job, elapsed, dead, faults>>
  BY DEF Start, RecoverStaleJobs
<1>2. TypeOK'
  BY <1>1, TimingAssumption DEF TypeOK, JobStatus, Phase
<1>3. \A v \in Workers : Executing(v)' => Executing(v)
  BY <1>1 DEF Executing, TypeOK
<1>4. ClaimIsCurrent'
  BY <1>1, <1>3, BusyIsNotStale DEF ClaimIsCurrent, TypeOK
<1>5. ExclusiveExecution'
  BY <1>1, <1>3 DEF ExclusiveExecution
<1>6. OneActivePerKey'
  BY <1>1 DEF OneActivePerKey, Active, Stale, TypeOK
<1>7. KeysAssigned'
  BY <1>1 DEF KeysAssigned, Stale, TypeOK
<1>8. DeletedUnderWorker'
  BY <1>1, <1>3, BusyIsNotStale DEF DeletedUnderWorker, ClaimIsCurrent, TypeOK
<1> QED BY <1>2, <1>4, <1>5, <1>6, <1>7, <1>8

\* What a claim does to the table, whoever hears of it: nobody was busy with
\* the job, which was pending.
LEMMA TakeRowStep ==
  ASSUME IInv, NEW j \in JobIds, TakeRow(j)
  PROVE  /\ status' \in [JobIds -> JobStatus]
         /\ attempts' \in [JobIds -> 0..AttemptBound]
         /\ age' \in [JobIds -> 0..(StaleAfter + 1)]
         /\ UNCHANGED <<key, wait>>
         /\ \A w \in Workers : Executing(w) => job[w] # j
         /\ status[j] = "pending" /\ status'[j] = "running"
         /\ age'[j] = 0 /\ attempts'[j] >= 1
         /\ \A i \in JobIds \ {j} : /\ status'[i] = status[i]
                                    /\ age'[i] = age[i]
                                    /\ attempts'[i] = attempts[i]
BY AttemptAssumption, TimingAssumption
DEF IInv, TypeOK, TakeRow, Oldest, Ready, ClaimIsCurrent, JobStatus

LEMMA ClaimJobStep == ASSUME IInv, NEW w \in Workers, ClaimJob(w) PROVE IInv'
<1> USE DEF IInv
<1>1. PICK j \in JobIds : TakeRow(j) /\ job' = [job EXCEPT ![w] = j]
  BY DEF ClaimJob
<1>2. /\ phase' = [phase EXCEPT ![w] = "processing"]
      /\ elapsed' = [elapsed EXCEPT ![w] = 0]
      /\ UNCHANGED <<dead, faults>>
      /\ ~Executing(w)
  BY DEF ClaimJob, Executing
<1>3. TypeOK'
  BY <1>1, <1>2, TakeRowStep, TimingAssumption DEF TypeOK, Phase
<1>4. \A v \in Workers \ {w} : /\ Executing(v)' <=> Executing(v)
                               /\ job'[v] = job[v]
                               /\ elapsed'[v] = elapsed[v]
  BY <1>1, <1>2 DEF Executing, TypeOK
<1>5. job'[w] = j /\ elapsed'[w] = 0
  BY <1>1, <1>2 DEF TypeOK
<1>6. ClaimIsCurrent'
  BY <1>1, <1>4, <1>5, TakeRowStep DEF ClaimIsCurrent
<1>7. ExclusiveExecution'
  <2>1. SUFFICES ASSUME NEW v \in Workers \ {w}, Executing(v) PROVE key[job[v]] # key[j]
    BY <1>1, <1>4, <1>5, TakeRowStep DEF ExclusiveExecution
  <2>2. job[v] \in JobIds /\ job[v] # j /\ status[j] = "pending"
    BY <1>1, <2>1, TakeRowStep DEF ClaimIsCurrent
  <2>3. CASE status[job[v]] = "running"
    BY <2>2, <2>3 DEF OneActivePerKey, Active
  <2>4. CASE status[job[v]] = "deleted"
    BY <2>1, <2>2, <2>4 DEF DeletedUnderWorker, KeysAssigned, TypeOK
  <2> QED BY <2>1, <2>3, <2>4 DEF ClaimIsCurrent
<1>8. OneActivePerKey'
  BY <1>1, TakeRowStep DEF OneActivePerKey, Active
<1>9. KeysAssigned'
  BY <1>1, <1>2, TakeRowStep DEF KeysAssigned
<1>10. DeletedUnderWorker'
  BY <1>1, <1>2, <1>4, <1>5, TakeRowStep DEF DeletedUnderWorker, ClaimIsCurrent
<1> QED BY <1>3, <1>6, <1>7, <1>8, <1>9, <1>10

LEMMA ClaimUnheardStep ==
  ASSUME IInv, NEW w \in Workers, ClaimUnheard(w) PROVE IInv'
<1> USE DEF IInv
<1>1. PICK j \in JobIds : TakeRow(j)
  BY DEF ClaimUnheard
<1>2. /\ phase' = [phase EXCEPT ![w] = IF w \in BatchWorkers THEN "off" ELSE "idle"]
      /\ faults' = faults + 1 /\ faults < MaxFaults
      /\ UNCHANGED <<job, elapsed, dead>>
      /\ phase[w] = "idle"
  BY DEF ClaimUnheard
<1>3. TypeOK'
  BY <1>1, <1>2, TakeRowStep, AttemptAssumption DEF TypeOK, Phase
<1>4. \A v \in Workers : Executing(v)' <=> Executing(v)
  BY <1>2 DEF Executing, TypeOK
<1>5. ClaimIsCurrent'
  BY <1>1, <1>2, <1>4, TakeRowStep DEF ClaimIsCurrent
<1>6. ExclusiveExecution'
  BY <1>1, <1>2, <1>4, TakeRowStep DEF ExclusiveExecution
<1>7. OneActivePerKey'
  BY <1>1, TakeRowStep DEF OneActivePerKey, Active
<1>8. KeysAssigned'
  BY <1>1, <1>2, TakeRowStep DEF KeysAssigned
<1>9. DeletedUnderWorker'
  BY <1>1, <1>2, <1>4, TakeRowStep DEF DeletedUnderWorker, ClaimIsCurrent
<1> QED BY <1>3, <1>5, <1>6, <1>7, <1>8, <1>9

LEMMA ProcessStep == ASSUME IInv, NEW w \in Workers, Process(w) PROVE IInv'
<1> USE DEF IInv
<1>1. PICK outcome \in {"ok", "err"} : phase' = [phase EXCEPT ![w] = outcome]
  BY DEF Process
<1>2. /\ UNCHANGED <<status, key, attempts, wait, age, job, elapsed, dead, faults>>
      /\ phase[w] = "processing"
  BY DEF Process, jobVars
<1>3. TypeOK'
  BY <1>1, <1>2 DEF TypeOK, Phase
<1>4. \A v \in Workers : Executing(v)' <=> Executing(v)
  BY <1>1, <1>2 DEF Executing, TypeOK
<1>5. ClaimIsCurrent' /\ ExclusiveExecution' /\ DeletedUnderWorker'
  BY <1>2, <1>4 DEF ClaimIsCurrent, ExclusiveExecution, DeletedUnderWorker
<1>6. OneActivePerKey' /\ KeysAssigned'
  BY <1>2 DEF OneActivePerKey, KeysAssigned
<1> QED BY <1>3, <1>5, <1>6

\* A worker that lets go of its job, and the table as it was.
LEMMA LetGoStep ==
  ASSUME IInv, NEW w \in Workers, NEW p \in {"idle", "off"},
         phase'   = [phase EXCEPT ![w] = p],
         job'     = [job EXCEPT ![w] = NoJob],
         elapsed' = [elapsed EXCEPT ![w] = 0],
         UNCHANGED <<jobVars, dead>>, faults' \in 0..MaxFaults
  PROVE  IInv'
<1> USE DEF IInv, jobVars
<1>1. TypeOK'
  BY TimingAssumption DEF TypeOK, Phase
<1>2. ~Executing(w)'
  BY DEF Executing, TypeOK
<1>3. \A v \in Workers \ {w} : /\ Executing(v)' <=> Executing(v)
                               /\ job'[v] = job[v] /\ elapsed'[v] = elapsed[v]
  BY DEF Executing, TypeOK
<1>4. ClaimIsCurrent' /\ ExclusiveExecution' /\ DeletedUnderWorker'
  BY <1>2, <1>3 DEF ClaimIsCurrent, ExclusiveExecution, DeletedUnderWorker
<1>5. OneActivePerKey' /\ KeysAssigned'
  BY DEF OneActivePerKey, KeysAssigned
<1> QED BY <1>1, <1>4, <1>5

\* A worker that lets go of its job and says how it ended: it writes to a
\* row that is still running, and that nobody else is busy with.
LEMMA VerdictStep ==
  ASSUME IInv, NEW w \in Workers, Executing(w), Release(w),
         NEW j \in JobIds, j = job[w], status[j] # "deleted",
         NEW verdict \in {"completed", "failed", "pending"}, NEW delay \in Nat,
         status' = [status EXCEPT ![j] = verdict],
         wait'   = [wait EXCEPT ![j] = delay],
         age'    = [age EXCEPT ![j] = 0],
         UNCHANGED <<key, attempts, dead, faults>>
  PROVE  IInv'
<1> USE DEF IInv
<1>1. status[j] = "running"
  BY DEF ClaimIsCurrent
<1>2. TypeOK'
  BY TimingAssumption DEF TypeOK, Phase, JobStatus, Release
<1>3. ~Executing(w)'
  BY DEF Executing, TypeOK, Release
<1>4. \A v \in Workers \ {w} : /\ Executing(v)' <=> Executing(v)
                               /\ job'[v] = job[v] /\ elapsed'[v] = elapsed[v]
                               /\ Executing(v) => job[v] # j
  BY DEF Executing, TypeOK, Release, ExclusiveExecution
<1>5. ClaimIsCurrent'
  BY <1>3, <1>4 DEF ClaimIsCurrent, TypeOK
<1>6. ExclusiveExecution'
  BY <1>3, <1>4 DEF ExclusiveExecution
<1>7. OneActivePerKey'
  BY <1>1 DEF OneActivePerKey, Active, TypeOK
<1>8. KeysAssigned'
  BY <1>1 DEF KeysAssigned, TypeOK
<1>9. DeletedUnderWorker'
  BY <1>3, <1>4 DEF DeletedUnderWorker, ClaimIsCurrent, TypeOK
<1> QED BY <1>2, <1>5, <1>6, <1>7, <1>8, <1>9

LEMMA CompleteJobStep == ASSUME IInv, NEW w \in Workers, CompleteJob(w) PROVE IInv'
<1>1. Executing(w) /\ job[w] \in JobIds /\ status[job[w]] \in {"running", "deleted"}
  BY DEF CompleteJob, Executing, IInv, ClaimIsCurrent
<1>2. CASE status[job[w]] = "deleted"
  BY <1>2, LetGoStep DEF CompleteJob, Release, IInv, TypeOK
<1>3. CASE status[job[w]] = "running"
  BY <1>1, <1>3, VerdictStep DEF CompleteJob
<1> QED BY <1>1, <1>2, <1>3

LEMMA FailJobStep == ASSUME IInv, NEW w \in Workers, FailJob(w) PROVE IInv'
<1>1. Executing(w) /\ job[w] \in JobIds /\ status[job[w]] \in {"running", "deleted"}
  BY DEF FailJob, Executing, IInv, ClaimIsCurrent
<1>2. CASE status[job[w]] = "deleted"
  BY <1>2, LetGoStep DEF FailJob, Release, IInv, TypeOK
<1>3. CASE status[job[w]] = "running"
  <2>1. Backoff(attempts[job[w]]) \in Nat
    BY <1>1, <1>3, BackoffAssumption, AttemptAssumption
    DEF IInv, TypeOK, ClaimIsCurrent
  <2>2. CASE ~GivesUp(attempts[job[w]])
    BY <1>1, <1>3, <2>1, <2>2, VerdictStep DEF FailJob
  <2>3. CASE GivesUp(attempts[job[w]])
    BY <1>1, <1>3, <2>3, VerdictStep DEF FailJob
  <2> QED BY <2>2, <2>3
<1> QED BY <1>1, <1>2, <1>3

LEMMA FailJobRejectedStep ==
  ASSUME IInv, NEW w \in Workers, FailJobRejected(w) PROVE IInv'
BY LetGoStep DEF FailJobRejected, Release, IInv, TypeOK

LEMMA PersistLostStep == ASSUME IInv, NEW w \in Workers, PersistLost(w) PROVE IInv'
<1>1. faults' \in 0..MaxFaults
  BY AttemptAssumption DEF PersistLost, IInv, TypeOK
<1> QED BY <1>1, LetGoStep DEF PersistLost, Release

LEMMA CrashStep == ASSUME IInv, NEW w \in Workers, Crash(w) PROVE IInv'
<1>1. faults' \in 0..MaxFaults
  BY AttemptAssumption DEF Crash, IInv, TypeOK
<1> QED BY <1>1, LetGoStep DEF Crash

LEMMA ReturnStep == ASSUME IInv, NEW w \in Workers, Return(w) PROVE IInv'
<1> USE DEF IInv, Return, jobVars
<1>1. TypeOK'
  BY DEF TypeOK, Phase
<1>2. \A v \in Workers : Executing(v)' <=> Executing(v)
  BY DEF Executing, TypeOK
<1>3. ClaimIsCurrent' /\ ExclusiveExecution' /\ DeletedUnderWorker'
  BY <1>2 DEF ClaimIsCurrent, ExclusiveExecution, DeletedUnderWorker
<1>4. OneActivePerKey' /\ KeysAssigned'
  BY DEF OneActivePerKey, KeysAssigned
<1> QED BY <1>1, <1>3, <1>4

LEMMA PruneOperationalDataStep == ASSUME IInv, PruneOperationalData PROVE IInv'
<1> USE DEF IInv
<1>1. PICK J \in SUBSET {j \in JobIds : status[j] \in {"completed", "failed"}} :
        status' = [j \in JobIds |-> IF j \in J THEN "deleted" ELSE status[j]]
  BY DEF PruneOperationalData
<1>2. UNCHANGED <<key, attempts, wait, age, phase, job, elapsed, dead, faults>>
  BY DEF PruneOperationalData, workerVars
<1>3. TypeOK'
  BY <1>1, <1>2 DEF TypeOK, JobStatus
<1>4. \A w \in Workers : Executing(w) => job[w] \notin J
  BY DEF ClaimIsCurrent
<1>5. ClaimIsCurrent' /\ DeletedUnderWorker'
  BY <1>1, <1>2, <1>4 DEF ClaimIsCurrent, DeletedUnderWorker, Executing, TypeOK
<1>6. ExclusiveExecution'
  BY <1>2 DEF ExclusiveExecution, Executing
<1>7. OneActivePerKey'
  BY <1>1, <1>2 DEF OneActivePerKey, Active, TypeOK
<1>8. KeysAssigned'
  BY <1>1, <1>2 DEF KeysAssigned, TypeOK
<1> QED BY <1>3, <1>5, <1>6, <1>7, <1>8

\* Time moves the two clocks of a busy worker together, and stops them at
\* JobBudget, short of the point where age is cut off.
LEMMA TickStep == ASSUME IInv, Tick PROVE IInv'
<1> USE DEF IInv
<1>1. /\ \A w \in Workers : Executing(w) => elapsed[w] < JobBudget
      /\ elapsed' = [w \in Workers |-> IF Executing(w) THEN elapsed[w] + 1 ELSE 0]
      /\ age' = [j \in JobIds |-> IF status[j] = "running"
                                    THEN Lesser(age[j] + 1, StaleAfter + 1) ELSE 0]
      /\ wait' = [j \in JobIds |-> IF wait[j] > 0 THEN wait[j] - 1 ELSE 0]
      /\ UNCHANGED <<status, key, attempts, phase, job, dead, faults>>
  BY DEF Tick
<1>2. TypeOK'
  <2>1. elapsed' \in [Workers -> 0..JobBudget]
    BY <1>1, TimingAssumption DEF TypeOK
  <2>2. age' \in [JobIds -> 0..(StaleAfter + 1)]
    BY <1>1, TimingAssumption DEF TypeOK, Lesser
  <2>3. wait' \in [JobIds -> Nat]
    BY <1>1 DEF TypeOK
  <2> QED BY <1>1, <2>1, <2>2, <2>3 DEF TypeOK
<1>3. \A w \in Workers : Executing(w)' <=> Executing(w)
  BY <1>1 DEF Executing
<1>4. ClaimIsCurrent'
  BY <1>1, <1>3, TimingAssumption DEF ClaimIsCurrent, TypeOK, Lesser
<1>5. ExclusiveExecution' /\ DeletedUnderWorker' /\ OneActivePerKey' /\ KeysAssigned'
  BY <1>1, <1>3 DEF ExclusiveExecution, DeletedUnderWorker, OneActivePerKey, KeysAssigned
<1> QED BY <1>2, <1>4, <1>5

\* IInv is inductive.
LEMMA NextIInv == IInv /\ [Next]_vars => IInv'
<1> SUFFICES ASSUME IInv, [Next]_vars PROVE IInv'
  OBVIOUS
<1>1. CASE \E k \in Keys : Enqueue(k)
  BY <1>1, EnqueueStep
<1>2. CASE \E r \in Repos : DeleteRepository(r)
  BY <1>2, DeleteRepositoryStep
<1>3. ASSUME NEW w \in Workers, Start(w) PROVE IInv'
  BY <1>3, StartStep
<1>4. ASSUME NEW w \in Workers, ClaimJob(w) PROVE IInv'
  BY <1>4, ClaimJobStep
<1>5. ASSUME NEW w \in Workers, ClaimUnheard(w) PROVE IInv'
  BY <1>5, ClaimUnheardStep
<1>6. ASSUME NEW w \in Workers, Process(w) PROVE IInv'
  BY <1>6, ProcessStep
<1>7. ASSUME NEW w \in Workers, CompleteJob(w) PROVE IInv'
  BY <1>7, CompleteJobStep
<1>8. ASSUME NEW w \in Workers, FailJob(w) PROVE IInv'
  BY <1>8, FailJobStep
<1>9. ASSUME NEW w \in Workers, FailJobRejected(w) PROVE IInv'
  BY <1>9, FailJobRejectedStep
<1>10. ASSUME NEW w \in Workers, PersistLost(w) PROVE IInv'
  BY <1>10, PersistLostStep
<1>11. ASSUME NEW w \in Workers, Return(w) PROVE IInv'
  BY <1>11, ReturnStep
<1>12. ASSUME NEW w \in Workers, Crash(w) PROVE IInv'
  BY <1>12, CrashStep
<1>13. CASE PruneOperationalData
  BY <1>13, PruneOperationalDataStep
<1>14. CASE Tick
  BY <1>14, TickStep
<1>15. CASE UNCHANGED vars
  BY <1>15 DEF vars, IInv, TypeOK, ClaimIsCurrent, ExclusiveExecution, Executing,
     OneActivePerKey, KeysAssigned, DeletedUnderWorker
<1> QED
  BY <1>1, <1>2, <1>3, <1>4, <1>5, <1>6, <1>7, <1>8, <1>9, <1>10, <1>11, <1>12,
     <1>13, <1>14, <1>15 DEF Next

-----------------------------------------------------------------------------
\* The invariant of the queue holds in every reachable state.
THEOREM Invariance == Spec => []IInv
<1>1. Init => IInv
  BY InitIInv
<1>2. IInv /\ [Next]_vars => IInv'
  BY NextIInv
<1> QED BY <1>1, <1>2, PTL DEF Spec

\* Every variable keeps its type: the clocks never pass their limits.
THEOREM TypeCorrect == Spec => []TypeOK
<1>1. IInv => TypeOK
  BY DEF IInv
<1> QED BY <1>1, Invariance, PTL

\* No two workers analyse the same pull request for the same purpose at the
\* same time, although no statement of the store checks who owns a job:
\* CompleteJob, FailJob and RecoverStaleJobs write by id and status.
THEOREM Exclusion == Spec => []ExclusiveExecution
<1>1. IInv => ExclusiveExecution
  BY DEF IInv
<1> QED BY <1>1, Invariance, PTL

-----------------------------------------------------------------------------
(***************************************************************************)
(* Attempts.  A job that waits has one to spare, and so has a job that was *)
(* left behind: whoever left it behind is counted in faults.               *)
(***************************************************************************)
LEMMA AttemptsUntouched ==
  ASSUME AttemptsInv, UNCHANGED <<status, attempts>>, faults' \in {faults, faults + 1},
         faults \in Nat, attempts \in [JobIds -> Nat],
         MaxAttempts \in Nat, OverflowAt \in Nat,
         \A j \in JobIds : Interrupted(j)' /\ faults' = faults => Interrupted(j)
  PROVE  AttemptsInv'
BY DEF AttemptsInv

LEMMA NextAttempts ==
  ASSUME IInv, AttemptsInv, [Next]_vars PROVE AttemptsInv'
<1> USE AttemptAssumption
<1>0. /\ faults \in 0..MaxFaults /\ faults \in Nat
      /\ attempts \in [JobIds -> Nat] /\ status \in [JobIds -> JobStatus]
      /\ phase \in [Workers -> Phase] /\ job \in [Workers -> JobIds \cup {NoJob}]
  BY DEF IInv, TypeOK
<1>1. ASSUME NEW k \in Keys, Enqueue(k) PROVE AttemptsInv'
  BY <1>0, <1>1 DEF Enqueue, NextId, AttemptsInv, Interrupted, Held, Executing, workerVars
<1>2. ASSUME NEW r \in Repos, DeleteRepository(r) PROVE AttemptsInv'
  <2>1. /\ \A j \in JobIds : status'[j] = "deleted" \/ status'[j] = status[j]
        /\ UNCHANGED <<attempts, faults, phase, job>>
    BY <1>2 DEF DeleteRepository, workerVars
  <2>2. \A j \in JobIds : Interrupted(j)' => Interrupted(j)
    BY <2>1 DEF Interrupted, Held, Executing
  <2> QED BY <1>0, <2>1, <2>2 DEF AttemptsInv
<1>3. ASSUME NEW w \in Workers, Start(w) PROVE AttemptsInv'
  <2>1. /\ \A j \in JobIds : status'[j] = IF Stale(j) THEN "pending" ELSE status[j]
        /\ UNCHANGED <<attempts, faults, job>>
    BY <1>3 DEF Start, RecoverStaleJobs
  <2>2. \A j \in JobIds : Stale(j) => Interrupted(j)
    BY TimingAssumption DEF Stale, Interrupted, Held, IInv, ClaimIsCurrent, TypeOK
  <2>3. \A v \in Workers : Executing(v)' <=> Executing(v)
    BY <1>0, <1>3 DEF Start, Executing
  <2>4. \A j \in JobIds : Interrupted(j)' => Interrupted(j)
    BY <2>1, <2>3 DEF Interrupted, Held
  <2> QED BY <1>0, <2>1, <2>2, <2>4 DEF AttemptsInv
<1>4. ASSUME NEW w \in Workers, ClaimJob(w) PROVE AttemptsInv'
  <2>1. PICK j \in JobIds : TakeRow(j) /\ job' = [job EXCEPT ![w] = j]
    BY <1>4 DEF ClaimJob
  <2>2. /\ status[j] = "pending" /\ status' = [status EXCEPT ![j] = "running"]
        /\ attempts' = [attempts EXCEPT ![j] = @ + 1] /\ UNCHANGED faults
    BY <1>4, <2>1 DEF ClaimJob, TakeRow, Oldest, Ready
  <2>3. /\ Executing(w)' /\ job'[w] = j
        /\ \A v \in Workers \ {w} : (Executing(v)' <=> Executing(v)) /\ job'[v] = job[v]
        /\ ~Executing(w)
    BY <1>0, <1>4, <2>1 DEF ClaimJob, Executing
  <2>4. ~Interrupted(j)' /\ \A i \in JobIds \ {j} : Interrupted(i)' => Interrupted(i)
    BY <1>0, <2>2, <2>3 DEF Interrupted, Held
  <2> QED BY <1>0, <2>2, <2>4 DEF AttemptsInv
<1>5. ASSUME NEW w \in Workers, ClaimUnheard(w) PROVE AttemptsInv'
  <2>1. PICK j \in JobIds : TakeRow(j)
    BY <1>5 DEF ClaimUnheard
  <2>2. /\ status[j] = "pending" /\ status' = [status EXCEPT ![j] = "running"]
        /\ attempts' = [attempts EXCEPT ![j] = @ + 1] /\ faults' = faults + 1
    BY <1>5, <2>1 DEF ClaimUnheard, TakeRow, Oldest, Ready
  <2> QED BY <1>0, <2>2 DEF AttemptsInv
<1>6. ASSUME NEW w \in Workers, CompleteJob(w) \/ FailJob(w) PROVE AttemptsInv'
  <2>1. /\ Executing(w) /\ job[w] \in JobIds /\ status[job[w]] \in {"running", "deleted"}
        /\ ~Executing(w)' /\ UNCHANGED <<faults, attempts>>
        /\ \A v \in Workers \ {w} : (Executing(v)' <=> Executing(v)) /\ job'[v] = job[v]
    BY <1>0, <1>6 DEF CompleteJob, FailJob, Release, Executing, IInv, ClaimIsCurrent, jobVars
  <2>2. /\ \A j \in JobIds \ {job[w]} : status'[j] = status[j]
        /\ status'[job[w]] \in {"deleted", "completed", "failed", "pending"}
        /\ status'[job[w]] = "pending" => ~GivesUp(attempts[job[w]])
    BY <1>0, <1>6, <2>1 DEF CompleteJob, FailJob, jobVars
  <2>3. \A j \in JobIds : Interrupted(j)' => Interrupted(j)
    BY <2>1, <2>2 DEF Interrupted, Held
  <2> QED BY <1>0, <2>1, <2>2, <2>3 DEF AttemptsInv, GivesUp
<1>7. ASSUME NEW w \in Workers, FailJobRejected(w) PROVE AttemptsInv'
  <2>1. /\ job[w] \in JobIds /\ attempts[job[w]] >= OverflowAt
        /\ UNCHANGED <<status, attempts, faults>>
    BY <1>7 DEF FailJobRejected, Executing, IInv, ClaimIsCurrent, jobVars
  <2>2. \A v \in Workers \ {w} : (Executing(v)' <=> Executing(v)) /\ job'[v] = job[v]
    BY <1>0, <1>7 DEF FailJobRejected, Release, Executing
  <2>3. \A j \in JobIds \ {job[w]} : Interrupted(j)' => Interrupted(j)
    BY <2>1, <2>2 DEF Interrupted, Held
  <2> QED BY <1>0, <2>1, <2>3 DEF AttemptsInv
<1>8. ASSUME NEW w \in Workers, PersistLost(w) \/ Crash(w) PROVE AttemptsInv'
  <2>1. UNCHANGED <<status, attempts>> /\ faults' = faults + 1
    BY <1>8 DEF PersistLost, Crash, jobVars
  <2> QED BY <1>0, <2>1 DEF AttemptsInv
<1>9. ASSUME NEW w \in Workers, Process(w) \/ Return(w) PROVE AttemptsInv'
  <2>1. UNCHANGED <<status, attempts, job, faults>>
    BY <1>9 DEF Process, Return, jobVars
  <2>2. \A v \in Workers : Executing(v)' <=> Executing(v)
    BY <1>0, <1>9 DEF Process, Return, Executing
  <2>3. \A j \in JobIds : Interrupted(j)' => Interrupted(j)
    BY <2>1, <2>2 DEF Interrupted, Held
  <2> QED BY <1>0, <2>1, <2>3, AttemptsUntouched
<1>10. CASE PruneOperationalData
  <2>1. /\ \A j \in JobIds : status'[j] = "deleted" \/ status'[j] = status[j]
        /\ UNCHANGED <<attempts, faults, phase, job>>
    BY <1>10 DEF PruneOperationalData, workerVars
  <2>2. \A j \in JobIds : Interrupted(j)' => Interrupted(j)
    BY <2>1 DEF Interrupted, Held, Executing
  <2> QED BY <1>0, <2>1, <2>2 DEF AttemptsInv
<1>11. CASE Tick
  BY <1>0, <1>11, AttemptsUntouched DEF Tick, Interrupted, Held, Executing
<1>12. CASE UNCHANGED vars
  BY <1>0, <1>12, AttemptsUntouched DEF vars, Interrupted, Held, Executing
<1> QED BY <1>1, <1>2, <1>3, <1>4, <1>5, <1>6, <1>7, <1>8, <1>9, <1>10, <1>11, <1>12
       DEF Next

\* A job runs more often than MaxAttempts only by as much as outcomes were
\* lost, until the backoff no longer fits an int4.
THEOREM Attempts == Spec => []AttemptsAccounted
<1>1. Init => AttemptsInv
  BY AttemptAssumption DEF Init, AttemptsInv, Interrupted
<1>2. IInv /\ AttemptsInv /\ [Next]_vars => AttemptsInv'
  BY NextAttempts
<1>3. AttemptsInv => AttemptsAccounted
  BY DEF AttemptsInv, AttemptsAccounted
<1> QED BY <1>1, <1>2, <1>3, Invariance, PTL DEF Spec

-----------------------------------------------------------------------------
(***************************************************************************)
(* JobQueue implements JobLease: each step of the queue is a step of the   *)
(* lease specification, or leaves status, key and Holds as they were.      *)
(***************************************************************************)
LEMMA InitLease == Init => Lease!Init
BY DEF Init, Lease!Init, Holds, Executing

LEMMA HoldsIsCurrent ==
  ASSUME IInv, NEW w \in Workers
  PROVE  /\ Holds[w] \in JobIds \cup {NoJob}
         /\ Holds[w] # NoJob => /\ Executing(w) /\ job[w] = Holds[w]
                                /\ status[Holds[w]] = "running"
BY DEF IInv, ClaimIsCurrent, Holds

\* Steps that touch neither the columns nor the mapped holders.
LEMMA SilentSteps ==
  ASSUME IInv, NEW w \in Workers, Process(w) \/ Return(w)
  PROVE  UNCHANGED <<status, key, Holds>>
<1>1. \A v \in Workers : Executing(v)' <=> Executing(v)
  BY DEF Process, Return, Executing, IInv, TypeOK
<1>2. UNCHANGED <<status, key, job>>
  BY DEF Process, Return, jobVars
<1> QED BY <1>1, <1>2 DEF Holds

LEMMA EnqueueLease ==
  ASSUME IInv, NEW k \in Keys, Enqueue(k) PROVE Lease!Next
<1>1. PICK j \in JobIds : /\ NextId(j)
                          /\ status' = [status EXCEPT ![j] = "pending"]
                          /\ key' = [key EXCEPT ![j] = k]
  BY DEF Enqueue
<1>2. \A w \in Workers : Executing(w) => job[w] \in JobIds /\ job[w] # j
  BY <1>1 DEF IInv, ClaimIsCurrent, NextId
<1>3. Holds' = Holds
  BY <1>1, <1>2 DEF Enqueue, workerVars, Holds, Executing, IInv, TypeOK
<1>4. Lease!Submit(j, k)
  BY <1>1, <1>3 DEF Enqueue, NextId, Lease!Submit, Active, Lease!Active
<1> QED BY <1>4 DEF Lease!Next

LEMMA DeleteRepositoryLease ==
  ASSUME IInv, NEW r \in Repos, DeleteRepository(r) PROVE Lease!Next
<1> DEFINE gone == {j \in JobIds : status[j] # "absent" /\ key[j] \in Keys
                                     /\ RepoOf[key[j]] = r}
<1>1. /\ status' = [j \in JobIds |-> IF j \in gone THEN "deleted" ELSE status[j]]
      /\ UNCHANGED <<key, phase, job>>
  BY DEF DeleteRepository, workerVars
<1>2. \A j \in gone : status[j] # "absent"
  OBVIOUS
<1>3. gone \in SUBSET JobIds
  OBVIOUS
<1> HIDE DEF gone
<1>4. Holds' = [w \in Workers |-> IF Holds[w] \in gone THEN NoJob ELSE Holds[w]]
  BY <1>1, <1>3, IdAssumption DEF Holds, Executing, IInv, ClaimIsCurrent, TypeOK
<1>5. Lease!Remove(gone)
  BY <1>1, <1>2, <1>4 DEF Lease!Remove
<1> QED BY <1>3, <1>5 DEF Lease!Next

LEMMA PruneLease == ASSUME IInv, PruneOperationalData PROVE Lease!Next
<1>1. PICK J \in SUBSET {j \in JobIds : status[j] \in {"completed", "failed"}} :
        status' = [j \in JobIds |-> IF j \in J THEN "deleted" ELSE status[j]]
  BY DEF PruneOperationalData
<1>2. UNCHANGED <<key, phase, job>>
  BY DEF PruneOperationalData, workerVars
<1>3. \A w \in Workers : Holds[w] \notin J
  BY HoldsIsCurrent, IdAssumption, ZenonT(60)
<1>4. Holds' = Holds
  BY <1>1, <1>2, <1>3 DEF Holds, Executing, IInv, ClaimIsCurrent, TypeOK
<1>5. Lease!Remove(J)
  BY <1>1, <1>2, <1>3, <1>4 DEF Lease!Remove, Holds
<1> QED BY <1>5 DEF Lease!Next

LEMMA StartLease == ASSUME IInv, NEW w \in Workers, Start(w) PROVE Lease!Next
<1> DEFINE J == {j \in JobIds : Stale(j)}
<1>1. /\ status' = [j \in JobIds |-> IF Stale(j) THEN "pending" ELSE status[j]]
      /\ UNCHANGED <<key, job>>
  BY DEF Start, RecoverStaleJobs
<1>2. \A v \in Workers : Executing(v)' <=> Executing(v)
  BY DEF Start, Executing, IInv, TypeOK
<1>3. \A v \in Workers : Holds[v] \notin J
  BY BusyIsNotStale, HoldsIsCurrent, IdAssumption
<1>4. Holds' = Holds
  BY <1>1, <1>2, BusyIsNotStale DEF Holds, IInv, ClaimIsCurrent, TypeOK
<1>5. Lease!Requeue(J)
  BY <1>1, <1>3, <1>4 DEF Lease!Requeue, Lease!Unheld, Stale
<1> QED BY <1>5 DEF Lease!Next

LEMMA ClaimJobLease ==
  ASSUME IInv, NEW w \in Workers, ClaimJob(w) PROVE Lease!Next
<1>1. PICK j \in JobIds : TakeRow(j) /\ job' = [job EXCEPT ![w] = j]
  BY DEF ClaimJob
<1>2. phase' = [phase EXCEPT ![w] = "processing"] /\ ~Executing(w)
  BY DEF ClaimJob, Executing
<1>3. status' = [status EXCEPT ![j] = "running"]
  BY <1>1 DEF TakeRow
<1>4. \A v \in Workers \ {w} : /\ Executing(v)' <=> Executing(v)
                               /\ job'[v] = job[v]
                               /\ Executing(v) => job[v] # j /\ job[v] \in JobIds
  BY <1>1, <1>2, TakeRowStep DEF Executing, IInv, TypeOK, ClaimIsCurrent
<1>5. Executing(w)' /\ job'[w] = j /\ status'[j] = "running"
  BY <1>1, <1>2, <1>3 DEF Executing, IInv, TypeOK
<1>6. Holds' = [Holds EXCEPT ![w] = j]
  BY <1>3, <1>4, <1>5 DEF Holds, IInv, TypeOK
<1>7. Lease!Take(w, j)
  BY <1>1, <1>2, <1>3, <1>6, TakeRowStep DEF Lease!Take, Holds
<1> QED BY <1>7 DEF Lease!Next

LEMMA ClaimUnheardLease ==
  ASSUME IInv, NEW w \in Workers, ClaimUnheard(w) PROVE Lease!Next
<1>1. PICK j \in JobIds : TakeRow(j)
  BY DEF ClaimUnheard
<1>2. \A v \in Workers : Executing(v)' <=> Executing(v)
  BY DEF ClaimUnheard, Executing, IInv, TypeOK
<1>3. job' = job
  BY DEF ClaimUnheard
<1>4. Holds' = Holds
  BY <1>1, <1>2, <1>3, TakeRowStep DEF Holds, IInv, ClaimIsCurrent
<1>5. Lease!TakeUnheard(j)
  BY <1>1, <1>4, TakeRowStep DEF Lease!TakeUnheard, TakeRow
<1> QED BY <1>5 DEF Lease!Next

\* Letting go without a word: nothing if there was nothing to hold.
LEMMA LetGoLease ==
  ASSUME IInv, NEW w \in Workers, NEW p \in {"idle", "off"},
         phase' = [phase EXCEPT ![w] = p],
         job'   = [job EXCEPT ![w] = NoJob],
         UNCHANGED jobVars
  PROVE  Lease!Next \/ UNCHANGED <<status, key, Holds>>
<1>1. ~Executing(w)'
  BY DEF Executing, IInv, TypeOK
<1>2. \A v \in Workers \ {w} : /\ Executing(v)' <=> Executing(v)
                               /\ job'[v] = job[v]
  BY DEF Executing, IInv, TypeOK
<1>3. Holds' = [Holds EXCEPT ![w] = NoJob]
  BY <1>1, <1>2 DEF Holds, jobVars
<1>4. CASE Holds[w] = NoJob
  BY <1>3, <1>4, ZenonT(60) DEF Holds, jobVars
<1>5. CASE Holds[w] # NoJob
  BY <1>3, <1>5 DEF Lease!Next, Lease!Abandon, jobVars
<1> QED BY <1>4, <1>5

LEMMA VerdictLease ==
  ASSUME IInv, NEW w \in Workers, Executing(w), Release(w), key' = key,
         NEW j \in JobIds, j = job[w], status[j] = "running",
         NEW verdict \in {"completed", "failed", "pending"},
         status' = [status EXCEPT ![j] = verdict]
  PROVE  Lease!Next
<1>1. ~Executing(w)'
  BY DEF Executing, IInv, TypeOK, Release
<1>2. \A v \in Workers \ {w} : /\ Executing(v)' <=> Executing(v)
                               /\ job'[v] = job[v]
                               /\ Executing(v) => job[v] # j /\ job[v] \in JobIds
  BY DEF Executing, IInv, TypeOK, Release, ExclusiveExecution, ClaimIsCurrent
<1>3. Holds' = [Holds EXCEPT ![w] = NoJob]
  BY <1>1, <1>2 DEF Holds, IInv, TypeOK
<1>4. Holds[w] = j
  BY DEF Holds
<1>5. Lease!Settle(w, j, verdict)
  BY <1>3, <1>4 DEF Lease!Settle
<1> QED BY <1>5 DEF Lease!Next, Lease!JobStatus

LEMMA OutcomeLease ==
  ASSUME IInv, NEW w \in Workers,
         \/ CompleteJob(w) \/ FailJob(w) \/ FailJobRejected(w)
         \/ PersistLost(w) \/ Crash(w)
  PROVE  Lease!Next \/ UNCHANGED <<status, key, Holds>>
<1>1. CASE UNCHANGED jobVars
  BY <1>1, LetGoLease DEF CompleteJob, FailJob, FailJobRejected, PersistLost, Crash, Release
<1>2. CASE ~UNCHANGED jobVars
  <2>1. CompleteJob(w) \/ FailJob(w)
    BY <1>2 DEF FailJobRejected, PersistLost, Crash
  <2>2. /\ Executing(w) /\ Release(w) /\ key' = key
        /\ job[w] \in JobIds /\ status[job[w]] = "running"
    BY <1>2, <2>1 DEF CompleteJob, FailJob, Executing, IInv, ClaimIsCurrent, jobVars
  <2>3. CASE CompleteJob(w)
    BY <1>2, <2>2, <2>3, VerdictLease DEF CompleteJob
  <2>4. CASE FailJob(w)
    <3>1. CASE ~GivesUp(attempts[job[w]])
      BY <1>2, <2>2, <2>4, <3>1, VerdictLease DEF FailJob
    <3>2. CASE GivesUp(attempts[job[w]])
      BY <1>2, <2>2, <2>4, <3>2, VerdictLease DEF FailJob
    <3> QED BY <3>1, <3>2
  <2> QED BY <2>1, <2>3, <2>4
<1> QED BY <1>1, <1>2

LEMMA TickLease == ASSUME IInv, Tick PROVE UNCHANGED <<status, key, Holds>>
BY DEF Tick, Holds, Executing

LEMMA NextLease == IInv /\ [Next]_vars => [Lease!Next]_<<status, key, Holds>>
<1> SUFFICES ASSUME IInv, [Next]_vars
             PROVE  Lease!Next \/ UNCHANGED <<status, key, Holds>>
  OBVIOUS
<1>1. CASE \E k \in Keys : Enqueue(k)
  BY <1>1, EnqueueLease
<1>2. CASE \E r \in Repos : DeleteRepository(r)
  BY <1>2, DeleteRepositoryLease
<1>3. CASE \E w \in Workers : Start(w)
  BY <1>3, StartLease
<1>4. CASE \E w \in Workers : ClaimJob(w)
  BY <1>4, ClaimJobLease
<1>5. CASE \E w \in Workers : ClaimUnheard(w)
  BY <1>5, ClaimUnheardLease
<1>6. CASE \E w \in Workers : Process(w) \/ Return(w)
  BY <1>6, SilentSteps
<1>7. CASE \E w \in Workers : \/ CompleteJob(w) \/ FailJob(w) \/ FailJobRejected(w)
                              \/ PersistLost(w) \/ Crash(w)
  BY <1>7, OutcomeLease
<1>8. CASE PruneOperationalData
  BY <1>8, PruneLease
<1>9. CASE Tick
  BY <1>9, TickLease
<1>10. CASE UNCHANGED vars
  BY <1>10 DEF vars, Holds, Executing
<1> QED
  BY <1>1, <1>2, <1>3, <1>4, <1>5, <1>6, <1>7, <1>8, <1>9, <1>10 DEF Next

\* The table and its unguarded updates behave like leases with one holder
\* each: only the holder settles a job, and RecoverStaleJobs requeues no job
\* that somebody still works on.
THEOREM Implementation == Spec => ImplementsLease
<1>1. Init => Lease!Init
  BY InitLease
<1>2. IInv /\ [Next]_vars => [Lease!Next]_Lease!vars
  BY NextLease DEF Lease!vars
<1> QED BY <1>1, <1>2, Invariance, PTL DEF Spec, ImplementsLease, Lease!Spec

\* A job that was completed, given up or deleted stays so.
THEOREM Finality == Spec => TerminalIsFinal
<1>1. IInv /\ [Next]_vars =>
        [\A j \in JobIds :
           status[j] \in {"completed", "failed", "deleted"}
             => status'[j] \in {status[j], "deleted"}]_vars
  <2> SUFFICES ASSUME IInv, [Next]_vars, NEW j \in JobIds,
                      status[j] \in {"completed", "failed", "deleted"}
               PROVE  status'[j] \in {status[j], "deleted"}
    OBVIOUS
  <2>1. CASE UNCHANGED <<status, key, Holds>>
    BY <2>1
  <2>2. CASE Lease!Next
    BY <2>2, HoldsIsCurrent, IdAssumption
    DEF Lease!Next, Lease!Submit, Lease!Take, Lease!TakeUnheard, Lease!Settle,
        Lease!Abandon, Lease!Requeue, Lease!Remove, IInv, TypeOK
  <2> QED BY <2>1, <2>2, NextLease
<1> QED BY <1>1, Invariance, PTL DEF Spec, TerminalIsFinal
=============================================================================
