----------------------------- MODULE Deployment -----------------------------
(***************************************************************************)
(* A deployment at work: the processes of Migration, which once they serve *)
(* keep the tables small.  A long-running worker cleans by clocks of its   *)
(* own, which start again with the process.  A cron request of the         *)
(* serverless function first takes a lease, which lasts an hour from the   *)
(* moment it is taken, whatever becomes of the work.  The worker does not  *)
(* look at the lease.                                                      *)
(*                                                                         *)
(* What a batch does with the queue is the subject of JobQueue.            *)
(***************************************************************************)
EXTENDS Migration

CONSTANTS
  Workers,  \* the processes that run Worker.Run
  Functions \* the processes that are called by cron

ASSUME RoleAssumption == Workers \cup Functions \subseteq Procs

VARIABLES
  fleet,    \* never changes: the processes this deployment has
  watched,  \* never changes: the kind of rows that is observed
  expired,  \* {watched} if such rows are past their retention
  leaseDue, \* an hour has passed since maintenance_runs.ran_at, or no row
  sweepDue, \* workers whose lastPayloadSweep is more than an hour ago
  houseDue, \* workers whose lastHousekeeping is more than an hour ago
  batch     \* per function, the cleanups its cron request still has to do

upkeep == <<fleet, watched, expired, leaseDue, sweepDue, houseDue, batch>>
vars   == <<mvars, upkeep>>

\* DeleteExpiredPayloads, PruneExpiredData and PruneOperationalData, and the
\* rows they remove: the same rows for whoever calls them.
Cleanups == {"payloads", "data", "operational"}

TypeOK ==
  /\ fleet    \subseteq Procs
  /\ watched  \in Cleanups
  /\ expired  \subseteq {watched}
  /\ leaseDue \in BOOLEAN
  /\ sweepDue \subseteq Workers
  /\ houseDue \subseteq Workers
  /\ batch    \in [Functions -> SUBSET Cleanups]

Init ==
  /\ MInit
  /\ fleet    \in SUBSET Procs \ {{}}
  /\ \A p \in Procs \ fleet, q \in fleet : release[p] = release[q]
  /\ watched  \in Cleanups
  /\ expired  = {}
  /\ leaseDue = TRUE
  /\ sweepDue = Workers
  /\ houseDue = Workers
  /\ batch    = [f \in Functions |-> {}]

Serving(p) == pc[p] = "serving"
Cleaners   == fleet \cap (Workers \cup Functions)

-----------------------------------------------------------------------------
(* The processes *)

Start(p) ==
  /\ p \in fleet
  /\ Starting(p)
  /\ UNCHANGED upkeep

\* The clocks of a worker are in its memory and start at zero, which is long
\* ago; the cron request ends where it was.
Die(p) ==
  /\ p \in fleet
  /\ Crash(p)
  /\ sweepDue' = sweepDue \cup ({p} \cap Workers)
  /\ houseDue' = houseDue \cup ({p} \cap Workers)
  /\ batch'    = [f \in Functions |-> IF f = p THEN {} ELSE batch[f]]
  /\ UNCHANGED <<fleet, watched, expired, leaseDue>>

EndSession == SessionEnds /\ UNCHANGED upkeep

-----------------------------------------------------------------------------
(* Time *)

\* Webhooks, completed jobs and analyses grow old.
Expire ==
  /\ expired = {}
  /\ expired' = {watched}
  /\ UNCHANGED <<mvars, fleet, watched, leaseDue, sweepDue, houseDue, batch>>

\* An hour passes; every clock counts it from a moment of its own.
LeaseHour ==
  /\ ~leaseDue
  /\ leaseDue' = TRUE
  /\ UNCHANGED <<mvars, fleet, watched, expired, sweepDue, houseDue, batch>>

SweepHour(w) ==
  /\ w \notin sweepDue
  /\ sweepDue' = sweepDue \cup {w}
  /\ UNCHANGED <<mvars, fleet, watched, expired, leaseDue, houseDue, batch>>

HouseHour(w) ==
  /\ w \notin houseDue
  /\ houseDue' = houseDue \cup {w}
  /\ UNCHANGED <<mvars, fleet, watched, expired, leaseDue, sweepDue, batch>>

-----------------------------------------------------------------------------
(* The worker *)

\* What one iteration of the loop has to clean, between two jobs.
Due(w) == (IF w \in sweepDue THEN {"payloads"} ELSE {})
            \cup (IF w \in houseDue THEN {"data", "operational"} ELSE {})

Cleans(done) == expired' = expired \ done

\* The clocks are set, whatever came of the cleanups.
ClocksSet(w) ==
  /\ Serving(w) /\ Due(w) # {}
  /\ sweepDue' = sweepDue \ {w}
  /\ houseDue' = houseDue \ {w}
  /\ UNCHANGED <<startup, fleet, watched, leaseDue, batch>>

Housekeeping(w) == ClocksSet(w) /\ Cleans(Due(w)) /\ UNCHANGED faults

\* Some of the cleanups fail, and leave rows.
HousekeepingFails(w) ==
  /\ ClocksSet(w)
  /\ Fault
  /\ \E done \in SUBSET Due(w) \ {Due(w)} : Cleans(done)

-----------------------------------------------------------------------------
(* The cron request *)

\* RunBatch recovers stale jobs and then claims the lease, which is one
\* statement; nothing is due, or everything is.
ClaimMaintenance(f) ==
  /\ Serving(f) /\ batch[f] = {} /\ leaseDue
  /\ leaseDue' = FALSE
  /\ batch' = [batch EXCEPT ![f] = Cleanups]
  /\ UNCHANGED <<mvars, fleet, watched, expired, sweepDue, houseDue>>

\* The claim commits and its answer is lost: the lease is gone for an hour and
\* nothing is cleaned.
ClaimUnheard(f) ==
  /\ Serving(f) /\ batch[f] = {} /\ leaseDue
  /\ Fault
  /\ leaseDue' = FALSE
  /\ UNCHANGED <<startup, fleet, watched, expired, sweepDue, houseDue, batch>>

\* Mutant: a batch does the first cleanup it meets.
CleanupMutant(f, c) ==
  /\ Serving(f) /\ c \in batch[f]
  /\ Cleans({c})
  /\ batch' = [batch EXCEPT ![f] = {}]
  /\ UNCHANGED <<mvars, fleet, watched, leaseDue, sweepDue, houseDue>>

\* The cleanups in the order of a map, that is in any.
Cleanup(f, c) ==
  /\ Serving(f) /\ c \in batch[f]
  /\ Cleans({c})
  /\ batch' = [batch EXCEPT ![f] = @ \ {c}]
  /\ UNCHANGED <<mvars, fleet, watched, leaseDue, sweepDue, houseDue>>

\* One fails, which is counted, and the batch goes on; when its budget is at
\* an end all the others fail too.
CleanupFails(f) ==
  /\ Serving(f)
  /\ \E rest \in SUBSET batch[f] \ {batch[f]} : batch' = [batch EXCEPT ![f] = rest]
  /\ Fault
  /\ UNCHANGED <<startup, fleet, watched, expired, leaseDue, sweepDue, houseDue>>

-----------------------------------------------------------------------------
Work(p) ==
  \/ p \in Workers /\ Housekeeping(p)
  \/ p \in Functions /\ (ClaimMaintenance(p) \/ \E c \in Cleanups : Cleanup(p, c))

WorkFails(p) ==
  \/ p \in Workers /\ HousekeepingFails(p)
  \/ p \in Functions /\ (ClaimUnheard(p) \/ CleanupFails(p))

Clocks == LeaseHour \/ \E w \in Workers : SweepHour(w) \/ HouseHour(w)

Next ==
  \/ EndSession \/ Clocks
  \/ \E p \in Procs : Start(p) \/ Die(p) \/ Work(p) \/ WorkFails(p)
  \/ Expire

Spec == Init /\ [][Next]_vars

\* Processes are started again when they exit ("restart: unless-stopped"),
\* requests and cron keep coming (Vercel), the database ends dead sessions, its
\* lock queue is fair, the loop of a worker goes on, and time passes.
Fairness ==
  /\ WF_vars(EndSession)
  /\ \A p \in Procs :
       /\ WF_vars(p \in fleet /\ Migrate(p) /\ UNCHANGED upkeep)
       /\ SF_vars(p \in fleet /\ Acquire(p) /\ UNCHANGED upkeep)
  /\ \A w \in Workers :
       WF_vars(Housekeeping(w)) /\ WF_vars(SweepHour(w)) /\ WF_vars(HouseHour(w))
  /\ \A f \in Functions : WF_vars(ClaimMaintenance(f)) /\ WF_vars(\E c \in Cleanups : Cleanup(f, c))
  /\ WF_vars(LeaseHour)

FairSpec == Spec /\ Fairness

-----------------------------------------------------------------------------
(* Properties *)

\* What is known of the migrations stays true while processes clean.
IInv == TypeOK /\ MInv

\* Whatever dies or fails on the way, in the end all processes of the
\* deployment serve, but those whose build was edited after it was applied;
\* nobody waits for ever for the lock of a session that is gone.
ServesOrRefuses ==
  direct ~> \A p \in fleet : Serving(p) \/ Refused(p)

\* Where something cleans, expired rows are removed in the end, although
\* neither the lease nor a worker's clock is given back when a cleanup fails.
ExpiredRowsGo ==
  expired # {} /\ direct /\ Cleaners # {}
    ~> expired = {} \/ \A p \in Cleaners : Refused(p)
=============================================================================
