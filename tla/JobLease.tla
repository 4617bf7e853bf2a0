------------------------------ MODULE JobLease ------------------------------
(***************************************************************************)
(* What the analysis queue promises, with no clock and no retry counter: a *)
(* job is submitted for a key, taken by one worker, and the worker that    *)
(* took it is the only one that can settle it.  A taken job goes back to   *)
(* the queue without its holder's word only when it has no holder.         *)
(*                                                                         *)
(* The code has no lease, no owner column and no fencing token: it writes  *)
(* `WHERE id=$1`.  Module JobQueue models that code and is shown to        *)
(* implement this specification.                                           *)
(***************************************************************************)
CONSTANTS Keys,      \* (repository, pull request, kind) triples
          NoKey,     \* the key of an id no job has been given
          JobIds,    \* ids the BIGSERIAL column hands out
          Workers,   \* worker processes and cron invocations
          NoJob      \* a worker that holds nothing

VARIABLES status,    \* [JobIds -> JobStatus]
          key,       \* [JobIds -> Keys \cup {NoKey}]
          holds      \* [Workers -> JobIds \cup {NoJob}]

vars == <<status, key, holds>>

JobStatus == {"absent", "pending", "running", "completed", "failed", "deleted"}
Active    == {"pending", "running"}
Unheld(j) == \A w \in Workers : holds[w] # j

Init ==
  /\ status = [j \in JobIds |-> "absent"]
  /\ key    = [j \in JobIds |-> NoKey]
  /\ holds  = [w \in Workers |-> NoJob]

\* A job is accepted when no unfinished job has its key.
Submit(j, k) ==
  /\ status[j] = "absent"
  /\ \A i \in JobIds : status[i] \in Active => key[i] # k
  /\ status' = [status EXCEPT ![j] = "pending"]
  /\ key'    = [key EXCEPT ![j] = k]
  /\ UNCHANGED holds

Take(w, j) ==
  /\ holds[w] = NoJob
  /\ status[j] = "pending"
  /\ status' = [status EXCEPT ![j] = "running"]
  /\ holds'  = [holds EXCEPT ![w] = j]
  /\ UNCHANGED key

\* The job is marked taken, and nobody learns of it.
TakeUnheard(j) ==
  /\ status[j] = "pending"
  /\ status' = [status EXCEPT ![j] = "running"]
  /\ UNCHANGED <<key, holds>>

\* The holder, and nobody else, says how the job ended: done, given up or
\* to be tried again.
Settle(w, j, outcome) ==
  /\ holds[w] = j
  /\ outcome \in {"completed", "failed", "pending"}
  /\ status' = [status EXCEPT ![j] = outcome]
  /\ holds'  = [holds EXCEPT ![w] = NoJob]
  /\ UNCHANGED key

\* The holder dies, or its last word is lost.
Abandon(w) ==
  /\ holds[w] # NoJob
  /\ holds' = [holds EXCEPT ![w] = NoJob]
  /\ UNCHANGED <<status, key>>

\* Jobs that nobody holds any more go back to the queue.
Requeue(J) ==
  /\ \A j \in J : status[j] = "running" /\ Unheld(j)
  /\ status' = [j \in JobIds |-> IF j \in J THEN "pending" ELSE status[j]]
  /\ UNCHANGED <<key, holds>>

\* Rows disappear: finished jobs by retention, any job with its repository.
Remove(J) ==
  /\ \A j \in J : status[j] # "absent"
  /\ status' = [j \in JobIds |-> IF j \in J THEN "deleted" ELSE status[j]]
  /\ holds'  = [w \in Workers |-> IF holds[w] \in J THEN NoJob ELSE holds[w]]
  /\ UNCHANGED key

Next ==
  \/ \E j \in JobIds, k \in Keys : Submit(j, k)
  \/ \E w \in Workers, j \in JobIds : Take(w, j)
  \/ \E j \in JobIds : TakeUnheard(j)
  \/ \E w \in Workers, j \in JobIds, o \in JobStatus : Settle(w, j, o)
  \/ \E w \in Workers : Abandon(w)
  \/ \E J \in SUBSET JobIds : Requeue(J) \/ Remove(J)

Spec == Init /\ [][Next]_vars
=============================================================================
