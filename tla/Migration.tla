------------------------------ MODULE Migration ------------------------------
(***************************************************************************)
(* Processes that start together on one database, and each bring its       *)
(* schema up to date first: the server and the worker, which exit and are  *)
(* started again when that fails, and instances of the serverless          *)
(* function, which load the application with the first request and answer  *)
(* 503 until a load succeeds.  Under the mutex of loadApplication one      *)
(* instance is one process.                                                *)
(*                                                                         *)
(* Migrate takes a session-scoped advisory lock, then applies each file    *)
(* that the ledger schema_migrations lacks, in a transaction that records  *)
(* it.  The documentation recommends a pooled DSN for serverless           *)
(* deployments; where the pooler gives every transaction a connection of   *)
(* its own, a lock of a session excludes nobody, and what is left is the   *)
(* primary key of the ledger.                                              *)
(***************************************************************************)
EXTENDS Naturals, Sequences

CONSTANTS
  Procs,     \* servers, workers and function instances
  Sums,      \* checksums of migration files
  Releases,  \* builds: the checksums of their embedded files, in name order
  None,      \* nobody
  Orphan,    \* a session whose process is gone
  MaxFaults  \* bound of the model: crashes, statements that fail or are unheard

ASSUME ReleaseAssumption == Releases \subseteq Seq(Sums)
ASSUME SessionAssumption == None \notin Procs /\ Orphan \notin Procs /\ None # Orphan
ASSUME FaultAssumption   == MaxFaults \in Nat

VARIABLES
  release, \* never changes: the build of each process
  direct,  \* never changes: connections are sessions, no pooler reassigns them
  pc,      \* how far each process is
  next,    \* the file each process looks at
  lock,    \* the session that holds pg_advisory_lock(734129)
  schema,  \* the scripts that are in effect, in the order they took effect
  ledger,  \* schema_migrations: the files that are recorded, with checksums
  faults   \* faults so far

startup == <<release, direct, pc, next, lock, schema, ledger>>
mvars   == <<startup, faults>>

\* Between pg_advisory_lock and pg_advisory_unlock.
Migrating == {"locked", "looking", "scripted", "recorded", "failing", "migrated"}
Stages    == {"down", "opened", "serving"} \cup Migrating

Row == [file : Nat \ {0}, sum : Sums]

MTypeOK ==
  /\ release \in [Procs -> Releases]
  /\ direct  \in BOOLEAN
  /\ pc      \in [Procs -> Stages]
  /\ next    \in [Procs -> Nat \ {0}]
  /\ lock    \in Procs \cup {None, Orphan}
  /\ schema  \in Seq(Sums)
  /\ ledger  \subseteq Row
  /\ faults  \in 0..MaxFaults

MInit ==
  /\ release \in [Procs -> Releases]
  /\ direct  \in BOOLEAN
  /\ pc      = [p \in Procs |-> "down"]
  /\ next    = [p \in Procs |-> 1]
  /\ lock    = None
  /\ schema  = <<>>
  /\ ledger  = {}
  /\ faults  = 0

-----------------------------------------------------------------------------
(* Starting *)

Goes(p, stage) == pc' = [pc EXCEPT ![p] = stage]

Fault == faults < MaxFaults /\ faults' = faults + 1

File(p)     == release[p][next[p]]
Recorded(f) == \E row \in ledger : row.file = f

\* sql.Open and a ping; when they fail, the process is down as before.
Open(p) ==
  /\ pc[p] = "down"
  /\ Goes(p, "opened")
  /\ UNCHANGED <<release, direct, next, lock, schema, ledger, faults>>

\* pg_advisory_lock waits for the session that holds the lock.
Acquire(p) ==
  /\ pc[p] = "opened"
  /\ direct => lock = None
  /\ Goes(p, "locked")
  /\ lock' = p
  /\ UNCHANGED <<release, direct, next, schema, ledger, faults>>

\* CREATE TABLE IF NOT EXISTS schema_migrations, and the files in name order.
CreateLedger(p) ==
  /\ pc[p] = "locked"
  /\ Goes(p, "looking")
  /\ next' = [next EXCEPT ![p] = 1]
  /\ UNCHANGED <<release, direct, lock, schema, ledger, faults>>

\* Mutant: whatever is recorded under the name will do.
SkipMutant(p) ==
  /\ pc[p] = "looking" /\ next[p] \in DOMAIN release[p]
  /\ Recorded(next[p])
  /\ next' = [next EXCEPT ![p] = @ + 1]
  /\ UNCHANGED <<release, direct, pc, lock, schema, ledger, faults>>

\* The file is recorded with the checksum it has in this build.
Skip(p) ==
  /\ pc[p] = "looking" /\ next[p] \in DOMAIN release[p]
  /\ [file |-> next[p], sum |-> File(p)] \in ledger
  /\ next' = [next EXCEPT ![p] = @ + 1]
  /\ UNCHANGED <<release, direct, pc, lock, schema, ledger, faults>>

\* "checksum changed after it was applied"
Refuse(p) ==
  /\ pc[p] = "looking" /\ next[p] \in DOMAIN release[p]
  /\ Recorded(next[p]) /\ [file |-> next[p], sum |-> File(p)] \notin ledger
  /\ Goes(p, "failing")
  /\ UNCHANGED <<release, direct, next, lock, schema, ledger, faults>>

\* BEGIN and the script.
RunScript(p) ==
  /\ pc[p] = "looking" /\ next[p] \in DOMAIN release[p]
  /\ ~Recorded(next[p])
  /\ Goes(p, "scripted")
  /\ UNCHANGED <<release, direct, next, lock, schema, ledger, faults>>

\* Mutant: a ledger without a primary key.
RecordMutant(p) ==
  /\ pc[p] = "scripted"
  /\ Goes(p, "recorded")
  /\ UNCHANGED <<release, direct, next, lock, schema, ledger, faults>>

\* INSERT INTO schema_migrations: waits for a transaction that has inserted
\* the same name, and fails if that one is committed.
Record(p) ==
  /\ pc[p] = "scripted"
  /\ \A q \in Procs : pc[q] = "recorded" => next[q] # next[p]
  /\ Goes(p, IF Recorded(next[p]) THEN "failing" ELSE "recorded")
  /\ UNCHANGED <<release, direct, next, lock, schema, ledger, faults>>

\* The script and its row take effect at once,
Commits(p) ==
  /\ pc[p] = "recorded"
  /\ schema' = Append(schema, File(p))
  /\ ledger' = ledger \cup {[file |-> next[p], sum |-> File(p)]}
  /\ UNCHANGED <<release, direct, lock>>

Commit(p) ==
  /\ Commits(p)
  /\ next' = [next EXCEPT ![p] = @ + 1]
  /\ Goes(p, "looking")
  /\ UNCHANGED faults

\* or they do and nobody hears of it,
CommitUnheard(p) ==
  /\ Commits(p)
  /\ Fault
  /\ Goes(p, "failing")
  /\ UNCHANGED next

\* or a statement fails and the transaction is rolled back.
Fails(p) ==
  /\ pc[p] \in {"locked", "looking", "scripted", "recorded"}
  /\ Fault
  /\ Goes(p, "failing")
  /\ UNCHANGED <<release, direct, next, lock, schema, ledger>>

Finish(p) ==
  /\ pc[p] = "looking" /\ next[p] \notin DOMAIN release[p]
  /\ Goes(p, "migrated")
  /\ UNCHANGED <<release, direct, next, lock, schema, ledger, faults>>

\* The deferred unlock, on every way out; then the process serves or exits.
Unlocks(p) ==
  /\ pc[p] \in {"failing", "migrated"}
  /\ Goes(p, IF pc[p] = "migrated" THEN "serving" ELSE "down")
  /\ UNCHANGED <<release, direct, next, schema, ledger>>

\* Mutant: the unlock is deferred only once everything is applied.
UnlockMutant(p) ==
  /\ Unlocks(p)
  /\ lock' = IF lock = p /\ pc[p] = "migrated" THEN None ELSE lock
  /\ UNCHANGED faults

Unlock(p) ==
  /\ Unlocks(p)
  /\ lock' = IF lock = p THEN None ELSE lock
  /\ UNCHANGED faults

\* Its error is dropped: the connection is broken, its session is not yet gone.
UnlockFails(p) ==
  /\ Unlocks(p)
  /\ Fault
  /\ lock' = IF lock = p THEN Orphan ELSE lock

\* The process dies, a request is cancelled, an instance is reclaimed.
Crash(p) ==
  /\ pc[p] # "down"
  /\ Fault
  /\ Goes(p, "down")
  /\ lock' = IF lock = p THEN Orphan ELSE lock
  /\ UNCHANGED <<release, direct, next, schema, ledger>>

\* PostgreSQL notices that a session has lost its client.
SessionEnds ==
  /\ lock = Orphan
  /\ lock' = None
  /\ UNCHANGED <<release, direct, pc, next, schema, ledger, faults>>

-----------------------------------------------------------------------------
Migrate(p) ==
  \/ Open(p) \/ CreateLedger(p) \/ Skip(p) \/ Refuse(p) \/ RunScript(p) \/ Record(p)
  \/ Commit(p) \/ Finish(p) \/ Unlock(p)

MFaults(p) == CommitUnheard(p) \/ Fails(p) \/ UnlockFails(p)

\* What a process does to start, but not its death.
Starting(p) == Migrate(p) \/ Acquire(p) \/ MFaults(p)

MNext == SessionEnds \/ \E p \in Procs : Starting(p) \/ Crash(p)

MSpec == MInit /\ [][MNext]_mvars

-----------------------------------------------------------------------------
(* Properties *)

\* "Serialize DDL so [it] cannot race": with one session per connection no two
\* processes are in Migrate at the same time, whoever died where.
MigratesAlone ==
  direct => \A p \in Procs : pc[p] \in Migrating => lock = p

\* The ledger tells exactly which scripts are in effect: they took effect once
\* each, in the order of their names and without a gap, even where the lock
\* excludes nobody.
SchemaIsRecorded ==
  ledger = {[file |-> i, sum |-> schema[i]] : i \in DOMAIN schema}

\* What a process knows of the ledger stays true: files it has passed are
\* recorded with its checksums, and nothing is missing before the one it runs.
PassedAreRecorded ==
  \A p \in Procs :
    /\ pc[p] \in {"looking", "scripted", "recorded", "migrated", "serving"} =>
         \A i \in 1..(next[p] - 1) :
           i \in DOMAIN release[p] /\ [file |-> i, sum |-> release[p][i]] \in ledger
    /\ pc[p] \in {"scripted", "recorded"} => next[p] \in DOMAIN release[p]
    /\ pc[p] \in {"migrated", "serving"} => next[p] \notin DOMAIN release[p]
    /\ pc[p] = "recorded" => ~Recorded(next[p])
    /\ \A q \in Procs :
         pc[p] = "recorded" /\ pc[q] = "recorded" /\ p # q => next[p] # next[q]

\* The inductive invariant.
MInv == MTypeOK /\ MigratesAlone /\ SchemaIsRecorded /\ PassedAreRecorded

\* A process that serves finds every migration of its build in the schema, in
\* the version it was built with, and the schema never loses one again.
ServingIsMigrated ==
  \A p \in Procs : pc[p] = "serving" =>
    \A i \in DOMAIN release[p] : i \in DOMAIN schema /\ schema[i] = release[p][i]

\* A build whose files were edited after they were applied.
Refused(p) ==
  \E i \in DOMAIN release[p] : i \in DOMAIN schema /\ schema[i] # release[p][i]
=============================================================================
