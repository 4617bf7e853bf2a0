-------------------------- MODULE DeploymentProofs --------------------------
(***************************************************************************)
(* For any number of processes, builds and faults: processes migrate alone *)
(* where connections are sessions, every script takes effect once and in   *)
(* order even where they are not, and whoever serves has its whole schema. *)
(* All of it survives the work of the processes, for any fleet.            *)
(***************************************************************************)
EXTENDS Deployment, TLAPS

-----------------------------------------------------------------------------
(* Migrations *)

LEMMA MInitInv == MInit => MInv
BY SessionAssumption, FaultAssumption
   DEF MInit, MInv, MTypeOK, MigratesAlone, SchemaIsRecorded, PassedAreRecorded, Stages, Migrating

LEMMA MStutter == ASSUME MInv, UNCHANGED mvars PROVE MInv'
BY DEF MInv, mvars, startup, MTypeOK, MigratesAlone, SchemaIsRecorded, PassedAreRecorded, Recorded

\* A build has files 1 to some length.
LEMMA ReleaseShape ==
  ASSUME MInv, NEW p \in Procs
  PROVE  /\ release[p] \in Seq(Sums) /\ DOMAIN release[p] = 1..Len(release[p])
         /\ Len(release[p]) \in Nat /\ next[p] \in Nat \ {0}
BY ReleaseAssumption DEF MInv, MTypeOK

\* The steps that leave the tables alone keep the lock and the stages in
\* agreement, or are about nobody who is in Migrate.
LEMMA StageStep ==
  ASSUME MInv, NEW p \in Procs, NEW stage \in Stages, pc' = [pc EXCEPT ![p] = stage],
         UNCHANGED <<release, direct, schema, ledger>>,
         next' \in [Procs -> Nat \ {0}],
         \A q \in Procs \ {p} : next'[q] = next[q],
         faults' \in 0..MaxFaults,
         lock' \in {lock, p, None, Orphan},
         \* the lock is taken when it is free, and goes with its owner
         direct => \/ lock' = lock /\ (stage \in Migrating => pc[p] \in Migrating)
                   \/ lock = None /\ lock' = p
                   \/ lock = p /\ stage \notin Migrating,
         \* what the process knows of the ledger
         stage \in {"looking", "scripted", "recorded", "migrated", "serving"} =>
           \A i \in 1..(next'[p] - 1) :
             i \in DOMAIN release[p] /\ [file |-> i, sum |-> release[p][i]] \in ledger,
         stage \in {"scripted", "recorded"} => next'[p] \in DOMAIN release[p],
         stage \in {"migrated", "serving"} => next'[p] \notin DOMAIN release[p],
         stage = "recorded" =>
           /\ ~Recorded(next'[p])
           /\ \A q \in Procs \ {p} : pc[q] = "recorded" => next[q] # next'[p]
  PROVE  MInv'
<1> USE DEF MInv
<1>1. MTypeOK'
  BY SessionAssumption DEF MTypeOK
<1>2. MigratesAlone'
  BY SessionAssumption DEF MigratesAlone, MTypeOK
<1>3. SchemaIsRecorded'
  BY DEF SchemaIsRecorded
<1>4. PassedAreRecorded'
  <2>1. \A f : Recorded(f)' <=> Recorded(f)
    BY DEF Recorded
  <2>2. ASSUME NEW q \in Procs, q # p PROVE pc'[q] = pc[q] /\ next'[q] = next[q]
    BY <2>2 DEF MTypeOK
  <2>3. pc'[p] = stage
    BY DEF MTypeOK
  <2> QED BY <2>1, <2>2, <2>3 DEF PassedAreRecorded
<1> QED BY <1>1, <1>2, <1>3, <1>4

\* A commit extends the schema by the first script it lacks.
LEMMA CommitsStep ==
  ASSUME MInv, NEW p \in Procs, Commits(p), NEW stage \in {"looking", "failing"},
         pc' = [pc EXCEPT ![p] = stage],
         faults' \in 0..MaxFaults,
         next' = IF stage = "looking" THEN [next EXCEPT ![p] = @ + 1] ELSE next
  PROVE  MInv'
<1> USE DEF MInv
<1> DEFINE row == [file |-> next[p], sum |-> File(p)]
<1>1. /\ pc[p] = "recorded" /\ schema' = Append(schema, File(p)) /\ ledger' = ledger \cup {row}
      /\ UNCHANGED <<release, direct, lock>>
  BY DEF Commits
<1>2. /\ next[p] \in DOMAIN release[p] /\ ~Recorded(next[p])
      /\ \A i \in 1..(next[p] - 1) : [file |-> i, sum |-> release[p][i]] \in ledger
  BY <1>1 DEF PassedAreRecorded
<1>3. File(p) \in Sums /\ next[p] \in Nat \ {0}
  BY <1>2, ReleaseShape DEF File
<1>4. schema \in Seq(Sums) /\ Len(schema) \in Nat /\ DOMAIN schema = 1..Len(schema)
  BY DEF MTypeOK
<1>5. next[p] = Len(schema) + 1
  <2>1. ASSUME NEW i \in DOMAIN schema PROVE Recorded(i)
    <3>1. [file |-> i, sum |-> schema[i]] \in ledger
      BY DEF SchemaIsRecorded
    <3> QED BY <3>1, [file |-> i, sum |-> schema[i]].file = i DEF Recorded
  <2>2. next[p] > Len(schema)
    BY <1>2, <1>3, <1>4, <2>1
  <2>3. \A i \in 1..(next[p] - 1) : i \in DOMAIN schema
    BY <1>2 DEF SchemaIsRecorded
  <2>4. CASE next[p] = 1
    BY <1>4, <2>2, <2>4
  <2>5. CASE next[p] > 1
    <3>1. next[p] - 1 \in DOMAIN schema
      BY <1>3, <2>3, <2>5
    <3> QED BY <1>3, <1>4, <2>2, <3>1
  <2> QED BY <1>3, <2>4, <2>5
<1>6. MTypeOK'
  <2>1. row \in Row
    BY <1>3 DEF Row
  <2> QED BY <1>1, <1>3, <2>1 DEF MTypeOK, Stages, Migrating
<1>7. MigratesAlone'
  BY <1>1 DEF MigratesAlone, MTypeOK, Migrating
<1>8. SchemaIsRecorded'
  <2>1. DOMAIN schema' = DOMAIN schema \cup {next[p]}
    BY <1>1, <1>3, <1>4, <1>5
  <2>2. schema'[next[p]] = File(p) /\ \A i \in DOMAIN schema : schema'[i] = schema[i]
    BY <1>1, <1>3, <1>4, <1>5
  <2>3. ledger' = {[file |-> i, sum |-> schema'[i]] : i \in DOMAIN schema} \cup {row}
    BY <1>1, <2>2 DEF SchemaIsRecorded
  <2> QED BY <2>1, <2>2, <2>3 DEF SchemaIsRecorded
<1>9. PassedAreRecorded'
  <2>1. ASSUME NEW f, Recorded(f)' PROVE Recorded(f) \/ f = next[p]
    BY <1>1, <2>1, row.file = next[p] DEF Recorded
  <2>2. ASSUME NEW q \in Procs, q # p
        PROVE  /\ pc'[q] = pc[q] /\ next'[q] = next[q]
               /\ pc[q] = "recorded" => next[q] # next[p]
    BY <1>1, <2>2 DEF MTypeOK, PassedAreRecorded
  <2>3. pc'[p] = stage /\ (stage = "looking" => next'[p] = next[p] + 1)
    BY DEF MTypeOK
  <2>4. ASSUME stage = "looking", NEW i \in 1..(next'[p] - 1)
        PROVE  i \in DOMAIN release'[p] /\ [file |-> i, sum |-> release'[p][i]] \in ledger'
    <3>1. i \in 1..(next[p] - 1) \/ i = next[p]
      BY <1>3, <2>3, <2>4
    <3> QED BY <1>1, <1>2, <3>1 DEF PassedAreRecorded, File
  <2>5. ASSUME NEW q \in Procs, q # p, pc'[q] = "recorded" PROVE ~Recorded(next[q])'
    BY <2>1, <2>2, <2>5 DEF PassedAreRecorded
  <2> QED BY <1>1, <2>2, <2>3, <2>4, <2>5 DEF PassedAreRecorded
<1> QED BY <1>6, <1>7, <1>8, <1>9

LEMMA StartingStep == ASSUME MInv, NEW p \in Procs, Starting(p) \/ Crash(p) PROVE MInv'
<1> USE DEF MInv
<1>0. /\ MTypeOK /\ faults \in 0..MaxFaults /\ pc[p] \in Stages /\ next \in [Procs -> Nat \ {0}]
      /\ (Fault => faults' \in 0..MaxFaults)
  BY FaultAssumption DEF MTypeOK, Fault
<1>1. ReleaseAssumption /\ next[p] + 1 \in Nat \ {0}
  BY ReleaseAssumption, <1>0
<1> USE DEF Goes, Stages, Migrating, PassedAreRecorded
<1>2. CASE Open(p)
  BY <1>0, <1>2, StageStep DEF Open
<1>3. CASE Acquire(p)
  BY <1>0, <1>3, StageStep DEF Acquire
<1>4. CASE CreateLedger(p)
  <2>1. /\ next' \in [Procs -> Nat \ {0}] /\ 1..(next'[p] - 1) = {}
        /\ \A q \in Procs \ {p} : next'[q] = next[q]
    BY <1>0, <1>4 DEF CreateLedger
  <2> QED BY <1>0, <1>4, <2>1, StageStep DEF CreateLedger
<1>5. CASE Skip(p)
  <2>1. /\ next' \in [Procs -> Nat \ {0}] /\ next'[p] = next[p] + 1
        /\ \A q \in Procs \ {p} : next'[q] = next[q]
    BY <1>0, <1>1, <1>5 DEF Skip
  <2>2. pc' = [pc EXCEPT ![p] = "looking"] /\ pc[p] = "looking"
    BY <1>0, <1>5 DEF Skip, MTypeOK
  <2>3. ASSUME NEW i \in 1..(next'[p] - 1)
        PROVE  i \in DOMAIN release[p] /\ [file |-> i, sum |-> release[p][i]] \in ledger
    <3>1. i \in 1..(next[p] - 1) \/ i = next[p]
      BY <1>0, <2>1
    <3> QED BY <1>5, <2>2, <3>1 DEF Skip, File
  <2>4. UNCHANGED <<release, direct, lock, schema, ledger, faults>>
    BY <1>5 DEF Skip
  <2> QED BY <1>0, <2>1, <2>2, <2>3, <2>4, StageStep
<1>6. CASE Refuse(p)
  BY <1>0, <1>6, StageStep DEF Refuse
<1>7. CASE RunScript(p)
  BY <1>0, <1>7, StageStep DEF RunScript
<1>8. CASE Record(p)
  BY <1>0, <1>8, StageStep DEF Record
<1>9. CASE Commit(p)
  BY <1>0, <1>9, CommitsStep DEF Commit
<1>10. CASE CommitUnheard(p)
  BY <1>0, <1>10, CommitsStep DEF CommitUnheard
<1>11. CASE Fails(p)
  BY <1>0, <1>11, StageStep DEF Fails
<1>12. CASE Finish(p)
  BY <1>0, <1>12, StageStep DEF Finish
<1>13. CASE Unlock(p) \/ UnlockFails(p)
  <2>1. /\ pc[p] \in {"failing", "migrated"} /\ (direct => lock = p)
        /\ lock' \in {lock, None, Orphan} /\ faults' \in 0..MaxFaults
        /\ UNCHANGED <<release, direct, next, schema, ledger>>
    BY <1>0, <1>13 DEF Unlock, UnlockFails, Unlocks, MigratesAlone
  <2>2. CASE pc[p] = "migrated"
    <3>1. pc' = [pc EXCEPT ![p] = "serving"]
      BY <1>13, <2>2 DEF Unlock, UnlockFails, Unlocks
    <3> QED BY <1>0, <2>1, <2>2, <3>1, StageStep
  <2>3. CASE pc[p] = "failing"
    <3>1. pc' = [pc EXCEPT ![p] = "down"]
      BY <1>13, <2>3 DEF Unlock, UnlockFails, Unlocks
    <3> QED BY <1>0, <2>1, <2>3, <3>1, StageStep
  <2> QED BY <2>1, <2>2, <2>3
<1>14. CASE Crash(p)
  BY <1>0, <1>14, StageStep DEF Crash, MigratesAlone
<1> QED BY <1>2, <1>3, <1>4, <1>5, <1>6, <1>7, <1>8, <1>9, <1>10, <1>11, <1>12, <1>13, <1>14
        DEF Starting, Migrate, MFaults

LEMMA SessionStep == ASSUME MInv, SessionEnds PROVE MInv'
BY SessionAssumption
   DEF SessionEnds, MInv, MTypeOK, MigratesAlone, SchemaIsRecorded, PassedAreRecorded, Recorded

LEMMA MNextInv == MInv /\ [MNext]_mvars => MInv'
BY StartingStep, SessionStep, MStutter DEF MNext

\* The invariant of the migrations.
THEOREM MigrationInvariance == MSpec => []MInv
<1>1. MInit => MInv
  BY MInitInv
<1>2. MInv /\ [MNext]_mvars => MInv'
  BY MNextInv
<1> QED BY <1>1, <1>2, PTL DEF MSpec

\* With a ledger that tells the schema, whoever has passed all its files has
\* all its migrations.
LEMMA ServingHolds == MInv => ServingIsMigrated
<1> SUFFICES ASSUME MInv, NEW p \in Procs, pc[p] = "serving", NEW i \in DOMAIN release[p]
             PROVE  i \in DOMAIN schema /\ schema[i] = release[p][i]
  BY DEF ServingIsMigrated
<1>1. /\ DOMAIN release[p] = 1..Len(release[p]) /\ Len(release[p]) \in Nat
      /\ next[p] \in Nat \ {0}
  BY ReleaseShape
<1>2. next[p] \notin DOMAIN release[p]
  BY DEF MInv, PassedAreRecorded
<1>3. i \in 1..(next[p] - 1)
  BY <1>1, <1>2
<1>4. [file |-> i, sum |-> release[p][i]] \in ledger
  BY <1>3 DEF MInv, PassedAreRecorded
<1> QED BY <1>4 DEF MInv, SchemaIsRecorded

\* Nobody serves on a schema that lacks one of its migrations.
THEOREM MigratedBeforeServing == MSpec => []ServingIsMigrated
BY MigrationInvariance, ServingHolds, PTL

-----------------------------------------------------------------------------
(* The deployment *)

LEMMA InitIInv == Init => IInv
<1> SUFFICES ASSUME Init PROVE IInv
  OBVIOUS
<1>1. MInv
  BY MInitInv DEF Init
<1>2. TypeOK
  BY DEF Init, TypeOK
<1> QED BY <1>1, <1>2 DEF IInv

\* Whatever a process cleans, it leaves the schema, the ledger and the lock
\* alone.
LEMMA UpkeepStep == ASSUME MInv, UNCHANGED startup, faults' = faults \/ Fault PROVE MInv'
<1>1. faults' \in 0..MaxFaults
  BY FaultAssumption DEF MInv, MTypeOK, Fault
<1>2. MTypeOK'
  BY <1>1 DEF MInv, startup, MTypeOK
<1>3. MigratesAlone' /\ SchemaIsRecorded' /\ PassedAreRecorded'
  BY DEF MInv, startup, MigratesAlone, SchemaIsRecorded, PassedAreRecorded, Recorded
<1> QED BY <1>2, <1>3 DEF MInv

LEMMA NextTypeOK == ASSUME TypeOK, [Next]_vars PROVE TypeOK'
<1> USE DEF TypeOK
<1>1. CASE EndSession \/ \E p \in Procs : Start(p)
  BY <1>1 DEF EndSession, Start, upkeep
<1>2. ASSUME NEW p \in Procs, Die(p) PROVE TypeOK'
  BY <1>2 DEF Die
<1>3. ASSUME NEW w \in Workers, Housekeeping(w) \/ HousekeepingFails(w) PROVE TypeOK'
  BY <1>3 DEF Housekeeping, HousekeepingFails, ClocksSet, Cleans
<1>4. ASSUME NEW f \in Functions, \/ ClaimMaintenance(f) \/ ClaimUnheard(f) \/ CleanupFails(f)
                                  \/ \E c \in Cleanups : Cleanup(f, c)
      PROVE  TypeOK'
  BY <1>4 DEF ClaimMaintenance, ClaimUnheard, CleanupFails, Cleanup, Cleans
<1>5. CASE Clocks \/ Expire
  BY <1>5 DEF Clocks, LeaseHour, SweepHour, HouseHour, Expire
<1>6. CASE UNCHANGED vars
  BY <1>6 DEF vars, upkeep
<1> QED BY <1>1, <1>2, <1>3, <1>4, <1>5, <1>6 DEF Next, Work, WorkFails

LEMMA NextMInv == ASSUME MInv, [Next]_vars PROVE MInv'
<1>1. CASE EndSession
  BY <1>1, SessionStep DEF EndSession
<1>2. ASSUME NEW p \in Procs, Start(p) \/ Die(p) PROVE MInv'
  BY <1>2, StartingStep DEF Start, Die
<1>3. ASSUME NEW p \in Procs, Work(p) \/ WorkFails(p) PROVE MInv'
  <2>1. UNCHANGED startup /\ (faults' = faults \/ Fault)
    BY <1>3 DEF Work, WorkFails, Housekeeping, HousekeepingFails, ClocksSet, ClaimMaintenance,
                ClaimUnheard, Cleanup, CleanupFails, mvars
  <2> QED BY <2>1, UpkeepStep
<1>4. CASE Clocks \/ Expire
  BY <1>4, MStutter DEF Clocks, LeaseHour, SweepHour, HouseHour, Expire
<1>5. CASE UNCHANGED vars
  BY <1>5, MStutter DEF vars
<1> QED BY <1>1, <1>2, <1>3, <1>4, <1>5 DEF Next

\* What is known of the migrations stays true of a deployment at work.
THEOREM DeploymentInvariance == Spec => []IInv
<1>1. Init => IInv
  BY InitIInv
<1>2. IInv /\ [Next]_vars => IInv'
  BY NextTypeOK, NextMInv DEF IInv
<1> QED BY <1>1, <1>2, PTL DEF Spec

\* No process serves, and none cleans, on a schema that lacks one of its
\* migrations.
THEOREM DeploymentMigrated == Spec => []ServingIsMigrated
<1>1. IInv => ServingIsMigrated
  BY ServingHolds DEF IInv
<1> QED BY <1>1, DeploymentInvariance, PTL
=============================================================================
