----------------------- MODULE TombstoneLifecycleProofs -----------------------
(***************************************************************************)
(* For any number of changes, repetitions and retries: the variables of    *)
(* TombstoneLifecycle keep their types, and the archive of merged work     *)
(* holds merged work only.                                                 *)
(***************************************************************************)
EXTENDS TombstoneLifecycle, TLAPS

\* The parts of the state that most actions leave alone.
LEMMA StutterStep == ASSUME ArchiveInv, UNCHANGED vars PROVE ArchiveInv'
BY DEF ArchiveInv, vars, github, web, queue, rows, TypeOK, MergesAreFinal, ArchivedWasMerged

LEMMA InitArchiveInv == Init => ArchiveInv
<1> SUFFICES ASSUME Init PROVE ArchiveInv
  OBVIOUS
<1>1. 0 \in 0..MaxRev /\ 0 \in 0..MaxReplays /\ 0 \in 0..MaxRetries
  BY BoundAssumption
<1>2. TypeOK
  BY <1>1, ModeAssumption DEF Init, TypeOK, Stages, GitHubState, Snapshots
<1>3. MergesAreFinal /\ ArchivedWasMerged
  BY DEF Init, MergesAreFinal, ArchivedWasMerged, Nothing
<1> QED BY <1>2, <1>3 DEF ArchiveInv

\* Nothing that happens on GitHub takes a merge back.
LEMMA ChangeStep ==
  ASSUME ArchiveInv, NEW from \in {"open", "closed"}, NEW action \in Actions, NEW to \in GitHubState,
         Change(from, action, to), action = "merged" => to = "merged"
  PROVE  ArchiveInv'
<1> DEFINE e == [action |-> action, rev |-> gh.rev + 1]
<1>1. /\ gh.state = from /\ gh' = [state |-> to, rev |-> gh.rev + 1]
      /\ sent' = sent \cup {e} /\ inbox' = inbox \cup {e}
      /\ UNCHANGED <<orderly, inflight, replays, queue, rows, listed>>
  BY DEF Change
<1>2. gh.rev + 1 \in 1..MaxRev /\ gh \in Snapshots
  BY BoundAssumption DEF Change, ArchiveInv, TypeOK, Snapshots
<1>3. e \in Events
  BY <1>2 DEF Events
<1>4. TypeOK'
  BY <1>1, <1>2, <1>3 DEF ArchiveInv, TypeOK, Snapshots, queue, rows
<1>5. gh.state # "merged"
  BY <1>1
<1>6. MergesAreFinal'
  BY <1>1, <1>5 DEF ArchiveInv, MergesAreFinal, queue
<1>7. ArchivedWasMerged'
  BY <1>1, <1>5 DEF ArchiveInv, ArchivedWasMerged, rows
<1> QED BY <1>4, <1>6, <1>7 DEF ArchiveInv

\* A state that a webhook or a person sets says "merged" only of merged work.
LEMMA SetStateStep ==
  ASSUME ArchiveInv, NEW s \in TombstoneStates, SetTombstoneState(s),
         s = "ARCHIVED_AS_MERGED" => gh.state = "merged",
         UNCHANGED <<orderly, gh, sent, job, snapshot, retries, gaveUp, prRow, listed>>,
         inbox' \subseteq sent, inflight' \subseteq sent, replays' \in 0..MaxReplays
  PROVE  ArchiveInv'
<1>1. tombstone' \in [state : TombstoneStates, rev : 0..MaxRev] \cup {Nothing}
  BY DEF SetTombstoneState, ArchiveInv, TypeOK
<1>2. TypeOK'
  BY <1>1 DEF SetTombstoneState, ArchiveInv, TypeOK
<1>3. MergesAreFinal'
  BY DEF ArchiveInv, MergesAreFinal
<1>4. ArchivedWasMerged'
  BY DEF SetTombstoneState, ArchiveInv, TypeOK, ArchivedWasMerged, Nothing
<1> QED BY <1>2, <1>3, <1>4 DEF ArchiveInv

\* Steps that leave GitHub and the Tombstone alone.
LEMMA JobStep ==
  ASSUME ArchiveInv, UNCHANGED <<orderly, gh, sent, tombstone>>,
         prRow' \in Snapshots \cup {Nothing}, heard' \in BOOLEAN, listed' \in BOOLEAN,
         inbox' \subseteq sent, inflight' \subseteq sent, replays' \in 0..MaxReplays,
         job' \in [Kinds -> Stages],
         snapshot' \in [Kinds -> Snapshots \cup {Nothing}],
         \A k \in Kinds : snapshot'[k] \in {snapshot[k], gh, Nothing},
         retries' \in [Kinds -> 0..MaxRetries], gaveUp' \subseteq Kinds
  PROVE  ArchiveInv'
<1>1. TypeOK'
  BY DEF ArchiveInv, TypeOK
<1>2. MergesAreFinal'
  BY DEF ArchiveInv, MergesAreFinal, Nothing
<1>3. ArchivedWasMerged'
  BY DEF ArchiveInv, ArchivedWasMerged
<1> QED BY <1>1, <1>2, <1>3 DEF ArchiveInv

\* An enqueue, and what may go with it in one step.
LEMMA EnqueueStep ==
  ASSUME ArchiveInv, NEW k \in Kinds, Enqueue(k), UNCHANGED <<orderly, gh, sent, rows>>, listed' \in BOOLEAN,
         inbox' \subseteq sent, inflight' \subseteq sent, replays' \in 0..MaxReplays
  PROVE  ArchiveInv'
<1>1. job' \in [Kinds -> Stages]
  BY DEF Enqueue, ArchiveInv, TypeOK, Stages
<1> QED BY <1>1, JobStep DEF Enqueue, ArchiveInv, TypeOK, rows

LEMMA WebhookStep ==
  ASSUME ArchiveInv, NEW e \in Events, Handle(e) \/ HandleClosedFails(e) \/ Replay(e)
  PROVE  ArchiveInv'
<1>0. /\ TypeOK /\ inbox \subseteq sent /\ inflight \subseteq sent /\ replays \in 0..MaxReplays
      /\ listed \in BOOLEAN
  BY DEF ArchiveInv, TypeOK
<1>k. "tombstone" \in Kinds /\ "similarity" \in Kinds
  BY DEF Kinds
<1>s. {"SUSPENDED", "ACTIVE", "ARCHIVED_AS_MERGED"} \subseteq TombstoneStates
  BY DEF TombstoneStates, ManualStates
<1>1. CASE HandleSynchronize(e)
  <2>1. /\ Enqueue("similarity") /\ inbox' = inbox \ {e}
        /\ UNCHANGED <<orderly, gh, sent, inflight, replays, rows, listed>>
    BY <1>1 DEF HandleSynchronize, Deliver, github
  <2> QED BY <1>0, <1>k, <2>1, EnqueueStep
<1>2. CASE HandleReopened(e)
  <2>1. /\ SetTombstoneState("SUSPENDED") /\ inbox' = inbox \ {e}
        /\ UNCHANGED <<orderly, gh, sent, inflight, replays, job, snapshot, retries, gaveUp, prRow, listed>>
    BY <1>2 DEF HandleReopened, Deliver, github, queue
  <2> QED BY <1>0, <1>s, <2>1, SetStateStep
<1>3. CASE HandleMerged(e)
  <2>1. /\ SetTombstoneState("ARCHIVED_AS_MERGED") /\ inbox' = inbox \ {e}
        /\ UNCHANGED <<orderly, gh, sent, inflight, replays, job, snapshot, retries, gaveUp, prRow, listed>>
    BY <1>3 DEF HandleMerged, Deliver, github, queue
  <2>2. gh.state = "merged"
    BY <1>0, <1>3 DEF HandleMerged, Deliver, ArchiveInv, MergesAreFinal
  <2> QED BY <1>0, <1>s, <2>1, <2>2, SetStateStep
<1>4. CASE HandleClosed(e)
  <2>1. /\ SetTombstoneState("ACTIVE") /\ inbox' = inbox \ {e} /\ e \in inbox
        /\ inflight' = inflight \cup {e}
        /\ UNCHANGED <<orderly, gh, sent, replays, job, snapshot, retries, gaveUp, prRow, listed>>
    BY <1>4 DEF HandleClosed, Deliver, github, queue
  <2> QED BY <1>0, <1>s, <2>1, SetStateStep
<1>5. CASE HandleClosedEnqueue(e)
  <2>1. /\ Enqueue("tombstone") /\ inflight' = inflight \ {e}
        /\ UNCHANGED <<orderly, gh, sent, inbox, replays, rows, listed>>
    BY <1>5 DEF HandleClosedEnqueue, github
  <2> QED BY <1>0, <1>k, <2>1, EnqueueStep
<1>6. CASE HandleClosedFails(e) \/ Replay(e)
  <2>1. /\ inbox' = inbox \cup {e} /\ inflight' \subseteq inflight /\ e \in sent
        /\ replays < MaxReplays /\ replays' = replays + 1
        /\ UNCHANGED <<orderly, gh, sent, queue, rows, listed>>
    BY <1>0, <1>6 DEF HandleClosedFails, Replay, github
  <2>2. replays' \in 0..MaxReplays
    BY <1>0, <2>1, BoundAssumption
  <2> QED BY <1>0, <2>1, <2>2, JobStep DEF TypeOK, queue, rows
<1> QED BY <1>1, <1>2, <1>3, <1>4, <1>5, <1>6 DEF Handle

LEMMA DashboardStep ==
  ASSUME ArchiveInv, \/ \E s \in ManualStates : PutState(s)
               \/ Reanalyze \/ BackfillList \/ BackfillEnqueue
  PROVE  ArchiveInv'
<1>0. /\ TypeOK /\ inbox \subseteq sent /\ inflight \subseteq sent /\ replays \in 0..MaxReplays
      /\ listed \in BOOLEAN /\ "tombstone" \in Kinds
  BY DEF ArchiveInv, TypeOK, Kinds
<1>1. ASSUME NEW s \in ManualStates, PutState(s) PROVE ArchiveInv'
  <2>1. s \in TombstoneStates /\ s # "ARCHIVED_AS_MERGED"
    BY DEF TombstoneStates, ManualStates
  <2>2. /\ SetTombstoneState(s)
        /\ UNCHANGED <<orderly, gh, sent, inbox, inflight, replays, job, snapshot, retries, gaveUp,
                       prRow, listed>>
    BY <1>1 DEF PutState, github, web, queue
  <2> QED BY <1>0, <2>1, <2>2, SetStateStep
<1>2. CASE Reanalyze
  <2>1. Enqueue("tombstone") /\ UNCHANGED <<orderly, gh, sent, inbox, inflight, replays, rows, listed>>
    BY <1>2 DEF Reanalyze, github, web
  <2> QED BY <1>0, <2>1, EnqueueStep
<1>3. CASE BackfillList
  <2>1. listed' \in BOOLEAN /\ UNCHANGED <<orderly, gh, sent, inbox, inflight, replays, queue, rows>>
    BY <1>3 DEF BackfillList, github, web
  <2> QED BY <1>0, <2>1, JobStep DEF TypeOK, queue, rows
<1>4. CASE BackfillEnqueue
  <2>1. /\ Enqueue("tombstone") /\ listed' \in BOOLEAN
        /\ UNCHANGED <<orderly, gh, sent, inbox, inflight, replays, rows>>
    BY <1>4 DEF BackfillEnqueue, github, web
  <2> QED BY <1>0, <2>1, EnqueueStep
<1> QED BY <1>1, <1>2, <1>3, <1>4

\* The analysis archives only what its snapshot, however old, shows as merged.
LEMMA SaveAnalysisStep == ASSUME ArchiveInv, SaveAnalysis PROVE ArchiveInv'
<1> USE DEF ArchiveInv
<1> DEFINE s == snapshot["tombstone"]
<1>1. /\ prRow' = s /\ tombstone' = [state |-> SavedState(s), rev |-> s.rev]
      /\ job' = [job EXCEPT !["tombstone"] = "saved"]
      /\ UNCHANGED <<orderly, gh, sent, inbox, inflight, replays, snapshot, retries, gaveUp, heard, listed>>
  BY DEF SaveAnalysis, github, web
<1>2. "tombstone" \in Kinds
  BY DEF Kinds
<1>3. s \in Snapshots \cup {Nothing}
  BY <1>2 DEF TypeOK
<1>4. s.rev \in 0..MaxRev
  BY <1>3, BoundAssumption DEF Snapshots, Nothing
<1>5. SavedState(s) \in TombstoneStates
  BY DEF SavedState, TypeOK, TombstoneStates, ManualStates
<1>6. TypeOK'
  BY <1>1, <1>2, <1>3, <1>4, <1>5 DEF TypeOK, Stages
<1>7. MergesAreFinal'
  BY <1>1 DEF MergesAreFinal
<1>8. ArchivedWasMerged'
  <2>1. SavedState(s) = "ARCHIVED_AS_MERGED" => gh.state = "merged"
    BY <1>2 DEF SavedState, MergesAreFinal, ArchivedWasMerged
  <2> QED BY <2>1, <1>1 DEF ArchivedWasMerged
<1> QED BY <1>6, <1>7, <1>8

LEMMA WorkerStep ==
  ASSUME ArchiveInv, NEW k \in Kinds,
         Claim(k) \/ FetchSnapshot(k) \/ Complete(k) \/ Retry(k) \/ GiveUp(k)
  PROVE  ArchiveInv'
<1> USE DEF ArchiveInv
<1>1. job' \in [Kinds -> Stages]
  BY DEF Claim, FetchSnapshot, Complete, Retry, GiveUp, TypeOK, Stages
<1>2. /\ snapshot' \in [Kinds -> Snapshots \cup {Nothing}]
      /\ \A l \in Kinds : snapshot'[l] \in {snapshot[l], gh, Nothing}
  BY DEF Claim, FetchSnapshot, Complete, Retry, GiveUp, TypeOK
<1>3. retries' \in [Kinds -> 0..MaxRetries]
  BY BoundAssumption DEF Claim, FetchSnapshot, Complete, Retry, GiveUp, TypeOK
<1>4. /\ gaveUp' \subseteq Kinds
      /\ UNCHANGED <<orderly, gh, sent, inbox, inflight, replays, prRow, tombstone, heard, listed>>
  BY DEF Claim, FetchSnapshot, Complete, Retry, GiveUp, TypeOK, github, web, rows
<1> QED BY <1>1, <1>2, <1>3, <1>4, JobStep DEF TypeOK

LEMMA SaveSnapshotOnlyStep == ASSUME ArchiveInv, SaveSnapshotOnly PROVE ArchiveInv'
<1> USE DEF ArchiveInv
<1>1. job' \in [Kinds -> Stages]
  BY DEF SaveSnapshotOnly, TypeOK, Stages
<1>2. prRow' \in Snapshots \cup {Nothing}
  BY DEF SaveSnapshotOnly, TypeOK, Kinds
<1> QED BY <1>1, <1>2, JobStep DEF SaveSnapshotOnly, TypeOK, github, web

LEMMA NextArchiveInv == ArchiveInv /\ [Next]_vars => ArchiveInv'
<1> SUFFICES ASSUME ArchiveInv, [Next]_vars PROVE ArchiveInv'
  OBVIOUS
<1>1. CASE Push \/ Close \/ Merge \/ Reopen
  BY <1>1, ChangeStep DEF Push, Close, Merge, Reopen, Actions, GitHubState
<1>2. ASSUME NEW e \in Events, Handle(e) \/ HandleClosedFails(e) \/ Replay(e) PROVE ArchiveInv'
  BY <1>2, WebhookStep
<1>3. CASE (\E s \in ManualStates : PutState(s)) \/ Reanalyze \/ BackfillList \/ BackfillEnqueue
  BY <1>3, DashboardStep
<1>4. CASE SaveAnalysis
  BY <1>4, SaveAnalysisStep
<1>5. CASE SaveSnapshotOnly
  BY <1>5, SaveSnapshotOnlyStep
<1>6. ASSUME NEW k \in Kinds,
             Claim(k) \/ FetchSnapshot(k) \/ Complete(k) \/ Retry(k) \/ GiveUp(k)
      PROVE  ArchiveInv'
  BY <1>6, WorkerStep
<1>7. CASE UNCHANGED vars
  BY <1>7, StutterStep
<1> QED BY <1>1, <1>2, <1>3, <1>4, <1>5, <1>6, <1>7 DEF Next, Work

-----------------------------------------------------------------------------
(* What the row shows once everything is handled. *)

FlowInv == EventsTellState /\ SnapshotsAreOlder /\ OrderInv

\* Facts about numbers and sets that every step needs.
LEMMA FlowTypes ==
  ASSUME ArchiveInv
  PROVE  /\ orderly \in BOOLEAN /\ gh.rev \in Nat /\ inbox \subseteq sent
         /\ \A e \in sent : e \in Events /\ e.rev \in Nat /\ e.rev > 0
         /\ \A k \in Kinds : snapshot[k].rev \in Nat
         /\ tombstone = Nothing \/ (tombstone.state \in TombstoneStates /\ tombstone.rev \in Nat)
BY BoundAssumption
DEF ArchiveInv, TypeOK, Snapshots, Nothing, Events

LEMMA InitFlow == Init => FlowInv
BY DEF Init, FlowInv, EventsTellState, SnapshotsAreOlder, OrderInv, StateEvents, Nothing

LEMMA FlowStutter == ASSUME FlowInv, UNCHANGED vars PROVE FlowInv'
BY DEF vars, github, web, queue, rows, FlowInv, EventsTellState, SnapshotsAreOlder,
       OrderInv, StateEvents, Latest

\* Whether GitHub and the snapshots agree does not depend on the row.
LEMMA SnapshotFlow ==
  ASSUME ArchiveInv, FlowInv, UNCHANGED <<gh, sent>>,
         \A k \in Kinds : snapshot'[k] \in {snapshot[k], gh, Nothing}
  PROVE  EventsTellState' /\ SnapshotsAreOlder'
<1>1. EventsTellState'
  BY DEF FlowInv, EventsTellState, StateEvents, Latest
<1>2. SnapshotsAreOlder'
  BY FlowTypes DEF FlowInv, EventsTellState, SnapshotsAreOlder, Nothing
<1> QED BY <1>1, <1>2

\* A change is the newest event there is.
LEMMA ChangeFlow ==
  ASSUME ArchiveInv, FlowInv,
         NEW from \in {"open", "closed"}, NEW action \in Actions, NEW to \in GitHubState,
         Change(from, action, to),
         to = IF action = "synchronize" THEN from ELSE ResultOf(action)
  PROVE  FlowInv'
<1> PICK e : e = [action |-> action, rev |-> gh.rev + 1]
  OBVIOUS
<1>1. /\ gh.state = from /\ gh' = [state |-> to, rev |-> gh.rev + 1]
      /\ sent' = sent \cup {e} /\ inbox' = inbox \cup {e}
      /\ UNCHANGED <<orderly, snapshot, tombstone, heard>>
  BY DEF Change, queue, rows
<1>2. /\ e.rev = gh.rev + 1 /\ e.action = action /\ gh.rev \in Nat /\ gh.state # "merged"
      /\ gh'.state = to /\ gh'.rev = e.rev
      /\ inbox \subseteq sent /\ \A f \in sent : f.rev \in Nat /\ f.rev < e.rev
  BY <1>1, FlowTypes DEF FlowInv, EventsTellState
<1>3. e \notin sent
  BY <1>2
<1>4. /\ to = "merged" => action = "merged"
      /\ action # "synchronize" => to = ResultOf(action)
      /\ action = "synchronize" => to = gh.state
  BY <1>1 DEF ResultOf, Actions
<1>5. EventsTellState'
  <2>1. \A f \in sent' : f.rev <= gh'.rev
    BY <1>1, <1>2
  <2>2. ASSUME NEW f \in StateEvents', Latest(f, StateEvents)' PROVE gh'.state = ResultOf(f.action)
    <3>1. CASE action = "synchronize"
      <4>1. StateEvents' = StateEvents
        BY <1>1, <1>2, <3>1 DEF StateEvents
      <4> QED BY <1>2, <1>4, <2>2, <3>1, <4>1 DEF Latest, FlowInv, EventsTellState
    <3>2. CASE action # "synchronize"
      <4>1. e \in StateEvents'
        BY <1>1, <1>2, <3>2 DEF StateEvents
      <4>2. f = e
        BY <1>1, <1>2, <2>2, <4>1 DEF Latest, StateEvents
      <4> QED BY <1>2, <1>4, <3>2, <4>2
    <3> QED BY <3>1, <3>2
  <2>3. gh'.state = "merged" =>
          /\ gh'.rev > 0
          /\ \E m \in sent' : m.action = "merged" /\ \A f \in sent' : f # m => f.rev < m.rev
    <3>1. gh'.state = "merged" => e.action = "merged" /\ gh'.rev > 0
      BY <1>2, <1>4
    <3>2. e \in sent' /\ \A f \in sent' : f # e => f.rev < e.rev
      BY <1>1, <1>2
    <3> QED BY <3>1, <3>2
  <2> QED BY <2>1, <2>2, <2>3 DEF EventsTellState
<1>6. SnapshotsAreOlder'
  BY <1>1, <1>2, FlowTypes DEF FlowInv, SnapshotsAreOlder
<1>7. OrderInv'
  <2> SUFFICES ASSUME orderly PROVE OrderInv'
    BY <1>1 DEF OrderInv
  <2>1. sent' \ inbox' = sent \ inbox /\ (StateEvents \ inbox)' = StateEvents \ inbox
    BY <1>1, <1>3 DEF StateEvents
  <2>2. \A f \in sent' \ inbox' : \A g \in inbox' : f.rev <= g.rev
    BY <1>1, <1>2, <2>1 DEF FlowInv, OrderInv
  <2>3. heard' =>
          /\ tombstone' # Nothing
          /\ \E f \in StateEvents' :
               /\ Latest(f, StateEvents \ inbox)'
               /\ tombstone'.state \in {StateFor(ResultOf(f.action)), "ARCHIVED_AS_MERGED"}
    <3>1. StateEvents \subseteq StateEvents'
      BY <1>1 DEF StateEvents
    <3> QED BY <1>1, <2>1, <3>1 DEF FlowInv, OrderInv, Latest
  <2>4. gh'.state = "merged" => \E f \in inbox' : f.action = "merged"
    BY <1>1, <1>2, <1>4
  <2> QED BY <2>2, <2>3, <2>4 DEF OrderInv
<1> QED BY <1>5, <1>6, <1>7 DEF FlowInv

\* The webhook of a change that sets the state.
LEMMA StateEventFlow ==
  ASSUME ArchiveInv, FlowInv, NEW e \in Events, e.action # "synchronize",
         Deliver(e), SetTombstoneState(StateFor(ResultOf(e.action))),
         UNCHANGED <<orderly, gh, sent, snapshot>>
  PROVE  FlowInv'
<1>1. EventsTellState' /\ SnapshotsAreOlder'
  BY SnapshotFlow
<1>2. OrderInv'
  <2> SUFFICES ASSUME orderly PROVE OrderInv'
    BY DEF OrderInv
  <2>1. /\ e \in inbox /\ inbox' = inbox \ {e} /\ \A f \in inbox : e.rev <= f.rev
        /\ \A f \in sent \ inbox : \A g \in inbox : f.rev <= g.rev
    BY DEF Deliver, FlowInv, OrderInv
  <2>2. \A f \in sent' \ inbox' : \A g \in inbox' : f.rev <= g.rev
    BY <2>1, FlowTypes
  <2>3. ASSUME heard'
        PROVE  /\ tombstone' # Nothing
               /\ \E f \in StateEvents' :
                    /\ Latest(f, StateEvents \ inbox)'
                    /\ tombstone'.state \in {StateFor(ResultOf(f.action)), "ARCHIVED_AS_MERGED"}
    <3>1. tombstone # Nothing /\ tombstone' = [tombstone EXCEPT !.state = StateFor(ResultOf(e.action))]
      BY <2>3 DEF SetTombstoneState
    <3>2. tombstone' # Nothing /\ tombstone'.state = StateFor(ResultOf(e.action))
      BY <3>1 DEF ArchiveInv, TypeOK, Nothing, StateFor, ResultOf, Events, Actions
    <3>3. e \in StateEvents' /\ Latest(e, StateEvents \ inbox)'
      BY <2>1, FlowTypes DEF Latest, StateEvents
    <3> QED BY <3>2, <3>3
  <2>4. ASSUME gh'.state = "merged", tombstone' # Nothing, e.action # "merged"
        PROVE  \E f \in inbox' : f.action = "merged"
    <3>1. PICK m \in sent : m.action = "merged" /\ \A f \in sent : f # m => f.rev < m.rev
      BY <2>4 DEF FlowInv, EventsTellState
    <3>2. m \in inbox
      BY <2>1, <2>4, <3>1, FlowTypes
    <3> QED BY <2>1, <2>4, <3>1, <3>2
  <2>5. ASSUME tombstone' # Nothing, e.action = "merged"
        PROVE  tombstone'.state = "ARCHIVED_AS_MERGED"
    BY <2>5 DEF SetTombstoneState, ArchiveInv, TypeOK, Nothing, StateFor, ResultOf
  <2> QED BY <2>2, <2>3, <2>4, <2>5 DEF OrderInv
<1> QED BY <1>1, <1>2 DEF FlowInv

\* Steps that leave the Tombstone alone, or happen in disorder.
LEMMA QuietFlow ==
  ASSUME ArchiveInv, FlowInv, UNCHANGED <<orderly, gh, sent>>,
         orderly => /\ UNCHANGED <<tombstone, heard>>
                    /\ \/ UNCHANGED inbox
                       \/ \E e \in Events : Deliver(e) /\ e.action = "synchronize",
         \A k \in Kinds : snapshot'[k] \in {snapshot[k], gh, Nothing}
  PROVE  FlowInv'
<1>1. EventsTellState' /\ SnapshotsAreOlder'
  BY SnapshotFlow
<1>2. OrderInv'
  <2> SUFFICES ASSUME orderly PROVE OrderInv'
    BY DEF OrderInv
  <2>1. /\ (StateEvents \ inbox)' = StateEvents \ inbox /\ StateEvents' = StateEvents
        /\ \A f \in inbox : f.action = "merged" => f \in inbox'
    BY DEF StateEvents, Deliver
  <2>2. \A f \in sent' \ inbox' : \A g \in inbox' : f.rev <= g.rev
    <3>1. \A f \in sent \ inbox : \A g \in inbox : f.rev <= g.rev
      BY DEF FlowInv, OrderInv
    <3> QED BY <3>1 DEF Deliver
  <2> QED BY <2>1, <2>2 DEF FlowInv, OrderInv, Latest
<1> QED BY <1>1, <1>2 DEF FlowInv

\* An analysis shows a merge that its snapshot shows, and is older than any
\* that it does not.
LEMMA SaveAnalysisFlow == ASSUME ArchiveInv, FlowInv, SaveAnalysis PROVE FlowInv'
<1> PICK s : s = snapshot["tombstone"]
  OBVIOUS
<1>1. /\ tombstone' = [state |-> SavedState(s), rev |-> s.rev]
      /\ UNCHANGED <<orderly, gh, sent, inbox, snapshot, heard>>
  BY DEF SaveAnalysis, github, web
<1>2. EventsTellState' /\ SnapshotsAreOlder'
  BY <1>1, SnapshotFlow
<1>3. OrderInv'
  <2> SUFFICES ASSUME orderly PROVE OrderInv'
    BY <1>1 DEF OrderInv
  <2>1. tombstone' # Nothing
    <3>1. SavedState(s) # "none"
      <4>1. CASE tombstone = Nothing
        BY <4>1 DEF SavedState
      <4>2. CASE tombstone # Nothing
        BY <4>2, FlowTypes DEF SavedState, TombstoneStates, ManualStates
      <4> QED BY <4>1, <4>2
    <3> QED BY <1>1, <3>1 DEF Nothing
  <2>2. heard' => \E e \in StateEvents' :
                    /\ Latest(e, StateEvents \ inbox)'
                    /\ tombstone'.state \in {StateFor(ResultOf(e.action)), "ARCHIVED_AS_MERGED"}
    <3>1. heard => SavedState(s) \in {tombstone.state, "ARCHIVED_AS_MERGED"}
      BY DEF SavedState, FlowInv, OrderInv
    <3>2. /\ StateEvents' = StateEvents /\ inbox' = inbox /\ heard' = heard
          /\ tombstone'.state = SavedState(s)
      BY <1>1 DEF StateEvents
    <3> QED BY <3>1, <3>2 DEF FlowInv, OrderInv, Latest
  <2>3. gh'.state = "merged" => tombstone'.state = "ARCHIVED_AS_MERGED" \/ tombstone'.rev < gh'.rev
    <3>1. gh.state = "merged" /\ s.state # "merged" => s.rev < gh.rev
      BY DEF FlowInv, SnapshotsAreOlder, Kinds
    <3> QED BY <1>1, <3>1 DEF SavedState
  <2> QED BY <1>1, <2>1, <2>2, <2>3 DEF OrderInv, FlowInv
<1> QED BY <1>2, <1>3 DEF FlowInv

LEMMA WebhookFlow ==
  ASSUME ArchiveInv, FlowInv, NEW e \in Events, Handle(e) \/ HandleClosedFails(e) \/ Replay(e)
  PROVE  FlowInv'
<1>1. CASE HandleSynchronize(e)
  BY <1>1, QuietFlow DEF HandleSynchronize, Enqueue, github, rows
<1>2. CASE HandleReopened(e)
  <2>1. StateFor(ResultOf(e.action)) = "SUSPENDED"
    BY <1>2 DEF HandleReopened, StateFor, ResultOf
  <2> QED BY <1>2, <2>1, StateEventFlow DEF HandleReopened, github, queue
<1>3. CASE HandleMerged(e)
  <2>1. StateFor(ResultOf(e.action)) = "ARCHIVED_AS_MERGED"
    BY <1>3 DEF HandleMerged, StateFor, ResultOf
  <2> QED BY <1>3, <2>1, StateEventFlow DEF HandleMerged, github, queue
<1>4. CASE HandleClosed(e)
  <2>1. StateFor(ResultOf(e.action)) = "ACTIVE"
    BY <1>4 DEF HandleClosed, StateFor, ResultOf
  <2> QED BY <1>4, <2>1, StateEventFlow DEF HandleClosed, github, queue
<1>5. CASE HandleClosedEnqueue(e)
  BY <1>5, QuietFlow DEF HandleClosedEnqueue, Enqueue, github, rows
<1>6. CASE HandleClosedFails(e) \/ Replay(e)
  BY <1>6, QuietFlow DEF HandleClosedFails, Replay, github, queue, rows
<1> QED BY <1>1, <1>2, <1>3, <1>4, <1>5, <1>6 DEF Handle

LEMMA DashboardFlow ==
  ASSUME ArchiveInv, FlowInv, \/ \E s \in ManualStates : PutState(s)
                              \/ Reanalyze \/ BackfillList \/ BackfillEnqueue
  PROVE  FlowInv'
<1>1. UNCHANGED <<orderly, gh, sent, inbox, snapshot>> /\ (orderly => UNCHANGED <<tombstone, heard>>)
  BY DEF PutState, Reanalyze, BackfillList, BackfillEnqueue, Enqueue, github, web, queue, rows
<1> QED BY <1>1, QuietFlow

LEMMA WorkerFlow ==
  ASSUME ArchiveInv, FlowInv, NEW k \in Kinds,
         \/ Claim(k) \/ FetchSnapshot(k) \/ Complete(k) \/ Retry(k) \/ GiveUp(k)
         \/ SaveSnapshotOnly
  PROVE  FlowInv'
<1>1. \A l \in Kinds : snapshot'[l] \in {snapshot[l], gh, Nothing}
  BY DEF Claim, FetchSnapshot, Complete, Retry, GiveUp, SaveSnapshotOnly, ArchiveInv, TypeOK
<1>2. UNCHANGED <<orderly, gh, sent, inbox, tombstone, heard>>
  BY DEF Claim, FetchSnapshot, Complete, Retry, GiveUp, SaveSnapshotOnly, github, web, rows
<1> QED BY <1>1, <1>2, QuietFlow

LEMMA NextFlow == ArchiveInv /\ FlowInv /\ [Next]_vars => FlowInv'
<1> SUFFICES ASSUME ArchiveInv, FlowInv, [Next]_vars PROVE FlowInv'
  OBVIOUS
<1>1. CASE Push \/ Close \/ Merge \/ Reopen
  BY <1>1, ChangeFlow DEF Push, Close, Merge, Reopen, Actions, GitHubState, ResultOf
<1>2. ASSUME NEW e \in Events, Handle(e) \/ HandleClosedFails(e) \/ Replay(e) PROVE FlowInv'
  BY <1>2, WebhookFlow
<1>3. CASE (\E s \in ManualStates : PutState(s)) \/ Reanalyze \/ BackfillList \/ BackfillEnqueue
  BY <1>3, DashboardFlow
<1>4. CASE SaveAnalysis
  BY <1>4, SaveAnalysisFlow
<1>5. CASE SaveSnapshotOnly
  BY <1>5, WorkerFlow DEF Kinds
<1>6. ASSUME NEW k \in Kinds,
             Claim(k) \/ FetchSnapshot(k) \/ Complete(k) \/ Retry(k) \/ GiveUp(k)
      PROVE  FlowInv'
  BY <1>6, WorkerFlow
<1>7. CASE UNCHANGED vars
  BY <1>7, FlowStutter
<1> QED BY <1>1, <1>2, <1>3, <1>4, <1>5, <1>6, <1>7 DEF Next, Work

-----------------------------------------------------------------------------
\* The invariant of the lifecycle: what is known of a merge is true, and in
\* orderly mode the row shows the last change that it heard of.
THEOREM LifecycleInvariance == Spec => []IInv
<1>1. Init => IInv
  BY InitArchiveInv, InitFlow DEF IInv, FlowInv
<1>2. IInv /\ [Next]_vars => IInv'
  BY NextArchiveInv, NextFlow DEF IInv, FlowInv
<1> QED BY <1>1, <1>2, PTL DEF Spec

\* Only merged work is archived as merged, however late, repeated or disordered
\* the webhooks are, however old the snapshots, and whatever people set.
THEOREM Archive == Spec => []ArchivedWasMerged
<1>1. IInv => ArchivedWasMerged
  BY DEF IInv, ArchiveInv
<1> QED BY <1>1, LifecycleInvariance, PTL

\* The variables keep their types.
THEOREM LifecycleTypes == Spec => []TypeOK
<1>1. IInv => TypeOK
  BY DEF IInv, ArchiveInv
<1> QED BY <1>1, LifecycleInvariance, PTL

\* With webhooks in order, a Tombstone that the last webhook found shows what
\* the last change on GitHub calls for, however the analyses of older
\* snapshots were interleaved with the webhooks.
THEOREM SettledAgreement == Spec => []SettledStateAgrees
<1>1. IInv => SettledStateAgrees
  <2> SUFFICES ASSUME IInv, orderly, Settled, heard PROVE tombstone.state = StateFor(gh.state)
    BY DEF SettledStateAgrees
  <2>1. PICK e \in StateEvents :
          /\ Latest(e, StateEvents \ inbox)
          /\ tombstone.state \in {StateFor(ResultOf(e.action)), "ARCHIVED_AS_MERGED"}
    BY DEF IInv, OrderInv
  <2>2. Latest(e, StateEvents)
    BY <2>1 DEF Settled, Latest
  <2>3. gh.state = ResultOf(e.action)
    BY <2>2 DEF IInv, EventsTellState
  <2>4. tombstone.state = "ARCHIVED_AS_MERGED" => gh.state = "merged"
    BY DEF IInv, ArchiveInv, ArchivedWasMerged
  <2> QED BY <2>1, <2>3, <2>4 DEF StateFor
<1> QED BY <1>1, LifecycleInvariance, PTL

\* With webhooks in order, only a Tombstone whose first analysis worked on a
\* snapshot from before the merge misses the merge for good.
THEOREM MissedMerges == Spec => []OnlyStaleAnalysisMissesMerge
<1>1. IInv => OnlyStaleAnalysisMissesMerge
  BY DEF IInv, OrderInv, OnlyStaleAnalysisMissesMerge, Settled
<1> QED BY <1>1, LifecycleInvariance, PTL
=============================================================================
