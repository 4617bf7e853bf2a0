------------------------- MODULE TombstoneLifecycle -------------------------
(***************************************************************************)
(* One pull request, from GitHub to its Tombstone.  GitHub changes the     *)
(* pull request and sends a webhook for each change; the webhook handler   *)
(* sets the state of the Tombstone and queues analysis jobs; workers fetch *)
(* a snapshot from GitHub, and save what they make of it some time later;  *)
(* people set the state by hand, ask for a new analysis and import         *)
(* history.  Three writers, one row, and no version column.                *)
(*                                                                         *)
(* The queue is what JobQueue was shown to implement: one unfinished job   *)
(* per kind, and one worker busy with it.  GitHub's revision counter `rev' *)
(* stands for everything a snapshot holds (commits, reviews, timeline).    *)
(***************************************************************************)
EXTENDS Integers

CONSTANTS
  Modes,       \* the modes to consider, TRUE for orderly
  MaxRev,      \* bound of the model: changes on GitHub
  MaxRevDisorderly, \* bound of the model: changes when the mode is disorderly
  MaxReplays,  \* bound of the model: deliveries repeated after a failure
  MaxRetries   \* bound of the model: job retries before giving up;
               \* 0: jobs do not fail

ASSUME ModeAssumption == Modes \subseteq BOOLEAN
ASSUME BoundAssumption ==
  {MaxRev, MaxRevDisorderly, MaxReplays, MaxRetries} \subseteq Nat /\ MaxRevDisorderly <= MaxRev

VARIABLES
  orderly,   \* never changes: GitHub delivers each webhook once, in order and
             \* one at a time, and nobody uses the dashboard
  gh,        \* the pull request on GitHub
  sent,      \* every webhook GitHub has made
  inbox,     \* webhooks GitHub has yet to deliver
  inflight,  \* closed webhooks between SetTombstoneState and Enqueue
  job,       \* per kind, how far its unfinished job is
  snapshot,  \* per kind, what the worker fetched
  prRow,     \* the pull_requests row
  tombstone, \* the tombstones row
  heard,     \* history: the last SetTombstoneState found a row
  listed,    \* a backfill has read this pull request off GitHub's list
  replays,   \* deliveries repeated so far
  retries,   \* job retries so far, per kind
  gaveUp     \* kinds whose job ended as failed

github == <<orderly, gh, sent>>
web    == <<inbox, inflight, replays>>
queue  == <<job, snapshot, retries, gaveUp>>
rows   == <<prRow, tombstone, heard>>
vars   == <<github, web, queue, rows, listed>>

Kinds  == {"tombstone", "similarity"}
Stages == {"none", "pending", "claimed", "fetched", "saved"}

GitHubState == {"open", "closed", "merged"}
Snapshots   == [state : GitHubState, rev : 0..MaxRev]
Nothing     == [state |-> "none", rev |-> 0]

Actions == {"synchronize", "closed", "merged", "reopened"}
Events  == [action : Actions, rev : 1..MaxRev]

\* Mutant: the dashboard may archive.
ManualStatesMutant == {"ACTIVE", "SUSPENDED", "SUPERSEDED", "INVALIDATED", "ARCHIVED",
                       "ARCHIVED_AS_MERGED"}

\* The states PUT /api/tombstones/{id}/state accepts.
ManualStates    == {"ACTIVE", "SUSPENDED", "SUPERSEDED", "INVALIDATED", "ARCHIVED"}
TombstoneStates == ManualStates \cup {"ARCHIVED_AS_MERGED"}

TypeOK ==
  /\ orderly   \in BOOLEAN
  /\ gh        \in Snapshots
  /\ sent      \subseteq Events
  /\ inbox     \subseteq sent
  /\ inflight  \subseteq sent
  /\ job       \in [Kinds -> Stages]
  /\ snapshot  \in [Kinds -> Snapshots \cup {Nothing}]
  /\ prRow     \in Snapshots \cup {Nothing}
  /\ tombstone \in [state : TombstoneStates, rev : 0..MaxRev] \cup {Nothing}
  /\ heard     \in BOOLEAN
  /\ listed    \in BOOLEAN
  /\ replays   \in 0..MaxReplays
  /\ retries   \in [Kinds -> 0..MaxRetries]
  /\ gaveUp    \subseteq Kinds

Init ==
  /\ orderly   \in Modes
  /\ gh        = [state |-> "open", rev |-> 0]
  /\ prRow     = Nothing
  /\ tombstone = Nothing
  /\ heard     = FALSE
  /\ sent      = {}
  /\ inbox     = {}
  /\ inflight  = {}
  /\ job       = [k \in Kinds |-> "none"]
  /\ snapshot  = [k \in Kinds |-> Nothing]
  /\ listed    = FALSE
  /\ replays   = 0
  /\ retries   = [k \in Kinds |-> 0]
  /\ gaveUp    = {}

-----------------------------------------------------------------------------
(* GitHub *)

\* A change of the pull request, and the webhook about it.
Change(from, action, to) ==
  LET e == [action |-> action, rev |-> gh.rev + 1] IN
  /\ gh.state = from
  /\ gh.rev < IF orderly THEN MaxRev ELSE MaxRevDisorderly
  /\ gh'    = [state |-> to, rev |-> e.rev]
  /\ sent'  = sent \cup {e}
  /\ inbox' = inbox \cup {e}
  /\ UNCHANGED <<orderly, inflight, replays, queue, rows, listed>>

Push   == Change("open", "synchronize", "open")
Close  == Change("open", "closed", "closed")
Merge  == Change("open", "merged", "merged")
Reopen == Change("closed", "reopened", "open")

\* A delivery that was processed but could not be marked as processed is
\* released, answered with 500 and sent again, now or much later.
Replay(e) ==
  /\ ~orderly
  /\ e \in sent \ (inbox \cup inflight)
  /\ replays < MaxReplays
  /\ replays' = replays + 1
  /\ inbox'   = inbox \cup {e}
  /\ UNCHANGED <<github, inflight, queue, rows, listed>>

-----------------------------------------------------------------------------
(* The webhook handler *)

\* UPDATE tombstones SET state: no row, no effect, no error.
SetTombstoneState(state) ==
  /\ tombstone' = IF tombstone = Nothing THEN Nothing
                                         ELSE [tombstone EXCEPT !.state = state]
  /\ heard'     = (tombstone # Nothing)

\* Mutant: the unique index does not look at the kind.
EnqueueMutant(kind) ==
  /\ job' = [job EXCEPT ![kind] = IF \A k \in Kinds : job[k] = "none" THEN "pending" ELSE @]
  /\ UNCHANGED <<snapshot, retries, gaveUp>>

\* INSERT ... ON CONFLICT DO NOTHING: dropped while a job of the kind is
\* pending or running, however much of its work is already done.
Enqueue(kind) ==
  /\ job' = [job EXCEPT ![kind] = IF @ = "none" THEN "pending" ELSE @]
  /\ UNCHANGED <<snapshot, retries, gaveUp>>

Deliver(e) ==
  /\ e \in inbox
  /\ orderly => inflight = {} /\ \A f \in inbox : e.rev <= f.rev
  /\ inbox' = inbox \ {e}

HandleSynchronize(e) ==
  /\ e.action = "synchronize"
  /\ Deliver(e)
  /\ Enqueue("similarity")
  /\ UNCHANGED <<github, inflight, replays, rows, listed>>

HandleReopened(e) ==
  /\ e.action = "reopened"
  /\ Deliver(e)
  /\ SetTombstoneState("SUSPENDED")
  /\ UNCHANGED <<github, inflight, replays, queue, prRow, listed>>

HandleMerged(e) ==
  /\ e.action = "merged"
  /\ Deliver(e)
  /\ SetTombstoneState("ARCHIVED_AS_MERGED")
  /\ UNCHANGED <<github, inflight, replays, queue, prRow, listed>>

\* Two statements: the state first,
HandleClosed(e) ==
  /\ e.action = "closed"
  /\ Deliver(e)
  /\ SetTombstoneState("ACTIVE")
  /\ inflight' = inflight \cup {e}
  /\ UNCHANGED <<github, replays, queue, prRow, listed>>

\* the job second,
HandleClosedEnqueue(e) ==
  /\ e \in inflight
  /\ Enqueue("tombstone")
  /\ inflight' = inflight \ {e}
  /\ UNCHANGED <<github, inbox, replays, rows, listed>>

\* unless it fails, or the server dies: the delivery is released, or its
\* reservation expires, and it is sent again.
HandleClosedFails(e) ==
  /\ ~orderly
  /\ e \in inflight
  /\ replays < MaxReplays
  /\ replays'  = replays + 1
  /\ inflight' = inflight \ {e}
  /\ inbox'    = inbox \cup {e}
  /\ UNCHANGED <<github, queue, rows, listed>>

-----------------------------------------------------------------------------
(* The dashboard *)

PutState(state) ==
  /\ ~orderly
  /\ tombstone # Nothing
  /\ SetTombstoneState(state)
  /\ UNCHANGED <<github, web, queue, prRow, listed>>

Reanalyze ==
  /\ ~orderly
  /\ tombstone # Nothing
  /\ Enqueue("tombstone")
  /\ UNCHANGED <<github, web, rows, listed>>

\* A backfill lists the closed, unmerged pull requests of the repository,
BackfillList ==
  /\ ~orderly
  /\ gh.state = "closed"
  /\ ~listed
  /\ listed' = TRUE
  /\ UNCHANGED <<github, web, queue, rows>>

\* and then queues each of them.
BackfillEnqueue ==
  /\ listed
  /\ Enqueue("tombstone")
  /\ listed' = FALSE
  /\ UNCHANGED <<github, web, rows>>

-----------------------------------------------------------------------------
(* The workers *)

Claim(kind) ==
  /\ job[kind] = "pending"
  /\ job' = [job EXCEPT ![kind] = "claimed"]
  /\ UNCHANGED <<github, web, snapshot, retries, gaveUp, rows, listed>>

FetchSnapshot(kind) ==
  /\ job[kind] = "claimed"
  /\ job'      = [job EXCEPT ![kind] = "fetched"]
  /\ snapshot' = [snapshot EXCEPT ![kind] = gh]
  /\ UNCHANGED <<github, web, retries, gaveUp, rows, listed>>

\* Mutants of the state SaveAnalysis writes: the state of the pull request, a
\* new state each time, and no look at the snapshot.
SavedStateRawMutant(s)    == s.state
SavedStateResetMutant(s)  == IF s.state = "merged" THEN "ARCHIVED_AS_MERGED" ELSE "ACTIVE"
SavedStateUnmergedMutant(s) == IF tombstone = Nothing THEN "ACTIVE" ELSE tombstone.state

\* A new Tombstone is ACTIVE unless the snapshot is merged, even if the pull
\* request is open; an old one keeps its state unless the snapshot is merged.
SavedState(s) ==
  IF s.state = "merged" THEN "ARCHIVED_AS_MERGED"
  ELSE IF tombstone = Nothing THEN "ACTIVE"
  ELSE tombstone.state

\* One transaction.
SaveAnalysis ==
  /\ job["tombstone"] = "fetched"
  /\ LET s == snapshot["tombstone"] IN
       /\ prRow'     = s
       /\ tombstone' = [state |-> SavedState(s), rev |-> s.rev]
  /\ job' = [job EXCEPT !["tombstone"] = "saved"]
  /\ UNCHANGED <<github, web, snapshot, retries, gaveUp, heard, listed>>

\* SaveSnapshotOnly, and the matches computed from the same snapshot.
SaveSnapshotOnly ==
  /\ job["similarity"] = "fetched"
  /\ prRow' = snapshot["similarity"]
  /\ job'   = [job EXCEPT !["similarity"] = "saved"]
  /\ UNCHANGED <<github, web, snapshot, retries, gaveUp, tombstone, heard, listed>>

Complete(kind) ==
  /\ job[kind] = "saved"
  /\ job'      = [job EXCEPT ![kind] = "none"]
  /\ snapshot' = [snapshot EXCEPT ![kind] = Nothing]
  /\ retries'  = [retries EXCEPT ![kind] = 0]
  /\ UNCHANGED <<github, web, gaveUp, rows, listed>>

\* An error of Process, or the death of the worker, at any point: the job is
\* tried again,
Retry(kind) ==
  /\ job[kind] \in {"claimed", "fetched", "saved"}
  /\ retries[kind] < MaxRetries
  /\ retries'  = [retries EXCEPT ![kind] = @ + 1]
  /\ job'      = [job EXCEPT ![kind] = "pending"]
  /\ snapshot' = [snapshot EXCEPT ![kind] = Nothing]
  /\ UNCHANGED <<github, web, gaveUp, rows, listed>>

\* or has been tried often enough and stays behind as failed.
GiveUp(kind) ==
  /\ job[kind] \in {"claimed", "fetched", "saved"}
  /\ MaxRetries > 0 /\ retries[kind] = MaxRetries
  /\ gaveUp'   = gaveUp \cup {kind}
  /\ retries'  = [retries EXCEPT ![kind] = 0]
  /\ job'      = [job EXCEPT ![kind] = "none"]
  /\ snapshot' = [snapshot EXCEPT ![kind] = Nothing]
  /\ UNCHANGED <<github, web, rows, listed>>

-----------------------------------------------------------------------------
Handle(e) ==
  \/ HandleSynchronize(e) \/ HandleReopened(e) \/ HandleMerged(e)
  \/ HandleClosed(e) \/ HandleClosedEnqueue(e)

Work == \/ SaveAnalysis \/ SaveSnapshotOnly
        \/ \E k \in Kinds : Claim(k) \/ FetchSnapshot(k) \/ Complete(k)

Next ==
  \/ Push \/ Close \/ Merge \/ Reopen
  \/ \E e \in Events : Handle(e) \/ HandleClosedFails(e) \/ Replay(e)
  \/ \E s \in ManualStates : PutState(s)
  \/ Reanalyze \/ BackfillList \/ BackfillEnqueue
  \/ Work
  \/ \E k \in Kinds : Retry(k) \/ GiveUp(k)

Spec == Init /\ [][Next]_vars

\* The server keeps handling deliveries, whichever it takes first, and the
\* worker keeps working; nothing makes GitHub, people or failures move.
Fairness ==
  /\ WF_vars(\E e \in Events : Handle(e))
  /\ WF_vars(SaveAnalysis) /\ WF_vars(SaveSnapshotOnly)
  /\ \A k \in Kinds : WF_vars(Claim(k)) /\ WF_vars(FetchSnapshot(k)) /\ WF_vars(Complete(k))

FairSpec == Spec /\ Fairness

-----------------------------------------------------------------------------
(* Properties *)

\* Nothing is on its way any more.
Settled ==
  /\ inbox = {} /\ inflight = {} /\ ~listed
  /\ \A k \in Kinds : job[k] = "none"

StateFor(ghState) ==
  CASE ghState = "open"   -> "SUSPENDED"
    [] ghState = "closed" -> "ACTIVE"
    [] ghState = "merged" -> "ARCHIVED_AS_MERGED"

\* An existing Tombstone follows its pull request: whatever analyses ran in
\* between, and on whatever snapshots, once everything is processed its state
\* is the one the last change on GitHub calls for.  With webhooks that
\* overtake each other, the last to arrive wins instead.
SettledStateAgrees ==
  orderly /\ Settled /\ heard => tombstone.state = StateFor(gh.state)

\* "`reopened` suspends it": no settled Tombstone of an open pull request is
\* presented as ACTIVE history.
ReopenedIsSuspended ==
  orderly /\ Settled /\ gh.state = "open" /\ tombstone # Nothing => tombstone.state # "ACTIVE"

\* The archive of merged work holds merged work only, whoever wrote last: a
\* delayed or repeated webhook, an analysis or a person.
ArchivedWasMerged ==
  tombstone.state = "ARCHIVED_AS_MERGED" => gh.state = "merged"

\* Why: a merge cannot be undone, so that whoever has heard of one, in a
\* webhook or in a snapshot, knows what is still true.
MergesAreFinal ==
  /\ \A e \in sent : e.action = "merged" => gh.state = "merged"
  /\ \A k \in Kinds : snapshot[k].state = "merged" => gh.state = "merged"

ArchiveInv == TypeOK /\ MergesAreFinal /\ ArchivedWasMerged

\* A merged pull request can be left looking unmerged in one way only: the
\* first analysis worked on a snapshot from before the merge, and the webhook
\* of the merge found no row to archive.
OnlyStaleAnalysisMissesMerge ==
  orderly /\ Settled /\ gh.state = "merged" /\ tombstone # Nothing
    => \/ tombstone.state = "ARCHIVED_AS_MERGED"
       \/ tombstone.rev < gh.rev

\* The state GitHub shows after an event.
ResultOf(action) ==
  CASE action = "closed"   -> "closed"
    [] action = "merged"   -> "merged"
    [] action = "reopened" -> "open"

\* The events that set the state, and the last of some of them.
StateEvents  == {e \in sent : e.action # "synchronize"}
Latest(e, S) == e \in S /\ \A f \in S : f.rev <= e.rev

\* The last event that sets the state tells what GitHub shows, and nothing
\* follows a merge.
EventsTellState ==
  /\ \A e \in sent : e.rev <= gh.rev
  /\ \A e \in StateEvents : Latest(e, StateEvents) => gh.state = ResultOf(e.action)
  /\ gh.state = "merged" =>
       /\ gh.rev > 0
       /\ \E e \in sent : e.action = "merged" /\ \A f \in sent : f # e => f.rev < e.rev

\* A snapshot that misses the merge is older than the merge.
SnapshotsAreOlder ==
  \A k \in Kinds :
    /\ snapshot[k].rev <= gh.rev
    /\ gh.state = "merged" /\ snapshot[k].state # "merged" => snapshot[k].rev < gh.rev

\* In orderly mode webhooks are handled in the order of the changes; a row that
\* heard the last of them shows it, unless an analysis already knows of the
\* merge; and a merge that the row does not show is still to be heard of, or
\* newer than the analysis.
OrderInv ==
  orderly =>
    /\ \A e \in sent \ inbox : \A f \in inbox : e.rev <= f.rev
    /\ heard =>
         /\ tombstone # Nothing
         /\ \E e \in StateEvents :
              /\ Latest(e, StateEvents \ inbox)
              /\ tombstone.state \in {StateFor(ResultOf(e.action)), "ARCHIVED_AS_MERGED"}
    /\ gh.state = "merged" /\ tombstone # Nothing =>
         \/ tombstone.state = "ARCHIVED_AS_MERGED"
         \/ tombstone.rev < gh.rev
         \/ \E e \in inbox : e.action = "merged"

\* The inductive invariant.
IInv == ArchiveInv /\ EventsTellState /\ SnapshotsAreOlder /\ OrderInv

\* Every closed pull request gets its Tombstone, however its job was queued
\* and in whatever order the webhooks arrive, unless the job is visibly failed.
ClosedGetsTombstone ==
  (\E e \in inbox \cup inflight : e.action = "closed")
    ~> (tombstone # Nothing \/ "tombstone" \in gaveUp)
=============================================================================
