---------------------------- MODULE Installations ----------------------------
(***************************************************************************)
(* The rows of installations and repositories, and what GitHub knows.      *)
(*                                                                         *)
(* An installation of the app gives access to repositories.  GitHub tells  *)
(* of its life by webhooks; each is handled by a few statements without a  *)
(* transaction around them, and any of them may fail, so that the delivery *)
(* is handled again from the start.  A login reads the installations of a  *)
(* user off GitHub and writes the same rows, "so the dashboard does not    *)
(* depend on an installation webhook having arrived first".                *)
(*                                                                         *)
(* Which requests reach the webhook handler twice is the subject of        *)
(* WebhookDelivery.  Here a delivery is handled until it is complete.      *)
(***************************************************************************)
EXTENDS Naturals, Sequences, SequencesExt

CONSTANTS
  Installs,    \* ids of installations; GitHub never uses one again
  Repos,       \* github ids of repositories
  None,        \* no installation
  MaxEvents,   \* bound of the model: what happens at GitHub
  MaxEventsDisorderly, \* bound of the model: the same when the mode is disorderly
  MaxFaults,   \* bound of the model: statements that fail
  MaxLogins    \* bound of the model: logins

ASSUME NoneAssumption  == None \notin Installs
ASSUME BoundAssumption ==
  /\ {MaxEvents, MaxEventsDisorderly, MaxFaults, MaxLogins} \subseteq Nat
  /\ MaxEventsDisorderly <= MaxEvents

VARIABLES
  orderly,  \* never changes: deliveries are handled one after the other, as
            \* they were sent; otherwise together, and in any order
  app,      \* GitHub: the life of an installation
  owner,    \* GitHub: the installation a repository belongs to
  events,   \* GitHub: how many things have happened
  left,     \* history: the pairs <<repository, installation>> that came apart
  inbox,    \* deliveries that are not complete, in the order they were sent
  faults,   \* statements that have failed
  inst,     \* table installations
  row,      \* table repositories: installation_id, None if there is no row
  login,    \* the callback of a login
  logins,   \* logins so far
  late      \* history: what a login wrote when GitHub no longer said so

github == <<orderly, app, owner, events, left>>
tables == <<inst, row>>
vars   == <<github, inbox, faults, tables, login, logins, late>>

Kinds  == {"created", "suspend", "deleted", "repositories", "pull_request"}
NoInst == [there |-> FALSE, suspended |-> FALSE, deleted |-> FALSE]
NoLogin == [stage |-> "none", todo |-> {}, at |-> None, repos |-> {}]

\* A delivery and how far its handler is.
Deliveries == [kind : Kinds, inst : Installs, added : SUBSET Repos, removed : SUBSET Repos,
               stage : {"new", "begun", "done"}, add : SUBSET Repos, remove : SUBSET Repos]

TypeOK ==
  /\ orderly \in BOOLEAN
  /\ app    \in [Installs -> {"absent", "active", "suspended", "gone"}]
  /\ owner  \in [Repos -> Installs \cup {None}]
  /\ events \in 0..MaxEvents
  /\ left   \subseteq Repos \X Installs
  /\ inbox  \in Seq(Deliveries)
  /\ faults \in 0..MaxFaults
  /\ inst   \in [Installs -> [there : BOOLEAN, suspended : BOOLEAN, deleted : BOOLEAN]]
  /\ row    \in [Repos -> Installs \cup {None}]
  /\ login  \in [stage : {"none", "listed", "read", "writing"}, todo : SUBSET Installs,
                 at : Installs \cup {None}, repos : SUBSET Repos]
  /\ logins \in 0..MaxLogins
  /\ late   \subseteq Repos \cup Installs

Init ==
  /\ orderly \in BOOLEAN
  /\ app    = [i \in Installs |-> "absent"]
  /\ owner  = [r \in Repos |-> None]
  /\ events = 0
  /\ left   = {}
  /\ inbox  = <<>>
  /\ faults = 0
  /\ inst   = [i \in Installs |-> NoInst]
  /\ row    = [r \in Repos |-> None]
  /\ login  = NoLogin
  /\ logins = 0
  /\ late   = {}

-----------------------------------------------------------------------------
(* GitHub *)

Of(i) == {r \in Repos : owner[r] = i}

Delivery(kind, i, added, removed) ==
  [kind |-> kind, inst |-> i, added |-> added, removed |-> removed,
   stage |-> "new", add |-> added, remove |-> removed]

Happens(deliveries) ==
  /\ events < IF orderly THEN MaxEvents ELSE MaxEventsDisorderly
  /\ events' = events + 1
  /\ inbox'  = inbox \o deliveries
  /\ UNCHANGED <<orderly, faults, tables, login, logins, late>>

\* "installation" created, with the repositories it was given.
Install(i, S) ==
  /\ app[i] = "absent" /\ \A r \in S : owner[r] = None
  /\ app'   = [app EXCEPT ![i] = "active"]
  /\ owner' = [r \in Repos |-> IF r \in S THEN i ELSE owner[r]]
  /\ Happens(<<Delivery("created", i, S, {})>>)
  /\ UNCHANGED left

Suspend(i) ==
  /\ app[i] = "active"
  /\ app' = [app EXCEPT ![i] = "suspended"]
  /\ Happens(<<Delivery("suspend", i, {}, {})>>)
  /\ UNCHANGED <<owner, left>>

\* "unsuspend" is handled like "created".
Unsuspend(i) ==
  /\ app[i] = "suspended"
  /\ app' = [app EXCEPT ![i] = "active"]
  /\ Happens(<<Delivery("created", i, Of(i), {})>>)
  /\ UNCHANGED <<owner, left>>

Uninstall(i) ==
  /\ app[i] \in {"active", "suspended"}
  /\ app'   = [app EXCEPT ![i] = "gone"]
  /\ owner' = [r \in Repos |-> IF owner[r] = i THEN None ELSE owner[r]]
  /\ left'  = left \cup (Of(i) \X {i})
  /\ Happens(<<Delivery("deleted", i, {}, {})>>)

AddRepository(i, r) ==
  /\ app[i] = "active" /\ owner[r] = None
  /\ owner' = [owner EXCEPT ![r] = i]
  /\ Happens(<<Delivery("repositories", i, {r}, {})>>)
  /\ UNCHANGED <<app, left>>

RemoveRepository(i, r) ==
  /\ app[i] = "active" /\ owner[r] = i
  /\ owner' = [owner EXCEPT ![r] = None]
  /\ left'  = left \cup {<<r, i>>}
  /\ Happens(<<Delivery("repositories", i, {}, {r})>>)
  /\ UNCHANGED app

\* A repository moves to an account with an installation of its own; the two
\* deliveries are sent in either order.
Transfer(r, i, j) ==
  LET goes == Delivery("repositories", i, {}, {r})
      comes == Delivery("repositories", j, {r}, {}) IN
  /\ owner[r] = i /\ app[i] = "active" /\ app[j] = "active" /\ i # j
  /\ owner' = [owner EXCEPT ![r] = j]
  /\ left'  = left \cup {<<r, i>>}
  /\ Happens(<<goes, comes>>) \/ Happens(<<comes, goes>>)
  /\ UNCHANGED app

PullRequest(r) ==
  /\ owner[r] # None /\ app[owner[r]] = "active"
  /\ Happens(<<Delivery("pull_request", owner[r], {r}, {})>>)
  /\ UNCHANGED <<app, owner, left>>

GitHub ==
  \/ \E i \in Installs :
       \/ \E S \in SUBSET Repos : Install(i, S)
       \/ Suspend(i) \/ Unsuspend(i) \/ Uninstall(i)
       \/ \E r \in Repos : AddRepository(i, r) \/ RemoveRepository(i, r)
       \/ \E r \in Repos, j \in Installs : Transfer(r, i, j)
  \/ \E r \in Repos : PullRequest(r)

-----------------------------------------------------------------------------
(* Statements on the tables *)

\* Both timestamps of an upsert are NULL.
UpsertInstallation(i) ==
  inst' = [inst EXCEPT ![i] = [there |-> TRUE, suspended |-> FALSE, deleted |-> FALSE]]

SuspendInstallation(i) ==
  inst' = [inst EXCEPT ![i].suspended = inst[i].there]

\* Mutant: the rows of repositories are left alone.
DeleteInstallationMutant(i) ==
  /\ inst' = [inst EXCEPT ![i] = [there |-> TRUE, suspended |-> FALSE, deleted |-> TRUE]]
  /\ UNCHANGED row

\* One transaction; the repositories take all their content along.
DeleteInstallation(i) ==
  /\ inst' = [inst EXCEPT ![i] = [there |-> TRUE, suspended |-> FALSE, deleted |-> TRUE]]
  /\ row'  = [r \in Repos |-> IF row[r] = i THEN None ELSE row[r]]

\* Mutant: the two ids change places.
EnsureRepositoryMutant(r, i) == row' = [row EXCEPT ![r] = r]

\* ON CONFLICT (github_id) DO UPDATE SET installation_id
EnsureRepository(r, i) == row' = [row EXCEPT ![r] = i]

\* Mutant: by the id of the repository only.
DeleteRepositoryByGitHubIDMutant(i, r) == row' = [row EXCEPT ![r] = None]

\* WHERE installation_id AND github_id
DeleteRepositoryByGitHubID(i, r) == row' = [row EXCEPT ![r] = IF @ = i THEN None ELSE @]

-----------------------------------------------------------------------------
(* The webhook handler *)

\* The deliveries that are being handled.
Handled == IF orderly THEN {1} \cap DOMAIN inbox ELSE DOMAIN inbox

Progress(k, d) == inbox' = [inbox EXCEPT ![k] = d]

\* All but "deleted" and "pull_request" begin with an upsert.
HandleUpsert(k) ==
  LET d == inbox[k] IN
  /\ d.kind \in {"created", "suspend", "repositories"} /\ d.stage = "new"
  /\ UpsertInstallation(d.inst)
  /\ Progress(k, [d EXCEPT !.stage = "begun"])
  /\ UNCHANGED row

HandleSuspend(k) ==
  LET d == inbox[k] IN
  /\ d.kind = "suspend" /\ d.stage = "begun"
  /\ SuspendInstallation(d.inst)
  /\ Progress(k, [d EXCEPT !.stage = "done"])
  /\ UNCHANGED row

HandleDeleted(k) ==
  LET d == inbox[k] IN
  /\ d.kind = "deleted" /\ d.stage = "new"
  /\ DeleteInstallation(d.inst)
  /\ Progress(k, [d EXCEPT !.stage = "done"])

\* ensureRepositories, and the first statement of a pull request event.
HandleAdded(k, r) ==
  LET d == inbox[k] IN
  /\ r \in d.add /\ (d.stage = "begun" \/ d.kind = "pull_request")
  /\ EnsureRepository(r, d.inst)
  /\ Progress(k, [d EXCEPT !.stage = "begun", !.add = @ \ {r}])
  /\ UNCHANGED inst

\* Removals come after all additions.
HandleRemoved(k, r) ==
  LET d == inbox[k] IN
  /\ d.stage = "begun" /\ d.add = {} /\ r \in d.remove
  /\ DeleteRepositoryByGitHubID(d.inst, r)
  /\ Progress(k, [d EXCEPT !.remove = @ \ {r}])
  /\ UNCHANGED inst

\* CompleteDelivery
HandleEnd(k) ==
  LET d == inbox[k] IN
  /\ \/ d.stage = "done"
     \/ d.stage = "begun" /\ d.kind # "suspend" /\ d.add = {} /\ d.remove = {}
  /\ inbox' = RemoveAt(inbox, k)
  /\ UNCHANGED tables

\* A statement fails: the delivery is released and handled from the start.
HandleFails(k) ==
  LET d == inbox[k] IN
  /\ d.stage # "new" /\ faults < MaxFaults
  /\ faults' = faults + 1
  /\ Progress(k, Delivery(d.kind, d.inst, d.added, d.removed))
  /\ UNCHANGED <<github, tables, login, logins, late>>

Handle(k) ==
  /\ \/ HandleUpsert(k) \/ HandleSuspend(k) \/ HandleDeleted(k) \/ HandleEnd(k)
     \/ \E r \in Repos : HandleAdded(k, r) \/ HandleRemoved(k, r)
  /\ UNCHANGED <<github, faults, login, logins, late>>

-----------------------------------------------------------------------------
(* The callback of a login *)

\* GET /user/installations: those the user may see.
ListInstallations(S) ==
  /\ login.stage = "none" /\ logins < MaxLogins
  /\ S # {} /\ \A i \in S : app[i] \in {"active", "suspended"}
  /\ logins' = logins + 1
  /\ login'  = [NoLogin EXCEPT !.stage = "listed", !.todo = S]
  /\ UNCHANGED <<github, inbox, faults, tables, late>>

\* GET /user/installations/{id}/repositories; for one that is gone it fails.
ReadRepositories(i) ==
  /\ login.stage = "listed" /\ i \in login.todo
  /\ app[i] \in {"active", "suspended"}
  /\ login' = [stage |-> "read", todo |-> login.todo \ {i}, at |-> i, repos |-> Of(i)]
  /\ UNCHANGED <<github, inbox, faults, tables, logins, late>>

\* The upsert that follows does not know of a suspension.
LoginUpserts ==
  /\ login.stage = "read"
  /\ UpsertInstallation(login.at)
  /\ login' = [login EXCEPT !.stage = "writing"]
  /\ late'  = late \cup (IF app[login.at] = "active" THEN {} ELSE {login.at})
  /\ UNCHANGED <<github, inbox, faults, row, logins>>

LoginEnsures(r) ==
  /\ login.stage = "writing" /\ r \in login.repos
  /\ EnsureRepository(r, login.at)
  /\ login' = [login EXCEPT !.repos = @ \ {r}]
  /\ late'  = late \cup (IF owner[r] = login.at THEN {} ELSE {r})
  /\ UNCHANGED <<github, inbox, faults, inst, logins>>

LoginContinues ==
  /\ login.stage = "writing" /\ login.repos = {} /\ login.todo # {}
  /\ login' = [NoLogin EXCEPT !.stage = "listed", !.todo = login.todo]
  /\ UNCHANGED <<github, inbox, faults, tables, logins, late>>

\* The rest of the callback, or an error at any point.
LoginEnds ==
  /\ login.stage # "none"
  /\ login' = NoLogin
  /\ UNCHANGED <<github, inbox, faults, tables, logins, late>>

Login ==
  \/ \E S \in SUBSET Installs : ListInstallations(S)
  \/ \E i \in Installs : ReadRepositories(i)
  \/ LoginUpserts
  \/ \E r \in Repos : LoginEnsures(r)
  \/ LoginContinues \/ LoginEnds

-----------------------------------------------------------------------------
Next ==
  \/ GitHub
  \/ \E k \in Handled : Handle(k) \/ HandleFails(k)
  \/ Login

Spec == Init /\ [][Next]_vars

-----------------------------------------------------------------------------
(* Properties *)

Settled == inbox = <<>> /\ login = NoLogin

\* Deliveries that are handled in the order they were sent, each until it is
\* complete, leave the rows that GitHub's own state calls for, however often
\* their statements failed and whatever logins wrote meanwhile: unless a login
\* wrote what GitHub had taken back between its reading and its writing.
SettledRowsAgree ==
  orderly /\ Settled =>
    /\ \A i \in Installs \ late :
         inst[i] = [there |-> app[i] # "absent", suspended |-> app[i] = "suspended",
                    deleted |-> app[i] = "gone"]
    /\ \A r \in Repos \ late : row[r] = owner[r]

\* The content of a repository is deleted for an installation it has left, or
\* that is gone: no delivery, however late, takes a repository away from an
\* installation that never lost it.
DeletedWhenLeft ==
  [][\A r \in Repos : row[r] # None /\ row'[r] = None => <<r, row[r]>> \in left']_vars

-----------------------------------------------------------------------------
(* Why they hold *)

\* A repository is the installation's, or was.
Belonged(r, i) == owner[r] = i \/ <<r, i>> \in left

\* What a delivery says is true, or was true when it was sent; its handler has
\* yet to do what it says, or less.
DeliveryIsSane(d) ==
  /\ d.add \subseteq d.added /\ d.remove \subseteq d.removed
  /\ d.added = {} \/ d.removed = {}
  /\ d.kind \in {"suspend", "deleted"} => d.added = {} /\ d.removed = {}
  /\ d.stage = "done" => d.kind \in {"suspend", "deleted"}
  /\ d.kind = "deleted" => d.stage # "begun" /\ app[d.inst] = "gone"
  /\ \A r \in d.added : Belonged(r, d.inst)
  /\ \A r \in d.removed : <<r, d.inst>> \in left

\* No writer knows of a repository of an installation that never had it, and
\* an installation that is gone has none.
KnowledgeInv ==
  /\ \A k \in DOMAIN inbox : DeliveryIsSane(inbox[k])
  /\ \A r \in Repos : row[r] # None => Belonged(r, row[r])
  /\ \A r \in login.repos : Belonged(r, login.at)
  /\ IF login.stage \in {"read", "writing"} THEN login.at \in Installs ELSE login.repos = {}
  /\ \A i \in Installs : app[i] \in {"absent", "gone"} => \A r \in Repos : owner[r] # i

\* The row of an installation in some state, and the state a delivery tells.
RowFor(state) ==
  [there |-> state # "absent", suspended |-> state = "suspended", deleted |-> state = "gone"]

Tells(d) ==
  CASE d.kind \in {"created", "repositories"} -> "active"
    [] d.kind = "suspend"      -> "suspended"
    [] d.kind = "deleted"      -> "gone"
    [] d.kind = "pull_request" -> "nothing"

\* The statement that says so is still to come.
WillTell(d) ==
  \/ d.stage = "new"
  \/ d.stage = "begun" /\ d.kind = "suspend" /\ inst[d.inst] = RowFor("active")

\* The table, as position 0, or a delivery shows the installation as it is,
\* and no delivery behind it says otherwise.
InstallationShown(i) ==
  \E p \in 0..Len(inbox) :
    /\ IF p = 0 THEN inst[i] = RowFor(app[i])
                ELSE inbox[p].inst = i /\ Tells(inbox[p]) = app[i] /\ WillTell(inbox[p])
    /\ \A x \in (p + 1)..Len(inbox) : inbox[x].inst = i => Tells(inbox[x]) \in {app[i], "nothing"}

Takes(d, r) == r \in d.removed \/ d.kind = "deleted"

\* Once the first n deliveries are handled the repository will be in the rows
\* of i: the table says so, or a delivery will, and none of those behind it
\* moves it or takes it away.
Placed(r, i, n) ==
  \E p \in 0..n :
    /\ IF p = 0 THEN row[r] = i ELSE r \in inbox[p].add /\ inbox[p].inst = i
    /\ \A x \in (p + 1)..n :
         /\ r \in inbox[x].added => inbox[x].inst = i
         /\ Takes(inbox[x], r) => inbox[x].inst # i

\* It will be in nobody's rows: it is not, or a delivery will take it out of
\* those it is in by then.
Displaced(r) ==
  \E p \in 0..Len(inbox) :
    /\ IF p = 0 THEN row[r] = None
                ELSE /\ r \in inbox[p].remove \/ (inbox[p].kind = "deleted" /\ inbox[p].stage = "new")
                     /\ Placed(r, inbox[p].inst, p - 1)
    /\ \A x \in (p + 1)..Len(inbox) : r \notin inbox[x].added

\* In orderly mode one delivery is being handled, and the tables and the
\* deliveries that are left add up to what GitHub knows, except for what a
\* login wrote late.
OrderInv ==
  orderly =>
    /\ \A k \in 2..Len(inbox) : inbox[k].stage = "new"
    /\ \A i \in Installs \ late : InstallationShown(i)
    /\ \A r \in Repos \ late : IF owner[r] = None THEN Displaced(r)
                                                  ELSE Placed(r, owner[r], Len(inbox))

\* The inductive invariant.
IInv == TypeOK /\ KnowledgeInv /\ OrderInv
=============================================================================
