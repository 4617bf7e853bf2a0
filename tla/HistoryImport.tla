---------------------------- MODULE HistoryImport ----------------------------
(***************************************************************************)
(* The import of closed pull requests ("backfill") through the GitHub      *)
(* client: a token from the cache or a new one, one page after the other   *)
(* of a list that changes while it is read, retries, the 90 seconds the    *)
(* handler has for all of it, and one enqueue per pull request.            *)
(*                                                                         *)
(* Other goroutines of the server use the same cache of tokens without     *)
(* waiting for one another, and pull requests move at any time.            *)
(***************************************************************************)
EXTENDS Integers, FiniteSets, SequencesExt

CONSTANTS
  PRs,          \* pull requests of the repository
  PerPage,      \* 100
  Limit,        \* closed pull requests to look at, 3000 at most
  MaxAttempts,  \* requests for one page, 4
  Timeout,      \* ticks for an import, 90 seconds
  Margin,       \* ticks a token must have left to be taken from the cache, 2 minutes
  Life,         \* ticks a new token lives, 1 hour
  MaxChanges    \* bound of the model: what happens to pull requests during an import

ASSUME ListAssumption == IsFiniteSet(PRs)
ASSUME SizeAssumption == {PerPage, Limit, MaxAttempts} \subseteq Nat \ {0}
ASSUME TimeAssumption == /\ {Timeout, Margin, Life, MaxChanges} \subseteq Nat
                         /\ Timeout <= Margin /\ Margin < Life

VARIABLES
  list,      \* GitHub: closed pull requests, the last updated first
  merged,    \* GitHub: those of them that are merged
  aged,      \* GitHub: those closed more than a year ago
  changes,   \* changes so far, in this import
  cached,    \* ticks the cached token has left, 0 if there is none
  stage,     \* the handler of the import
  scoped,    \* the import is for the last year only
  token,     \* ticks the import's token has left
  elapsed,   \* ticks since the import began
  page,      \* the page it wants,
  attempt,   \* and the requests for it that have failed
  values,    \* what it has read
  todo,      \* where in them the pull requests are that it has still to enqueue
  enqueued,  \* history: the numbers this import has given to the queue
  quiet,     \* history: closed throughout this import, and not updated in it
  shrunk     \* history: the list has lost an element in this import

github  == <<list, merged, aged, changes, quiet, shrunk>>
client  == <<token, page, attempt, values>>
handler == <<stage, scoped, todo, enqueued>>
vars    == <<github, changes, cached, elapsed, client, handler>>

Stages == {"idle", "token", "listing", "queueing", "done", "failed"}

TypeOK ==
  /\ list \in Seq(PRs) /\ IsInjective(list)
  /\ merged \subseteq ToSet(list) /\ aged \subseteq ToSet(list)
  /\ changes \in 0..MaxChanges
  /\ cached \in 0..Life /\ token \in 0..Life
  /\ stage \in Stages /\ scoped \in BOOLEAN
  /\ elapsed \in 0..Timeout
  /\ page \in Nat \ {0} /\ attempt \in 0..(MaxAttempts - 1)
  /\ values \in Seq([pr : PRs, wanted : BOOLEAN]) /\ todo \subseteq DOMAIN values
  /\ enqueued \subseteq PRs /\ quiet \subseteq PRs
  /\ shrunk \in BOOLEAN

Init ==
  /\ list \in {s \in BoundedSeq(PRs, Cardinality(PRs)) : IsInjective(s)}
  /\ merged \in SUBSET ToSet(list) /\ aged \in SUBSET ToSet(list)
  /\ cached = 0 /\ token = 0 /\ elapsed = 0 /\ changes = 0
  /\ stage = "idle" /\ scoped = FALSE
  /\ page = 1 /\ attempt = 0 /\ values = <<>> /\ todo = {}
  /\ enqueued = {} /\ quiet = {} /\ shrunk = FALSE

-----------------------------------------------------------------------------
(* GitHub *)

Working == stage \in {"token", "listing", "queueing"}

Changes(p) ==
  /\ Working /\ changes < MaxChanges
  /\ changes' = changes + 1
  /\ quiet' = quiet \ {p}
  /\ UNCHANGED <<cached, elapsed, client, handler>>

Place(p)   == CHOOSE k \in DOMAIN list : list[k] = p
Without(p) == RemoveAt(list, Place(p))

\* A comment, a label.
Update(p) ==
  /\ p \in ToSet(list)
  /\ list' = <<p>> \o Without(p) /\ Changes(p)
  /\ UNCHANGED <<merged, aged, shrunk>>

Close(p, merge) ==
  /\ p \notin ToSet(list)
  /\ list' = <<p>> \o list /\ Changes(p)
  /\ merged' = IF merge THEN merged \cup {p} ELSE merged
  /\ UNCHANGED <<aged, shrunk>>

Reopen(p) ==
  /\ p \in ToSet(list) \ merged
  /\ list' = Without(p) /\ Changes(p)
  /\ aged' = aged \ {p}
  /\ shrunk' = TRUE
  /\ UNCHANGED merged

-----------------------------------------------------------------------------
(* The token *)

\* Mutant: a token is good until it expires.
UsableMutant(left) == left > 0

Usable(left) == left > Margin

Reset ==
  /\ page' = 1 /\ attempt' = 0 /\ values' = <<>> /\ todo' = {}
  /\ elapsed' = 0 /\ enqueued' = {} /\ changes' = 0 /\ shrunk' = FALSE
  /\ quiet' = ToSet(list) \ merged

\* The handler, and InstallationToken up to the request.
BeginImport(year) ==
  /\ ~Working
  /\ scoped' = year
  /\ Reset
  /\ stage' = IF Usable(cached) THEN "listing" ELSE "token"
  /\ token' = IF Usable(cached) THEN cached ELSE 0
  /\ UNCHANGED <<list, merged, aged, cached>>

\* The answer is stored, whatever the cache holds by now.  GitHub gave the token
\* some time after the import began, and the answer may have been slow.
TokenArrives(left) ==
  /\ stage = "token" /\ Life - elapsed <= left
  /\ token' = left /\ cached' = left
  /\ stage' = "listing"
  /\ UNCHANGED <<github, elapsed, changes, page, attempt, values, scoped, todo, enqueued>>

\* Another goroutine stores a token.  It looked at the cache some time ago, and
\* gave the lock back: the cache may hold a better one by now, or none.
OtherTokenArrives(left) ==
  /\ cached' = left
  /\ UNCHANGED <<github, elapsed, changes, client, handler>>

-----------------------------------------------------------------------------
(* The list *)

\* Mutant: rounded down, the last pages are not asked for.
PagesMutant == Limit \div PerPage

Pages == (Limit + PerPage - 1) \div PerPage

\* What page n holds, and whether each entry is closed without a merge, and
\* recently enough: both are read with the page.
Page(n) ==
  LET from == (n - 1) * PerPage
      upto == from + PerPage
      read == SubSeq(list, from + 1, IF upto < Len(list) THEN upto ELSE Len(list)) IN
  [k \in DOMAIN read |->
     [pr |-> read[k], wanted |-> read[k] \notin merged /\ ~(scoped /\ read[k] \in aged)]]

\* The list is cut to the limit first.
Wanted(entries) == {k \in DOMAIN entries : k <= Limit /\ entries[k].wanted}

\* One request of listPages.
PageArrives ==
  LET entries == Page(page) IN
  /\ stage = "listing" /\ token > 0
  /\ values'  = values \o entries
  /\ attempt' = 0
  /\ IF page >= Pages \/ Len(entries) < PerPage
       THEN /\ stage' = "queueing"
            /\ todo'  = Wanted(values')
            /\ UNCHANGED page
       ELSE /\ page' = page + 1
            /\ UNCHANGED <<stage, todo>>
  /\ UNCHANGED <<github, cached, elapsed, changes, token, scoped, enqueued>>

\* Mutant: tries again without end.
AttemptsLeftMutant == TRUE

AttemptsLeft == attempt + 1 < MaxAttempts

\* No answer, or one that says to come again.
RequestFails ==
  /\ stage = "listing"
  /\ IF AttemptsLeft
       THEN attempt' = attempt + 1 /\ UNCHANGED stage
       ELSE stage' = "failed" /\ UNCHANGED attempt
  /\ UNCHANGED <<github, cached, elapsed, changes, token, page, values, scoped, todo, enqueued>>

\* Any other error, of GitHub or of the database, ends the import.
Fails ==
  /\ Working
  /\ stage' = "failed"
  /\ UNCHANGED <<github, cached, elapsed, changes, client, scoped, todo, enqueued>>

-----------------------------------------------------------------------------
(* The queue *)

\* EnqueueUnique creates a job unless there is an active one: JobQueue.
EnqueueUnique ==
  /\ stage = "queueing"
  /\ \E k \in todo :
       /\ \A l \in todo : k <= l
       /\ enqueued' = enqueued \cup {values[k].pr}
       /\ todo'     = todo \ {k}
  /\ UNCHANGED <<github, cached, elapsed, changes, client, stage, scoped>>

EndImport ==
  /\ stage = "queueing" /\ todo = {}
  /\ stage' = "done"
  /\ UNCHANGED <<github, cached, elapsed, changes, client, scoped, todo, enqueued>>

Less(n) == IF n = 0 THEN 0 ELSE n - 1

\* The context of the handler is over when its time is.
Tick ==
  /\ cached' = Less(cached) /\ token' = Less(token)
  /\ IF Working /\ elapsed = Timeout
       THEN stage' = "failed" /\ UNCHANGED elapsed
       ELSE elapsed' = (IF Working THEN elapsed + 1 ELSE elapsed) /\ UNCHANGED stage
  /\ UNCHANGED <<github, changes, page, attempt, values, scoped, todo, enqueued>>

-----------------------------------------------------------------------------
Next ==
  \/ \E p \in PRs : Update(p) \/ Reopen(p)
  \/ \E p \in PRs, merge \in BOOLEAN : Close(p, merge)
  \/ \E year \in BOOLEAN : BeginImport(year)
  \/ \E left \in 0..Life : TokenArrives(left) \/ OtherTokenArrives(left)
  \/ PageArrives \/ RequestFails \/ Fails
  \/ EnqueueUnique \/ EndImport
  \/ Tick

Spec == Init /\ [][Next]_vars

-----------------------------------------------------------------------------
(* Properties *)

\* A pull request that is closed without a merge all the time, and is not
\* updated, is found by an import that gets to its end, although others move to
\* the front of the list while it is read and push it from page to page: if it
\* is still among the first Limit, and none was reopened, which pulls it back
\* over the edge of a page that has been read.
QuietAreQueued ==
  stage = "done" /\ ~shrunk =>
    \A k \in DOMAIN list :
      k <= Limit /\ list[k] \in quiet => list[k] \in enqueued \/ (scoped /\ list[k] \in aged)

\* No page is asked for with an expired token, whatever other goroutines have
\* put into the cache: a token from the cache outlives the time of the handler.
TokenOutlivesImport == stage \in {"listing", "queueing"} => token > 0

-----------------------------------------------------------------------------
(* The inductive invariant *)

Reading  == stage \in {"token", "listing"}
Excluded(p) == scoped /\ p \in aged

\* What is quiet is in the list, not merged; what has been read are full pages.
PagesAreFull ==
  /\ quiet \subseteq ToSet(list) \ merged
  /\ Reading => Len(values) = (page - 1) * PerPage

\* A quiet pull request whose place is before the next page has been read, at
\* a place no later than where it is now: others only push it back.
QuietAreRead ==
  ~shrunk /\ Reading =>
    \A j \in DOMAIN list : list[j] \in quiet /\ j <= Len(values) =>
      \E k \in DOMAIN values :
        k <= j /\ values[k].pr = list[j] /\ (values[k].wanted <=> ~Excluded(list[j]))

\* And once all is read, it is enqueued or still to be.
QuietAreLeft ==
  ~shrunk /\ stage \in {"queueing", "done"} =>
    \A j \in DOMAIN list : j <= Limit /\ list[j] \in quiet =>
      \/ Excluded(list[j]) \/ list[j] \in enqueued
      \/ stage = "queueing" /\ \E k \in todo : values[k].pr = list[j]

IInv == TypeOK /\ PagesAreFull /\ QuietAreRead /\ QuietAreLeft
=============================================================================
