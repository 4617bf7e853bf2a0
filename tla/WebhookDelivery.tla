-------------------------- MODULE WebhookDelivery --------------------------
(***************************************************************************)
(* POST /webhooks/github and the webhook_deliveries table.  A request      *)
(* reserves its X-GitHub-Delivery, runs the statements of its event and    *)
(* marks the delivery as processed; when anything fails the reservation is *)
(* given back, and when even that fails it expires after five minutes.     *)
(* Requests of one delivery meet when GitHub, or a person on the settings  *)
(* page of the App, sends it again.                                        *)
(*                                                                         *)
(* One step is one SQL statement.  The statements of an event are counted  *)
(* (EnsureRepository, SetTombstoneState, Enqueue, ...); what they do is    *)
(* the subject of TombstoneLifecycle and Installations.                    *)
(***************************************************************************)
EXTENDS Integers

CONSTANTS
  Deliveries,    \* X-GitHub-Delivery values
  NoDelivery,    \* what an idle handler works on
  Statements,    \* how many statements the event of a delivery runs
  Handlers,      \* goroutines of the server replicas
  HandlerBudget, \* GitHub hangs up after 10 seconds, which cancels r.Context()
  RetakeAfter,   \* 5 minutes
  MaxHasty,      \* requests per delivery that come too soon after another
  MaxSends,      \* bound of the model: requests per delivery
  MaxFaults      \* bound of the model: failed statements and crashes

VARIABLES
  row,       \* "absent", "taken": processed_at IS NULL, or "processed"
  age,       \* NOW() - received_at of a taken row
  pc,        \* where each handler is
  delivery,  \* the delivery it handles
  done,      \* how many of the event's statements it has run
  elapsed,   \* how long it has been busy
  sends,     \* requests GitHub made, per delivery
  hasty,     \* those that came while another was busy, or soon after it
  quiet,     \* time since the last request of a delivery ended
  accepted,  \* deliveries GitHub got a 2xx for
  runs,      \* how often all statements of a delivery were run
  faults     \* failed statements and crashes so far

ledgerVars  == <<row, age>>
handlerVars == <<pc, delivery, done, elapsed>>
githubVars  == <<sends, hasty, quiet, accepted>>
vars        == <<ledgerVars, handlerVars, githubVars, runs, faults>>

RowState == {"absent", "taken", "processed"}
Control  == {"idle", "recording", "running", "failing"}

Lesser(a, b) == IF a < b THEN a ELSE b

ASSUME DeliveryAssumption ==
  NoDelivery \notin Deliveries /\ Statements \in [Deliveries -> Nat \ {0}]
ASSUME BudgetAssumption ==
  HandlerBudget \in Nat /\ RetakeAfter \in Nat /\ HandlerBudget <= RetakeAfter
ASSUME ModelAssumption ==
  MaxHasty \in Nat /\ MaxSends \in Nat /\ MaxFaults \in Nat

TypeOK ==
  /\ row      \in [Deliveries -> RowState]
  /\ age      \in [Deliveries -> 0..(RetakeAfter + 1)]
  /\ pc       \in [Handlers -> Control]
  /\ delivery \in [Handlers -> Deliveries \cup {NoDelivery}]
  /\ done     \in [Handlers -> Nat]
  /\ elapsed  \in [Handlers -> 0..HandlerBudget]
  /\ sends    \in [Deliveries -> 0..MaxSends]
  /\ hasty    \in [Deliveries -> 0..MaxHasty]
  /\ quiet    \in [Deliveries -> 0..(RetakeAfter + 1)]
  /\ accepted \subseteq Deliveries
  /\ runs     \in [Deliveries -> Nat]
  /\ faults   \in [Deliveries -> 0..MaxFaults]

Init ==
  /\ row      = [d \in Deliveries |-> "absent"]
  /\ age      = [d \in Deliveries |-> 0]
  /\ pc       = [h \in Handlers |-> "idle"]
  /\ delivery = [h \in Handlers |-> NoDelivery]
  /\ done     = [h \in Handlers |-> 0]
  /\ elapsed  = [h \in Handlers |-> 0]
  /\ sends    = [d \in Deliveries |-> 0]
  /\ hasty    = [d \in Deliveries |-> 0]
  /\ quiet    = [d \in Deliveries |-> 0]
  /\ accepted = {}
  /\ runs     = [d \in Deliveries |-> 0]
  /\ faults   = [d \in Deliveries |-> 0]

-----------------------------------------------------------------------------
Busy(d) == \E h \in Handlers : delivery[h] = d

\* The handler has the reservation, or thinks so.
Reserved(h) == pc[h] \in {"running", "failing"}

\* Mutants: a reservation that never expires, one that anybody may take over.
TakeableOnceMutant(d)   == row[d] = "absent"
TakeableAtOnceMutant(d) == row[d] # "processed"

\* ON CONFLICT ... DO UPDATE ... WHERE processed_at IS NULL AND received_at <
\* NOW() - 5 minutes
Takeable(d) == row[d] = "absent" \/ (row[d] = "taken" /\ age[d] > RetakeAfter)

\* The request ends; ok: with a 2xx.
End(h, ok) ==
  /\ pc'       = [pc EXCEPT ![h] = "idle"]
  /\ delivery' = [delivery EXCEPT ![h] = NoDelivery]
  /\ done'     = [done EXCEPT ![h] = 0]
  /\ elapsed'  = [elapsed EXCEPT ![h] = 0]
  /\ quiet'    = [quiet EXCEPT ![delivery[h]] = 0]
  /\ accepted' = IF ok THEN accepted \cup {delivery[h]} ELSE accepted
  /\ UNCHANGED <<sends, hasty>>

Fault(d) ==
  /\ faults[d] < MaxFaults
  /\ faults' = [faults EXCEPT ![d] = @ + 1]

-----------------------------------------------------------------------------
\* The delivery is sent again before five minutes have passed.
Soon(d) == sends[d] > 0 /\ (Busy(d) \/ quiet[d] <= RetakeAfter)

\* A request passes the signature and payload tests.
Receive(h, d) ==
  /\ pc[h] = "idle"
  /\ sends[d] < MaxSends
  /\ Soon(d) => hasty[d] < MaxHasty
  /\ hasty'    = [hasty EXCEPT ![d] = IF Soon(d) THEN @ + 1 ELSE @]
  /\ sends'    = [sends EXCEPT ![d] = @ + 1]
  /\ pc'       = [pc EXCEPT ![h] = "recording"]
  /\ delivery' = [delivery EXCEPT ![h] = d]
  /\ UNCHANGED <<ledgerVars, done, elapsed, quiet, accepted, runs, faults>>

\* Mutant: received_at is not set again.
TakeRowMutant(d) ==
  /\ Takeable(d)
  /\ row' = [row EXCEPT ![d] = "taken"]
  /\ UNCHANGED age

\* The one statement that decides whether this request may go on.
TakeRow(d) ==
  /\ Takeable(d)
  /\ row' = [row EXCEPT ![d] = "taken"]
  /\ age' = [age EXCEPT ![d] = 0]

RecordDelivery(h) ==
  /\ pc[h] = "recording"
  /\ TakeRow(delivery[h])
  /\ pc'      = [pc EXCEPT ![h] = "running"]
  /\ elapsed' = [elapsed EXCEPT ![h] = 0]
  /\ UNCHANGED <<delivery, done, githubVars, runs, faults>>

\* No row was written: 200 {"accepted": true, "duplicate": true}.
AnswerDuplicate(h) ==
  /\ pc[h] = "recording"
  /\ ~Takeable(delivery[h])
  /\ End(h, TRUE)
  /\ UNCHANGED <<ledgerVars, runs, faults>>

\* RecordDelivery returns an error, whether or not the row was written.  The
\* handler returns before it has deferred the release.
RecordFails(h) ==
  /\ pc[h] = "recording"
  /\ Fault(delivery[h])
  /\ UNCHANGED ledgerVars \/ TakeRow(delivery[h])
  /\ End(h, FALSE)
  /\ UNCHANGED runs

\* The next statement of the event.
RunStatement(h) ==
  LET d == delivery[h] IN
  /\ pc[h] = "running"
  /\ done[h] < Statements[d]
  /\ done' = [done EXCEPT ![h] = @ + 1]
  /\ runs' = [runs EXCEPT ![d] = IF done[h] + 1 = Statements[d] THEN @ + 1 ELSE @]
  /\ UNCHANGED <<ledgerVars, pc, delivery, elapsed, githubVars, faults>>

\* Mutant: the delivery is marked as processed before its statements ran.
CompleteDeliveryMutant(h) ==
  /\ pc[h] = "running"
  /\ row' = [row EXCEPT ![delivery[h]] = IF @ = "absent" THEN "absent" ELSE "processed"]
  /\ age' = [age EXCEPT ![delivery[h]] = 0]
  /\ End(h, TRUE)
  /\ UNCHANGED <<runs, faults>>

\* UPDATE ... SET processed_at=NOW() WHERE delivery_id=$1, and a 202.
CompleteDelivery(h) ==
  LET d == delivery[h] IN
  /\ pc[h] = "running"
  /\ done[h] = Statements[d]
  /\ row' = [row EXCEPT ![d] = IF @ = "absent" THEN "absent" ELSE "processed"]
  /\ age' = [age EXCEPT ![d] = 0]
  /\ End(h, TRUE)
  /\ UNCHANGED <<runs, faults>>

\* The statement, or CompleteDelivery, returns an error without effect.
StatementFails(h) ==
  /\ pc[h] = "running"
  /\ Fault(delivery[h])
  /\ pc' = [pc EXCEPT ![h] = "failing"]
  /\ UNCHANGED <<ledgerVars, delivery, done, elapsed, githubVars, runs>>

\* CompleteDelivery takes effect, and the handler is told that it failed.
CompleteUnheard(h) ==
  LET d == delivery[h] IN
  /\ pc[h] = "running"
  /\ done[h] = Statements[d]
  /\ Fault(d)
  /\ row' = [row EXCEPT ![d] = IF @ = "absent" THEN "absent" ELSE "processed"]
  /\ age' = [age EXCEPT ![d] = 0]
  /\ pc'  = [pc EXCEPT ![h] = "failing"]
  /\ UNCHANGED <<delivery, done, elapsed, githubVars, runs>>

\* The deferred DELETE ... WHERE processed_at IS NULL, with two seconds of its
\* own, whoever owns the row; the answer is a 500.
ReleaseDelivery(h) ==
  LET d == delivery[h] IN
  /\ pc[h] = "failing"
  /\ row' = [row EXCEPT ![d] = IF @ = "taken" THEN "absent" ELSE @]
  /\ age' = [age EXCEPT ![d] = 0]
  /\ End(h, FALSE)
  /\ UNCHANGED <<runs, faults>>

\* The DELETE fails, which is logged, or the server dies.
Crash(h) ==
  /\ pc[h] # "idle"
  /\ Fault(delivery[h])
  /\ End(h, FALSE)
  /\ UNCHANGED <<ledgerVars, runs>>

\* Housekeeping deletes rows after 90 days, when GitHub no longer repeats
\* the delivery.
PruneOperationalData(d) ==
  /\ row[d] # "absent"
  /\ sends[d] = MaxSends /\ ~Busy(d)
  /\ row' = [row EXCEPT ![d] = "absent"]
  /\ age' = [age EXCEPT ![d] = 0]
  /\ UNCHANGED <<handlerVars, githubVars, runs, faults>>

\* Mutant: nobody hangs up on a handler that takes long.
TickMutant ==
  /\ elapsed' = [h \in Handlers |-> IF Reserved(h) THEN Lesser(elapsed[h] + 1, HandlerBudget) ELSE 0]
  /\ age'   = [d \in Deliveries |-> IF row[d] = "taken"
                                      THEN Lesser(age[d] + 1, RetakeAfter + 1) ELSE 0]
  /\ UNCHANGED <<row, pc, delivery, done, sends, hasty, quiet, accepted, runs, faults>>

\* Time passes, no further than the budget of a busy handler.
Tick ==
  /\ \A h \in Handlers : Reserved(h) => elapsed[h] < HandlerBudget
  /\ elapsed' = [h \in Handlers |-> IF Reserved(h) THEN elapsed[h] + 1 ELSE 0]
  /\ age'   = [d \in Deliveries |-> IF row[d] = "taken"
                                      THEN Lesser(age[d] + 1, RetakeAfter + 1) ELSE 0]
  /\ quiet' = [d \in Deliveries |-> IF sends[d] > 0 /\ ~Busy(d)
                                      THEN Lesser(quiet[d] + 1, RetakeAfter + 1) ELSE 0]
  /\ UNCHANGED <<row, pc, delivery, done, sends, hasty, accepted, runs, faults>>

Next ==
  \/ \E h \in Handlers :
       \/ \E d \in Deliveries : Receive(h, d)
       \/ RecordDelivery(h) \/ AnswerDuplicate(h) \/ RecordFails(h)
       \/ RunStatement(h) \/ CompleteDelivery(h)
       \/ StatementFails(h) \/ CompleteUnheard(h)
       \/ ReleaseDelivery(h) \/ Crash(h)
  \/ \E d \in Deliveries : PruneOperationalData(d)
  \/ Tick

Spec == Init /\ [][Next]_vars

\* Handlers run to their end and clocks move.  The last conjunct is not the
\* server's: somebody repeats a delivery for as long as it has not been accepted.
Fairness ==
  /\ WF_vars(Tick)
  /\ \A h \in Handlers :
       /\ WF_vars(RecordDelivery(h) \/ AnswerDuplicate(h))
       /\ WF_vars(RunStatement(h) \/ CompleteDelivery(h))
       /\ WF_vars(ReleaseDelivery(h))
  /\ \A d \in Deliveries :
       SF_vars(d \notin accepted /\ \E h \in Handlers : Receive(h, d))

FairSpec == Spec /\ Fairness

-----------------------------------------------------------------------------
(* Properties *)

\* The statements of one delivery are never run by two requests at a time,
\* although the row has no owner and anybody may release it: GitHub hangs up
\* long before the reservation expires.
ExclusiveHandling ==
  \A g, h \in Handlers :
    g # h /\ Reserved(g) /\ Reserved(h) => delivery[g] # delivery[h]

\* "deduplicates X-GitHub-Delivery": however often a delivery is sent, and
\* however its requests overlap, its statements are run a second time only if
\* something went wrong in an earlier request.
RepeatsAreAccounted ==
  \A d \in Deliveries : runs[d] <= 1 + faults[d]

\* A delivery that GitHub was told is accepted has been carried out, unless it
\* was sent again within five minutes: a reservation that a fault left behind
\* is answered as a duplicate so long.
PatientIsNotLost ==
  \A d \in accepted : hasty[d] > 0 \/ runs[d] > 0

\* Repeating a failed delivery, but not too soon, gets it carried out in the
\* end, whatever failed before: no reservation outlives its request for good.
RetriesConverge ==
  \A d \in Deliveries : sends[d] > 0 ~> hasty[d] > 0 \/ runs[d] > 0

\* A reservation is as old as its request, and nobody else gives it away.
ReservationIsCurrent ==
  \A h \in Handlers : Reserved(h) =>
    /\ delivery[h] \in Deliveries
    /\ row[delivery[h]] \in {"taken", "processed"}
    /\ row[delivery[h]] = "taken" => age[delivery[h]] = elapsed[h]
    /\ row[delivery[h]] = "processed" => pc[h] = "failing"

\* Idle handlers handle nothing.
HandlersAreSane ==
  \A h \in Handlers :
    /\ pc[h] = "idle" <=> delivery[h] = NoDelivery
    /\ pc[h] \in {"idle", "recording"} => done[h] = 0
    /\ pc[h] # "idle" => sends[delivery[h]] > 0 /\ done[h] <= Statements[delivery[h]]

\* Some handler has run everything and has only to say so.
Finishing(d) ==
  \E h \in Handlers : pc[h] = "running" /\ delivery[h] = d /\ done[h] = Statements[d]

\* The delivery was pruned and will not come back.
Pruned(d) == sends[d] = MaxSends /\ ~Busy(d) /\ row[d] = "absent"

\* The statements were run once more than there were failures only where the
\* ledger says so, or is about to.
RunsAreRecorded ==
  \A d \in Deliveries :
    runs[d] > faults[d] => row[d] = "processed" \/ Finishing(d) \/ Pruned(d)

\* What the reservations rest on: they are as old as their requests, and the
\* ledger knows of every run that no failure explains.
LedgerInv ==
  /\ TypeOK /\ HandlersAreSane /\ ReservationIsCurrent /\ ExclusiveHandling
  /\ RunsAreRecorded /\ RepeatsAreAccounted

\* A delivery that was marked as processed, or is about to be, was carried out,
\* and one that was never sent has no row.
MarksAreEarned ==
  /\ \A d \in Deliveries : row[d] = "processed" => runs[d] > 0
  /\ \A d \in Deliveries : sends[d] = 0 => row[d] = "absent"
  /\ \A h \in Handlers :
       Reserved(h) /\ done[h] = Statements[delivery[h]] => runs[delivery[h]] > 0

\* A row that a fault left behind, of a delivery never repeated too soon, has
\* one request at most to meet, and has expired by then.
LeftoversExpire ==
  \A d \in Deliveries : hasty[d] = 0 =>
    /\ \A g, h \in Handlers : delivery[g] = d /\ delivery[h] = d => g = h
    /\ row[d] = "taken" =>
         \/ \E h \in Handlers : Reserved(h) /\ delivery[h] = d
         \/ IF Busy(d) THEN age[d] > RetakeAfter ELSE age[d] >= quiet[d]

PatienceInv == MarksAreEarned /\ LeftoversExpire /\ PatientIsNotLost

\* The inductive invariant.
IInv == LedgerInv /\ PatienceInv
=============================================================================
