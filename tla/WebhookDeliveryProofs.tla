------------------------ MODULE WebhookDeliveryProofs ------------------------
(***************************************************************************)
(* Proofs about WebhookDelivery, for any number of deliveries, handlers,   *)
(* repetitions and failures.                                               *)
(***************************************************************************)
EXTENDS WebhookDelivery, TLAPS

\* A row that can be taken has no request working on it: the reservation of
\* such a request is as old as the request, and requests do not get that old.
LEMMA TakeableIsFree ==
  ASSUME LedgerInv, NEW d \in Deliveries, Takeable(d)
  PROVE  /\ \A h \in Handlers : Reserved(h) => delivery[h] # d
         /\ row[d] # "processed"
<1>1. ASSUME NEW h \in Handlers, Reserved(h), delivery[h] = d PROVE FALSE
  <2>1. row[d] \in {"taken", "processed"} /\ (row[d] = "taken" => age[d] = elapsed[h])
    BY <1>1 DEF LedgerInv, ReservationIsCurrent
  <2>2. age[d] > RetakeAfter /\ row[d] = "taken"
    BY <2>1 DEF Takeable
  <2>3. elapsed[h] \in 0..HandlerBudget
    BY DEF LedgerInv, TypeOK
  <2> QED BY <2>1, <2>2, <2>3, BudgetAssumption
<1>2. row[d] # "processed"
  BY DEF Takeable
<1> QED BY <1>1, <1>2

\* While its request is busy, a delivery is neither pruned nor finished by
\* somebody else.
LEMMA BusyRuns ==
  ASSUME LedgerInv, NEW h \in Handlers, Reserved(h),
         pc[h] = "running" => done[h] # Statements[delivery[h]],
         row[delivery[h]] # "processed"
  PROVE  runs[delivery[h]] <= faults[delivery[h]]
<1> DEFINE d == delivery[h]
<1>1. d \in Deliveries
  BY DEF LedgerInv, ReservationIsCurrent
<1>2. ~Pruned(d)
  BY DEF Pruned, Busy
<1>3. ~Finishing(d)
  BY DEF Finishing, Reserved, LedgerInv, ExclusiveHandling
<1>4. runs[d] \in Nat /\ faults[d] \in Nat
  BY <1>1, ModelAssumption DEF LedgerInv, TypeOK
<1> QED BY <1>1, <1>2, <1>3, <1>4 DEF LedgerInv, RunsAreRecorded

LEMMA InitLedgerInv == Init => LedgerInv
BY DeliveryAssumption, BudgetAssumption, ModelAssumption
DEF Init, LedgerInv, TypeOK, RowState, Control, HandlersAreSane, ReservationIsCurrent,
    ExclusiveHandling, RunsAreRecorded, RepeatsAreAccounted, Reserved

LEMMA ReceiveStep ==
  ASSUME LedgerInv, NEW h \in Handlers, NEW d \in Deliveries, Receive(h, d) PROVE LedgerInv'
<1> USE DEF LedgerInv
<1>1. /\ pc[h] = "idle" /\ pc' = [pc EXCEPT ![h] = "recording"]
      /\ delivery' = [delivery EXCEPT ![h] = d] /\ sends' = [sends EXCEPT ![d] = @ + 1]
      /\ sends[d] < MaxSends
      /\ hasty' = [hasty EXCEPT ![d] = IF Soon(d) THEN @ + 1 ELSE @]
      /\ Soon(d) => hasty[d] < MaxHasty
      /\ UNCHANGED <<row, age, done, elapsed, quiet, accepted, runs, faults>>
  BY DEF Receive, ledgerVars
<1>2. TypeOK'
  BY <1>1, ModelAssumption DEF TypeOK, Control
<1>3. ~Reserved(h)' /\ ~Reserved(h)
  BY <1>1 DEF TypeOK, Reserved
<1>4. \A g \in Handlers \ {h} : /\ pc'[g] = pc[g] /\ delivery'[g] = delivery[g]
                                /\ (Reserved(g)' <=> Reserved(g))
  BY <1>1 DEF TypeOK, Reserved
<1>5. HandlersAreSane'
  <2>1. \A e \in Deliveries : sends'[e] >= sends[e] /\ sends[e] \in Nat /\ sends'[e] \in Nat
    BY <1>1, ModelAssumption DEF TypeOK
  <2>2. pc'[h] = "recording" /\ delivery'[h] = d /\ done'[h] = 0 /\ sends'[d] > 0
    BY <1>1, <2>1, ModelAssumption DEF HandlersAreSane, TypeOK
  <2>3. d # NoDelivery /\ Statements[d] \in Nat
    BY DeliveryAssumption
  <2>4. ASSUME NEW g \in Handlers \ {h}
        PROVE  /\ pc'[g] = "idle" <=> delivery'[g] = NoDelivery
               /\ pc'[g] \in {"idle", "recording"} => done'[g] = 0
               /\ pc'[g] # "idle" => /\ sends'[delivery'[g]] > 0
                                     /\ done'[g] <= Statements[delivery'[g]]
    <3>1. pc[g] # "idle" => delivery[g] \in Deliveries
      BY DEF HandlersAreSane, TypeOK
    <3>2. pc'[g] = pc[g] /\ delivery'[g] = delivery[g] /\ done'[g] = done[g]
      BY <1>1, <1>4
    <3>3. (pc[g] # "idle" /\ sends[delivery[g]] > 0) => sends'[delivery[g]] > 0
      BY <2>1, <3>1
    <3> QED BY <3>2, <3>3 DEF HandlersAreSane
  <2> QED BY <2>2, <2>3, <2>4 DEF HandlersAreSane
<1>6. ReservationIsCurrent' /\ ExclusiveHandling'
  BY <1>1, <1>3, <1>4 DEF ReservationIsCurrent, ExclusiveHandling
<1>7. RunsAreRecorded'
  <2>1. ASSUME NEW e \in Deliveries, Finishing(e) PROVE Finishing(e)'
    BY <1>1, <1>4, <2>1 DEF Finishing
  <2>2. ASSUME NEW e \in Deliveries, Pruned(e) PROVE Pruned(e)'
    <3>1. e # d
      BY <1>1, <2>2, ModelAssumption DEF Pruned, TypeOK
    <3> QED BY <1>1, <2>2, <3>1 DEF Pruned, Busy, TypeOK
  <2> QED BY <1>1, <2>1, <2>2 DEF RunsAreRecorded
<1>8. RepeatsAreAccounted'
  BY <1>1 DEF RepeatsAreAccounted
<1> QED BY <1>2, <1>5, <1>6, <1>7, <1>8

\* A handler ends its request,
Ends(h) ==
  /\ delivery[h] \in Deliveries
  /\ pc'       = [pc EXCEPT ![h] = "idle"]
  /\ delivery' = [delivery EXCEPT ![h] = NoDelivery]
  /\ done'     = [done EXCEPT ![h] = 0]
  /\ elapsed'  = [elapsed EXCEPT ![h] = 0]
  /\ quiet'    = [quiet EXCEPT ![delivery[h]] = 0]
  /\ accepted' \subseteq Deliveries
  /\ UNCHANGED <<sends, hasty, runs>>

\* with some effect on the row of its delivery, at most,
Touches(d) ==
  /\ row'    \in [Deliveries -> RowState]
  /\ age'    \in [Deliveries -> 0..(RetakeAfter + 1)]
  /\ faults' \in [Deliveries -> 0..MaxFaults]
  /\ \A e \in Deliveries :
       e # d => row'[e] = row[e] /\ age'[e] = age[e] /\ faults'[e] = faults[e]
  /\ faults'[d] >= faults[d]

\* that nobody else is busy with,
Alone(h) ==
  \/ UNCHANGED <<row, age>>
  \/ \A g \in Handlers : g # h /\ Reserved(g) => delivery[g] # delivery[h]

\* and owing nothing to the ledger.
Settled(h) ==
  \/ runs[delivery[h]] <= faults'[delivery[h]]
  \/ row'[delivery[h]] = "processed"
  \/ Finishing(delivery[h]) /\ pc[h] = "recording"

LEMMA EndStep ==
  ASSUME LedgerInv, NEW h \in Handlers, Ends(h), Touches(delivery[h]), Alone(h), Settled(h)
  PROVE  LedgerInv'
<1> PICK d \in Deliveries : d = delivery[h]
  BY DEF Ends
<1>1. /\ TypeOK /\ HandlersAreSane /\ ReservationIsCurrent /\ ExclusiveHandling
      /\ RunsAreRecorded /\ RepeatsAreAccounted
  BY DEF LedgerInv
<1>2. TypeOK'
  BY <1>1, BudgetAssumption DEF TypeOK, Control, Ends, Touches
<1>3. ~Reserved(h)' /\ pc'[h] = "idle" /\ delivery'[h] = NoDelivery /\ done'[h] = 0
  BY <1>1 DEF TypeOK, Reserved, Ends
<1>4. \A g \in Handlers : g # h => /\ pc'[g] = pc[g] /\ delivery'[g] = delivery[g]
                                  /\ done'[g] = done[g] /\ elapsed'[g] = elapsed[g]
                                  /\ (Reserved(g)' <=> Reserved(g))
  BY <1>1 DEF TypeOK, Reserved, Ends
<1>5. HandlersAreSane'
  BY <1>1, <1>3, <1>4 DEF HandlersAreSane, Ends
<1>6. ReservationIsCurrent'
  <2> SUFFICES ASSUME NEW g \in Handlers, g # h, Reserved(g)
               PROVE  /\ delivery[g] \in Deliveries
                      /\ row'[delivery[g]] \in {"taken", "processed"}
                      /\ row'[delivery[g]] = "taken" => age'[delivery[g]] = elapsed[g]
                      /\ row'[delivery[g]] = "processed" => pc[g] = "failing"
    BY <1>3, <1>4 DEF ReservationIsCurrent
  <2>1. /\ delivery[g] \in Deliveries
        /\ row[delivery[g]] \in {"taken", "processed"}
        /\ row[delivery[g]] = "taken" => age[delivery[g]] = elapsed[g]
        /\ row[delivery[g]] = "processed" => pc[g] = "failing"
    BY <1>1 DEF ReservationIsCurrent
  <2>2. row'[delivery[g]] = row[delivery[g]] /\ age'[delivery[g]] = age[delivery[g]]
    BY <2>1 DEF Alone, Touches
  <2> QED BY <2>1, <2>2
<1>7. ExclusiveHandling'
  BY <1>1, <1>3, <1>4 DEF ExclusiveHandling
<1>8. RunsAreRecorded'
  <2>1. ASSUME NEW e \in Deliveries, Finishing(e), e # d \/ pc[h] = "recording"
        PROVE  Finishing(e)'
    <3>1. PICK g \in Handlers : pc[g] = "running" /\ delivery[g] = e /\ done[g] = Statements[e]
      BY <2>1 DEF Finishing
    <3>2. g # h
      BY <2>1, <3>1
    <3> QED BY <1>4, <3>1, <3>2 DEF Finishing
  <2>2. ASSUME NEW e \in Deliveries, e # d, Pruned(e) PROVE Pruned(e)'
    <3>1. \A g \in Handlers : delivery'[g] # e
      BY <1>3, <1>4, <2>2, DeliveryAssumption DEF Pruned, Busy
    <3>2. sends'[e] = MaxSends /\ row'[e] = "absent"
      BY <2>2 DEF Pruned, Ends, Touches
    <3> QED BY <3>1, <3>2 DEF Pruned, Busy
  <2>3. ASSUME NEW e \in Deliveries, e # d, runs'[e] > faults'[e]
        PROVE  row'[e] = "processed" \/ Finishing(e)' \/ Pruned(e)'
    <3>1. runs'[e] = runs[e] /\ faults'[e] = faults[e] /\ row'[e] = row[e]
      BY <2>3 DEF Ends, Touches
    <3>2. row[e] = "processed" \/ Finishing(e) \/ Pruned(e)
      BY <1>1, <2>3, <3>1 DEF RunsAreRecorded
    <3> QED BY <2>1, <2>2, <2>3, <3>1, <3>2
  <2>4. ASSUME runs'[d] > faults'[d] PROVE row'[d] = "processed" \/ Finishing(d)'
    <3>1. d \in Deliveries /\ runs'[d] = runs[d] /\ runs[d] \in Nat
      BY <1>1 DEF TypeOK, Ends
    <3>2. faults'[d] \in Nat
      BY <3>1, ModelAssumption DEF Touches
    <3> QED BY <2>1, <2>4, <3>1, <3>2 DEF Settled
  <2> QED BY <2>3, <2>4 DEF RunsAreRecorded
<1>9. RepeatsAreAccounted'
  <2> SUFFICES ASSUME NEW e \in Deliveries PROVE runs'[e] <= 1 + faults'[e]
    BY DEF RepeatsAreAccounted
  <2>1. runs'[e] = runs[e] /\ faults'[e] >= faults[e]
    BY <1>1, ModelAssumption DEF Ends, Touches, TypeOK
  <2>2. runs[e] \in Nat /\ faults[e] \in Nat /\ faults'[e] \in Nat
    BY <1>1, ModelAssumption DEF TypeOK, Touches
  <2> QED BY <1>1, <2>1, <2>2 DEF RepeatsAreAccounted
<1> QED BY <1>2, <1>5, <1>6, <1>7, <1>8, <1>9 DEF LedgerInv

\* Before a delivery is taken, every run of its statements is accounted for.
LEMMA TakeableRuns ==
  ASSUME LedgerInv, NEW h \in Handlers, pc[h] = "recording", Takeable(delivery[h])
  PROVE  /\ delivery[h] \in Deliveries
         /\ runs[delivery[h]] <= faults[delivery[h]]
<1> USE DEF LedgerInv
<1>1. delivery[h] \in Deliveries
  BY DEF HandlersAreSane, TypeOK
<1>2. ~Finishing(delivery[h]) /\ row[delivery[h]] # "processed"
  BY <1>1, TakeableIsFree DEF Finishing, Reserved
<1>3. ~Pruned(delivery[h])
  BY DEF Pruned, Busy
<1>4. runs[delivery[h]] \in Nat /\ faults[delivery[h]] \in Nat
  BY <1>1, ModelAssumption DEF TypeOK
<1> QED BY <1>1, <1>2, <1>3, <1>4 DEF RunsAreRecorded

LEMMA RecordDeliveryStep ==
  ASSUME LedgerInv, NEW h \in Handlers, RecordDelivery(h) PROVE LedgerInv'
<1> USE DEF LedgerInv
<1> DEFINE d == delivery[h]
<1>1. /\ pc[h] = "recording" /\ Takeable(d)
      /\ row' = [row EXCEPT ![d] = "taken"] /\ age' = [age EXCEPT ![d] = 0]
      /\ pc' = [pc EXCEPT ![h] = "running"] /\ elapsed' = [elapsed EXCEPT ![h] = 0]
      /\ UNCHANGED <<delivery, done, sends, hasty, quiet, accepted, runs, faults>>
  BY DEF RecordDelivery, TakeRow, githubVars
<1>2. d \in Deliveries /\ runs[d] <= faults[d] /\ done[h] = 0
  BY <1>1, TakeableRuns DEF HandlersAreSane
<1>3. \A g \in Handlers : Reserved(g) => delivery[g] # d
  BY <1>1, <1>2, TakeableIsFree
<1>4. TypeOK'
  BY <1>1, <1>2, BudgetAssumption DEF TypeOK, RowState, Control
<1>5. \A g \in Handlers \ {h} : /\ pc'[g] = pc[g] /\ elapsed'[g] = elapsed[g]
                                /\ (Reserved(g)' <=> Reserved(g))
  BY <1>1 DEF TypeOK, Reserved
<1>6. HandlersAreSane'
  BY <1>1, <1>2 DEF HandlersAreSane, TypeOK
<1>7. ReservationIsCurrent'
  BY <1>1, <1>2, <1>3, <1>5 DEF ReservationIsCurrent, TypeOK
<1>8. ExclusiveHandling'
  BY <1>1, <1>3, <1>5 DEF ExclusiveHandling
<1>9. RunsAreRecorded'
  <2>1. ASSUME NEW e \in Deliveries, e # d, Finishing(e) PROVE Finishing(e)'
    BY <1>1, <1>5, <2>1 DEF Finishing
  <2>2. runs[d] \in Nat /\ faults[d] \in Nat
    BY <1>2, ModelAssumption DEF TypeOK
  <2> QED BY <1>1, <1>2, <2>1, <2>2 DEF RunsAreRecorded, Pruned, Busy, TypeOK
<1>10. RepeatsAreAccounted'
  BY <1>1 DEF RepeatsAreAccounted
<1> QED BY <1>4, <1>6, <1>7, <1>8, <1>9, <1>10

LEMMA LedgerTypes ==
  ASSUME LedgerInv
  PROVE  /\ row    \in [Deliveries -> RowState]
         /\ age    \in [Deliveries -> 0..(RetakeAfter + 1)]
         /\ faults \in [Deliveries -> 0..MaxFaults]
         /\ \A d \in Deliveries : faults[d] \in Nat /\ runs[d] \in Nat
BY ModelAssumption DEF LedgerInv, TypeOK

\* A failure accounts for one more run.
LEMMA FaultCounts ==
  ASSUME LedgerInv, NEW d \in Deliveries, Fault(d)
  PROVE  /\ faults' \in [Deliveries -> 0..MaxFaults]
         /\ faults'[d] = faults[d] + 1 /\ faults'[d] >= faults[d]
         /\ runs[d] <= faults'[d]
         /\ \A e \in Deliveries : e # d => faults'[e] = faults[e]
BY ModelAssumption DEF LedgerInv, TypeOK, Fault, RepeatsAreAccounted

LEMMA AnswerDuplicateStep ==
  ASSUME LedgerInv, NEW h \in Handlers, AnswerDuplicate(h) PROVE LedgerInv'
<1> DEFINE d == delivery[h]
<1>1. pc[h] = "recording" /\ d \in Deliveries /\ UNCHANGED <<row, age, runs, faults>>
  BY DEF LedgerInv, AnswerDuplicate, HandlersAreSane, TypeOK, ledgerVars
<1>2. Ends(h)
  BY <1>1 DEF AnswerDuplicate, End, Ends, LedgerInv, TypeOK
<1>3. Touches(d) /\ Alone(h)
  BY <1>1, LedgerTypes DEF Touches, Alone
<1>4. Settled(h)
  <2>1. ~Pruned(d)
    BY <1>1 DEF Pruned, Busy
  <2>2. runs[d] <= faults[d] \/ row[d] = "processed" \/ Finishing(d)
    BY <1>1, <2>1, LedgerTypes DEF LedgerInv, RunsAreRecorded
  <2> QED BY <1>1, <2>2 DEF Settled
<1> QED BY <1>2, <1>3, <1>4, EndStep

LEMMA RecordFailsStep ==
  ASSUME LedgerInv, NEW h \in Handlers, RecordFails(h) PROVE LedgerInv'
<1> DEFINE d == delivery[h]
<1>1. /\ pc[h] = "recording" /\ d \in Deliveries
      /\ UNCHANGED <<row, age>> \/ TakeRow(d)
      /\ Fault(d) /\ UNCHANGED runs
  BY DEF LedgerInv, RecordFails, HandlersAreSane, TypeOK, ledgerVars
<1>2. Ends(h)
  BY <1>1 DEF RecordFails, End, Ends, LedgerInv, TypeOK
<1>3. Touches(d)
  <2>1. /\ row' \in [Deliveries -> RowState] /\ age' \in [Deliveries -> 0..(RetakeAfter + 1)]
        /\ \A e \in Deliveries : e # d => row'[e] = row[e] /\ age'[e] = age[e]
    BY <1>1, LedgerTypes, BudgetAssumption DEF TakeRow, RowState
  <2> QED BY <1>1, <2>1, <1>2, FaultCounts DEF Touches
<1>4. Alone(h)
  BY <1>1, TakeableIsFree DEF Alone, TakeRow
<1>5. Settled(h)
  BY <1>1, FaultCounts DEF Settled
<1> QED BY <1>2, <1>3, <1>4, <1>5, EndStep

LEMMA RunStatementStep ==
  ASSUME LedgerInv, NEW h \in Handlers, RunStatement(h) PROVE LedgerInv'
<1> USE DEF LedgerInv
<1> DEFINE d == delivery[h]
           last == done[h] + 1 = Statements[d]
<1>1. /\ pc[h] = "running" /\ done[h] < Statements[d]
      /\ done' = [done EXCEPT ![h] = @ + 1]
      /\ runs' = [runs EXCEPT ![d] = IF last THEN @ + 1 ELSE @]
      /\ UNCHANGED <<row, age, pc, delivery, elapsed, sends, hasty, quiet, accepted, faults>>
  BY DEF RunStatement, ledgerVars, githubVars
<1>2. /\ Reserved(h) /\ d \in Deliveries /\ row[d] = "taken" /\ done[h] \in Nat
      /\ runs[d] \in Nat /\ faults[d] \in Nat /\ Statements[d] \in Nat
  <2>1. Reserved(h) /\ d \in Deliveries /\ row[d] = "taken"
    BY <1>1 DEF Reserved, ReservationIsCurrent
  <2>2. done[h] \in Nat /\ Statements[d] \in Nat
    BY <2>1, DeliveryAssumption DEF TypeOK
  <2>3. runs[d] \in Nat /\ faults[d] \in Nat
    BY <2>1, LedgerTypes
  <2> QED BY <2>1, <2>2, <2>3
<1>3. runs[d] <= faults[d]
  <2>1. done[h] # Statements[d] /\ row[d] # "processed"
    BY <1>1, <1>2
  <2> HIDE DEF LedgerInv
  <2> QED BY <1>2, <2>1, BusyRuns
<1>4. TypeOK'
  BY <1>1, <1>2 DEF TypeOK
<1>5. HandlersAreSane'
  BY <1>1, <1>2 DEF HandlersAreSane, TypeOK
<1>6. ReservationIsCurrent' /\ ExclusiveHandling'
  BY <1>1 DEF ReservationIsCurrent, ExclusiveHandling, Reserved
<1>7. RunsAreRecorded'
  <2>1. ASSUME NEW e \in Deliveries, e # d, Finishing(e) PROVE Finishing(e)'
    <3>1. PICK g \in Handlers : pc[g] = "running" /\ delivery[g] = e /\ done[g] = Statements[e]
      BY <2>1 DEF Finishing
    <3>2. g # h
      BY <2>1, <3>1
    <3> QED BY <1>1, <3>1, <3>2 DEF Finishing, TypeOK
  <2>2. last => Finishing(d)'
    BY <1>1, <1>2 DEF Finishing, TypeOK
  <2>3. ~last => runs'[d] <= faults'[d]
    BY <1>1, <1>2, <1>3 DEF TypeOK
  <2> QED BY <1>1, <1>2, <1>3, <2>1, <2>2, <2>3 DEF RunsAreRecorded, Pruned, Busy, TypeOK
<1>8. RepeatsAreAccounted'
  BY <1>1, <1>2, <1>3 DEF RepeatsAreAccounted, TypeOK
<1> QED BY <1>4, <1>5, <1>6, <1>7, <1>8

LEMMA CompleteDeliveryStep ==
  ASSUME LedgerInv, NEW h \in Handlers, CompleteDelivery(h) PROVE LedgerInv'
<1> DEFINE d == delivery[h]
<1>1. /\ pc[h] = "running" /\ Reserved(h) /\ d \in Deliveries /\ row[d] = "taken"
      /\ row' = [row EXCEPT ![d] = "processed"] /\ age' = [age EXCEPT ![d] = 0]
      /\ UNCHANGED <<runs, faults>>
  BY DEF LedgerInv, CompleteDelivery, Reserved, ReservationIsCurrent, TypeOK
<1>2. Ends(h)
  BY <1>1 DEF CompleteDelivery, End, Ends, LedgerInv, TypeOK
<1>3. Touches(d)
  BY <1>1, LedgerTypes, BudgetAssumption DEF Touches, RowState
<1>4. Alone(h)
  BY <1>1 DEF Alone, LedgerInv, ExclusiveHandling
<1>5. Settled(h)
  BY <1>1, LedgerTypes DEF Settled
<1> QED BY <1>2, <1>3, <1>4, <1>5, EndStep

LEMMA ReleaseDeliveryStep ==
  ASSUME LedgerInv, NEW h \in Handlers, ReleaseDelivery(h) PROVE LedgerInv'
<1> DEFINE d == delivery[h]
<1>1. /\ pc[h] = "failing" /\ Reserved(h) /\ d \in Deliveries
      /\ row' = [row EXCEPT ![d] = IF @ = "taken" THEN "absent" ELSE @]
      /\ age' = [age EXCEPT ![d] = 0]
      /\ UNCHANGED <<runs, faults>>
  BY DEF LedgerInv, ReleaseDelivery, Reserved, ReservationIsCurrent, TypeOK
<1>2. Ends(h)
  BY <1>1 DEF ReleaseDelivery, End, Ends, LedgerInv, TypeOK
<1>3. Touches(d)
  BY <1>1, LedgerTypes, BudgetAssumption DEF Touches, RowState
<1>4. Alone(h)
  BY <1>1 DEF Alone, LedgerInv, ExclusiveHandling
<1>5. Settled(h)
  BY <1>1, BusyRuns, LedgerTypes DEF Settled
<1> QED BY <1>2, <1>3, <1>4, <1>5, EndStep

LEMMA CrashStep == ASSUME LedgerInv, NEW h \in Handlers, Crash(h) PROVE LedgerInv'
<1> DEFINE d == delivery[h]
<1>1. d \in Deliveries /\ UNCHANGED <<row, age, runs>> /\ Fault(d)
  BY DEF LedgerInv, Crash, HandlersAreSane, TypeOK, ledgerVars
<1>2. Ends(h)
  BY <1>1 DEF Crash, End, Ends, LedgerInv, TypeOK
<1>3. Touches(d)
  BY <1>1, LedgerTypes, FaultCounts DEF Touches
<1>4. Alone(h) /\ Settled(h)
  BY <1>1, FaultCounts DEF Alone, Settled
<1> QED BY <1>2, <1>3, <1>4, EndStep

LEMMA FailingStep ==
  ASSUME LedgerInv, NEW h \in Handlers, StatementFails(h) \/ CompleteUnheard(h) PROVE LedgerInv'
<1> USE DEF LedgerInv
<1> DEFINE d == delivery[h]
<1>1. /\ pc[h] = "running" /\ Reserved(h) /\ d \in Deliveries /\ row[d] = "taken"
      /\ pc' = [pc EXCEPT ![h] = "failing"]
      /\ faults[d] < MaxFaults /\ faults' = [faults EXCEPT ![d] = @ + 1]
      /\ UNCHANGED <<delivery, done, elapsed, sends, hasty, quiet, accepted, runs>>
  BY DEF StatementFails, CompleteUnheard, Fault, Reserved, ReservationIsCurrent, TypeOK, githubVars
<1>2. \/ UNCHANGED <<row, age>>
      \/ row' = [row EXCEPT ![d] = "processed"] /\ age' = [age EXCEPT ![d] = 0]
  BY <1>1 DEF StatementFails, CompleteUnheard, ledgerVars
<1>3. TypeOK'
  BY <1>1, <1>2, BudgetAssumption, ModelAssumption DEF TypeOK, RowState, Control
<1>4. \A g \in Handlers \ {h} : pc'[g] = pc[g] /\ (Reserved(g)' <=> Reserved(g))
                                /\ (Reserved(g) => delivery[g] # d)
  BY <1>1 DEF TypeOK, Reserved, ExclusiveHandling
<1>5. Reserved(h)' /\ pc'[h] = "failing"
  BY <1>1 DEF TypeOK, Reserved
<1>6. HandlersAreSane'
  BY <1>1 DEF HandlersAreSane, TypeOK
<1>7. ReservationIsCurrent'
  BY <1>1, <1>2, <1>4, <1>5 DEF ReservationIsCurrent, TypeOK
<1>8. ExclusiveHandling'
  BY <1>1, <1>4 DEF ExclusiveHandling
<1>9. /\ runs[d] \in Nat /\ faults[d] \in Nat /\ faults'[d] = faults[d] + 1
      /\ runs[d] <= faults'[d] /\ \A e \in Deliveries \ {d} : faults'[e] = faults[e]
  BY <1>1, ModelAssumption DEF TypeOK, RepeatsAreAccounted
<1>10. RunsAreRecorded'
  <2>1. ASSUME NEW e \in Deliveries, e # d, Finishing(e) PROVE Finishing(e)'
    BY <1>1, <1>4, <2>1 DEF Finishing
  <2>2. \A e \in Deliveries : e # d => row'[e] = row[e] /\ (Pruned(e) => Pruned(e)')
    BY <1>1, <1>2 DEF Pruned, Busy, TypeOK
  <2>3. ~(runs'[d] > faults'[d])
    BY <1>1, <1>9 DEF TypeOK
  <2> QED BY <1>1, <1>9, <2>1, <2>2, <2>3 DEF RunsAreRecorded
<1>11. RepeatsAreAccounted'
  BY <1>1, <1>9, ModelAssumption DEF RepeatsAreAccounted, TypeOK
<1> QED BY <1>3, <1>6, <1>7, <1>8, <1>10, <1>11

LEMMA PruneStep ==
  ASSUME LedgerInv, NEW d \in Deliveries, PruneOperationalData(d) PROVE LedgerInv'
<1> USE DEF LedgerInv
<1>1. /\ sends[d] = MaxSends /\ ~Busy(d)
      /\ row' = [row EXCEPT ![d] = "absent"] /\ age' = [age EXCEPT ![d] = 0]
      /\ UNCHANGED <<pc, delivery, done, elapsed, sends, hasty, quiet, accepted, runs, faults>>
  BY DEF PruneOperationalData, handlerVars, githubVars
<1>2. \A h \in Handlers : delivery[h] # d
  BY <1>1 DEF Busy
<1>3. TypeOK'
  BY <1>1, BudgetAssumption DEF TypeOK, RowState
<1>4. HandlersAreSane' /\ ExclusiveHandling' /\ RepeatsAreAccounted'
  BY <1>1 DEF HandlersAreSane, ExclusiveHandling, RepeatsAreAccounted, Reserved
<1>5. ReservationIsCurrent'
  BY <1>1, <1>2 DEF ReservationIsCurrent, Reserved, TypeOK
<1>6. RunsAreRecorded'
  <2>1. Pruned(d)'
    BY <1>1 DEF Pruned, Busy, TypeOK
  <2>2. \A e \in Deliveries \ {d} : /\ row'[e] = row[e]
                                    /\ (Finishing(e)' <=> Finishing(e))
                                    /\ (Pruned(e) => Pruned(e)')
    BY <1>1 DEF TypeOK, Finishing, Pruned, Busy
  <2> QED BY <1>1, <2>1, <2>2 DEF RunsAreRecorded
<1> QED BY <1>3, <1>4, <1>5, <1>6

LEMMA TickStep == ASSUME LedgerInv, Tick PROVE LedgerInv'
<1> USE DEF LedgerInv
<1>1. /\ \A h \in Handlers : Reserved(h) => elapsed[h] < HandlerBudget
      /\ elapsed' = [h \in Handlers |-> IF Reserved(h) THEN elapsed[h] + 1 ELSE 0]
      /\ age' = [d \in Deliveries |-> IF row[d] = "taken"
                                        THEN Lesser(age[d] + 1, RetakeAfter + 1) ELSE 0]
      /\ quiet' = [d \in Deliveries |-> IF sends[d] > 0 /\ ~Busy(d)
                                          THEN Lesser(quiet[d] + 1, RetakeAfter + 1) ELSE 0]
      /\ UNCHANGED <<row, pc, delivery, done, sends, hasty, accepted, runs, faults>>
  BY DEF Tick
<1>2. TypeOK'
  BY <1>1, BudgetAssumption DEF TypeOK, Lesser
<1>3. HandlersAreSane' /\ ExclusiveHandling' /\ RepeatsAreAccounted'
  BY <1>1 DEF HandlersAreSane, ExclusiveHandling, RepeatsAreAccounted, Reserved
<1>4. ReservationIsCurrent'
  <2> SUFFICES ASSUME NEW h \in Handlers, Reserved(h)
               PROVE  /\ delivery[h] \in Deliveries
                      /\ row[delivery[h]] \in {"taken", "processed"}
                      /\ row[delivery[h]] = "taken" => age'[delivery[h]] = elapsed'[h]
                      /\ row[delivery[h]] = "processed" => pc[h] = "failing"
    BY <1>1 DEF ReservationIsCurrent, Reserved
  <2>1. /\ delivery[h] \in Deliveries /\ row[delivery[h]] \in {"taken", "processed"}
        /\ row[delivery[h]] = "taken" => age[delivery[h]] = elapsed[h]
        /\ row[delivery[h]] = "processed" => pc[h] = "failing"
    BY DEF ReservationIsCurrent
  <2>2. elapsed'[h] = elapsed[h] + 1 /\ elapsed[h] \in 0..HandlerBudget
        /\ elapsed[h] < HandlerBudget
    BY <1>1 DEF TypeOK
  <2>3. row[delivery[h]] = "taken" => age'[delivery[h]] = Lesser(age[delivery[h]] + 1, RetakeAfter + 1)
    BY <1>1, <2>1
  <2> QED BY <2>1, <2>2, <2>3, BudgetAssumption DEF Lesser
<1>5. RunsAreRecorded'
  BY <1>1 DEF RunsAreRecorded, Finishing, Pruned, Busy
<1> QED BY <1>2, <1>3, <1>4, <1>5

LEMMA StutterStep == ASSUME LedgerInv, UNCHANGED vars PROVE LedgerInv'
BY DEF LedgerInv, vars, ledgerVars, handlerVars, githubVars, TypeOK, HandlersAreSane,
       ReservationIsCurrent, ExclusiveHandling, RunsAreRecorded, RepeatsAreAccounted,
       Reserved, Finishing, Pruned, Busy

LEMMA NextLedgerInv == LedgerInv /\ [Next]_vars => LedgerInv'
<1> SUFFICES ASSUME LedgerInv, [Next]_vars PROVE LedgerInv'
  OBVIOUS
<1>1. ASSUME NEW h \in Handlers, NEW d \in Deliveries, Receive(h, d) PROVE LedgerInv'
  BY <1>1, ReceiveStep
<1>2. ASSUME NEW h \in Handlers, RecordDelivery(h) PROVE LedgerInv'
  BY <1>2, RecordDeliveryStep
<1>3. ASSUME NEW h \in Handlers, AnswerDuplicate(h) PROVE LedgerInv'
  BY <1>3, AnswerDuplicateStep
<1>4. ASSUME NEW h \in Handlers, RecordFails(h) PROVE LedgerInv'
  BY <1>4, RecordFailsStep
<1>5. ASSUME NEW h \in Handlers, RunStatement(h) PROVE LedgerInv'
  BY <1>5, RunStatementStep
<1>6. ASSUME NEW h \in Handlers, CompleteDelivery(h) PROVE LedgerInv'
  BY <1>6, CompleteDeliveryStep
<1>7. ASSUME NEW h \in Handlers, StatementFails(h) \/ CompleteUnheard(h) PROVE LedgerInv'
  BY <1>7, FailingStep
<1>8. ASSUME NEW h \in Handlers, ReleaseDelivery(h) PROVE LedgerInv'
  BY <1>8, ReleaseDeliveryStep
<1>9. ASSUME NEW h \in Handlers, Crash(h) PROVE LedgerInv'
  BY <1>9, CrashStep
<1>10. ASSUME NEW d \in Deliveries, PruneOperationalData(d) PROVE LedgerInv'
  BY <1>10, PruneStep
<1>11. CASE Tick
  BY <1>11, TickStep
<1>12. CASE UNCHANGED vars
  BY <1>12, StutterStep
<1> QED BY <1>1, <1>2, <1>3, <1>4, <1>5, <1>6, <1>7, <1>8, <1>9, <1>10, <1>11, <1>12 DEF Next

-----------------------------------------------------------------------------
(* Deliveries that are not repeated too soon. *)

LEMMA InitPatience == Init => PatienceInv
BY DeliveryAssumption, BudgetAssumption
DEF Init, PatienceInv, MarksAreEarned, LeftoversExpire, PatientIsNotLost, Reserved

\* A patient request finds no reservation that it would have to respect.
LEMMA PatientMeetsNobody ==
  ASSUME LedgerInv, PatienceInv, NEW h \in Handlers,
         pc[h] = "recording", ~Takeable(delivery[h])
  PROVE  hasty[delivery[h]] = 0 => row[delivery[h]] = "processed"
<1> PICK d \in Deliveries : d = delivery[h]
  BY DEF LedgerInv, HandlersAreSane, TypeOK
<1>1. SUFFICES ASSUME hasty[d] = 0, row[d] = "taken" PROVE FALSE
  BY DEF LedgerInv, TypeOK, RowState, Takeable
<1>2. \A g \in Handlers : delivery[g] = d => g = h
  BY <1>1 DEF PatienceInv, LeftoversExpire
<1>3. ~\E g \in Handlers : Reserved(g) /\ delivery[g] = d
  BY <1>2 DEF Reserved
<1>4. Busy(d)
  BY DEF Busy
<1> QED BY <1>1, <1>3, <1>4 DEF PatienceInv, LeftoversExpire, Takeable

\* The handlers and the rows of other deliveries stay as they are.
LEMMA PatienceReceive ==
  ASSUME LedgerInv, PatienceInv, NEW h \in Handlers, NEW d \in Deliveries, Receive(h, d)
  PROVE  PatienceInv'
<1>1. /\ pc[h] = "idle" /\ pc' = [pc EXCEPT ![h] = "recording"]
      /\ delivery' = [delivery EXCEPT ![h] = d] /\ sends' = [sends EXCEPT ![d] = @ + 1]
      /\ hasty' = [hasty EXCEPT ![d] = IF Soon(d) THEN @ + 1 ELSE @]
      /\ UNCHANGED <<row, age, done, elapsed, quiet, accepted, runs, faults>>
  BY DEF Receive, ledgerVars
<1>2. /\ pc \in [Handlers -> Control] /\ delivery \in [Handlers -> Deliveries \cup {NoDelivery}]
      /\ \A e \in Deliveries : sends[e] \in Nat /\ hasty[e] \in Nat /\ quiet[e] \in 0..(RetakeAfter + 1)
      /\ sends \in [Deliveries -> 0..MaxSends] /\ hasty \in [Deliveries -> 0..MaxHasty]
      /\ age \in [Deliveries -> 0..(RetakeAfter + 1)] /\ accepted \subseteq Deliveries
  BY ModelAssumption DEF LedgerInv, TypeOK
<1>3. ~Reserved(h) /\ ~Reserved(h)' /\ delivery'[h] = d /\ delivery[h] = NoDelivery
  BY <1>1, <1>2 DEF Reserved, LedgerInv, HandlersAreSane
<1>4. \A g \in Handlers : g # h => delivery'[g] = delivery[g] /\ (Reserved(g)' <=> Reserved(g))
  BY <1>1, <1>2 DEF Reserved
<1>5. MarksAreEarned'
  <2>1. \A e \in Deliveries : sends'[e] = 0 => sends[e] = 0
    BY <1>1, <1>2
  <2>2. ASSUME NEW g \in Handlers, Reserved(g)', done'[g] = Statements[delivery'[g]]
        PROVE  runs'[delivery'[g]] > 0
    BY <1>1, <1>3, <1>4, <2>2 DEF PatienceInv, MarksAreEarned
  <2> QED BY <1>1, <2>1, <2>2 DEF PatienceInv, MarksAreEarned
<1>6. \A e \in Deliveries : hasty'[e] = 0 => hasty[e] = 0
  BY <1>1, <1>2
<1>7. LeftoversExpire'
  <2>1. ASSUME NEW e \in Deliveries, e # d, hasty'[e] = 0
        PROVE  /\ \A f, g \in Handlers : delivery'[f] = e /\ delivery'[g] = e => f = g
               /\ row'[e] = "taken" =>
                    \/ \E g \in Handlers : Reserved(g)' /\ delivery'[g] = e
                    \/ IF Busy(e)' THEN age'[e] > RetakeAfter ELSE age'[e] >= quiet'[e]
    <3>1. \A g \in Handlers : delivery'[g] = e <=> delivery[g] = e
      BY <1>3, <1>4, <2>1, DeliveryAssumption
    <3>2. Busy(e)' <=> Busy(e)
      BY <3>1 DEF Busy
    <3>3. (\E g \in Handlers : Reserved(g) /\ delivery[g] = e)
            => \E g \in Handlers : Reserved(g)' /\ delivery'[g] = e
      BY <1>3, <1>4
    <3>4. hasty[e] = 0
      BY <1>6, <2>1
    <3> QED BY <1>1, <3>1, <3>2, <3>3, <3>4 DEF PatienceInv, LeftoversExpire
  <2>2. ASSUME hasty'[d] = 0
        PROVE  /\ \A f, g \in Handlers : delivery'[f] = d /\ delivery'[g] = d => f = g
               /\ row'[d] = "taken" => Busy(d)' /\ age'[d] > RetakeAfter
    <3>1. ~Soon(d) /\ hasty[d] = 0
      BY <1>1, <1>2, <2>2
    <3>2. sends[d] = 0 \/ (~Busy(d) /\ quiet[d] > RetakeAfter)
      BY <1>2, <3>1, BudgetAssumption DEF Soon
    <3>3. \A g \in Handlers : delivery[g] # d
      <4>1. CASE sends[d] = 0
        BY <4>1, DeliveryAssumption DEF LedgerInv, HandlersAreSane
      <4> QED BY <3>2, <4>1 DEF Busy
    <3>4. \A f, g \in Handlers : delivery'[f] = d /\ delivery'[g] = d => f = g
      BY <1>4, <3>3
    <3>5. ASSUME row[d] = "taken" PROVE age[d] > RetakeAfter
      <4>1. sends[d] # 0
        BY <3>5 DEF PatienceInv, MarksAreEarned
      <4>2. age[d] >= quiet[d]
        BY <3>1, <3>3, <3>5 DEF PatienceInv, LeftoversExpire, Busy
      <4> QED BY <1>2, <3>2, <4>1, <4>2, BudgetAssumption
    <3>6. Busy(d)'
      BY <1>3 DEF Busy
    <3> QED BY <1>1, <3>4, <3>5, <3>6
  <2> QED BY <2>1, <2>2 DEF LeftoversExpire
<1>8. PatientIsNotLost'
  BY <1>1, <1>2 DEF PatienceInv, PatientIsNotLost
<1> QED BY <1>5, <1>7, <1>8 DEF PatienceInv

\* A request that ends may leave its row behind, but not one that lies about
\* the statements.
Honest(h) ==
  LET d == delivery[h] IN
  /\ row'[d] = "processed" => runs[d] > 0
  /\ accepted' \subseteq accepted \cup {d}
  /\ d \in accepted' /\ hasty[d] = 0 => d \in accepted \/ runs[d] > 0

LEMMA PatienceEnd ==
  ASSUME LedgerInv, PatienceInv, NEW h \in Handlers, pc[h] # "idle",
         Ends(h), Touches(delivery[h]), Honest(h)
  PROVE  PatienceInv'
<1> PICK d \in Deliveries : d = delivery[h]
  BY DEF Ends
<1>1. /\ pc \in [Handlers -> Control] /\ delivery \in [Handlers -> Deliveries \cup {NoDelivery}]
      /\ done \in [Handlers -> Nat] /\ accepted \subseteq Deliveries
      /\ sends \in [Deliveries -> 0..MaxSends] /\ hasty \in [Deliveries -> 0..MaxHasty]
      /\ quiet \in [Deliveries -> 0..(RetakeAfter + 1)]
      /\ sends[d] > 0
  BY DEF LedgerInv, TypeOK, HandlersAreSane
<1>2. /\ ~Reserved(h)' /\ delivery'[h] = NoDelivery
      /\ \A g \in Handlers : g # h => /\ delivery'[g] = delivery[g] /\ done'[g] = done[g]
                                      /\ (Reserved(g)' <=> Reserved(g))
  BY <1>1 DEF Reserved, Ends
<1>3. /\ runs' = runs /\ sends' = sends /\ hasty' = hasty
      /\ quiet'[d] = 0 /\ age'[d] \in 0..(RetakeAfter + 1)
      /\ \A e \in Deliveries : e # d => row'[e] = row[e] /\ age'[e] = age[e] /\ quiet'[e] = quiet[e]
  BY <1>1 DEF Ends, Touches
<1>4. MarksAreEarned'
  <2>1. \A e \in Deliveries : row'[e] = "processed" => runs'[e] > 0
    BY <1>3 DEF PatienceInv, MarksAreEarned, Honest
  <2>2. \A e \in Deliveries : sends'[e] = 0 => row'[e] = "absent"
    BY <1>1, <1>3, ModelAssumption DEF PatienceInv, MarksAreEarned
  <2>3. ASSUME NEW g \in Handlers, Reserved(g)', done'[g] = Statements[delivery'[g]]
        PROVE  runs'[delivery'[g]] > 0
    BY <1>2, <1>3, <2>3 DEF PatienceInv, MarksAreEarned
  <2> QED BY <2>1, <2>2, <2>3 DEF MarksAreEarned
<1>5. LeftoversExpire'
  <2>1. ASSUME NEW e \in Deliveries, e # d, hasty'[e] = 0
        PROVE  /\ \A f, g \in Handlers : delivery'[f] = e /\ delivery'[g] = e => f = g
               /\ row'[e] = "taken" =>
                    \/ \E g \in Handlers : Reserved(g)' /\ delivery'[g] = e
                    \/ IF Busy(e)' THEN age'[e] > RetakeAfter ELSE age'[e] >= quiet'[e]
    <3>1. \A g \in Handlers : delivery'[g] = e <=> delivery[g] = e
      BY <1>2, <2>1, DeliveryAssumption
    <3>2. Busy(e)' <=> Busy(e)
      BY <3>1 DEF Busy
    <3>3. (\E g \in Handlers : Reserved(g) /\ delivery[g] = e)
            => \E g \in Handlers : Reserved(g)' /\ delivery'[g] = e
      BY <1>2, <2>1
    <3>4. /\ \A f, g \in Handlers : delivery[f] = e /\ delivery[g] = e => f = g
          /\ row[e] = "taken" =>
               \/ \E g \in Handlers : Reserved(g) /\ delivery[g] = e
               \/ IF Busy(e) THEN age[e] > RetakeAfter ELSE age[e] >= quiet[e]
      BY <1>3, <2>1 DEF PatienceInv, LeftoversExpire
    <3> QED BY <1>3, <2>1, <3>1, <3>2, <3>3, <3>4
  <2>2. ASSUME hasty'[d] = 0
        PROVE  (\A g \in Handlers : delivery'[g] # d) /\ ~Busy(d)' /\ age'[d] >= quiet'[d]
    <3>1. \A g \in Handlers : delivery[g] = d => g = h
      BY <1>3, <2>2 DEF PatienceInv, LeftoversExpire
    <3>2. \A g \in Handlers : delivery'[g] # d
      BY <1>2, <3>1, DeliveryAssumption
    <3> QED BY <1>3, <3>2, BudgetAssumption DEF Busy
  <2> QED BY <2>1, <2>2 DEF LeftoversExpire
<1>6. PatientIsNotLost'
  <2>1. hasty[d] \in Nat
    BY <1>1, ModelAssumption
  <2> QED BY <1>3, <2>1 DEF PatienceInv, PatientIsNotLost, Honest
<1> QED BY <1>4, <1>5, <1>6 DEF PatienceInv

LEMMA PatienceAnswer ==
  ASSUME LedgerInv, PatienceInv, NEW h \in Handlers, AnswerDuplicate(h)
  PROVE  PatienceInv'
<1> DEFINE d == delivery[h]
<1>1. /\ pc[h] = "recording" /\ d \in Deliveries /\ ~Takeable(d)
      /\ UNCHANGED <<row, age, runs, faults>> /\ accepted' = accepted \cup {d}
  BY DEF LedgerInv, AnswerDuplicate, End, HandlersAreSane, TypeOK, ledgerVars
<1>2. Ends(h)
  BY <1>1 DEF AnswerDuplicate, End, Ends, LedgerInv, TypeOK
<1>3. Touches(d)
  BY <1>1, LedgerTypes DEF Touches
<1>4. Honest(h)
  BY <1>1, PatientMeetsNobody DEF Honest, PatienceInv, MarksAreEarned
<1> QED BY <1>1, <1>2, <1>3, <1>4, PatienceEnd

LEMMA PatienceRecordFails ==
  ASSUME LedgerInv, PatienceInv, NEW h \in Handlers, RecordFails(h)
  PROVE  PatienceInv'
<1> DEFINE d == delivery[h]
<1>1. /\ pc[h] = "recording" /\ d \in Deliveries /\ accepted' = accepted
      /\ UNCHANGED <<row, age>> \/ TakeRow(d)
      /\ Fault(d) /\ UNCHANGED runs
  BY DEF LedgerInv, RecordFails, End, HandlersAreSane, TypeOK, ledgerVars
<1>2. Ends(h)
  BY <1>1 DEF RecordFails, End, Ends, LedgerInv, TypeOK
<1>3. Touches(d)
  <2>1. /\ row' \in [Deliveries -> RowState] /\ age' \in [Deliveries -> 0..(RetakeAfter + 1)]
        /\ \A e \in Deliveries : e # d => row'[e] = row[e] /\ age'[e] = age[e]
    BY <1>1, LedgerTypes, BudgetAssumption DEF TakeRow, RowState
  <2> QED BY <1>1, <2>1, <1>2, FaultCounts DEF Touches
<1>4. Honest(h)
  BY <1>1, LedgerTypes DEF Honest, PatienceInv, MarksAreEarned, TakeRow
<1> QED BY <1>1, <1>2, <1>3, <1>4, PatienceEnd

LEMMA PatienceComplete ==
  ASSUME LedgerInv, PatienceInv, NEW h \in Handlers, CompleteDelivery(h)
  PROVE  PatienceInv'
<1> DEFINE d == delivery[h]
<1>1. /\ pc[h] = "running" /\ Reserved(h) /\ d \in Deliveries
      /\ done[h] = Statements[d] /\ accepted' = accepted \cup {d}
      /\ row' = [row EXCEPT ![d] = IF @ = "absent" THEN "absent" ELSE "processed"]
      /\ age' = [age EXCEPT ![d] = 0] /\ UNCHANGED <<runs, faults>>
  BY DEF LedgerInv, CompleteDelivery, End, Reserved, ReservationIsCurrent
<1>2. Ends(h)
  BY <1>1 DEF CompleteDelivery, End, Ends, LedgerInv, TypeOK
<1>3. Touches(d)
  BY <1>1, LedgerTypes, BudgetAssumption DEF Touches, RowState
<1>4. Honest(h)
  BY <1>1 DEF Honest, PatienceInv, MarksAreEarned
<1> QED BY <1>1, <1>2, <1>3, <1>4, PatienceEnd

LEMMA PatienceRelease ==
  ASSUME LedgerInv, PatienceInv, NEW h \in Handlers, ReleaseDelivery(h)
  PROVE  PatienceInv'
<1> DEFINE d == delivery[h]
<1>1. /\ pc[h] = "failing" /\ d \in Deliveries /\ accepted' = accepted
      /\ row' = [row EXCEPT ![d] = IF @ = "taken" THEN "absent" ELSE @]
      /\ age' = [age EXCEPT ![d] = 0] /\ UNCHANGED <<runs, faults>>
  BY DEF LedgerInv, ReleaseDelivery, End, Reserved, ReservationIsCurrent
<1>2. Ends(h)
  BY <1>1 DEF ReleaseDelivery, End, Ends, LedgerInv, TypeOK
<1>3. Touches(d)
  BY <1>1, LedgerTypes, BudgetAssumption DEF Touches, RowState
<1>4. Honest(h)
  BY <1>1, LedgerTypes DEF Honest, PatienceInv, MarksAreEarned
<1> QED BY <1>1, <1>2, <1>3, <1>4, PatienceEnd

LEMMA PatienceCrash ==
  ASSUME LedgerInv, PatienceInv, NEW h \in Handlers, Crash(h)
  PROVE  PatienceInv'
<1> DEFINE d == delivery[h]
<1>1. /\ pc[h] # "idle" /\ d \in Deliveries /\ accepted' = accepted
      /\ UNCHANGED <<row, age, runs>> /\ Fault(d)
  BY DEF LedgerInv, Crash, End, HandlersAreSane, TypeOK, ledgerVars
<1>2. Ends(h)
  BY <1>1 DEF Crash, End, Ends, LedgerInv, TypeOK
<1>3. Touches(d)
  BY <1>1, LedgerTypes, FaultCounts DEF Touches
<1>4. Honest(h)
  BY <1>1 DEF Honest, PatienceInv, MarksAreEarned
<1> QED BY <1>1, <1>2, <1>3, <1>4, PatienceEnd

LEMMA PatienceRecord ==
  ASSUME LedgerInv, PatienceInv, NEW h \in Handlers, RecordDelivery(h)
  PROVE  PatienceInv'
<1> DEFINE d == delivery[h]
<1>1. /\ pc[h] = "recording" /\ d \in Deliveries /\ done[h] = 0 /\ Statements[d] # 0 /\ sends[d] > 0
      /\ row' = [row EXCEPT ![d] = "taken"] /\ age' = [age EXCEPT ![d] = 0]
      /\ pc' = [pc EXCEPT ![h] = "running"]
      /\ UNCHANGED <<delivery, done, sends, hasty, quiet, accepted, runs>>
  BY DeliveryAssumption
  DEF RecordDelivery, TakeRow, githubVars, LedgerInv, HandlersAreSane, TypeOK
<1>2. /\ row \in [Deliveries -> RowState] /\ age \in [Deliveries -> 0..(RetakeAfter + 1)]
      /\ sends \in [Deliveries -> 0..MaxSends] /\ pc \in [Handlers -> Control]
  BY DEF LedgerInv, TypeOK
<1>3. Reserved(h)' /\ \A g \in Handlers : g # h => (Reserved(g)' <=> Reserved(g))
  BY <1>1, <1>2 DEF Reserved
<1>4. MarksAreEarned'
  <2>1. \A e \in Deliveries : row'[e] = "processed" => runs'[e] > 0
    BY <1>1, <1>2 DEF PatienceInv, MarksAreEarned
  <2>2. \A e \in Deliveries : sends'[e] = 0 => row'[e] = "absent"
    BY <1>1, <1>2 DEF PatienceInv, MarksAreEarned
  <2> QED BY <1>1, <1>3, <2>1, <2>2 DEF PatienceInv, MarksAreEarned
<1>5. LeftoversExpire'
  <2>1. \A e \in Deliveries : Busy(e)' <=> Busy(e)
    BY <1>1 DEF Busy
  <2>2. \A e \in Deliveries : e # d => row'[e] = row[e] /\ age'[e] = age[e]
    BY <1>1, <1>2
  <2> QED BY <1>1, <1>3, <2>1, <2>2 DEF PatienceInv, LeftoversExpire
<1>6. PatientIsNotLost'
  BY <1>1 DEF PatienceInv, PatientIsNotLost
<1> QED BY <1>4, <1>5, <1>6 DEF PatienceInv

\* The clock and the control of every handler stand still, and so does what
\* the ledger holds of the deliveries that somebody carries out.
LEMMA PatienceRunStatement ==
  ASSUME LedgerInv, PatienceInv, NEW h \in Handlers, RunStatement(h)
  PROVE  PatienceInv'
<1> DEFINE d == delivery[h]
<1>1. /\ pc[h] = "running" /\ done' = [done EXCEPT ![h] = @ + 1]
      /\ runs' = [runs EXCEPT ![d] = IF done[h] + 1 = Statements[d] THEN @ + 1 ELSE @]
      /\ UNCHANGED <<row, age, pc, delivery, elapsed, sends, hasty, quiet, accepted, faults>>
  BY DEF RunStatement, ledgerVars, githubVars
<1>2. /\ d \in Deliveries /\ runs \in [Deliveries -> Nat] /\ done \in [Handlers -> Nat]
      /\ accepted \subseteq Deliveries
  BY <1>1 DEF LedgerInv, TypeOK, ReservationIsCurrent, Reserved
<1>3. \A e \in Deliveries : runs[e] > 0 => runs'[e] > 0
  BY <1>1, <1>2
<1>4. MarksAreEarned'
  <2>1. ASSUME NEW g \in Handlers, Reserved(g)', done'[g] = Statements[delivery'[g]]
        PROVE  runs'[delivery'[g]] > 0
    <3>1. CASE g = h
      BY <1>1, <1>2, <2>1, <3>1
    <3>2. CASE g # h
      <4>1. Reserved(g) /\ done[g] = Statements[delivery[g]] /\ delivery[g] \in Deliveries
        BY <1>1, <1>2, <2>1, <3>2 DEF Reserved, LedgerInv, ReservationIsCurrent
      <4> QED BY <1>1, <1>3, <4>1 DEF PatienceInv, MarksAreEarned
    <3> QED BY <3>1, <3>2
  <2> QED BY <1>1, <1>3, <2>1 DEF PatienceInv, MarksAreEarned
<1>5. LeftoversExpire'
  BY <1>1 DEF PatienceInv, LeftoversExpire, Busy, Reserved
<1>6. PatientIsNotLost'
  BY <1>1, <1>2, <1>3 DEF PatienceInv, PatientIsNotLost
<1> QED BY <1>4, <1>5, <1>6 DEF PatienceInv

LEMMA PatienceFailing ==
  ASSUME LedgerInv, PatienceInv, NEW h \in Handlers, StatementFails(h) \/ CompleteUnheard(h)
  PROVE  PatienceInv'
<1> DEFINE d == delivery[h]
<1>1. /\ pc[h] = "running" /\ Reserved(h) /\ d \in Deliveries /\ row[d] = "taken"
      /\ pc' = [pc EXCEPT ![h] = "failing"]
      /\ UNCHANGED <<delivery, done, elapsed, sends, hasty, quiet, accepted, runs>>
  BY DEF StatementFails, CompleteUnheard, Reserved, LedgerInv, ReservationIsCurrent, githubVars
<1>2. \/ UNCHANGED <<row, age>>
      \/ /\ row' = [row EXCEPT ![d] = "processed"] /\ age' = [age EXCEPT ![d] = 0]
         /\ done[h] = Statements[d]
  BY <1>1 DEF StatementFails, CompleteUnheard, ledgerVars
<1>3. /\ row \in [Deliveries -> RowState] /\ age \in [Deliveries -> 0..(RetakeAfter + 1)]
      /\ pc \in [Handlers -> Control]
  BY DEF LedgerInv, TypeOK
<1>4. \A g \in Handlers : Reserved(g)' <=> Reserved(g)
  BY <1>1, <1>3 DEF Reserved
<1>5. sends[d] > 0 /\ (done[h] = Statements[d] => runs[d] > 0)
  BY <1>1 DEF LedgerInv, HandlersAreSane, PatienceInv, MarksAreEarned
<1>6. MarksAreEarned'
  <2>1. \A e \in Deliveries : row'[e] = "processed" => runs[e] > 0
    BY <1>2, <1>3, <1>5 DEF PatienceInv, MarksAreEarned
  <2>2. \A e \in Deliveries : sends[e] = 0 => row'[e] = "absent"
    BY <1>2, <1>3, <1>5 DEF PatienceInv, MarksAreEarned
  <2> QED BY <1>1, <1>4, <2>1, <2>2 DEF PatienceInv, MarksAreEarned
<1>7. LeftoversExpire'
  <2>1. \A e \in Deliveries : Busy(e)' <=> Busy(e)
    BY <1>1 DEF Busy
  <2>2. \A e \in Deliveries : row'[e] = "taken" => row[e] = "taken" /\ age'[e] = age[e]
    BY <1>2, <1>3
  <2> QED BY <1>1, <1>4, <2>1, <2>2 DEF PatienceInv, LeftoversExpire
<1>8. PatientIsNotLost'
  BY <1>1 DEF PatienceInv, PatientIsNotLost
<1> QED BY <1>6, <1>7, <1>8 DEF PatienceInv

LEMMA PatiencePrune ==
  ASSUME LedgerInv, PatienceInv, NEW d \in Deliveries, PruneOperationalData(d)
  PROVE  PatienceInv'
<1>1. /\ row' = [row EXCEPT ![d] = "absent"] /\ age' = [age EXCEPT ![d] = 0]
      /\ UNCHANGED <<pc, delivery, done, elapsed, sends, hasty, quiet, accepted, runs, faults>>
  BY DEF PruneOperationalData, handlerVars, githubVars
<1>2. row \in [Deliveries -> RowState] /\ age \in [Deliveries -> 0..(RetakeAfter + 1)]
  BY DEF LedgerInv, TypeOK
<1>3. \A e \in Deliveries : row'[e] = "absent" \/ (row'[e] = row[e] /\ age'[e] = age[e])
  BY <1>1, <1>2
<1>4. MarksAreEarned' /\ PatientIsNotLost'
  BY <1>1, <1>3 DEF PatienceInv, MarksAreEarned, PatientIsNotLost, Reserved
<1>5. LeftoversExpire'
  BY <1>1, <1>3 DEF PatienceInv, LeftoversExpire, Busy, Reserved
<1> QED BY <1>4, <1>5 DEF PatienceInv

\* A row that nobody holds ages as fast as its delivery is quiet.
LEMMA PatienceTick == ASSUME LedgerInv, PatienceInv, Tick PROVE PatienceInv'
<1>1. /\ age' = [d \in Deliveries |-> IF row[d] = "taken"
                                        THEN Lesser(age[d] + 1, RetakeAfter + 1) ELSE 0]
      /\ quiet' = [d \in Deliveries |-> IF sends[d] > 0 /\ ~Busy(d)
                                          THEN Lesser(quiet[d] + 1, RetakeAfter + 1) ELSE 0]
      /\ UNCHANGED <<row, pc, delivery, done, sends, hasty, accepted, runs, faults>>
  BY DEF Tick
<1>2. /\ age \in [Deliveries -> 0..(RetakeAfter + 1)]
      /\ quiet \in [Deliveries -> 0..(RetakeAfter + 1)]
  BY DEF LedgerInv, TypeOK
<1>3. MarksAreEarned' /\ PatientIsNotLost'
  BY <1>1 DEF PatienceInv, MarksAreEarned, PatientIsNotLost, Reserved
<1>4. LeftoversExpire'
  <2>1. ASSUME NEW d \in Deliveries, row[d] = "taken"
        PROVE  /\ age[d] > RetakeAfter => age'[d] > RetakeAfter
               /\ ~Busy(d) /\ age[d] >= quiet[d] => age'[d] >= quiet'[d]
    BY <1>1, <1>2, <2>1, BudgetAssumption DEF Lesser
  <2>2. \A d \in Deliveries : Busy(d)' <=> Busy(d)
    BY <1>1 DEF Busy
  <2> QED BY <1>1, <2>1, <2>2 DEF PatienceInv, LeftoversExpire, Reserved
<1> QED BY <1>3, <1>4 DEF PatienceInv

LEMMA PatienceStutter == ASSUME PatienceInv, UNCHANGED vars PROVE PatienceInv'
BY DEF vars, ledgerVars, handlerVars, githubVars, PatienceInv, MarksAreEarned,
       LeftoversExpire, PatientIsNotLost, Busy, Reserved

LEMMA NextPatience == LedgerInv /\ PatienceInv /\ [Next]_vars => PatienceInv'
<1> SUFFICES ASSUME LedgerInv, PatienceInv, [Next]_vars PROVE PatienceInv'
  OBVIOUS
<1>1. ASSUME NEW h \in Handlers, NEW d \in Deliveries, Receive(h, d) PROVE PatienceInv'
  BY <1>1, PatienceReceive
<1>2. ASSUME NEW h \in Handlers, RecordDelivery(h) PROVE PatienceInv'
  BY <1>2, PatienceRecord
<1>3. ASSUME NEW h \in Handlers, AnswerDuplicate(h) PROVE PatienceInv'
  BY <1>3, PatienceAnswer
<1>4. ASSUME NEW h \in Handlers, RecordFails(h) PROVE PatienceInv'
  BY <1>4, PatienceRecordFails
<1>5. ASSUME NEW h \in Handlers, RunStatement(h) PROVE PatienceInv'
  BY <1>5, PatienceRunStatement
<1>6. ASSUME NEW h \in Handlers, CompleteDelivery(h) PROVE PatienceInv'
  BY <1>6, PatienceComplete
<1>7. ASSUME NEW h \in Handlers, StatementFails(h) \/ CompleteUnheard(h) PROVE PatienceInv'
  BY <1>7, PatienceFailing
<1>8. ASSUME NEW h \in Handlers, ReleaseDelivery(h) PROVE PatienceInv'
  BY <1>8, PatienceRelease
<1>9. ASSUME NEW h \in Handlers, Crash(h) PROVE PatienceInv'
  BY <1>9, PatienceCrash
<1>10. ASSUME NEW d \in Deliveries, PruneOperationalData(d) PROVE PatienceInv'
  BY <1>10, PatiencePrune
<1>11. CASE Tick
  BY <1>11, PatienceTick
<1>12. CASE UNCHANGED vars
  BY <1>12, PatienceStutter
<1> QED BY <1>1, <1>2, <1>3, <1>4, <1>5, <1>6, <1>7, <1>8, <1>9, <1>10, <1>11, <1>12 DEF Next

-----------------------------------------------------------------------------
\* The ledger, its requests and what GitHub was told agree in every reachable
\* state.
THEOREM LedgerInvariance == Spec => []IInv
<1>1. Init => IInv
  BY InitLedgerInv, InitPatience DEF IInv
<1>2. IInv /\ [Next]_vars => IInv'
  BY NextLedgerInv, NextPatience DEF IInv
<1> QED BY <1>1, <1>2, PTL DEF Spec

\* Two requests never run the statements of one delivery at the same time,
\* although RecordDelivery leaves no owner in the row and ReleaseDelivery and
\* CompleteDelivery ask for none.
THEOREM HandlingExclusion == Spec => []ExclusiveHandling
<1>1. IInv => ExclusiveHandling
  BY DEF IInv, LedgerInv
<1> QED BY <1>1, LedgerInvariance, PTL

\* Deduplication works: without a failure the statements of a delivery are
\* run once, and every further run has a failure of its own to answer for.
THEOREM RepeatsAccounted == Spec => []RepeatsAreAccounted
<1>1. IInv => RepeatsAreAccounted
  BY DEF IInv, LedgerInv
<1> QED BY <1>1, LedgerInvariance, PTL

\* GitHub is not told that a delivery was accepted before it has been carried
\* out, whatever failed or crashed on the way, unless it sent the delivery again
\* within the five minutes that a forgotten reservation lasts.
THEOREM PatientNotLost == Spec => []PatientIsNotLost
<1>1. IInv => PatientIsNotLost
  BY DEF IInv, PatienceInv
<1> QED BY <1>1, LedgerInvariance, PTL
=============================================================================
