----------------------- MODULE ChangePublishingProofs -----------------------
(***************************************************************************)
(* Theorems about ChangePublishing, for every number of processes, calls   *)
(* of runTick, enqueues, jobs, decisions and faults.                       *)
(***************************************************************************)
EXTENDS ChangePublishing, SequenceTheorems, TLAPS

-----------------------------------------------------------------------------
(* Lemmas about rows and the states of a call.                             *)

PCs == {"idle", "acquiring", "scanning", "recovering", "selecting", "claiming", "reading",
        "publishing", "succeeding", "failing", "telling", "regretting", "releasing"}

\* The fields of a call's state.
LEMMA StateFacts ==
    ASSUME NEW r \in TickStates
    PROVE  /\ r.pc \in PCs /\ r.left \in 0..BatchSize /\ r.found \subseteq Jobs \X Nat
           /\ r.job \in {0} \union Jobs /\ r.attempts \in Nat /\ r.final \in BOOLEAN
BY DEF TickStates, PCs

\* A state that a call goes on to keeps the fields that are not named.
LEMMA BecomesFacts ==
    ASSUME NEW t \in Ticks, tick[t] \in TickStates, NEW pc \in PCs
    PROVE  /\ At(t, pc) \in TickStates /\ At(t, pc).pc = pc /\ At(t, pc).job = tick[t].job
           /\ At(t, pc).left = tick[t].left
           /\ \A final \in BOOLEAN :
                 /\ Failing(t, final) \in TickStates /\ Failing(t, final).pc = "failing"
                 /\ Failing(t, final).job = tick[t].job /\ Failing(t, final).final = final
           /\ \A rows \in SUBSET (Jobs \X Nat) :
                 /\ Found(t, pc, rows) \in TickStates /\ Found(t, pc, rows).pc = pc
                 /\ Found(t, pc, rows).job = tick[t].job
                 /\ Found(t, pc, rows).left = tick[t].left
BY DEF TickStates, PCs, At, Failing, Found

\* A call between two jobs, or at the end of its loop.
LEMMA AfreshFacts ==
    ASSUME NEW pc \in PCs, NEW left \in 0..BatchSize
    PROVE  /\ Afresh(pc, left) \in TickStates /\ Afresh(pc, left).pc = pc
           /\ Afresh(pc, left).job = 0 /\ Afresh(pc, left).left = left
BY DEF Afresh, Idle, TickStates, PCs

LEMMA IdleFacts ==
    Idle \in TickStates /\ Idle.pc = "idle" /\ Idle.job = 0
BY ConstantsAssumption DEF Idle, TickStates

\* Writing to a row keeps the others.
LEMMA RowFacts ==
    ASSUME jobs \in Seq(JobRows), NEW j \in Jobs, NEW x \in JobRows
    PROVE  LET n == [jobs EXCEPT ![j] = x]
           IN  /\ n \in Seq(JobRows) /\ Len(n) = Len(jobs) /\ DOMAIN n = Jobs /\ n[j] = x
               /\ \A k \in Jobs \ {j} : n[k] = jobs[k]
<1>1. j \in 1 .. Len(jobs) /\ Jobs = 1 .. Len(jobs) /\ Len(jobs) \in Nat
  BY DEF Jobs
<1> QED BY <1>1, ExceptSeq DEF Jobs

LEMMA InsertFacts ==
    ASSUME jobs \in Seq(JobRows)
    PROVE  LET n == Append(jobs, Job("queued", 0))
           IN  /\ n \in Seq(JobRows) /\ Len(n) = Len(jobs) + 1
               /\ DOMAIN n = Jobs \union {Len(jobs) + 1} /\ Len(jobs) + 1 \notin Jobs
               /\ n[Len(jobs) + 1] = Job("queued", 0)
               /\ \A k \in Jobs : n[k] = jobs[k]
<1>1. Job("queued", 0) \in JobRows
  BY DEF Job, JobRows, Active
<1>2. Jobs = 1 .. Len(jobs) /\ Len(jobs) \in Nat
  BY DEF Jobs
<1>3. /\ Append(jobs, Job("queued", 0)) \in Seq(JobRows)
      /\ Len(Append(jobs, Job("queued", 0))) = Len(jobs) + 1
      /\ \A k \in 1 .. Len(jobs) : Append(jobs, Job("queued", 0))[k] = jobs[k]
      /\ Append(jobs, Job("queued", 0))[Len(jobs) + 1] = Job("queued", 0)
  BY <1>1, AppendProperties
<1>4. DOMAIN Append(jobs, Job("queued", 0)) = 1 .. (Len(jobs) + 1)
  BY <1>3
<1> QED BY <1>2, <1>3, <1>4 DEF Jobs

\* The rows the updates write.
LEMMA WrittenFacts ==
    ASSUME jobs \in Seq(JobRows), NEW j \in Jobs
    PROVE  /\ jobs[j] \in JobRows /\ jobs[j].attempts \in Nat
           /\ jobs[j].status \in Active \union Ended /\ jobs[j].aged \in BOOLEAN
           /\ Running(j) \in JobRows /\ Running(j).status = "running"
           /\ Running(j).aged = jobs[j].aged
           /\ [jobs[j] EXCEPT !.aged = TRUE] \in JobRows
           /\ [jobs[j] EXCEPT !.aged = TRUE].status = jobs[j].status
           /\ [jobs[j] EXCEPT !.aged = TRUE].aged
<1>1. jobs[j] \in JobRows
  BY DEF Jobs
<1> QED BY <1>1 DEF JobRows, Running, Active

LEMMA NewRowFacts ==
    ASSUME NEW status \in Active \union Ended, NEW n \in Nat
    PROVE  /\ Job(status, n) \in JobRows
           /\ Job(status, n).status = status /\ Job(status, n).aged = FALSE
BY DEF Job, JobRows

-----------------------------------------------------------------------------
(* Types.  A call that looks for rows may still take a job, which is what  *)
(* keeps the number it may take from becoming negative; one that has taken *)
(* a job has a row to write to.                                            *)

Taking == {"scanning", "recovering", "selecting", "claiming"}
Holding == {"reading", "publishing", "succeeding", "failing", "telling", "regretting"}

TInv ==
    /\ TypeOK
    /\ \A t \in Ticks :
          /\ tick[t].pc \in Taking => tick[t].left > 0
          /\ tick[t].pc \in Holding => tick[t].job \in Jobs

\* Its process is at work while a call has one of these.
Working == PCs \ {"idle", "acquiring", "releasing"}

\* The call t goes on to the state r.
Moves(t, r) ==
    /\ r \in TickStates
    /\ r.pc = "idle" => r = Idle
    /\ r.pc \in Taking => r.left > 0
    /\ r.pc \in Holding => r.job \in Jobs
    /\ Becomes(t, r)

\* It does not start to work, nor on a job.
GoesOn(t, r) ==
    /\ r.pc \in Working => tick[t].pc \in Working
    /\ r.job \in {0, tick[t].job}

LEMMA GoOnFacts ==
    ASSUME TInv, NEW t \in Ticks, NEW left \in 0..BatchSize, GoOn(t, left),
           tick[t].pc \in Working
    PROVE  /\ \E r \in TickStates : Moves(t, r) /\ GoesOn(t, r) /\ r.job = 0
           /\ inFlight' \in [Procs -> BOOLEAN]
<1>1. inFlight' \in [Procs -> BOOLEAN]
  BY ConstantsAssumption DEF GoOn, TInv, TypeOK
<1>2. 0 \in 0..BatchSize
  BY ConstantsAssumption
<1>3. CASE left > 0
  <2>1. Moves(t, Afresh("selecting", left)) /\ GoesOn(t, Afresh("selecting", left))
    BY <1>3, AfreshFacts DEF GoOn, Moves, GoesOn, Working, Holding, PCs
  <2> QED BY <1>1, <2>1, AfreshFacts DEF PCs
<1>4. CASE ~(left > 0)
  <2>1. Moves(t, Afresh("releasing", 0)) /\ GoesOn(t, Afresh("releasing", 0))
    BY <1>2, <1>4, AfreshFacts DEF GoOn, Moves, GoesOn, Working, Taking, Holding, PCs
  <2> QED BY <1>1, <1>2, <2>1, AfreshFacts DEF PCs
<1> QED BY <1>3, <1>4

LEMMA NextRowFacts ==
    ASSUME TInv, NEW t \in Ticks, NEW left \in 0..BatchSize, NEW row,
           NextRow(t, row, left), tick[t].pc \in {"recovering", "claiming"}
    PROVE  /\ \E r \in TickStates : Moves(t, r) /\ GoesOn(t, r)
           /\ inFlight' \in [Procs -> BOOLEAN]
<1>1. tick[t].pc \in Working /\ tick[t] \in TickStates /\ tick[t].left > 0
  BY DEF TInv, TypeOK, Working, PCs, Taking, Holding
<1>2. CASE tick[t].found = {row}
  BY <1>1, <1>2, GoOnFacts DEF NextRow
<1>3. CASE tick[t].found # {row}
  <2> DEFINE rows == tick[t].found \ {row}
  <2>1. rows \in SUBSET (Jobs \X Nat)
    BY <1>1, StateFacts
  <2>2. Becomes(t, Found(t, tick[t].pc, rows)) /\ inFlight' = inFlight
    BY <1>3 DEF NextRow
  <2> HIDE DEF rows
  <2>3. /\ Moves(t, Found(t, tick[t].pc, rows)) /\ GoesOn(t, Found(t, tick[t].pc, rows))
        /\ Found(t, tick[t].pc, rows) \in TickStates
    BY <1>1, <2>1, <2>2, BecomesFacts DEF Moves, GoesOn, Working, Holding
  <2> QED BY <2>2, <2>3 DEF TInv, TypeOK
<1> QED BY <1>2, <1>3

\* What a step does to the state of its call: only AcquireLease starts to work,
\* and only Claim starts on a job.
LEMMA StepFacts ==
    ASSUME TInv, NEW t \in Ticks, StartTick(t) \/ Work(t) \/ RequestFails(t)
    PROVE  /\ \E r \in TickStates :
                 /\ Moves(t, r)
                 /\ r.pc \in Working => tick[t].pc \in Working \/ AcquireLease(t)
                 /\ r.job \in {0, tick[t].job} \/ Claim(t)
           /\ inFlight' \in [Procs -> BOOLEAN]
<1> DEFINE Goal == /\ \E r \in TickStates :
                         /\ Moves(t, r)
                         /\ r.pc \in Working => tick[t].pc \in Working \/ AcquireLease(t)
                         /\ r.job \in {0, tick[t].job} \/ Claim(t)
                   /\ inFlight' \in [Procs -> BOOLEAN]
<1> SUFFICES Goal
  BY DEF Goal
<1> HIDE DEF Goal
<1>1. /\ tick \in [Ticks -> TickStates] /\ tick[t] \in TickStates /\ ProcOf[t] \in Procs
      /\ tick[t].pc \in PCs /\ tick[t].left \in 0..BatchSize /\ tick[t].job \in {0} \union Jobs
      /\ tick[t].pc \in Taking => tick[t].left > 0
      /\ tick[t].pc \in Holding => tick[t].job \in Jobs
      /\ inFlight \in [Procs -> BOOLEAN] /\ 0 \in 0..BatchSize /\ BatchSize \in 0..BatchSize
      /\ jobs \in Seq(JobRows)
  BY ConstantsAssumption, StateFacts DEF TInv, TypeOK
<1>2. ASSUME \E r \in TickStates : Moves(t, r) /\ GoesOn(t, r),
             inFlight' \in [Procs -> BOOLEAN]
      PROVE  Goal
  BY <1>2 DEF GoesOn, Goal
<1>3. ASSUME inFlight' = inFlight, tick[t].pc \in Working \ Taking,
             NEW pc \in Working \ Taking, NEW final \in BOOLEAN,
             Becomes(t, At(t, pc)) \/ Becomes(t, Failing(t, final))
      PROVE  Goal
  <2>1. PICK r \in {At(t, pc), Failing(t, final)} : Becomes(t, r)
    BY <1>3
  <2>2. /\ r \in TickStates /\ r.pc \in Working \ Taking /\ r.job = tick[t].job
    BY <1>1, <1>3, BecomesFacts DEF Working, PCs, Taking, Holding
  <2>3. Moves(t, r) /\ GoesOn(t, r)
    <3>1. tick[t].pc \in Holding
      BY <1>3 DEF Working, PCs, Taking, Holding
    <3>2. r.pc # "idle"
      BY <2>2 DEF Working
    <3> QED BY <1>1, <1>3, <2>1, <2>2, <3>1, <3>2 DEF Moves, GoesOn
  <2> QED BY <1>1, <1>2, <1>3, <2>2, <2>3
<1>4. ASSUME inFlight' = inFlight, Becomes(t, Idle) PROVE Goal
  <2>1. Moves(t, Idle) /\ GoesOn(t, Idle)
    BY <1>4, IdleFacts DEF Moves, GoesOn, Working, Taking, Holding
  <2> QED BY <1>1, <1>2, <1>4, <2>1, IdleFacts
<1>5. CASE StartTick(t)
  <2>1. Becomes(t, Afresh("acquiring", 0)) /\ inFlight' = inFlight
    BY <1>5 DEF StartTick
  <2>2. Moves(t, Afresh("acquiring", 0)) /\ GoesOn(t, Afresh("acquiring", 0))
    BY <1>1, <2>1, AfreshFacts DEF Moves, GoesOn, Working, Taking, Holding, PCs
  <2> QED BY <1>1, <1>2, <2>1, <2>2, AfreshFacts DEF PCs
<1>6. CASE AcquireLease(t)
  <2>1. /\ Becomes(t, Afresh("scanning", BatchSize))
        /\ inFlight' = [inFlight EXCEPT ![ProcOf[t]] = TRUE]
    BY <1>6 DEF AcquireLease
  <2>2. BatchSize > 0
    BY ConstantsAssumption
  <2>3. Moves(t, Afresh("scanning", BatchSize)) /\ Afresh("scanning", BatchSize).job = 0
    BY <1>1, <2>1, <2>2, AfreshFacts DEF Moves, Holding, PCs
  <2> QED BY <1>1, <1>6, <2>1, <2>3 DEF Moves, Goal
<1>7. CASE LeaseIsHeld(t)
  BY <1>4, <1>7 DEF LeaseIsHeld
<1>8. ASSUME tick[t].pc \in {"scanning", "selecting"}, NEW rows \in SUBSET (Jobs \X Nat),
             NEW left \in 0..BatchSize, NEW pc \in {"recovering", "claiming"},
             GoOn(t, left) \/ (Becomes(t, Found(t, pc, rows)) /\ inFlight' = inFlight)
      PROVE  Goal
  <2>1. CASE GoOn(t, left)
    BY <1>2, <1>8, <2>1, GoOnFacts DEF Working, PCs
  <2>2. CASE Becomes(t, Found(t, pc, rows)) /\ inFlight' = inFlight
    <3>1. /\ Moves(t, Found(t, pc, rows)) /\ GoesOn(t, Found(t, pc, rows))
          /\ Found(t, pc, rows) \in TickStates
      BY <1>1, <1>8, <2>2, BecomesFacts DEF Moves, GoesOn, Working, Taking, Holding, PCs
    <3> QED BY <1>1, <1>2, <2>2, <3>1
  <2> QED BY <1>8, <2>1, <2>2
<1>9. CASE ScanStale(t)
  <2>1. Stale \in SUBSET (Jobs \X Nat)
    <3>1. \A j \in Jobs : jobs[j].attempts \in Nat
      BY <1>1, WrittenFacts
    <3> QED BY <3>1 DEF Stale
  <2> QED BY <1>1, <1>8, <1>9, <2>1 DEF ScanStale
<1>10. CASE RecoverStale(t)
  <2>1. \E row : NextRow(t, row, tick[t].left)
    BY <1>10 DEF RecoverStale
  <2>2. tick[t].pc = "recovering"
    BY <1>10 DEF RecoverStale
  <2> QED BY <1>1, <1>2, <2>1, <2>2, NextRowFacts
<1>11. CASE SelectQueued(t)
  <2>1. Queued \in SUBSET (Jobs \X Nat)
    BY DEF Queued
  <2> QED BY <1>1, <1>8, <1>11, <2>1 DEF SelectQueued
<1>12. CASE Claim(t)
  <2>1. PICK row \in tick[t].found :
           \/ Becomes(t, Claimed(t, row[1])) /\ inFlight' = inFlight
           \/ NextRow(t, row, 0)
    BY <1>12 DEF Claim
  <2>2. tick[t].pc = "claiming"
    BY <1>12 DEF Claim
  <2>3. CASE NextRow(t, row, 0)
    BY <1>1, <1>2, <2>2, <2>3, NextRowFacts
  <2>4. CASE Becomes(t, Claimed(t, row[1])) /\ inFlight' = inFlight
    <3>1. row[1] \in Jobs /\ tick[t].left - 1 \in 0..BatchSize
      BY <1>1, <2>2, StateFacts, ConstantsAssumption DEF Taking
    <3>2. jobs[row[1]].attempts \in Nat
      BY <1>1, <3>1, WrittenFacts
    <3>3. /\ Claimed(t, row[1]) \in TickStates /\ Claimed(t, row[1]).pc = "reading"
          /\ Claimed(t, row[1]).job \in Jobs
      BY <3>1, <3>2 DEF Claimed, TickStates
    <3>4. Moves(t, Claimed(t, row[1])) /\ tick[t].pc \in Working
      BY <2>2, <2>4, <3>3 DEF Moves, Taking, Holding, Working, PCs
    <3> QED BY <1>1, <1>12, <2>4, <3>3, <3>4 DEF Goal
  <2> QED BY <2>1, <2>3, <2>4
<1>13. CASE ReadRequest(t)
  <2>1. /\ tick[t].pc = "reading" /\ inFlight' = inFlight
        /\ Becomes(t, At(t, "publishing")) \/ Becomes(t, Failing(t, TRUE))
    BY <1>13 DEF ReadRequest
  <2> QED BY <1>3, <2>1 DEF Working, PCs, Taking, Holding
<1>14. CASE Publish(t)
  <2>1. /\ tick[t].pc = "publishing" /\ inFlight' = inFlight
        /\ \/ Becomes(t, At(t, "succeeding"))
           \/ \E final \in BOOLEAN : Becomes(t, Failing(t, final \/ LastAttempt(t)))
    BY <1>14 DEF Publish
  <2>2. \A final \in BOOLEAN : (final \/ LastAttempt(t)) \in BOOLEAN
    BY DEF LastAttempt
  <2>3. "succeeding" \in Working \ Taking /\ "publishing" \in Working \ Taking
    BY DEF Working, PCs, Taking, Holding
  <2> QED BY <1>3, <2>1, <2>2, <2>3
<1>15. CASE MarkJob(t)
  <2>1. CASE GoOn(t, tick[t].left)
    BY <1>1, <1>2, <1>15, <2>1, GoOnFacts DEF MarkJob, Working, PCs
  <2>2. CASE ~GoOn(t, tick[t].left)
    <3>1. /\ inFlight' = inFlight
          /\ Becomes(t, At(t, "telling")) \/ Becomes(t, At(t, "regretting"))
      BY <1>15, <2>2 DEF MarkJob
    <3>2. tick[t].pc \in Working \ Taking /\ {"telling", "regretting"} \subseteq Working \ Taking
      BY <1>15 DEF MarkJob, Working, PCs, Taking, Holding
    <3> QED BY <1>3, <3>1, <3>2
  <2> QED BY <2>1, <2>2
<1>16. CASE TellRequest(t)
  BY <1>1, <1>2, <1>16, GoOnFacts DEF TellRequest, Working, PCs
<1>17. CASE ReleaseLease(t)
  BY <1>4, <1>17 DEF ReleaseLease
<1>18. CASE RequestFails(t)
  <2>1. CASE tick[t].pc \in {"acquiring", "releasing"}
    BY <1>4, <1>18, <2>1 DEF RequestFails
  <2>2. CASE tick[t].pc \in {"scanning", "selecting"}
    <3>1. GoOn(t, tick[t].left) \/ GoOn(t, 0)
      BY <1>18, <2>2 DEF RequestFails
    <3> QED BY <1>1, <1>2, <2>2, <3>1, GoOnFacts DEF Working, PCs
  <2>3. CASE tick[t].pc \in {"recovering", "claiming"}
    <3>1. \E row : NextRow(t, row, tick[t].left) \/ NextRow(t, row, 0)
      BY <1>18, <2>3 DEF RequestFails
    <3> QED BY <1>1, <1>2, <2>3, <3>1, NextRowFacts
  <2>4. CASE tick[t].pc = "reading"
    <3>1. inFlight' = inFlight /\ Becomes(t, Failing(t, LastAttempt(t)))
      BY <1>18, <2>4 DEF RequestFails
    <3>2. LastAttempt(t) \in BOOLEAN
      BY DEF LastAttempt
    <3> QED BY <1>3, <2>4, <3>1, <3>2 DEF Working, PCs, Taking, Holding
  <2> QED BY <1>18, <2>1, <2>2, <2>3, <2>4 DEF RequestFails
<1>19. \/ StartTick(t) \/ AcquireLease(t) \/ LeaseIsHeld(t) \/ ScanStale(t)
      \/ RecoverStale(t) \/ SelectQueued(t) \/ Claim(t) \/ ReadRequest(t) \/ Publish(t)
      \/ MarkJob(t) \/ TellRequest(t) \/ ReleaseLease(t) \/ RequestFails(t)
  BY Zenon DEF Work
<1> QED BY <1>5, <1>6, <1>7, <1>9, <1>10, <1>11, <1>12, <1>13, <1>14, <1>15, <1>16, <1>17,
          <1>18, <1>19

\* A step of a call adds no row, and what it writes to a row is a row.
LEMMA RowsStepFacts ==
    ASSUME TInv, NEW t \in Ticks, StartTick(t) \/ Work(t) \/ RequestFails(t)
    PROVE  jobs' \in Seq(JobRows) /\ Len(jobs') = Len(jobs) /\ Jobs' = Jobs
<1>1. /\ jobs \in Seq(JobRows) /\ tick[t] \in TickStates
      /\ tick[t].pc \in Holding => tick[t].job \in Jobs
  BY DEF TInv, TypeOK
<1>2. ASSUME UNCHANGED jobs
      PROVE  jobs' \in Seq(JobRows) /\ Len(jobs') = Len(jobs) /\ Jobs' = Jobs
  BY <1>1, <1>2 DEF Jobs
<1>3. ASSUME NEW j \in Jobs, NEW x \in JobRows, jobs' = [jobs EXCEPT ![j] = x]
      PROVE  jobs' \in Seq(JobRows) /\ Len(jobs') = Len(jobs) /\ Jobs' = Jobs
  BY <1>1, <1>3, RowFacts DEF Jobs
<1>4. CASE RecoverStale(t)
  <2>1. PICK row \in tick[t].found :
           UNCHANGED jobs \/ jobs' = [jobs EXCEPT ![row[1]] = Job("queued", row[2])]
    BY <1>4 DEF RecoverStale
  <2>2. row[1] \in Jobs /\ Job("queued", row[2]) \in JobRows
    BY <1>1, StateFacts, NewRowFacts DEF Active
  <2> QED BY <1>2, <1>3, <2>1, <2>2
<1>5. CASE Claim(t) \/ RequestFails(t)
  <2>1. \/ UNCHANGED jobs
        \/ \E row \in tick[t].found : jobs' = [jobs EXCEPT ![row[1]] = Running(row[1])]
    BY <1>5 DEF Claim, RequestFails
  <2>2. \A row \in tick[t].found : row[1] \in Jobs
    BY <1>1, StateFacts
  <2> QED BY <1>1, <1>2, <1>3, <2>1, <2>2, WrittenFacts
<1>6. CASE MarkJob(t)
  <2>1. \/ UNCHANGED jobs
        \/ jobs' = [jobs EXCEPT ![tick[t].job] = Job(Verdict(t), tick[t].attempts + 1)]
    BY <1>6 DEF MarkJob
  <2>2. tick[t].job \in Jobs /\ Job(Verdict(t), tick[t].attempts + 1) \in JobRows
    <3>1. tick[t].job \in Jobs
      BY <1>1, <1>6 DEF MarkJob, Holding
    <3>2. Verdict(t) \in Active \union Ended
      BY DEF Verdict, Active, Ended
    <3>3. tick[t].attempts + 1 \in Nat
      BY <1>1, StateFacts
    <3> QED BY <3>1, <3>2, <3>3, NewRowFacts
  <2> QED BY <1>2, <1>3, <2>1, <2>2
<1>7. CASE \/ StartTick(t) \/ AcquireLease(t) \/ LeaseIsHeld(t) \/ ScanStale(t)
           \/ SelectQueued(t) \/ ReadRequest(t) \/ Publish(t) \/ TellRequest(t)
           \/ ReleaseLease(t)
  BY <1>2, <1>7 DEF StartTick, AcquireLease, LeaseIsHeld, ScanStale, SelectQueued, ReadRequest,
     Publish, TellRequest, ReleaseLease
<1> QED BY <1>4, <1>5, <1>6, <1>7, Zenon DEF Work

\* The control plane's variables and the faults keep their types in a step of a
\* call, and faults are not forgotten.
LEMMA FaultFacts ==
    ASSUME TInv, NEW t \in Ticks, StartTick(t) \/ Work(t) \/ RequestFails(t)
    PROVE  /\ harm \subseteq harm' /\ faults' \in Nat
           /\ harm' \subseteq {"crash", "lost", "late", "misjudged", "overwritten", "overtaken",
                             "overrun", "released"}
           /\ UNCHANGED <<caller, approved, decisions>>
           /\ request' \in {request, "published", "failed"}
<1>1. CASE StartTick(t) \/ LeaseIsHeld(t) \/ ScanStale(t) \/ SelectQueued(t) \/ Claim(t)
  BY <1>1 DEF StartTick, LeaseIsHeld, ScanStale, SelectQueued, Claim,
     TInv, TypeOK, NoFault, Fault, control
<1>2. CASE AcquireLease(t) \/ ReadRequest(t) \/ Publish(t)
  BY <1>2 DEF AcquireLease, ReadRequest, Publish,
     TInv, TypeOK, NoFault, Fault, control
<1>3. CASE RecoverStale(t)
  BY <1>3 DEF RecoverStale,
     TInv, TypeOK, NoFault, Fault, control
<1>4. CASE MarkJob(t)
  <2>1. /\ NoFault \/ Fault("lost")
        /\ UNCHANGED <<request, caller, approved, decisions>>
    BY <1>4 DEF MarkJob, control
  <2>2. /\ faults \in Nat
        /\ harm \subseteq {"crash", "lost", "late", "misjudged", "overwritten", "overtaken",
                         "overrun", "released"}
    BY DEF TInv, TypeOK
  <2>3. \/ faults' = faults /\ harm' = harm
        \/ faults' = faults + 1 /\ harm' = harm \union {"lost"}
    BY <2>1 DEF NoFault, Fault
  <2>4. harm \subseteq harm' /\ harm' \subseteq harm \union {"lost"}
    BY <2>3
  <2>5. faults' \in Nat
    BY <2>2, <2>3
  <2>6. UNCHANGED <<caller, approved, decisions>> /\ request' \in {request, "published", "failed"}
    BY <2>1
  <2> QED BY <2>2, <2>4, <2>5, <2>6
<1>5. CASE TellRequest(t)
  <2>1. /\ NoFault \/ Fault("lost")
        /\ request' \in {request, "published", "failed"}
        /\ UNCHANGED <<caller, approved, decisions>>
    BY <1>5 DEF TellRequest
  <2>2. /\ faults \in Nat
        /\ harm \subseteq {"crash", "lost", "late", "misjudged", "overwritten", "overtaken",
                         "overrun", "released"}
    BY DEF TInv, TypeOK
  <2>3. \/ faults' = faults /\ harm' = harm
        \/ faults' = faults + 1 /\ harm' = harm \union {"lost"}
    BY <2>1 DEF NoFault, Fault
  <2>4. harm \subseteq harm' /\ harm' \subseteq harm \union {"lost"}
    BY <2>3
  <2>5. faults' \in Nat
    BY <2>2, <2>3
  <2>6. UNCHANGED <<caller, approved, decisions>> /\ request' \in {request, "published", "failed"}
    BY <2>1
  <2> QED BY <2>2, <2>4, <2>5, <2>6
<1>6. CASE RequestFails(t)
  <2>1. /\ Fault("lost")
        /\ UNCHANGED <<request, caller, approved, decisions>>
    BY <1>6 DEF RequestFails, control
  <2>2. /\ faults \in Nat
        /\ harm \subseteq {"crash", "lost", "late", "misjudged", "overwritten", "overtaken",
                         "overrun", "released"}
    BY DEF TInv, TypeOK
  <2>3. faults' = faults + 1 /\ harm' = harm \union {"lost"}
    BY <2>1 DEF Fault
  <2>4. harm \subseteq harm' /\ harm' \subseteq harm \union {"lost"}
    BY <2>3
  <2>5. faults' \in Nat
    BY <2>2, <2>3
  <2>6. UNCHANGED <<caller, approved, decisions>> /\ request' \in {request, "published", "failed"}
    BY <2>1
  <2> QED BY <2>2, <2>4, <2>5, <2>6
<1>7. CASE ReleaseLease(t)
  <2>1. /\ faults' = faults /\ (harm' = harm \/ harm' = harm \union {"released"})
        /\ UNCHANGED <<request, caller, approved, decisions>>
    BY <1>7 DEF ReleaseLease, control
  <2>2. /\ faults \in Nat
        /\ harm \subseteq {"crash", "lost", "late", "misjudged", "overwritten", "overtaken",
                         "overrun", "released"}
    BY DEF TInv, TypeOK
  <2>3. faults' = faults /\ (harm' = harm \/ harm' = harm \union {"released"})
    BY <2>1
  <2>4. harm \subseteq harm' /\ harm' \subseteq harm \union {"released"}
    BY <2>3
  <2>5. faults' \in Nat
    BY <2>2, <2>3
  <2>6. UNCHANGED <<caller, approved, decisions>> /\ request' \in {request, "published", "failed"}
    BY <2>1
  <2> QED BY <2>2, <2>4, <2>5, <2>6
<1> QED BY <1>1, <1>2, <1>3, <1>4, <1>5, <1>6, <1>7, Zenon DEF Work

\* The lease is written by a request that acquires it, answered or not, and by
\* ReleaseLease only.
LEMMA LeaseStepFacts ==
    ASSUME TInv, NEW t \in Ticks, StartTick(t) \/ Work(t) \/ RequestFails(t)
    PROVE  /\ \/ lease' = lease
              \/ L!CanAcquire(ProcOf[t]) /\ lease' = [owner |-> ProcOf[t], expired |-> FALSE]
              \/ /\ ReleaseLease(t) /\ lease.owner = ProcOf[t]
                 /\ lease' = [owner |-> Free, expired |-> FALSE]
           /\ lease' \in [owner : {Free, Orphan} \union Procs, expired : BOOLEAN]
<1>1. lease \in [owner : {Free, Orphan} \union Procs, expired : BOOLEAN] /\ ProcOf[t] \in Procs
  BY ConstantsAssumption DEF TInv, TypeOK
<1>2. CASE AcquireLease(t)
  BY <1>1, <1>2 DEF AcquireLease, L!Acquire
<1>3. CASE ReleaseLease(t)
  BY <1>1, <1>3 DEF ReleaseLease, L!Release, L!Unowned
<1>4. CASE \/ StartTick(t) \/ LeaseIsHeld(t) \/ ScanStale(t) \/ RecoverStale(t)
           \/ SelectQueued(t) \/ Claim(t) \/ ReadRequest(t) \/ Publish(t) \/ MarkJob(t)
           \/ TellRequest(t)
  <2>1. lease' = lease
    BY <1>4 DEF StartTick, LeaseIsHeld, ScanStale, RecoverStale, SelectQueued, Claim, ReadRequest,
       Publish, MarkJob, TellRequest
  <2> QED BY <1>1, <2>1
<1>5. CASE RequestFails(t)
  <2>1. lease' = lease \/ (L!CanAcquire(ProcOf[t])
                          /\ lease' = [owner |-> ProcOf[t], expired |-> FALSE])
    BY <1>5 DEF RequestFails, L!Acquire
  <2>2. [owner |-> ProcOf[t], expired |-> FALSE]
           \in [owner : {Free, Orphan} \union Procs, expired : BOOLEAN]
    BY <1>1
  <2>3. CASE lease' = lease
    BY <1>1, <2>3
  <2>4. CASE L!CanAcquire(ProcOf[t]) /\ lease' = [owner |-> ProcOf[t], expired |-> FALSE]
    BY <2>2, <2>4
  <2> QED BY <2>1, <2>3, <2>4
<1> QED BY <1>2, <1>3, <1>4, <1>5, Zenon DEF Work

\* States of calls stay states of calls when rows are added.
LEMMA TickStatesGrow ==
    ASSUME Jobs \subseteq Jobs', tick \in [Ticks -> TickStates]
    PROVE  TickStates \subseteq TickStates' /\ tick \in [Ticks -> TickStates']
<1>1. TickStates \subseteq TickStates'
  BY DEF TickStates
<1> QED BY <1>1

\* The part of TInv about calls, in a step that leaves them alone.
LEMMA CallsKept ==
    ASSUME TInv, Jobs \subseteq Jobs', tick' = tick
    PROVE  /\ tick' \in [Ticks -> TickStates']
           /\ \A t \in Ticks : /\ tick'[t].pc = "idle" => tick'[t] = Idle
                               /\ tick'[t].pc \in Taking => tick'[t].left > 0
                               /\ tick'[t].pc \in Holding => tick'[t].job \in Jobs'
<1>1. tick \in [Ticks -> TickStates]
  BY DEF TInv, TypeOK
<1>2. tick' \in [Ticks -> TickStates']
  BY <1>1, TickStatesGrow
<1> QED BY <1>2 DEF TInv, TypeOK

LEMMA TypeStep == TInv /\ [Next]_vars => TInv'
<1> SUFFICES ASSUME TInv, [Next]_vars PROVE TInv'
  OBVIOUS
<1> DEFINE Kinds == {"crash", "lost", "late", "misjudged", "overwritten", "overtaken",
                    "overrun", "released"}
           Leases == [owner : {Free, Orphan} \union Procs, expired : BOOLEAN]
           Requests == {"review_pending"} \union Decisions \union Publishable
<1>1. /\ request \in Requests /\ jobs \in Seq(JobRows) /\ Len(jobs) <= MaxJobs
      /\ caller \in [Callers -> {"idle", "checked", "clear", "inserted"}]
      /\ tick \in [Ticks -> TickStates] /\ inFlight \in [Procs -> BOOLEAN]
      /\ lease \in Leases /\ approved \in BOOLEAN /\ decisions \in Nat /\ faults \in Nat
      /\ harm \in SUBSET Kinds /\ MaxJobs \in Nat
  BY ConstantsAssumption DEF TInv, TypeOK
<1>2. ASSUME request' \in Requests, jobs' \in Seq(JobRows), Len(jobs') <= MaxJobs,
             caller' \in [Callers -> {"idle", "checked", "clear", "inserted"}],
             tick' \in [Ticks -> TickStates'],
             \A t \in Ticks : /\ tick'[t].pc = "idle" => tick'[t] = Idle
                              /\ tick'[t].pc \in Taking => tick'[t].left > 0
                              /\ tick'[t].pc \in Holding => tick'[t].job \in Jobs',
             inFlight' \in [Procs -> BOOLEAN], lease' \in Leases, approved' \in BOOLEAN,
             decisions' \in Nat, faults' \in Nat, harm' \in SUBSET Kinds
      PROVE  TInv'
  BY <1>2 DEF TInv, TypeOK
<1> HIDE DEF Kinds, Leases, Requests
<1>3. CASE UNCHANGED vars
  <2>1. Jobs' = Jobs /\ tick' = tick
    BY <1>3 DEF vars, worker, Jobs
  <2> QED BY <1>1, <1>2, <1>3, <2>1, CallsKept DEF vars, control, worker
<1>4. ASSUME NEW d \in Decisions, Decide(d) PROVE TInv'
  <2>1. Jobs' = Jobs /\ tick' = tick
    BY <1>4 DEF Decide, worker, Jobs
  <2>2. request' \in Requests /\ approved' \in BOOLEAN /\ decisions' \in Nat
    BY <1>1, <1>4 DEF Decide, Requests
  <2>3. UNCHANGED <<caller, jobs, inFlight, lease, faults>>
    BY <1>4 DEF Decide, worker
  <2>4. harm' \in SUBSET Kinds
    <3>1. harm' = harm \/ harm' = harm \union {"overtaken"}
      BY <1>4 DEF Decide
    <3> QED BY <1>1, <3>1 DEF Kinds
  <2> QED BY <1>1, <1>2, <2>1, <2>2, <2>3, <2>4, CallsKept
<1>5. ASSUME NEW c \in Callers, CheckRequest(c) \/ FindActive(c) PROVE TInv'
  <2>1. Jobs' = Jobs /\ tick' = tick
    BY <1>5 DEF CheckRequest, FindActive, worker, Jobs
  <2>2. caller' \in [Callers -> {"idle", "checked", "clear", "inserted"}]
    BY <1>1, <1>5 DEF CheckRequest, FindActive
  <2> QED BY <1>1, <1>2, <1>5, <2>1, <2>2, CallsKept DEF CheckRequest, FindActive, worker
<1>6. ASSUME NEW c \in Callers, InsertJob(c) PROVE TInv'
  <2>1. caller' \in [Callers -> {"idle", "checked", "clear", "inserted"}] /\ tick' = tick
    BY <1>1, <1>6 DEF InsertJob, worker
  <2>2. jobs' \in Seq(JobRows) /\ Len(jobs') <= MaxJobs /\ Jobs \subseteq Jobs'
    <3>1. CASE jobs' = jobs
      BY <1>1, <3>1 DEF Jobs
    <3>2. CASE jobs' = Append(jobs, Job("queued", 0)) /\ Len(jobs) < MaxJobs
      <4>1. /\ jobs' \in Seq(JobRows) /\ Len(jobs') = Len(jobs) + 1
            /\ Jobs' = Jobs \union {Len(jobs) + 1}
        BY <1>1, <3>2, InsertFacts DEF Jobs
      <4>2. Len(jobs) \in Nat
        BY <1>1
      <4> QED BY <1>1, <3>2, <4>1, <4>2
    <3> QED BY <1>6, <3>1, <3>2 DEF InsertJob, Refused
  <2> QED BY <1>1, <1>2, <1>6, <2>1, <2>2, CallsKept DEF InsertJob, worker
<1>7. ASSUME NEW c \in Callers, TellQueued(c) PROVE TInv'
  <2>1. Jobs' = Jobs /\ tick' = tick
    BY <1>7 DEF TellQueued, worker, Jobs
  <2>2. caller' \in [Callers -> {"idle", "checked", "clear", "inserted"}]
    BY <1>1, <1>7 DEF TellQueued
  <2>3. request' \in Requests /\ harm' \in SUBSET Kinds
    BY <1>1, <1>7 DEF TellQueued, Requests, Publishable, Kinds
  <2> QED BY <1>1, <1>2, <1>7, <2>1, <2>2, <2>3, CallsKept DEF TellQueued, worker
<1>8. ASSUME NEW t \in Ticks, StartTick(t) \/ Work(t) \/ RequestFails(t) PROVE TInv'
  <2>1. jobs' \in Seq(JobRows) /\ Len(jobs') = Len(jobs) /\ Jobs' = Jobs
    BY <1>8, RowsStepFacts
  <2>2. PICK r \in TickStates : Moves(t, r)
    BY <1>8, StepFacts
  <2>3. tick' = [tick EXCEPT ![t] = r] /\ (r.pc = "idle" => r = Idle)
        /\ (r.pc \in Taking => r.left > 0) /\ (r.pc \in Holding => r.job \in Jobs)
    BY <2>2 DEF Moves, Becomes
  <2>4. tick' \in [Ticks -> TickStates]
    BY <1>1, <2>3
  <2>5. tick' \in [Ticks -> TickStates']
    BY <2>1, <2>4 DEF TickStates
  <2>6. \A u \in Ticks : /\ tick'[u].pc = "idle" => tick'[u] = Idle
                         /\ tick'[u].pc \in Taking => tick'[u].left > 0
                         /\ tick'[u].pc \in Holding => tick'[u].job \in Jobs'
    <3>1. \A u \in Ticks : tick'[u] = IF u = t THEN r ELSE tick[u]
      BY <1>1, <2>3
    <3>2. \A u \in Ticks : /\ tick[u].pc = "idle" => tick[u] = Idle
                           /\ tick[u].pc \in Taking => tick[u].left > 0
                           /\ tick[u].pc \in Holding => tick[u].job \in Jobs
      BY DEF TInv, TypeOK
    <3> QED BY <2>1, <2>3, <3>1, <3>2
  <2>7. /\ request' \in Requests /\ harm' \in SUBSET Kinds /\ faults' \in Nat
        /\ UNCHANGED <<caller, approved, decisions>>
    <3>1. {"published", "failed"} \subseteq Requests
      BY DEF Requests, Decisions
    <3> QED BY <1>1, <1>8, <3>1, FaultFacts DEF Kinds
  <2>8. lease' \in Leases
    BY <1>8, LeaseStepFacts DEF Leases
  <2>9. inFlight' \in [Procs -> BOOLEAN]
    BY <1>8, StepFacts
  <2> QED BY <1>1, <1>2, <2>1, <2>5, <2>6, <2>7, <2>8, <2>9
<1>9. CASE LeaseExpires
  <2>1. Jobs' = Jobs /\ tick' = tick
    BY <1>9 DEF LeaseExpires, worker, Jobs
  <2>2. lease' \in Leases /\ harm' \in SUBSET Kinds
    BY <1>1, <1>9 DEF LeaseExpires, L!Expire, Leases, Kinds
  <2> QED BY <1>1, <1>2, <1>9, <2>1, <2>2, CallsKept DEF LeaseExpires, worker, control
<1>10. ASSUME NEW j \in Jobs, JobAges(j) PROVE TInv'
  <2>1. /\ jobs' \in Seq(JobRows) /\ Len(jobs') = Len(jobs) /\ Jobs' = Jobs /\ tick' = tick
    BY <1>1, <1>10, RowFacts, WrittenFacts DEF JobAges, worker, Jobs
  <2>2. faults' \in Nat /\ harm' \in SUBSET Kinds
    BY <1>1, <1>10 DEF JobAges, Fault, NoFault, Kinds
  <2> QED BY <1>1, <1>2, <1>10, <2>1, <2>2, CallsKept DEF JobAges, worker, control
<1>11. ASSUME NEW p \in Procs, Crash(p) PROVE TInv'
  <2>1. Jobs' = Jobs /\ UNCHANGED <<control, jobs>>
    BY <1>11 DEF Crash, Jobs
  <2>2. \A u \in Ticks : tick'[u] = IF ProcOf[u] = p THEN Idle ELSE tick[u]
    BY <1>11 DEF Crash
  <2>3. tick' \in [Ticks -> TickStates']
    <3>1. tick' \in [Ticks -> TickStates]
      BY <1>1, <1>11, IdleFacts DEF Crash
    <3> QED BY <2>1, <3>1 DEF TickStates
  <2>4. \A u \in Ticks : /\ tick'[u].pc = "idle" => tick'[u] = Idle
                         /\ tick'[u].pc \in Taking => tick'[u].left > 0
                         /\ tick'[u].pc \in Holding => tick'[u].job \in Jobs'
    BY <2>1, <2>2, IdleFacts DEF TInv, TypeOK, Taking, Holding
  <2>5. faults' \in Nat /\ harm' \in SUBSET Kinds
    BY <1>1, <1>11 DEF Crash, Fault, Kinds
  <2>6. lease' \in Leases /\ inFlight' \in [Procs -> BOOLEAN]
    BY <1>1, <1>11 DEF Crash, L!Abandon, Leases
  <2> QED BY <1>1, <1>2, <2>1, <2>3, <2>4, <2>5, <2>6 DEF control
<1> QED BY <1>3, <1>4, <1>5, <1>6, <1>7, <1>8, <1>9, <1>10, <1>11 DEF Next, Enqueue

LEMMA TypeInit == Init => TInv
<1> SUFFICES ASSUME Init PROVE TInv
  OBVIOUS
<1>1. /\ tick \in [Ticks -> TickStates] /\ \A t \in Ticks : tick[t] = Idle
      /\ inFlight \in [Procs -> BOOLEAN]
      /\ caller \in [Callers -> {"idle", "checked", "clear", "inserted"}]
  BY IdleFacts DEF Init
<1>2. jobs \in Seq(JobRows) /\ Len(jobs) <= MaxJobs
  <2>1. jobs = <<>> /\ MaxJobs \in Nat
    BY ConstantsAssumption DEF Init
  <2> QED BY <2>1
<1>3. lease \in [owner : {Free, Orphan} \union Procs, expired : BOOLEAN]
  BY DEF Init, L!LeaseInit, L!Unowned
<1>4. /\ request = "review_pending" /\ approved = FALSE /\ decisions = 0 /\ faults = 0
      /\ harm = {}
  BY DEF Init
<1>5. approved \in BOOLEAN /\ {decisions, faults} \subseteq Nat
  <2>1. approved \in BOOLEAN
    BY <1>4
  <2>2. {decisions, faults} \subseteq Nat
    BY <1>4
  <2> QED BY <2>1, <2>2
<1>6. TypeOK
  <2>1. \A t \in Ticks : tick[t].pc = "idle" => tick[t] = Idle
    BY <1>1
  <2>2. request \in {"review_pending"} \union Decisions \union Publishable
    BY <1>4
  <2>3. harm \subseteq {"crash", "lost", "late", "misjudged", "overwritten", "overtaken",
                        "overrun", "released"}
    BY <1>4
  <2> QED BY <1>1, <1>2, <1>3, <1>5, <2>1, <2>2, <2>3 DEF TypeOK
<1> QED BY <1>1, <1>6, IdleFacts DEF TInv, Taking, Holding

\* Every variable keeps its type: what a call has read and holds are rows that
\* exist, and it never takes more jobs than a batch.
THEOREM TypeCorrect == Spec => []TypeOK
<1>1. TInv => TypeOK
  BY DEF TInv
<1> QED BY <1>1, TypeInit, TypeStep, PTL DEF Spec

-----------------------------------------------------------------------------
(* One process at a time.  The lease belongs to the process that works, and *)
(* has not run out: SingleLeader alone says nothing of the lease.           *)

LeaseInv ==
    harm \cap {"overrun", "released"} = {} =>
        \A p \in Procs : Works(p) => lease.owner = p /\ ~lease.expired

\* Nothing that happened is forgotten.
LEMMA HarmGrows == TInv /\ [Next]_vars => harm \subseteq harm'
<1> SUFFICES ASSUME TInv, [Next]_vars PROVE harm \subseteq harm'
  OBVIOUS
<1>1. ASSUME NEW t \in Ticks, StartTick(t) \/ Work(t) \/ RequestFails(t)
      PROVE  harm \subseteq harm'
  BY <1>1, FaultFacts
<1>2. ASSUME NEW d \in Decisions, Decide(d) PROVE harm \subseteq harm'
  BY <1>2 DEF Decide
<1>3. ASSUME NEW c \in Callers, Enqueue(c) PROVE harm \subseteq harm'
  BY <1>3 DEF Enqueue, CheckRequest, FindActive, InsertJob, TellQueued
<1>4. CASE LeaseExpires
  BY <1>4 DEF LeaseExpires
<1>5. ASSUME NEW j \in Jobs, JobAges(j) PROVE harm \subseteq harm'
  BY <1>5 DEF JobAges, Fault, NoFault
<1>6. ASSUME NEW p \in Procs, Crash(p) PROVE harm \subseteq harm'
  BY <1>6 DEF Crash, Fault
<1>7. CASE UNCHANGED vars
  BY <1>7 DEF vars
<1> QED BY <1>1, <1>2, <1>3, <1>4, <1>5, <1>6, <1>7 DEF Next

LEMMA LeaseStep == TInv /\ TInv' /\ LeaseInv /\ [Next]_vars => LeaseInv'
<1> SUFFICES ASSUME TInv, TInv', LeaseInv, [Next]_vars, NEW p \in Procs,
                    harm' \cap {"overrun", "released"} = {}, Works(p)'
             PROVE  lease'.owner = p /\ ~lease'.expired
  BY DEF LeaseInv
<1>1. PICK u \in Ticks : ProcOf[u] = p /\ tick'[u].pc \notin {"idle", "acquiring", "releasing"}
  BY DEF Works
<1>2. tick'[u].pc \in Working /\ tick \in [Ticks -> TickStates] /\ ProcOf \in [Ticks -> Procs]
  <2>1. tick'[u] \in TickStates'
    BY DEF TInv, TypeOK
  <2>2. tick'[u].pc \in PCs
    BY <2>1 DEF TickStates, PCs
  <2> QED BY <1>1, <2>2, ConstantsAssumption DEF Working, TInv, TypeOK
<1>3. harm \cap {"overrun", "released"} = {}
  BY HarmGrows
<1>4. \A q \in Procs : Works(q) => lease.owner = q /\ ~lease.expired
  BY <1>3 DEF LeaseInv
<1>5. ASSUME tick[u].pc \in Working PROVE Works(p) /\ lease.owner = p /\ ~lease.expired
  BY <1>1, <1>4, <1>5 DEF Works, Working
<1>6. ASSUME tick' = tick, lease' = lease PROVE lease'.owner = p /\ ~lease'.expired
  BY <1>2, <1>5, <1>6
<1>7. CASE UNCHANGED vars
  BY <1>6, <1>7 DEF vars, worker
<1>8. ASSUME NEW d \in Decisions, Decide(d) PROVE lease'.owner = p /\ ~lease'.expired
  BY <1>6, <1>8 DEF Decide, worker
<1>9. ASSUME NEW c \in Callers, Enqueue(c) PROVE lease'.owner = p /\ ~lease'.expired
  BY <1>6, <1>9 DEF Enqueue, CheckRequest, FindActive, InsertJob, TellQueued, worker
<1>10. ASSUME NEW j \in Jobs, JobAges(j) PROVE lease'.owner = p /\ ~lease'.expired
  BY <1>6, <1>10 DEF JobAges, worker
<1>11. CASE LeaseExpires
  <2>1. tick' = tick /\ harm' = harm \union IF Works(lease.owner) THEN {"overrun"} ELSE {}
    BY <1>11 DEF LeaseExpires, worker
  <2>2. Works(p) /\ lease.owner = p
    BY <1>2, <1>5, <2>1
  <2> QED BY <2>1, <2>2
<1>12. ASSUME NEW q \in Procs, Crash(q) PROVE lease'.owner = p /\ ~lease'.expired
  <2>1. tick'[u] = IF ProcOf[u] = q THEN Idle ELSE tick[u]
    BY <1>12 DEF Crash
  <2>2. p # q /\ tick[u].pc \in Working
    BY <1>1, <1>2, <2>1, IdleFacts DEF Working
  <2> QED BY <1>5, <1>12, <2>2 DEF Crash, L!Abandon
<1>13. ASSUME NEW t \in Ticks, StartTick(t) \/ Work(t) \/ RequestFails(t)
       PROVE  lease'.owner = p /\ ~lease'.expired
  <2>1. PICK r \in TickStates :
           /\ Moves(t, r)
           /\ r.pc \in Working => tick[t].pc \in Working \/ AcquireLease(t)
    BY <1>13, StepFacts
  <2>2. tick' = [tick EXCEPT ![t] = r]
    BY <2>1 DEF Moves, Becomes
  <2>3. CASE AcquireLease(t)
    <3>1. /\ L!CanAcquire(ProcOf[t]) /\ lease' = [owner |-> ProcOf[t], expired |-> FALSE]
      BY <2>3 DEF AcquireLease, L!Acquire
    <3>2. CASE u = t
      BY <1>1, <3>1, <3>2
    <3>3. CASE u # t
      <4>1. lease.owner = p /\ ~lease.expired
        BY <1>2, <1>5, <2>2, <3>3
      <4>2. ProcOf[t] = p
        BY <3>1, <4>1, ConstantsAssumption DEF L!CanAcquire
      <4> QED BY <3>1, <4>2
    <3> QED BY <3>2, <3>3
  <2>4. CASE ~AcquireLease(t)
    <3>1. tick[u].pc \in Working
      BY <1>2, <2>1, <2>2, <2>4
    <3>2. Works(p) /\ lease.owner = p /\ ~lease.expired
      BY <1>5, <3>1
    <3>3. CASE lease' = lease
      BY <3>2, <3>3
    <3>4. CASE ReleaseLease(t) /\ lease.owner = ProcOf[t]
      BY <3>2, <3>4 DEF ReleaseLease
    <3>5. CASE L!CanAcquire(ProcOf[t]) /\ lease' = [owner |-> ProcOf[t], expired |-> FALSE]
      <4>1. ProcOf[t] = p
        BY <3>2, <3>5, ConstantsAssumption DEF L!CanAcquire
      <4> QED BY <3>5, <4>1
    <3> QED BY <1>13, <2>4, <3>3, <3>4, <3>5, LeaseStepFacts
  <2> QED BY <2>3, <2>4
<1> QED BY <1>7, <1>8, <1>9, <1>10, <1>11, <1>12, <1>13 DEF Next

\* One process works at a time, whatever crashes and whichever requests fail,
\* until a tick takes longer than its lease or another one releases it.
THEOREM OneLeader == Spec => []SingleLeader
<1>1. Init => TInv /\ LeaseInv
  BY TypeInit DEF Init, LeaseInv, Works, Idle
<1>2. LeaseInv => SingleLeader
  BY DEF LeaseInv, SingleLeader
<1> QED BY <1>1, <1>2, TypeStep, LeaseStep, PTL DEF Spec

-----------------------------------------------------------------------------
(* What is published is approved.                                          *)

\* What the control plane calls publishable is approved, and so is what a worker
\* has read as publishable, for as long as it relies on that.
ApprovalInv ==
    /\ request \in Publishable => approved \/ "overwritten" \in harm
    /\ \A t \in Ticks :
          Trusts(t) => approved \/ harm \cap {"overtaken", "overwritten"} # {}

\* Only ReadRequest makes a worker rely on the request.
LEMMA TrustStep ==
    ASSUME TInv, NEW t \in Ticks, StartTick(t) \/ Work(t) \/ RequestFails(t),
           ~Trusts(t), Trusts(t)'
    PROVE  request \in Publishable
<1>1. /\ tick \in [Ticks -> TickStates] /\ tick[t] \in TickStates
      /\ tick[t].pc \in PCs /\ tick[t].left \in 0..BatchSize
      /\ 0 \in 0..BatchSize /\ BatchSize \in 0..BatchSize
  BY ConstantsAssumption, StateFacts DEF TInv, TypeOK
<1>2. ASSUME NEW r, Becomes(t, r), r.pc \notin {"publishing", "succeeding", "telling"}
      PROVE  FALSE
  BY <1>1, <1>2 DEF Becomes, Trusts
<1>3. ASSUME NEW left \in 0..BatchSize PROVE ~GoOn(t, left)
  BY <1>1, <1>2, <1>3, AfreshFacts DEF GoOn, PCs
<1>4. ASSUME NEW row, NEW left \in 0..BatchSize, tick[t].pc \in {"recovering", "claiming"}
      PROVE  ~NextRow(t, row, left)
  <2>1. Found(t, tick[t].pc, tick[t].found \ {row}).pc = tick[t].pc
    BY <1>1, StateFacts, BecomesFacts
  <2> QED BY <1>2, <1>3, <1>4, <2>1 DEF NextRow
<1>5. ~StartTick(t) /\ ~AcquireLease(t) /\ ~LeaseIsHeld(t) /\ ~ReleaseLease(t)
  BY <1>1, <1>2, AfreshFacts, IdleFacts DEF StartTick, AcquireLease, LeaseIsHeld, ReleaseLease, PCs
<1>6. ~ScanStale(t) /\ ~SelectQueued(t)
  <2>1. Found(t, "recovering", Stale).pc = "recovering" /\ Found(t, "claiming", Queued).pc = "claiming"
    BY DEF Found, TickStates
  <2> QED BY <1>1, <1>2, <1>3, <2>1 DEF ScanStale, SelectQueued
<1>7. ~RecoverStale(t)
  BY <1>1, <1>4 DEF RecoverStale
<1>8. ~Claim(t)
  BY <1>1, <1>2, <1>4 DEF Claim, Claimed
<1>9. ~Publish(t) /\ ~TellRequest(t)
  <2>1. ~Publish(t)
    BY DEF Publish, Trusts
  <2>2. ~TellRequest(t)
    BY <1>1, <1>3 DEF TellRequest
  <2> QED BY <2>1, <2>2
<1>10. ~MarkJob(t)
  <2>1. At(t, "regretting").pc = "regretting"
    BY <1>1, BecomesFacts DEF PCs
  <2> QED BY <1>1, <1>2, <1>3, <2>1 DEF MarkJob, Trusts
<1>11. \A final \in BOOLEAN : ~Becomes(t, Failing(t, final))
  BY <1>1, <1>2, BecomesFacts DEF PCs
<1>12. ~RequestFails(t)
  <2>1. LastAttempt(t) \in BOOLEAN
    BY DEF LastAttempt
  <2> QED BY <1>1, <1>2, <1>3, <1>4, <1>11, <2>1, IdleFacts DEF RequestFails
<1>13. ReadRequest(t)
  BY <1>5, <1>6, <1>7, <1>8, <1>9, <1>10, <1>12, Zenon DEF Work
<1> QED BY <1>11, <1>13 DEF ReadRequest

LEMMA ApprovalStep == TInv /\ ApprovalInv /\ [Next]_vars => ApprovalInv'
<1> SUFFICES ASSUME TInv, ApprovalInv, [Next]_vars PROVE ApprovalInv'
  OBVIOUS
<1>1. harm \subseteq harm'
  BY HarmGrows
<1>2. ASSUME request' = request \/ request \in Publishable \/ request' \notin Publishable
                \/ "overwritten" \in harm',
             approved' = approved,
             \A t \in Ticks : Trusts(t)' => Trusts(t) \/ request \in Publishable
      PROVE  ApprovalInv'
  BY <1>1, <1>2 DEF ApprovalInv
<1>3. ASSUME NEW d \in Decisions, Decide(d) PROVE ApprovalInv'
  <2>1. /\ request' = d /\ approved' = (d = "approved") /\ tick' = tick
        /\ d # "approved" /\ (\E t \in Ticks : Trusts(t)) => "overtaken" \in harm'
    BY <1>3 DEF Decide, worker
  <2> QED BY <2>1 DEF ApprovalInv, Decisions, Publishable, Trusts
<1>4. ASSUME NEW c \in Callers, CheckRequest(c) \/ FindActive(c) \/ InsertJob(c)
      PROVE  ApprovalInv'
  BY <1>2, <1>4 DEF CheckRequest, FindActive, InsertJob, worker, Trusts
<1>5. ASSUME NEW c \in Callers, TellQueued(c) PROVE ApprovalInv'
  <2>1. /\ approved' = approved /\ tick' = tick
        /\ request \in Publishable \/ "overwritten" \in harm'
    BY <1>5 DEF TellQueued, worker
  <2> QED BY <1>2, <2>1 DEF Trusts
<1>6. ASSUME NEW t \in Ticks, StartTick(t) \/ Work(t) \/ RequestFails(t)
      PROVE  ApprovalInv'
  <2>1. request' \in {request, "published", "failed"} /\ approved' = approved
    BY <1>6, FaultFacts
  <2>2. request' = request \/ request' \notin Publishable
    BY <2>1 DEF Publishable
  <2>3. \A u \in Ticks \ {t} : tick'[u] = tick[u]
    <3>1. PICK r \in TickStates : tick' = [tick EXCEPT ![t] = r]
      BY <1>6, StepFacts DEF Moves, Becomes
    <3> QED BY <3>1 DEF TInv, TypeOK
  <2>4. ASSUME NEW u \in Ticks, Trusts(u)' PROVE Trusts(u) \/ request \in Publishable
    BY <1>6, <2>3, <2>4, TrustStep DEF Trusts
  <2> QED BY <1>2, <2>1, <2>2, <2>4
<1>7. CASE LeaseExpires \/ UNCHANGED vars \/ \E j \in Jobs : JobAges(j)
  BY <1>2, <1>7 DEF LeaseExpires, JobAges, vars, control, worker, Trusts
<1>8. ASSUME NEW p \in Procs, Crash(p) PROVE ApprovalInv'
  <2>1. /\ UNCHANGED <<request, approved>>
        /\ \A t \in Ticks : tick'[t] = tick[t] \/ tick'[t] = Idle
    BY <1>8 DEF Crash, control
  <2> QED BY <1>2, <2>1, IdleFacts DEF Trusts
<1> QED BY <1>3, <1>4, <1>5, <1>6, <1>7, <1>8 DEF Next, Enqueue

\* A pull request is opened, and the request noted as published, only while its
\* last decision approves it, although the worker relies on a status that it read
\* before its calls to GitHub and that an enqueue writes unchecked: until a
\* decision overtakes the worker or is overwritten.
THEOREM PublishesTheApproved == Spec => ApprovedIsPublished
<1>1. Init => TInv /\ ApprovalInv
  BY TypeInit DEF Init, ApprovalInv, Publishable, Trusts, Idle
<1>2. ApprovalInv =>
        [\A t \in Ticks :
            \/ tick[t].pc = "publishing" /\ tick'[t].pc = "succeeding"
            \/ tick[t].pc = "telling" /\ request' = "published" /\ request # "published"
            => approved \/ harm \cap {"overtaken", "overwritten"} # {}]_vars
  BY DEF ApprovalInv, Trusts
<1> QED BY <1>1, <1>2, TypeStep, ApprovalStep, PTL DEF Spec, ApprovedIsPublished

-----------------------------------------------------------------------------
(* A queued request has a job: its own inductive invariant, given the types. *)

LEMMA QueuedStep == TInv /\ QueuedRequestHasJob /\ [Next]_vars => QueuedRequestHasJob'
<1> DEFINE Told == \E t \in Ticks : tick[t].pc \in {"telling", "regretting"}
<1> SUFFICES ASSUME TInv, QueuedRequestHasJob, [Next]_vars,
                    harm' \cap {"crash", "lost", "overwritten"} = {},
                    request' = "queued_for_publish"
             PROVE  HasActive' \/ Told'
  BY DEF QueuedRequestHasJob
<1> HIDE DEF Told
<1>1. harm \cap {"crash", "lost", "overwritten"} = {} /\ jobs \in Seq(JobRows)
  BY HarmGrows DEF TInv, TypeOK
<1>2. request = "queued_for_publish" => HasActive \/ Told
  BY <1>1 DEF QueuedRequestHasJob, Told
<1>3. ASSUME request' = request, tick' = tick, Jobs \subseteq Jobs',
             \A j \in Jobs : jobs'[j].status = jobs[j].status
      PROVE  HasActive' \/ Told'
  BY <1>2, <1>3 DEF HasActive, Told
<1>4. CASE UNCHANGED vars
  BY <1>3, <1>4 DEF vars, control, worker, Jobs
<1>5. ASSUME NEW d \in Decisions, Decide(d) PROVE HasActive' \/ Told'
  BY <1>5 DEF Decide, Decisions
<1>6. ASSUME NEW c \in Callers, CheckRequest(c) \/ FindActive(c) PROVE HasActive' \/ Told'
  BY <1>3, <1>6 DEF CheckRequest, FindActive, worker, Jobs
<1>7. ASSUME NEW c \in Callers, InsertJob(c) PROVE HasActive' \/ Told'
  <2>1. CASE jobs' = jobs
    BY <1>3, <1>7, <2>1 DEF InsertJob, worker, Jobs
  <2>2. CASE jobs' = Append(jobs, Job("queued", 0))
    BY <1>1, <1>3, <1>7, <2>2, InsertFacts DEF InsertJob, worker, Jobs
  <2> QED BY <1>7, <2>1, <2>2 DEF InsertJob
<1>8. ASSUME NEW c \in Callers, TellQueued(c) PROVE HasActive' \/ Told'
  BY <1>8 DEF TellQueued, HasActive, Jobs
<1>9. CASE LeaseExpires
  BY <1>3, <1>9 DEF LeaseExpires, control, worker, Jobs
<1>10. ASSUME NEW j \in Jobs, JobAges(j) PROVE HasActive' \/ Told'
  <2>1. jobs' = [jobs EXCEPT ![j] = [jobs[j] EXCEPT !.aged = TRUE]]
    BY <1>10 DEF JobAges
  <2>2. Jobs' = Jobs /\ \A i \in Jobs : jobs'[i].status = jobs[i].status
    BY <1>1, <2>1, RowFacts, WrittenFacts DEF Jobs
  <2> QED BY <1>3, <1>10, <2>2 DEF JobAges, control, worker
<1>11. ASSUME NEW p \in Procs, Crash(p) PROVE FALSE
  BY <1>11 DEF Crash, Fault
<1>12. ASSUME NEW t \in Ticks, RequestFails(t) PROVE FALSE
  BY <1>12 DEF RequestFails, Fault
<1>13. ASSUME NEW t \in Ticks, StartTick(t) \/ Work(t) PROVE HasActive' \/ Told'
  <2>1. request' = request /\ (HasActive \/ Told)
    BY <1>2, <1>13, FaultFacts
  <2>2. PICK r \in TickStates : Moves(t, r)
    BY <1>13, StepFacts
  <2>3. tick' = [tick EXCEPT ![t] = r] /\ tick \in [Ticks -> TickStates] /\ tick[t] \in TickStates
    BY <2>2 DEF Moves, Becomes, TInv, TypeOK
  <2>4. Jobs' = Jobs
    BY <1>13, RowsStepFacts
  <2>5. CASE TellRequest(t)
    <3>1. request' \in {"published", "failed"}
      BY <1>1, <2>1, <2>5 DEF TellRequest, Fault, Publishable
    <3> QED BY <3>1
  <2>6. CASE MarkJob(t)
    <3>1. tick[t].pc \in {"succeeding", "failing"} /\ tick[t].job \in Jobs
      BY <2>6 DEF MarkJob, TInv, Holding
    <3>2. CASE Verdict(t) = "queued"
      <4>1. CASE jobs' = jobs /\ \E j \in Jobs \ {tick[t].job} : jobs[j].status \in Active
        BY <2>4, <4>1 DEF HasActive
      <4>2. CASE jobs' = [jobs EXCEPT ![tick[t].job] = Job(Verdict(t), tick[t].attempts + 1)]
        <5>1. Job("queued", tick[t].attempts + 1).status = "queued" /\ "queued" \in Active
          BY DEF Job, Active
        <5>2. jobs'[tick[t].job].status = "queued"
          BY <1>1, <3>1, <3>2, <4>2, <5>1 DEF Jobs
        <5> QED BY <2>4, <3>1, <5>1, <5>2 DEF HasActive
      <4> QED BY <1>1, <2>6, <3>2, <4>1, <4>2 DEF MarkJob, Refused, Fault
    <3>3. CASE Verdict(t) # "queued"
      <4>1. ~(tick[t].pc = "failing" /\ ~tick[t].final)
        BY <3>3 DEF Verdict
      <4>2. Becomes(t, At(t, "telling")) \/ Becomes(t, At(t, "regretting"))
        BY <2>6, <4>1 DEF MarkJob
      <4>3. tick'[t].pc \in {"telling", "regretting"}
        BY <2>3, <4>2, BecomesFacts DEF Becomes, PCs
      <4> QED BY <4>3 DEF Told
    <3> QED BY <3>2, <3>3
  <2>7. CASE ~TellRequest(t) /\ ~MarkJob(t)
    <3>1. tick[t].pc \notin {"telling", "regretting"}
      BY <1>13, <2>7 DEF StartTick, Work, AcquireLease, LeaseIsHeld, ScanStale, RecoverStale,
         SelectQueued, Claim, ReadRequest, Publish, ReleaseLease
    <3>2. CASE Told
      BY <2>3, <3>1, <3>2 DEF Told
    <3>3. CASE HasActive
      <4>1. CASE jobs' = jobs
        BY <2>4, <3>3, <4>1 DEF HasActive
      <4>2. CASE RecoverStale(t) \/ Claim(t)
        <5>1. \/ jobs' = jobs
              \/ \E row \in tick[t].found :
                    \/ jobs' = [jobs EXCEPT ![row[1]] = Job("queued", row[2])]
                    \/ jobs' = [jobs EXCEPT ![row[1]] = Running(row[1])]
          BY <4>2 DEF RecoverStale, Claim
        <5>2. \A row \in tick[t].found : row[1] \in Jobs /\ row[2] \in Nat
          BY <2>3, StateFacts
        <5>3. \A row \in tick[t].found :
                /\ Job("queued", row[2]) \in JobRows /\ Job("queued", row[2]).status \in Active
                /\ Running(row[1]) \in JobRows /\ Running(row[1]).status \in Active
          BY <1>1, <5>2, NewRowFacts, WrittenFacts DEF Active
        <5>4. ASSUME NEW i \in Jobs, NEW x \in JobRows, x.status \in Active,
                     jobs' = [jobs EXCEPT ![i] = x]
              PROVE  HasActive'
          BY <1>1, <2>4, <5>4, RowFacts DEF HasActive
        <5> QED BY <4>1, <5>1, <5>2, <5>3, <5>4
      <4>3. CASE ~RecoverStale(t) /\ ~Claim(t)
        <5>1. jobs' = jobs
          BY <1>13, <2>7, <4>3 DEF StartTick, Work, AcquireLease, LeaseIsHeld, ScanStale,
             SelectQueued, ReadRequest, Publish, ReleaseLease
        <5> QED BY <4>1, <5>1
      <4> QED BY <4>2, <4>3
    <3> QED BY <2>1, <3>2, <3>3
  <2> QED BY <2>5, <2>6, <2>7
<1> QED BY <1>4, <1>5, <1>6, <1>7, <1>8, <1>9, <1>10, <1>11, <1>12, <1>13 DEF Next, Enqueue

\* A request that is queued for publishing always has a job that will settle it,
\* or a worker about to: nothing but a crash, a lost request or an enqueue that
\* overtakes a worker strands it.
THEOREM QueuedIsCarried == Spec => []QueuedRequestHasJob
<1>1. Init => TInv /\ QueuedRequestHasJob
  BY TypeInit DEF Init, QueuedRequestHasJob
<1> QED BY <1>1, TypeStep, QueuedStep, PTL DEF Spec

-----------------------------------------------------------------------------
(* One worker per job.  A job somebody holds is not in the queue, so that no *)
(* one else can claim it, and has not aged, so that no one recovers it.      *)

Undisturbed == harm \cap {"late", "misjudged"} = {}

WorkerInv ==
    Undisturbed =>
        /\ \A t1, t2 \in Ticks : t1 # t2 /\ tick[t1].job # 0 => tick[t1].job # tick[t2].job
        /\ \A t \in Ticks, j \in Jobs :
              tick[t].job = j => jobs[j].status # "queued" /\ ~jobs[j].aged
        /\ \A j \in Jobs : jobs[j].aged => jobs[j].status = "running"

\* What happens to a row while nobody starts on a job.
LEMMA RowKept ==
    ASSUME TInv, WorkerInv, Undisturbed, Jobs' = Jobs, NEW i \in Jobs, NEW x \in JobRows,
           jobs' = [jobs EXCEPT ![i] = x], x.aged => x.status = "running",
           \A u \in Ticks : tick'[u].job \in {0, tick[u].job},
           \A u \in Ticks : tick'[u].job = i => x.status # "queued" /\ ~x.aged
    PROVE  WorkerInv'
<1>1. jobs'[i] = x /\ \A k \in Jobs \ {i} : jobs'[k] = jobs[k]
  BY RowFacts DEF TInv, TypeOK
<1>2. \A t \in Ticks, j \in Jobs :
         tick'[t].job = j => jobs'[j].status # "queued" /\ ~jobs'[j].aged
  <2> SUFFICES ASSUME NEW t \in Ticks, NEW j \in Jobs, tick'[t].job = j
               PROVE  jobs'[j].status # "queued" /\ ~jobs'[j].aged
    OBVIOUS
  <2>1. j # 0
    BY DEF Jobs, TInv, TypeOK
  <2>2. tick[t].job = j
    BY <2>1
  <2> QED BY <1>1, <2>2 DEF WorkerInv
<1>3. \A j \in Jobs : jobs'[j].aged => jobs'[j].status = "running"
  BY <1>1 DEF WorkerInv
<1>4. \A t1, t2 \in Ticks : t1 # t2 /\ tick'[t1].job # 0 => tick'[t1].job # tick'[t2].job
  BY DEF WorkerInv
<1> QED BY <1>2, <1>3, <1>4 DEF WorkerInv

LEMMA WorkerStep == TInv /\ WorkerInv /\ [Next]_vars => WorkerInv'
<1> SUFFICES ASSUME TInv, WorkerInv, [Next]_vars, Undisturbed' PROVE WorkerInv'
  BY DEF WorkerInv
<1>1. Undisturbed /\ jobs \in Seq(JobRows) /\ tick \in [Ticks -> TickStates]
  BY HarmGrows DEF Undisturbed, TInv, TypeOK
<1>2. ASSUME Jobs \subseteq Jobs', \A j \in Jobs : jobs'[j] = jobs[j],
             \A u \in Ticks : tick'[u].job \in {0, tick[u].job},
             \A j \in Jobs' \ Jobs : jobs'[j] = Job("queued", 0) /\ j # 0
      PROVE  WorkerInv'
  <2>1. \A t \in Ticks : tick[t].job \in {0} \union Jobs
    BY <1>1, StateFacts
  <2>2. ~Job("queued", 0).aged /\ 0 \notin Jobs
    <3>1. ~Job("queued", 0).aged
      BY DEF Job
    <3>2. 0 \notin Jobs
      BY <1>1 DEF Jobs
    <3> QED BY <3>1, <3>2
  <2>3. \A t \in Ticks, j \in Jobs' :
           tick'[t].job = j => jobs'[j].status # "queued" /\ ~jobs'[j].aged
    BY <1>1, <1>2, <2>1, <2>2 DEF WorkerInv
  <2>4. \A j \in Jobs' : jobs'[j].aged => jobs'[j].status = "running"
    BY <1>1, <1>2, <2>2 DEF WorkerInv
  <2>5. \A t1, t2 \in Ticks : t1 # t2 /\ tick'[t1].job # 0 => tick'[t1].job # tick'[t2].job
    BY <1>1, <1>2 DEF WorkerInv
  <2> QED BY <2>3, <2>4, <2>5 DEF WorkerInv
<1>3. ASSUME UNCHANGED <<jobs, tick>> PROVE WorkerInv'
  BY <1>2, <1>3 DEF Jobs
<1>4. CASE \/ UNCHANGED vars \/ LeaseExpires \/ \E d \in Decisions : Decide(d)
           \/ \E c \in Callers : CheckRequest(c) \/ FindActive(c) \/ TellQueued(c)
  BY <1>3, <1>4 DEF vars, worker, LeaseExpires, Decide, CheckRequest, FindActive, TellQueued
<1>5. ASSUME NEW c \in Callers, InsertJob(c) PROVE WorkerInv'
  <2>1. CASE jobs' = jobs
    BY <1>3, <1>5, <2>1 DEF InsertJob, worker
  <2>2. CASE jobs' = Append(jobs, Job("queued", 0))
    <3>1. /\ Jobs' = Jobs \union {Len(jobs) + 1} /\ \A k \in Jobs : jobs'[k] = jobs[k]
          /\ jobs'[Len(jobs) + 1] = Job("queued", 0) /\ Len(jobs) + 1 # 0
      BY <1>1, <2>2, InsertFacts DEF Jobs
    <3>2. tick' = tick
      BY <1>5 DEF InsertJob, worker
    <3> QED BY <1>2, <3>1, <3>2
  <2> QED BY <1>5, <2>1, <2>2 DEF InsertJob
<1>6. ASSUME NEW j \in Jobs, JobAges(j) PROVE WorkerInv'
  <2> DEFINE x == [jobs[j] EXCEPT !.aged = TRUE]
  <2>1. jobs' = [jobs EXCEPT ![j] = x] /\ tick' = tick /\ jobs[j].status = "running"
    BY <1>6 DEF JobAges, worker
  <2>2. x \in JobRows /\ x.status = "running" /\ Jobs' = Jobs
    BY <1>1, <2>1, WrittenFacts, RowFacts DEF Jobs
  <2>3. \A t \in Ticks : tick[t].job # j
    BY <1>6 DEF JobAges, Fault, Undisturbed, WorksOn
  <2> HIDE DEF x
  <2> QED BY <1>1, <2>1, <2>2, <2>3, RowKept
<1>7. ASSUME NEW p \in Procs, Crash(p) PROVE WorkerInv'
  <2>1. \A u \in Ticks : tick'[u].job \in {0, tick[u].job}
    BY <1>7, IdleFacts DEF Crash
  <2>2. jobs' = jobs
    BY <1>7 DEF Crash
  <2> QED BY <1>2, <2>1, <2>2 DEF Jobs
<1>8. ASSUME NEW t \in Ticks, StartTick(t) \/ Work(t) \/ RequestFails(t) PROVE WorkerInv'
  <2>1. PICK r \in TickStates : Moves(t, r) /\ (r.job \in {0, tick[t].job} \/ Claim(t))
    BY <1>8, StepFacts
  <2>2. tick' = [tick EXCEPT ![t] = r]
    BY <2>1 DEF Moves, Becomes
  <2>3. Jobs' = Jobs
    BY <1>8, RowsStepFacts
  <2>4. ASSUME r.job \in {0, tick[t].job}
        PROVE  \A u \in Ticks : tick'[u].job \in {0, tick[u].job}
    BY <1>1, <2>2, <2>4
  <2>5. CASE Claim(t)
    <3>1. PICK row \in tick[t].found :
             IF jobs[row[1]].status = "queued"
             THEN /\ jobs' = [jobs EXCEPT ![row[1]] = Running(row[1])]
                  /\ Becomes(t, Claimed(t, row[1]))
             ELSE UNCHANGED jobs /\ NextRow(t, row, 0)
      BY <2>5 DEF Claim
    <3> DEFINE i == row[1]
    <3>2. i \in Jobs
      BY <1>1, <3>1, StateFacts
    <3>3. CASE jobs[i].status = "queued"
      <4>1. /\ jobs'[i] = Running(i) /\ \A k \in Jobs \ {i} : jobs'[k] = jobs[k]
        <5>1. Running(i) \in JobRows /\ jobs' = [jobs EXCEPT ![i] = Running(i)]
          BY <1>1, <3>1, <3>2, <3>3, WrittenFacts
        <5> HIDE DEF i
        <5> QED BY <1>1, <3>2, <5>1, RowFacts
      <4>2. ~jobs[i].aged /\ \A u \in Ticks : tick[u].job # i
        BY <1>1, <3>2, <3>3 DEF WorkerInv
      <4>3. jobs'[i].status = "running" /\ ~jobs'[i].aged
        BY <1>1, <3>2, <4>1, <4>2, WrittenFacts
      <4>4. \A u \in Ticks : tick'[u].job = IF u = t THEN i ELSE tick[u].job
        BY <1>1, <3>1, <3>3 DEF Becomes, Claimed
      <4> HIDE DEF i
      <4>5. \A u \in Ticks, j \in Jobs :
               tick'[u].job = j => jobs'[j].status # "queued" /\ ~jobs'[j].aged
        BY <1>1, <4>1, <4>2, <4>3, <4>4 DEF WorkerInv
      <4>6. \A j \in Jobs : jobs'[j].aged => jobs'[j].status = "running"
        BY <1>1, <4>1, <4>3 DEF WorkerInv
      <4>7. \A t1, t2 \in Ticks : t1 # t2 /\ tick'[t1].job # 0 => tick'[t1].job # tick'[t2].job
        BY <1>1, <4>2, <4>4 DEF WorkerInv
      <4> QED BY <2>3, <4>5, <4>6, <4>7 DEF WorkerInv
    <3>4. CASE jobs[i].status # "queued"
      <4>1. jobs' = jobs /\ NextRow(t, row, 0) /\ tick[t].pc = "claiming" /\ 0 \in 0..BatchSize
        BY <2>5, <3>1, <3>4, ConstantsAssumption DEF Claim
      <4>2. PICK n \in TickStates : Moves(t, n) /\ GoesOn(t, n)
        BY <4>1, NextRowFacts
      <4>3. \A u \in Ticks : tick'[u].job \in {0, tick[u].job}
        BY <1>1, <4>2 DEF Moves, GoesOn, Becomes
      <4> QED BY <1>2, <4>1, <4>3 DEF Jobs
    <3> QED BY <3>3, <3>4
  <2>6. CASE jobs' = jobs /\ ~Claim(t)
    BY <1>2, <2>1, <2>4, <2>6 DEF Jobs
  <2>7. CASE RecoverStale(t) /\ ~Claim(t) /\ jobs' # jobs
    <3>1. PICK row \in tick[t].found :
             /\ jobs[row[1]].status = "running" /\ jobs[row[1]].aged
             /\ jobs' = [jobs EXCEPT ![row[1]] = Job("queued", row[2])]
      BY <2>7 DEF RecoverStale, Undisturbed
    <3>2. row[1] \in Jobs /\ row[2] \in Nat
      BY <1>1, <3>1, StateFacts
    <3>3. /\ Job("queued", row[2]) \in JobRows /\ ~Job("queued", row[2]).aged
      BY <3>2, NewRowFacts DEF Active
    <3>4. \A u \in Ticks : tick[u].job # row[1]
      BY <1>1, <3>1, <3>2 DEF WorkerInv
    <3>5. \A u \in Ticks : tick'[u].job # row[1]
      <4>1. row[1] # 0
        BY <1>1, <3>2 DEF Jobs
      <4> QED BY <2>1, <2>4, <2>7, <3>4, <4>1
    <3> QED BY <1>1, <2>1, <2>3, <2>4, <2>7, <3>1, <3>2, <3>3, <3>5, RowKept
  <2>8. CASE RequestFails(t) /\ ~Claim(t) /\ jobs' # jobs
    <3>1. PICK row \in tick[t].found :
             /\ jobs[row[1]].status = "queued"
             /\ jobs' = [jobs EXCEPT ![row[1]] = Running(row[1])]
      BY <2>8 DEF RequestFails
    <3>2. row[1] \in Jobs
      BY <1>1, <3>1, StateFacts
    <3>3. ~jobs[row[1]].aged
      BY <1>1, <3>1, <3>2 DEF WorkerInv
    <3>4. Running(row[1]) \in JobRows /\ Running(row[1]).status = "running" /\ ~Running(row[1]).aged
      BY <1>1, <3>2, <3>3, WrittenFacts
    <3> QED BY <1>1, <2>1, <2>3, <2>4, <2>8, <3>1, <3>2, <3>4, RowKept
  <2>9. CASE MarkJob(t) /\ ~Claim(t) /\ jobs' # jobs
    <3> DEFINE j == tick[t].job
               x == Job(Verdict(t), tick[t].attempts + 1)
    <3>1. jobs' = [jobs EXCEPT ![j] = x] /\ tick[t].pc \in {"succeeding", "failing"}
      BY <2>9 DEF MarkJob
    <3>2. j \in Jobs /\ tick[t].attempts + 1 \in Nat /\ tick[t].left \in 0..BatchSize
      BY <1>1, <3>1, StateFacts DEF TInv, Holding
    <3>3. Verdict(t) \in Active \union Ended
      BY DEF Verdict, Active, Ended
    <3>4. x \in JobRows /\ x.status = Verdict(t) /\ ~x.aged
      BY <3>2, <3>3, NewRowFacts
    <3>5. \A u \in Ticks \ {t} : tick'[u].job # j
      <4>1. j # 0
        BY <1>1, <3>2 DEF Jobs
      <4> QED BY <1>1, <2>2, <4>1 DEF WorkerInv
    <3>6. Verdict(t) = "queued" => tick'[t].job # j
      <4>1. SUFFICES ASSUME Verdict(t) = "queued" PROVE tick'[t].job # j
        OBVIOUS
      <4>2. tick[t].pc = "failing" /\ ~tick[t].final
        <5>1. tick[t].pc = "failing"
          BY <3>1, <4>1 DEF Verdict
        <5> QED BY <4>1, <5>1 DEF Verdict
      <4>3. GoOn(t, tick[t].left) /\ tick[t].pc \in Working
        BY <2>9, <4>2 DEF MarkJob, Working, PCs
      <4>4. PICK n \in TickStates : Moves(t, n) /\ n.job = 0
        BY <3>2, <4>3, GoOnFacts
      <4>5. tick'[t].job = 0
        BY <1>1, <4>4 DEF Moves, Becomes
      <4> QED BY <1>1, <3>2, <4>5 DEF Jobs
    <3> HIDE DEF j, x
    <3>7. \A u \in Ticks : tick'[u].job = j => x.status # "queued" /\ ~x.aged
      BY <3>4, <3>5, <3>6
    <3> QED BY <1>1, <2>1, <2>3, <2>4, <2>9, <3>1, <3>2, <3>4, <3>7, RowKept
  <2>10. CASE ~RecoverStale(t) /\ ~RequestFails(t) /\ ~MarkJob(t) /\ ~Claim(t)
    <3>1. jobs' = jobs
      BY <1>8, <2>10 DEF StartTick, Work, AcquireLease, LeaseIsHeld, ScanStale, SelectQueued,
         ReadRequest, Publish, TellRequest, ReleaseLease
    <3> QED BY <2>6, <2>10, <3>1
  <2> QED BY <2>5, <2>6, <2>7, <2>8, <2>9, <2>10
<1> QED BY <1>4, <1>5, <1>6, <1>7, <1>8 DEF Next, Enqueue

\* However many processes and calls claim, recover and finish jobs from what they
\* read a while ago, no two work on the same job, until a worker is so late that
\* its job has aged, or a job claimed meanwhile is recovered for an older claim.
THEOREM OneWorkerEach == Spec => []OneWorkerPerJob
<1>1. Init => TInv /\ WorkerInv
  <2> SUFFICES ASSUME Init PROVE WorkerInv
    BY TypeInit
  <2>1. Jobs = {} /\ \A t \in Ticks : tick[t].job = 0
    BY IdleFacts DEF Init, Jobs
  <2> QED BY <2>1 DEF WorkerInv
<1>2. WorkerInv => OneWorkerPerJob
  BY DEF WorkerInv, OneWorkerPerJob, Undisturbed
<1> QED BY <1>1, <1>2, TypeStep, WorkerStep, PTL DEF Spec
=============================================================================
