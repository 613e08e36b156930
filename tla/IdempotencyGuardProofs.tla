------------------------ MODULE IdempotencyGuardProofs ------------------------
(***************************************************************************)
(* Theorems about IdempotencyGuard, for any number of requests, payloads,  *)
(* faults and crashes, and for both stores.                                *)
(***************************************************************************)
EXTENDS IdempotencyGuard, TLAPS

USE RequestsAssumption

\* The states are those the type invariant names.
THEOREM TypeCorrect == Spec => []TypeOK
<1>1. Init => TypeOK
  BY DEF Init, TypeOK, NoRow, Nothing, Live, Answers
<1>2. TypeOK /\ [Next]_vars => TypeOK'
  <2> SUFFICES ASSUME TypeOK, [Next]_vars PROVE TypeOK'
    OBVIOUS
  <2> USE DEF TypeOK, Goes, Harm, Fault, NoRow, Live
  <2>0. \A r \in Requests : row.state # "absent" =>
            Answered(r) \in [answer : Answers, from : Requests \union {Nobody}]
    BY DEF Answered, Nothing, Answers
  <2>1. ASSUME NEW r \in Requests, Arrive(r) PROVE TypeOK'
    BY <2>1 DEF Arrive
  <2>2. ASSUME NEW r \in Requests, Claim(r) PROVE TypeOK'
    BY <2>2 DEF Claim, ClaimedBy
  <2>3. ASSUME NEW r \in Requests, Conflict(r) PROVE TypeOK'
    BY <2>0, <2>3 DEF Conflict, Taken, Answer
  <2>4. ASSUME NEW r \in Requests, Read(r) PROVE TypeOK'
    BY <2>0, <2>4 DEF Read, Answer, Nothing, Answers
  <2>5. ASSUME NEW r \in Requests, Bypass(r) PROVE TypeOK'
    <3>1. row' \in {row, ClaimedBy(r)}
      BY <2>5 DEF Bypass
    <3>2. /\ pc' = [pc EXCEPT ![r] = "running"]
          /\ faults' = faults + 1 /\ harm' = harm \union {"bypassed"}
          /\ UNCHANGED <<durable, guarded, told, outcome, left>>
      BY <2>5 DEF Bypass
    <3>3. CASE row' = row
      BY <3>2, <3>3
    <3>4. CASE row' = ClaimedBy(r)
      BY <3>2, <3>4 DEF ClaimedBy
    <3> QED BY <3>1, <3>3, <3>4
  <2>6. ASSUME NEW r \in Requests, NEW result \in {"ok", "error"}, Respond(r, result)
        PROVE  TypeOK'
    BY <2>6 DEF Respond, Answers
  <2>7. ASSUME NEW r \in Requests, Finalize(r) PROVE TypeOK'
    BY <2>7 DEF Finalize, Completed, Released
  <2>8. ASSUME NEW r \in Requests, FinalizeFails(r) PROVE TypeOK'
    BY <2>8 DEF FinalizeFails
  <2>9. ASSUME NEW r \in Requests, Leave(r) PROVE TypeOK'
    BY <2>9 DEF Leave
  <2>10. CASE Expire
    BY <2>10 DEF Expire
  <2>11. CASE Purge
    BY <2>11 DEF Purge
  <2>12. CASE Crash
    BY <2>12 DEF Crash
  <2>13. CASE UNCHANGED vars
    BY <2>13 DEF vars
  <2> QED
    BY <2>1, <2>2, <2>3, <2>4, <2>5, <2>6, <2>7, <2>8, <2>9, <2>10, <2>11, <2>12, <2>13
    DEF Next
<1> QED BY <1>1, <1>2, PTL DEF Spec

-----------------------------------------------------------------------------
(* One effect per key.                                                     *)

\* What makes RunsOnce inductive: whoever acts or has acted has the record, also
\* while it waits for 'finish'.
Excused == harm \intersect LetsThrough # {}

ActsWithRecord ==
    ~Excused => \A r \in Requests :
        pc[r] \in Live \/ outcome[r] = "ok" => row.by = r /\ row.state # "absent"

\* No request gets the record of one that has acted.
LEMMA ActsWithRecordStep ==
    ASSUME TypeOK, ActsWithRecord, [Next]_vars
    PROVE  ActsWithRecord'
<1> SUFFICES ASSUME ~Excused', NEW q \in Requests, pc'[q] \in Live \/ outcome'[q] = "ok"
             PROVE  row'.by = q /\ row'.state # "absent"
  BY DEF ActsWithRecord
<1> USE DEF TypeOK, Goes, Harm, Fault, Live, Excused, LetsThrough, ActsWithRecord
<1>1. ASSUME NEW r \in Requests, Arrive(r) PROVE row'.by = q /\ row'.state # "absent"
  BY <1>1 DEF Arrive
<1>2. ASSUME NEW r \in Requests, Claim(r) PROVE row'.by = q /\ row'.state # "absent"
  \* There is no record, or it is forgotten.
  <2>1. row.state = "absent" /\ ~Excused
    BY <1>2 DEF Claim, Taken
  <2>2. q = r
    BY <1>2, <2>1 DEF Claim
  <2> QED BY <1>2, <2>2 DEF Claim, ClaimedBy
<1>3. ASSUME NEW r \in Requests, Conflict(r) PROVE row'.by = q /\ row'.state # "absent"
  BY <1>3 DEF Conflict, Answer
<1>4. ASSUME NEW r \in Requests, Read(r) PROVE row'.by = q /\ row'.state # "absent"
  BY <1>4 DEF Read, Answer
<1>5. ASSUME NEW r \in Requests, Bypass(r) PROVE row'.by = q /\ row'.state # "absent"
  BY <1>5 DEF Bypass
<1>6. ASSUME NEW r \in Requests, NEW result \in {"ok", "error"}, Respond(r, result)
      PROVE  row'.by = q /\ row'.state # "absent"
  BY <1>6 DEF Respond
<1>7. ASSUME NEW r \in Requests, Finalize(r) PROVE row'.by = q /\ row'.state # "absent"
  <2>1. row.by = r /\ row.state # "absent" /\ row.by = q
    BY <1>7 DEF Finalize
  <2>2. outcome[r] = "ok"
    BY <1>7, <2>1 DEF Finalize
  <2> QED BY <1>7, <2>1, <2>2 DEF Finalize, Completed
<1>8. ASSUME NEW r \in Requests, FinalizeFails(r) PROVE row'.by = q /\ row'.state # "absent"
  BY <1>8 DEF FinalizeFails
<1>9. ASSUME NEW r \in Requests, Leave(r) PROVE row'.by = q /\ row'.state # "absent"
  BY <1>9 DEF Leave
<1>10. CASE Expire
  BY <1>10 DEF Expire
<1>11. CASE Purge
  BY <1>11 DEF Purge
<1>12. CASE Crash
  BY <1>12 DEF Crash
<1>13. CASE UNCHANGED vars
  BY <1>13 DEF vars
<1> QED
  BY <1>1, <1>2, <1>3, <1>4, <1>5, <1>6, <1>7, <1>8, <1>9, <1>10, <1>11, <1>12, <1>13
  DEF Next

\* However many requests carry a key, one of them has its effect, unless the
\* guard let another one through because its store failed or forgot.
THEOREM OneEffectPerKey == Spec => []RunsOnce
<1>1. Init => ActsWithRecord
  BY DEF Init, ActsWithRecord, Live
<1>2. TypeOK /\ ActsWithRecord /\ [Next]_vars => ActsWithRecord'
  BY ActsWithRecordStep
<1>3. ActsWithRecord => RunsOnce
  BY DEF ActsWithRecord, Excused, RunsOnce, Acts, Live
<1> QED BY <1>1, <1>2, <1>3, TypeCorrect, PTL DEF Spec

-----------------------------------------------------------------------------
(* The record of the key.                                                  *)

\* Before its handler ends a request has no outcome; only guarded ones finalize,
\* and the guard is set with the claim.
Progress ==
    \A r \in Requests :
        /\ pc[r] \in {"idle", "claiming", "reading", "running"} => outcome[r] = "none"
        /\ pc[r] = "finalizing" => r \in guarded
        /\ pc[r] \in {"idle", "claiming", "reading"} => r \notin guarded

\* A guarded request that goes on has the record, which has not expired.
GuardedHasRecord ==
    \A r \in guarded : pc[r] \in Live =>
        row.by = r /\ row.state = "in_progress" /\ ~row.expired

\* A completed record holds a response to its own payload.
CompletedIsOwn ==
    row.state = "completed" =>
        /\ row.from \in Requests /\ outcome[row.from] = "ok"
        /\ SamePayload(row.from, row.by)

\* What was replayed was such a response.
ReplayedIsOwn ==
    \A r \in Requests : told[r].answer = "replayed" =>
        /\ told[r].from \in Requests /\ outcome[told[r].from] = "ok"
        /\ SamePayload(told[r].from, r)

RecordInv ==
    /\ Progress
    /\ "outlived" \notin harm => GuardedHasRecord /\ CompletedIsOwn /\ ReplayedIsOwn

\* An outcome is final.
LEMMA ProgressStep ==
    ASSUME TypeOK, Progress, [Next]_vars
    PROVE  Progress' /\ \A r \in Requests : outcome[r] # "none" => outcome'[r] = outcome[r]
BY DEF TypeOK, Progress, Goes, Live, Next, vars, Arrive, Claim, Conflict, Answer, Read,
       Bypass, Respond, Finalize, FinalizeFails, Leave, Expire, Purge, Crash

\* No request but the one that has the record writes to it, and it is completed
\* with the response of that request.
LEMMA RecordInvStep ==
    ASSUME TypeOK, RecordInv, [Next]_vars
    PROVE  RecordInv'
<1>1. Progress' /\ \A r \in Requests : outcome[r] # "none" => outcome'[r] = outcome[r]
  BY ProgressStep DEF RecordInv
<1> SUFFICES ASSUME "outlived" \notin harm'
             PROVE  GuardedHasRecord' /\ CompletedIsOwn' /\ ReplayedIsOwn'
  BY <1>1 DEF RecordInv
<1>2. "outlived" \notin harm
  BY DEF Next, vars, Arrive, Claim, Conflict, Read, Bypass, Respond, Finalize,
         FinalizeFails, Leave, Expire, Purge, Crash, Harm
<1>3. Progress /\ GuardedHasRecord /\ CompletedIsOwn /\ ReplayedIsOwn
  BY <1>2 DEF RecordInv
<1> USE <1>3 DEF TypeOK, Goes, Harm, Live
<1>4. \A r \in Requests :
          Answered(r).answer = "replayed" /\ row.state # "absent" =>
              /\ Answered(r).from \in Requests /\ outcome[Answered(r).from] = "ok"
              /\ SamePayload(Answered(r).from, r)
  BY DEF Answered, Nothing, CompletedIsOwn, SamePayload
\* The steps that leave the record alone.
<1>5. ASSUME UNCHANGED row,
             \A r \in guarded' : pc'[r] \in Live => r \in guarded /\ pc[r] \in Live
      PROVE  GuardedHasRecord' /\ CompletedIsOwn'
  BY <1>1, <1>5 DEF GuardedHasRecord, CompletedIsOwn, SamePayload
\* The steps that replay nothing.
<1>6. ASSUME \A r \in Requests : told'[r].answer = "replayed" => told'[r] = told[r]
      PROVE  ReplayedIsOwn'
  BY <1>1, <1>6 DEF ReplayedIsOwn, SamePayload
<1>7. ASSUME NEW r \in Requests, Arrive(r)
      PROVE  GuardedHasRecord' /\ CompletedIsOwn' /\ ReplayedIsOwn'
  BY <1>5, <1>6, <1>7 DEF Arrive
<1>8. ASSUME NEW r \in Requests, Claim(r)
      PROVE  GuardedHasRecord' /\ CompletedIsOwn' /\ ReplayedIsOwn'
  \* Nobody has the record: there is none, or it has expired.
  <2>1. \A q \in guarded : pc[q] \notin Live
    BY <1>8 DEF Claim, Taken, GuardedHasRecord
  <2> QED BY <1>6, <1>8, <2>1 DEF Claim, ClaimedBy, GuardedHasRecord, CompletedIsOwn
<1>9. ASSUME NEW r \in Requests, Conflict(r)
      PROVE  GuardedHasRecord' /\ CompletedIsOwn' /\ ReplayedIsOwn'
  <2>1. GuardedHasRecord' /\ CompletedIsOwn'
    BY <1>5, <1>9 DEF Conflict, Answer
  <2>2. ReplayedIsOwn'
    BY <1>1, <1>4, <1>9 DEF Conflict, Answer, Taken, ReplayedIsOwn, SamePayload
  <2> QED BY <2>1, <2>2
<1>10. ASSUME NEW r \in Requests, Read(r)
       PROVE  GuardedHasRecord' /\ CompletedIsOwn' /\ ReplayedIsOwn'
  <2>1. GuardedHasRecord' /\ CompletedIsOwn'
    BY <1>5, <1>10 DEF Read, Answer
  <2>2. CASE row.state = "absent"
    BY <1>6, <1>10, <2>1, <2>2 DEF Read, Answer, Nothing
  <2>3. CASE row.state # "absent"
    BY <1>1, <1>4, <1>10, <2>1, <2>3 DEF Read, Answer, ReplayedIsOwn, SamePayload
  <2> QED BY <2>2, <2>3
<1>11. ASSUME NEW r \in Requests, Bypass(r)
       PROVE  GuardedHasRecord' /\ CompletedIsOwn' /\ ReplayedIsOwn'
  <2>1. \A q \in guarded' : pc'[q] \in Live => q \in guarded /\ pc[q] \in Live
    BY <1>11 DEF Bypass, Progress
  <2>2. ReplayedIsOwn'
    BY <1>6, <1>11 DEF Bypass
  <2>3. CASE UNCHANGED row
    BY <1>5, <2>1, <2>2, <2>3
  <2>4. CASE row.state = "absent" /\ row' = ClaimedBy(r)
    \* It is nobody's record: without one, no guarded request goes on.
    BY <1>1, <2>1, <2>2, <2>4 DEF ClaimedBy, GuardedHasRecord, CompletedIsOwn
  <2> QED BY <1>11, <2>3, <2>4 DEF Bypass
<1>12. ASSUME NEW r \in Requests, NEW result \in {"ok", "error"}, Respond(r, result)
       PROVE  GuardedHasRecord' /\ CompletedIsOwn' /\ ReplayedIsOwn'
  BY <1>5, <1>6, <1>12 DEF Respond
<1>13. ASSUME NEW r \in Requests, Finalize(r)
       PROVE  GuardedHasRecord' /\ CompletedIsOwn' /\ ReplayedIsOwn'
  <2>1. row.by = r /\ row.state = "in_progress" /\ r \in guarded
    BY <1>13 DEF Finalize, Progress, GuardedHasRecord
  <2>2. \A q \in guarded' : pc'[q] \notin Live
    BY <1>13, <2>1 DEF Finalize, GuardedHasRecord
  <2>3. CompletedIsOwn'
    BY <1>13, <2>1 DEF Finalize, Completed, Released, NoRow, CompletedIsOwn, SamePayload
  <2> QED BY <1>6, <1>13, <2>2, <2>3 DEF Finalize, GuardedHasRecord
<1>14. ASSUME NEW r \in Requests, FinalizeFails(r)
       PROVE  GuardedHasRecord' /\ CompletedIsOwn' /\ ReplayedIsOwn'
  BY <1>5, <1>6, <1>14 DEF FinalizeFails
<1>15. ASSUME NEW r \in Requests, Leave(r)
       PROVE  GuardedHasRecord' /\ CompletedIsOwn' /\ ReplayedIsOwn'
  BY <1>5, <1>6, <1>15 DEF Leave
<1>16. CASE Expire
  \* Only a record under which nobody works expires without harm.
  <2>1. \A q \in guarded : pc[q] \notin Live
    BY <1>16 DEF Expire
  <2> QED BY <1>1, <1>6, <1>16, <2>1 DEF Expire, GuardedHasRecord, CompletedIsOwn, SamePayload
<1>17. CASE Purge
  BY <1>6, <1>17 DEF Purge, NoRow, GuardedHasRecord, CompletedIsOwn
<1>18. CASE Crash
  BY <1>6, <1>18 DEF Crash, NoRow, GuardedHasRecord, CompletedIsOwn, SamePayload
<1>19. CASE UNCHANGED vars
  BY <1>5, <1>6, <1>19 DEF vars
<1> QED
  BY <1>7, <1>8, <1>9, <1>10, <1>11, <1>12, <1>13, <1>14, <1>15, <1>16, <1>17, <1>18, <1>19
  DEF Next

\* The record describes the request that has it.
LEMMA RecordInvHolds == Spec => []RecordInv
<1>1. Init => RecordInv
  BY DEF Init, RecordInv, Progress, GuardedHasRecord, CompletedIsOwn, ReplayedIsOwn,
         NoRow, Nothing, Live
<1>2. TypeOK /\ RecordInv /\ [Next]_vars => RecordInv'
  BY RecordInvStep
<1> QED BY <1>1, <1>2, TypeCorrect, PTL DEF Spec

\* Nobody is shown the response to another payload, or one that failed, unless a
\* request outlived its record.
THEOREM ReplaysItsOwn == Spec => []ReplayIsOwn
<1>1. RecordInv => ReplayIsOwn
  BY DEF RecordInv, ReplayedIsOwn, ReplayIsOwn
<1> QED BY <1>1, RecordInvHolds, PTL

-----------------------------------------------------------------------------
(* What is in progress.                                                    *)

\* Until something goes wrong, the record is in progress as long as its request is.
InProgressIsTrue ==
    harm \intersect Stuck = {} =>
        /\ left = {}
        /\ row.state = "in_progress" => row.by \in guarded /\ pc[row.by] \in Live

\* A request does not end without the record.
LEMMA InProgressIsTrueStep ==
    ASSUME TypeOK, RecordInv, InProgressIsTrue, [Next]_vars
    PROVE  InProgressIsTrue'
<1> SUFFICES ASSUME harm' \intersect Stuck = {}
             PROVE  /\ left' = {}
                    /\ row'.state = "in_progress" =>
                          row'.by \in guarded' /\ pc'[row'.by] \in Live
  BY DEF InProgressIsTrue
<1>1. harm \intersect Stuck = {}
  BY DEF Next, vars, Arrive, Claim, Conflict, Read, Bypass, Respond, Finalize,
         FinalizeFails, Leave, Expire, Purge, Crash, Harm
<1>2. left = {} /\ (row.state = "in_progress" => row.by \in guarded /\ pc[row.by] \in Live)
  BY <1>1 DEF InProgressIsTrue
<1> DEFINE Good ==
      /\ left' = {}
      /\ row'.state = "in_progress" => row'.by \in guarded' /\ pc'[row'.by] \in Live
<1> USE <1>2 DEF TypeOK, Goes, Harm, Live, Stuck
<1>3. ASSUME NEW r \in Requests, Arrive(r) PROVE Good
  BY <1>3 DEF Arrive
<1>4. ASSUME NEW r \in Requests, Claim(r) PROVE Good
  BY <1>4 DEF Claim, ClaimedBy
<1>5. ASSUME NEW r \in Requests, Conflict(r) PROVE Good
  BY <1>5 DEF Conflict, Answer
<1>6. ASSUME NEW r \in Requests, Read(r) PROVE Good
  BY <1>6 DEF Read, Answer
<1>7. ASSUME NEW r \in Requests, Bypass(r) PROVE Good
  BY <1>7 DEF Bypass
<1>8. ASSUME NEW r \in Requests, NEW result \in {"ok", "error"}, Respond(r, result) PROVE Good
  BY <1>8 DEF Respond
<1>9. ASSUME NEW r \in Requests, Finalize(r) PROVE Good
  <2>1. row.by = r /\ row.state = "in_progress"
    BY <1>1, <1>9 DEF Finalize, RecordInv, Progress, GuardedHasRecord
  <2>2. row'.state # "in_progress"
    BY <1>9, <2>1 DEF Finalize, Completed, Released, NoRow
  <2> QED BY <1>9, <2>2 DEF Finalize
<1>10. ASSUME NEW r \in Requests, FinalizeFails(r) PROVE Good
  BY <1>10 DEF FinalizeFails
<1>11. ASSUME NEW r \in Requests, Leave(r) PROVE Good
  BY <1>11 DEF Leave
<1>12. CASE Expire
  BY <1>12 DEF Expire
<1>13. CASE Purge
  BY <1>13 DEF Purge, NoRow
<1>14. CASE Crash
  BY <1>14 DEF Crash
<1>15. CASE UNCHANGED vars
  BY <1>15 DEF vars
<1> QED
  BY <1>3, <1>4, <1>5, <1>6, <1>7, <1>8, <1>9, <1>10, <1>11, <1>12, <1>13, <1>14, <1>15
  DEF Next

\* Whoever is told that its key is in progress comes back to an answer.
THEOREM BusyMeansBusy == Spec => BusyIsTrue
<1> DEFINE NewlyBusy(r) == told'[r].answer = "busy" /\ told[r].answer # "busy"
<1>1. Init => InProgressIsTrue
  BY DEF Init, InProgressIsTrue, NoRow
<1>2. TypeOK /\ RecordInv /\ InProgressIsTrue /\ [Next]_vars => InProgressIsTrue'
  BY InProgressIsTrueStep
<1>3. TypeOK /\ [Next]_vars =>
          \A r \in Requests : NewlyBusy(r) => row.state = "in_progress"
  <2> SUFFICES ASSUME TypeOK, [Next]_vars, NEW r \in Requests, NewlyBusy(r)
               PROVE  row.state = "in_progress"
    OBVIOUS
  <2>1. ASSUME row.state # "absent", Answered(r).answer = "busy"
        PROVE  row.state = "in_progress"
    BY <2>1 DEF Answered, Nothing, TypeOK
  <2>2. told'[r] = Answered(r) /\ row.state # "absent"
    BY DEF TypeOK, Goes, Nothing, Next, vars, Arrive, Claim, Conflict, Taken, Answer, Read,
           Bypass, Respond, Finalize, FinalizeFails, Leave, Expire, Purge, Crash
  <2> QED BY <2>1, <2>2
<1>4. TypeOK /\ InProgressIsTrue /\ [Next]_vars =>
          [harm \intersect Stuck = {} => \A r \in Requests :
              NewlyBusy(r) => \E q \in guarded : pc[q] \in Live]_vars
  BY <1>3 DEF InProgressIsTrue
<1> QED BY <1>1, <1>2, <1>4, TypeCorrect, RecordInvHolds, PTL DEF Spec, BusyIsTrue
=============================================================================
