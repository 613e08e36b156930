-------------------------- MODULE MemoryJobsProofs --------------------------
(***************************************************************************)
(* Theorems about MemoryJobs, for every number of jobs, workers, retries   *)
(* and faults.                                                             *)
(***************************************************************************)
EXTENDS MemoryJobs, FiniteSetTheorems, TLAPS

-----------------------------------------------------------------------------
(* Lemmas.                                                                 *)

\* Deadletters are numbered without gaps.
LEMMA LetterFacts ==
    ASSUME letters \in Seq(Letters)
    PROVE  /\ Len(letters) \in Nat
           /\ DOMAIN letters = 1 .. Len(letters)
           /\ \A l \in DOMAIN letters :
                 /\ letters[l] \in Letters
                 /\ letters[l].job \in Jobs
                 /\ letters[l].recovery \in {"pending", "requeued", "ignored"}
                 /\ letters[l].tries \in Nat
<1>1. Len(letters) \in Nat /\ DOMAIN letters = 1 .. Len(letters)
  OBVIOUS
<1>2. \A l \in DOMAIN letters : letters[l] \in Letters
  BY <1>1
<1> QED BY <1>1, <1>2 DEF Letters

\* A new deadletter gets the next number and leaves the others as they are.
LEMMA BuryFacts ==
    ASSUME letters \in Seq(Letters), NEW x \in Letters
    PROVE  /\ Append(letters, x) \in Seq(Letters)
           /\ DOMAIN Append(letters, x) = DOMAIN letters \union {Len(letters) + 1}
           /\ Len(letters) + 1 \notin DOMAIN letters
           /\ Append(letters, x)[Len(letters) + 1] = x
           /\ \A l \in DOMAIN letters : Append(letters, x)[l] = letters[l]
<1>1. Len(letters) \in Nat /\ DOMAIN letters = 1 .. Len(letters)
  BY LetterFacts
<1>2. /\ Append(letters, x) \in Seq(Letters)
      /\ Len(Append(letters, x)) = Len(letters) + 1
      /\ Append(letters, x)[Len(letters) + 1] = x
      /\ \A l \in 1 .. Len(letters) : Append(letters, x)[l] = letters[l]
  OBVIOUS
<1>3. DOMAIN Append(letters, x) = 1 .. (Len(letters) + 1)
  BY <1>2
<1> QED BY <1>1, <1>2, <1>3

\* Writing to a letter changes no other.
LEMMA NoteFacts ==
    ASSUME letters \in Seq(Letters), NEW l \in DOMAIN letters, NEW x \in Letters
    PROVE  /\ [letters EXCEPT ![l] = x] \in Seq(Letters)
           /\ DOMAIN [letters EXCEPT ![l] = x] = DOMAIN letters
           /\ [letters EXCEPT ![l] = x][l] = x
           /\ \A k \in DOMAIN letters \ {l} : [letters EXCEPT ![l] = x][k] = letters[k]
BY LetterFacts

\* What a recovery reads are letters that exist.
LEMMA BatchFacts ==
    ASSUME NEW r \in Recoverers, NEW batch \in Batches(r)
    PROVE  batch \subseteq DOMAIN letters
<1>1. \A n, S : Oldest(n, S) \subseteq S
  BY DEF Oldest
<1>2. Pending \subseteq DOMAIN letters
  BY DEF Pending
<1>3. CASE r = "admin"
  BY <1>3 DEF Batches
<1>4. CASE r = "cron"
  BY <1>1, <1>2, <1>4 DEF Batches
<1>5. CASE r # "admin" /\ r # "cron"
  BY <1>1, <1>2, <1>5 DEF Batches
<1> QED BY <1>3, <1>4, <1>5

-----------------------------------------------------------------------------
\* Every variable keeps its type: rows and letters satisfy the checks of their
\* tables, and a recovery always names a letter that exists.
THEOREM TypeCorrect == Spec => []TypeOK
<1>1. Init => TypeOK
  BY ConstantsAssumption DEF Init, TypeOK, Statuses, Letters, Off, Idle
<1>2. TypeOK /\ [Next]_vars => TypeOK'
  <2> SUFFICES ASSUME TypeOK, [Next]_vars PROVE TypeOK'
    OBVIOUS
  <2> USE ConstantsAssumption
  <2>1. CASE UNCHANGED vars
    BY <2>1 DEF vars, rows, TypeOK
  <2>2. ASSUME NEW j \in Jobs, QueueMemoryJob(j) PROVE TypeOK'
    BY <2>2 DEF QueueMemoryJob, NoFault, TypeOK, Statuses
  <2>3. ASSUME NEW j \in Jobs, CancelMemoryJob(j) PROVE TypeOK'
    BY <2>3 DEF CancelMemoryJob, NoFault, TypeOK, Statuses
  <2>4. ASSUME NEW j \in Jobs, BackoffEnds(j) PROVE TypeOK'
    BY <2>4 DEF BackoffEnds, NoFault, TypeOK
  <2>5. CASE Tick
    BY <2>5 DEF Tick, NoFault, rows, TypeOK, Selecting, Off
  <2>6. ASSUME NEW w \in Workers, SelectQueued(w) PROVE TypeOK'
    BY <2>6 DEF SelectQueued, Becomes, DueJobs, NoFault, rows, TypeOK
  <2>7. ASSUME NEW w \in Workers, FindNothing(w) PROVE TypeOK'
    BY <2>7 DEF FindNothing, Leave, Becomes, NoFault, rows, TypeOK, Off
  <2>8. ASSUME NEW w \in Workers, Claim(w) PROVE TypeOK'
    BY <2>8 DEF Claim, At, Becomes, NoFault, TypeOK, Statuses
  <2>9. ASSUME NEW w \in Workers, LoseClaim(w) PROVE TypeOK'
    BY <2>9 DEF LoseClaim, Leave, Becomes, NoFault, rows, TypeOK, Off
  <2>10. ASSUME NEW w \in Workers, Throw(w) PROVE TypeOK'
    BY <2>10 DEF Throw, Fault, Becomes, rows, TypeOK, Off
  <2>11. ASSUME NEW w \in Workers, Complete(w) PROVE TypeOK'
    BY <2>11 DEF Complete, Completed, Becomes, NoFault, TypeOK, Statuses, Selecting, Off
  <2>12. ASSUME NEW w \in Workers, FailJob(w) PROVE TypeOK'
    <3>1. /\ status' \in [Jobs -> Statuses]
          /\ UNCHANGED <<attempts, letters, crew, recovery, faults, harm, used>>
      BY <2>12 DEF FailJob, FailureStatus, NoFault, TypeOK, Statuses
    <3>2. due' \in [Jobs -> BOOLEAN]
      <4>1. IsLastAttempt(w) \in BOOLEAN
        BY DEF IsLastAttempt
      <4>2. due' = due \/ due' = [due EXCEPT ![task[w].job] = IsLastAttempt(w)]
        BY <2>12, Zenon DEF FailJob
      <4> QED BY <4>1, <4>2, Zenon DEF TypeOK
    <3>3. /\ task' \in [Workers -> [pc : {"off", "select", "claim", "work", "bury"},
                                    job : {0} \union Jobs, attempt : Nat]]
          /\ \A v \in Workers :
                task'[v].pc \in {"claim", "work", "bury"} => task'[v].job \in Jobs
      BY <2>12 DEF FailJob, AfterFailure, At, Becomes, TypeOK, Selecting
    <3> QED BY <3>1, <3>2, <3>3 DEF TypeOK
  <2>13. ASSUME NEW w \in Workers, FailJobUnsaved(w) PROVE TypeOK'
    BY <2>13 DEF FailJobUnsaved, AfterFailure, At, Fault, Becomes, rows, TypeOK, Selecting, Off
  <2>14. ASSUME NEW w \in Workers, Bury(w) PROVE TypeOK'
    <3> DEFINE x == [job |-> task[w].job, recovery |-> "pending", tries |-> 0]
    <3>1. x \in Letters /\ letters' = Append(letters, x)
      BY <2>14 DEF Bury, TypeOK, Letters
    <3>2. letters' \in Seq(Letters) /\ DOMAIN letters \subseteq DOMAIN letters'
      BY <3>1, BuryFacts DEF TypeOK
    <3> QED
      BY <2>14, <3>2 DEF Bury, Becomes, NoFault, rows, TypeOK, Selecting
  <2>15. ASSUME NEW w \in Workers, BuryNothing(w) PROVE TypeOK'
    BY <2>15 DEF BuryNothing, Becomes, Fault, rows, TypeOK, Selecting, Off
  <2>16. ASSUME NEW r \in Recoverers, StartBatch(r) PROVE TypeOK'
    BY <2>16, BatchFacts DEF StartBatch, Reading, NoFault, rows, TypeOK
  <2>17. ASSUME NEW r \in Recoverers, ReadLetter(r) PROVE TypeOK'
    <3> DEFINE Read(l) == [pc |-> "requeue", batch |-> recovery[r].batch \ {l},
                           letter |-> l, tries |-> letters[l].tries]
    <3>1. /\ UNCHANGED <<status, attempts, due, letters, task, crew, faults, harm, used>>
          /\ \E l \in recovery[r].batch :
                \/ Abort(r, recovery[r].batch \ {l})
                \/ recovery' = [recovery EXCEPT ![r] = Read(l)]
      BY <2>17 DEF ReadLetter, NoFault, rows
    <3>2. PICK l \in recovery[r].batch :
             \/ Abort(r, recovery[r].batch \ {l})
             \/ recovery' = [recovery EXCEPT ![r] = Read(l)]
      BY <3>1
    <3>3. l \in DOMAIN letters /\ letters[l].tries \in Nat
      BY LetterFacts DEF TypeOK
    <3>4. CASE Abort(r, recovery[r].batch \ {l})
      BY <3>1, <3>4 DEF Abort, Continue, Reading, Idle, TypeOK
    <3>5. CASE recovery' = [recovery EXCEPT ![r] = Read(l)]
      BY <3>1, <3>3, <3>5 DEF TypeOK
    <3> QED BY <3>2, <3>4, <3>5
  <2>18. ASSUME NEW r \in Recoverers, LetterUnread(r) PROVE TypeOK'
    BY <2>18 DEF LetterUnread, Abort, Continue, Reading, Idle, Fault, rows, TypeOK
  <2>19. ASSUME NEW r \in Recoverers, RequeueJob(r) PROVE TypeOK'
    BY <2>19 DEF RequeueJob, RecoveryAt, TypeOK, Statuses, Letters
  <2>20. ASSUME NEW r \in Recoverers, RequeueFails(r) PROVE TypeOK'
    <3>1. /\ UNCHANGED <<status, attempts, due, letters, task, crew, used>>
          /\ faults' \in 0..MaxFaults /\ harm' = harm
      BY <2>20 DEF RequeueFails, Fault, rows, TypeOK
    <3>2. recovery[r].pc = "requeue" /\ RecoveryAt(r, "punish")
      BY <2>20 DEF RequeueFails
    <3> QED BY <3>1, <3>2 DEF RecoveryAt, TypeOK
  <2>21. ASSUME NEW r \in Recoverers, MarkRequeued(r) PROVE TypeOK'
    <3> DEFINE l == recovery[r].letter
               x == Requeued(letters[l], recovery[r].tries + 1)
    <3>1. l \in DOMAIN letters /\ x \in Letters /\ letters' = [letters EXCEPT ![l] = x]
      BY <2>21, LetterFacts DEF MarkRequeued, Requeued, Noted, TypeOK, Letters
    <3>2. letters' \in Seq(Letters) /\ DOMAIN letters' = DOMAIN letters
      BY <3>1, NoteFacts DEF TypeOK
    <3> QED
      BY <2>21, <3>2 DEF MarkRequeued, Continue, Reading, Idle, NoFault, rows, TypeOK
  <2>22. ASSUME NEW r \in Recoverers, MarkNothing(r) PROVE TypeOK'
    BY <2>22 DEF MarkNothing, Continue, Reading, Idle, Fault, rows, TypeOK
  <2>23. ASSUME NEW r \in Recoverers, MarkFailed(r) PROVE TypeOK'
    <3> DEFINE l == recovery[r].letter
               tries == recovery[r].tries + 1
               x == Noted(letters[l], AfterFailedRequeue(tries), tries)
    <3>1. l \in DOMAIN letters /\ x \in Letters /\ letters' = [letters EXCEPT ![l] = x]
      BY <2>23, LetterFacts DEF MarkFailed, AfterFailedRequeue, Noted, TypeOK, Letters
    <3>2. letters' \in Seq(Letters) /\ DOMAIN letters' = DOMAIN letters
      BY <3>1, NoteFacts DEF TypeOK
    <3> QED
      BY <2>23, <3>2 DEF MarkFailed, Abort, Continue, Reading, Idle, NoFault, rows, TypeOK
  <2>24. ASSUME NEW r \in Recoverers, MarkFailedUnsaved(r) PROVE TypeOK'
    BY <2>24 DEF MarkFailedUnsaved, Abort, Continue, Reading, Idle, NoFault, rows, TypeOK
  <2>25. CASE Crash
    BY <2>25 DEF Crash, Fault, rows, TypeOK, Off, Idle
  <2> QED
    BY <2>1, <2>2, <2>3, <2>4, <2>5, <2>6, <2>7, <2>8, <2>9, <2>10, <2>11, <2>12, <2>13,
       <2>14, <2>15, <2>16, <2>17, <2>18, <2>19, <2>20, <2>21, <2>22, <2>23, <2>24,
       <2>25 DEF Next, Work, Recover
<1> QED BY <1>1, <1>2, PTL DEF Spec

-----------------------------------------------------------------------------
(* Workers.                                                                *)

\* No row says running without a worker, unless a crash or an unwritten failure
\* left it: every way out of the work on a job takes the row out of running.
THEOREM RunningHasWorker == Spec => []RunningIsWorkedOn
<1> DEFINE Left == harm \intersect {"fail", "crash"} # {}
<1>1. Init => RunningIsWorkedOn
  BY DEF Init, RunningIsWorkedOn
<1>2. TypeOK /\ RunningIsWorkedOn /\ [Next]_vars => RunningIsWorkedOn'
  <2> SUFFICES ASSUME TypeOK, RunningIsWorkedOn, [Next]_vars,
                      NEW j \in Jobs, status'[j] = "running"
               PROVE  (\E w \in Workers : Holds(w, j)') \/ Left'
    BY DEF RunningIsWorkedOn
  <2>1. CASE UNCHANGED <<status, task, harm>>
    BY <2>1 DEF RunningIsWorkedOn, Holds
  <2>2. ASSUME NEW k \in Jobs, QueueMemoryJob(k) \/ CancelMemoryJob(k) \/ BackoffEnds(k)
        PROVE  (\E w \in Workers : Holds(w, j)') \/ Left'
    <3>1. status[j] = "running" /\ UNCHANGED <<task, harm>>
      BY <2>2 DEF QueueMemoryJob, CancelMemoryJob, BackoffEnds, NoFault, TypeOK
    <3> QED BY <3>1 DEF RunningIsWorkedOn, Holds
  <2>3. CASE Tick
    <3>1. /\ UNCHANGED <<status, harm>>
          /\ \A w \in Workers : task[w].pc = "work" => task'[w] = task[w]
      BY <2>3 DEF Tick, NoFault, rows, TypeOK, Off
    <3> QED BY <3>1 DEF RunningIsWorkedOn, Holds
  <2>4. ASSUME NEW v \in Workers,
               SelectQueued(v) \/ FindNothing(v) \/ LoseClaim(v) \/ Throw(v)
                  \/ Bury(v) \/ BuryNothing(v)
        PROVE  (\E w \in Workers : Holds(w, j)') \/ Left'
    <3>1. /\ UNCHANGED status /\ harm \subseteq harm'
          /\ \A w \in Workers : task[w].pc = "work" => task'[w] = task[w]
      BY <2>4 DEF SelectQueued, FindNothing, LoseClaim, Throw, Bury, BuryNothing,
                  Leave, Becomes, Fault, NoFault, rows, TypeOK
    <3> QED BY <3>1 DEF RunningIsWorkedOn, Holds
  <2>5. ASSUME NEW v \in Workers, Claim(v)
        PROVE  (\E w \in Workers : Holds(w, j)') \/ Left'
    <3>1. CASE j = task[v].job
      BY <2>5, <3>1 DEF Claim, At, Becomes, Holds, TypeOK
    <3>2. CASE j # task[v].job
      <4>1. /\ status[j] = "running" /\ UNCHANGED harm
            /\ \A w \in Workers : task[w].pc = "work" => task'[w] = task[w]
        BY <2>5, <3>2 DEF Claim, Becomes, NoFault, TypeOK
      <4> QED BY <4>1 DEF RunningIsWorkedOn, Holds
    <3> QED BY <3>1, <3>2
  <2>6. ASSUME NEW v \in Workers, Complete(v) \/ FailJob(v)
        PROVE  (\E w \in Workers : Holds(w, j)') \/ Left'
    <3>1. /\ status[j] = "running" /\ UNCHANGED harm
          /\ j # task[v].job
          /\ \A w \in Workers \ {v} : task'[w] = task[w]
      BY <2>6 DEF Complete, Completed, FailJob, FailureStatus, Becomes, NoFault, TypeOK
    <3> QED BY <3>1 DEF RunningIsWorkedOn, Holds
  <2>7. ASSUME NEW v \in Workers, FailJobUnsaved(v) PROVE Left'
    BY <2>7 DEF FailJobUnsaved, Fault
  <2>8. ASSUME NEW r \in Recoverers, RequeueJob(r)
        PROVE  (\E w \in Workers : Holds(w, j)') \/ Left'
    <3>1. status[j] = "running" /\ UNCHANGED task /\ harm \subseteq harm'
      BY <2>8 DEF RequeueJob, TypeOK
    <3> QED BY <3>1 DEF RunningIsWorkedOn, Holds
  <2>9. ASSUME NEW r \in Recoverers, Recover(r), ~RequeueJob(r)
        PROVE  (\E w \in Workers : Holds(w, j)') \/ Left'
    <3>1. UNCHANGED <<status, task>> /\ harm \subseteq harm'
      BY <2>9 DEF Recover, StartBatch, ReadLetter, LetterUnread, RequeueFails, MarkRequeued,
                  MarkNothing, MarkFailed, MarkFailedUnsaved, Fault, NoFault, rows
    <3> QED BY <3>1 DEF RunningIsWorkedOn, Holds
  <2>10. CASE Crash
    BY <2>10 DEF Crash, Fault
  <2> QED
    BY <2>1, <2>2, <2>3, <2>4, <2>5, <2>6, <2>7, <2>8, <2>9, <2>10
       DEF Next, Work, vars, rows
<1> QED BY <1>1, <1>2, TypeCorrect, PTL DEF Spec

\* The late answer of a worker never changes a cancelled row.
THEOREM CancelIsRespected == Spec => WorkersRespectCancel
<1>1. TypeOK /\ [Next]_vars =>
         [\A j \in Jobs : status[j] = "canceled" /\ status'[j] # "canceled" =>
             \E r \in Recoverers : /\ recovery[r].pc = "requeue" /\ recovery'[r].pc = "mark"
                                   /\ letters[recovery[r].letter].job = j]_vars
  <2> SUFFICES ASSUME TypeOK, Next,
                      NEW j \in Jobs, status[j] = "canceled", status'[j] # "canceled"
               PROVE  \E r \in Recoverers : /\ recovery[r].pc = "requeue" /\ recovery'[r].pc = "mark"
                                            /\ letters[recovery[r].letter].job = j
    OBVIOUS
  <2>1. ASSUME NEW k \in Jobs PROVE ~(QueueMemoryJob(k) \/ CancelMemoryJob(k) \/ BackoffEnds(k))
    BY <2>1 DEF QueueMemoryJob, CancelMemoryJob, BackoffEnds, TypeOK
  <2>2. ~Tick /\ ~Crash
    BY DEF Tick, Crash, rows
  <2>3. ASSUME NEW w \in Workers PROVE ~Work(w)
    BY <2>3 DEF Work, SelectQueued, FindNothing, Claim, LoseClaim, Throw, Complete, Completed,
                FailJob, FailJobUnsaved, Bury, BuryNothing, rows, TypeOK
  <2>4. PICK r \in Recoverers : Recover(r)
    BY <2>1, <2>2, <2>3 DEF Next
  <2>5. RequeueJob(r)
    BY <2>4 DEF Recover, StartBatch, ReadLetter, LetterUnread, RequeueFails, MarkRequeued,
                MarkNothing, MarkFailed, MarkFailedUnsaved, rows
  <2> QED BY <2>5 DEF RequeueJob, RecoveryAt, TypeOK
<1> QED BY <1>1, TypeCorrect, PTL DEF Spec, WorkersRespectCancel

-----------------------------------------------------------------------------
(* Deadletters.                                                            *)

\* A requeue whose letter has yet to be marked.
Marking(l) == \E r \in Recoverers : recovery[r].pc = "mark" /\ recovery[r].letter = l

\* A letter that was not requeued, nor its job queued anew because of it.
Unused(l) == letters[l].recovery # "requeued" /\ ~Marking(l)

Burying(w, j) == task[w].pc = "bury" /\ task[w].job = j

\* FailedIsRecorded is not inductive: a letter that is about to be marked
\* does not count.
FailedHasLetter ==
    \A j \in Jobs : status[j] = "failed" =>
        \/ \E l \in DOMAIN letters : letters[l].job = j /\ Unused(l)
        \/ \E w \in Workers : Burying(w, j)
        \/ harm \intersect {"bury", "crash"} # {}

\* The parts of a step that touch only the recovery: they mark nothing.
LEMMA RecoveryStep ==
    ASSUME TypeOK, NEW r \in Recoverers,
           StartBatch(r) \/ ReadLetter(r) \/ LetterUnread(r) \/ RequeueFails(r)
    PROVE  /\ UNCHANGED <<status, letters, task, used>>
           /\ harm' = harm
           /\ \A l \in DOMAIN letters : Unused(l)' <=> Unused(l)
           /\ recovery[r].pc \notin {"mark", "punish"}
           /\ \A q \in Recoverers \ {r} : recovery'[q] = recovery[q]
<1>1. UNCHANGED <<status, letters, task, used>> /\ harm' = harm
  BY DEF StartBatch, ReadLetter, LetterUnread, RequeueFails, Fault, NoFault, rows, TypeOK
<1>2. /\ recovery[r].pc \notin {"mark", "punish"}
      /\ recovery'[r].pc # "mark"
      /\ \A q \in Recoverers \ {r} : recovery'[q] = recovery[q]
  <2>1. CASE StartBatch(r)
    BY <2>1 DEF StartBatch, Reading, TypeOK
  <2>2. CASE ReadLetter(r) \/ LetterUnread(r)
    BY <2>2 DEF ReadLetter, LetterUnread, Abort, Continue, Reading, Idle, TypeOK
  <2>3. CASE RequeueFails(r)
    BY <2>3 DEF RequeueFails, RecoveryAt, TypeOK
  <2> QED BY <2>1, <2>2, <2>3
<1> QED BY <1>1, <1>2 DEF Unused, Marking

\* A new letter is unused, and nothing else changes.
LEMMA BuryStep ==
    ASSUME TypeOK, NEW v \in Workers, Bury(v)
    PROVE  /\ UNCHANGED <<status, recovery, harm, used>>
           /\ task[v].pc = "bury" /\ task'[v].pc = "select"
           /\ \A w \in Workers \ {v} : task'[w] = task[w]
           /\ \A l \in DOMAIN letters : letters'[l] = letters[l] /\ (Unused(l)' <=> Unused(l))
           /\ \E new : /\ DOMAIN letters' = DOMAIN letters \union {new}
                       /\ new \notin DOMAIN letters
                       /\ letters'[new].job = task[v].job
                       /\ Unused(new)'
<1> DEFINE x == [job |-> task[v].job, recovery |-> "pending", tries |-> 0]
<1>1. PICK new : new = Len(letters) + 1
  OBVIOUS
<1>2. /\ UNCHANGED <<status, recovery, harm, used>>
      /\ letters' = Append(letters, x) /\ x \in Letters
      /\ task[v].pc = "bury" /\ task'[v].pc = "select"
      /\ \A w \in Workers \ {v} : task'[w] = task[w]
  BY DEF Bury, Becomes, Selecting, NoFault, rows, TypeOK, Letters
<1>3. /\ DOMAIN letters' = DOMAIN letters \union {new} /\ new \notin DOMAIN letters
      /\ letters'[new] = x
      /\ \A l \in DOMAIN letters : letters'[l] = letters[l]
  BY <1>1, <1>2, BuryFacts DEF TypeOK
<1>4. ~Marking(new)'
  BY <1>2, <1>3 DEF Marking, TypeOK
<1> QED BY <1>2, <1>3, <1>4 DEF Unused, Marking

\* The last step on a letter.
Finish(r) ==
    MarkRequeued(r) \/ MarkNothing(r) \/ MarkFailed(r) \/ MarkFailedUnsaved(r)

\* What it does to the letters.
LEMMA MarkStep ==
    ASSUME TypeOK, NEW r \in Recoverers, NEW m, m = recovery[r].letter,
           Finish(r)
    PROVE  /\ UNCHANGED <<status, task, used>> /\ harm \subseteq harm'
           /\ recovery'[r].pc \in {"idle", "read"}
           /\ \A q \in Recoverers \ {r} : recovery'[q] = recovery[q]
           /\ DOMAIN letters' = DOMAIN letters /\ m \in DOMAIN letters
           /\ \A l \in DOMAIN letters : letters'[l].job = letters[l].job
           /\ \A l \in DOMAIN letters \ {m} : letters'[l] = letters[l]
           /\ \A l \in DOMAIN letters : Unused(l) => Unused(l)'
           /\ \A l \in DOMAIN letters \ {m} : Unused(l)' => Unused(l)
           /\ MarkRequeued(r) => ~Unused(m)'
           /\ MarkNothing(r) => "mark" \in harm'
<1>1. /\ UNCHANGED <<status, task, used>> /\ harm \subseteq harm'
      /\ recovery'[r].pc \in {"idle", "read"}
      /\ \A q \in Recoverers \ {r} : recovery'[q] = recovery[q]
      /\ MarkNothing(r) => "mark" \in harm'
  BY DEF Finish, MarkRequeued, MarkNothing, MarkFailed, MarkFailedUnsaved, Abort, Continue,
         Reading, Idle, Fault, NoFault, rows, TypeOK
<1>2. m \in DOMAIN letters
  BY DEF Finish, MarkRequeued, MarkNothing, MarkFailed, MarkFailedUnsaved, TypeOK
<1>3. /\ DOMAIN letters' = DOMAIN letters
      /\ \A l \in DOMAIN letters : letters'[l].job = letters[l].job
      /\ \A l \in DOMAIN letters \ {m} : letters'[l] = letters[l]
      /\ \/ MarkRequeued(r) /\ letters'[m].recovery = "requeued"
         \/ ~MarkRequeued(r) /\ (letters[m].recovery # "requeued" => letters'[m].recovery # "requeued")
  <2>1. CASE MarkRequeued(r)
    <3> DEFINE x == Requeued(letters[m], recovery[r].tries + 1)
    <3>1. /\ letters' = [letters EXCEPT ![m] = x] /\ x \in Letters
          /\ x.job = letters[m].job /\ x.recovery = "requeued"
      BY <1>2, <2>1, LetterFacts DEF MarkRequeued, Requeued, Noted, TypeOK, Letters
    <3> QED BY <1>2, <2>1, <3>1, NoteFacts DEF TypeOK
  <2>2. CASE MarkNothing(r) \/ MarkFailedUnsaved(r)
    BY <1>2, <2>2, LetterFacts
       DEF MarkNothing, MarkFailedUnsaved, MarkRequeued, Fault, NoFault, TypeOK
  <2>3. CASE MarkFailed(r)
    <3> DEFINE tries == recovery[r].tries + 1
               x == Noted(letters[m], AfterFailedRequeue(tries), tries)
    <3>1. /\ letters' = [letters EXCEPT ![m] = x] /\ x \in Letters
          /\ x.job = letters[m].job /\ x.recovery # "requeued"
      BY <1>2, <2>3, LetterFacts DEF MarkFailed, AfterFailedRequeue, Noted, TypeOK, Letters
    <3>2. ~MarkRequeued(r)
      BY <2>3 DEF MarkFailed, MarkRequeued
    <3> QED BY <1>2, <3>1, <3>2, NoteFacts DEF TypeOK
  <2> QED BY <2>1, <2>2, <2>3 DEF Finish
<1>4. MarkRequeued(r) => Marking(m)
  BY DEF MarkRequeued, Marking
<1>5. /\ \A l \in DOMAIN letters : Unused(l) => Unused(l)'
      /\ \A l \in DOMAIN letters \ {m} : Unused(l)' => Unused(l)
  BY <1>1, <1>3, <1>4 DEF Unused, Marking
<1>6. MarkRequeued(r) => ~Unused(m)'
  BY <1>3 DEF Unused
<1> QED BY <1>1, <1>2, <1>3, <1>5, <1>6

\* A failed job can be recovered, whoever recovers deadletters and however their
\* requests interleave, unless a crash or a lost insert took its letter away.
THEOREM FailedCanBeRecovered == Spec => []FailedIsRecorded
<1>1. Init => FailedHasLetter
  BY DEF Init, FailedHasLetter
<1>2. TypeOK /\ FailedHasLetter /\ [Next]_vars => FailedHasLetter'
  <2> SUFFICES ASSUME TypeOK, FailedHasLetter, [Next]_vars,
                      NEW j \in Jobs, status'[j] = "failed",
                      harm' \intersect {"bury", "crash"} = {}
               PROVE  \/ \E l \in DOMAIN letters' : letters'[l].job = j /\ Unused(l)'
                      \/ \E w \in Workers : Burying(w, j)'
    BY DEF FailedHasLetter
  <2> DEFINE Recorded == \/ \E l \in DOMAIN letters' : letters'[l].job = j /\ Unused(l)'
                         \/ \E w \in Workers : Burying(w, j)'
  <2>1. CASE UNCHANGED vars
    BY <2>1 DEF vars, rows, FailedHasLetter, Unused, Marking, Burying
  <2>2. ASSUME status[j] = "failed", UNCHANGED <<letters, recovery>>, harm \subseteq harm',
               \A w \in Workers : task[w].pc = "bury" => task'[w] = task[w]
        PROVE  Recorded
    BY <2>2 DEF FailedHasLetter, Unused, Marking, Burying
  <2>3. ASSUME NEW k \in Jobs, QueueMemoryJob(k) \/ CancelMemoryJob(k) \/ BackoffEnds(k)
        PROVE  Recorded
    BY <2>2, <2>3 DEF QueueMemoryJob, CancelMemoryJob, BackoffEnds, NoFault, TypeOK
  <2>4. CASE Tick
    BY <2>2, <2>4 DEF Tick, NoFault, rows, TypeOK, Off
  <2>5. ASSUME NEW v \in Workers,
               SelectQueued(v) \/ FindNothing(v) \/ LoseClaim(v) \/ Throw(v)
        PROVE  Recorded
    BY <2>2, <2>5 DEF SelectQueued, FindNothing, LoseClaim, Throw, Leave, Becomes,
                      Fault, NoFault, rows, TypeOK
  <2>6. ASSUME NEW v \in Workers, Claim(v) \/ Complete(v)
        PROVE  Recorded
    BY <2>2, <2>6 DEF Claim, Complete, Completed, Becomes, NoFault, TypeOK
  <2>7. ASSUME NEW v \in Workers, FailJob(v)
        PROVE  Recorded
    <3>1. /\ UNCHANGED <<letters, recovery, harm>>
          /\ \A w \in Workers : task[w].pc = "bury" => task'[w] = task[w]
      BY <2>7 DEF FailJob, Becomes, NoFault, TypeOK
    <3>2. CASE status[j] = "failed"
      BY <2>2, <3>1, <3>2
    <3>3. CASE status[j] # "failed"
      <4>1. j = task[v].job /\ IsLastAttempt(v)
        BY <2>7, <3>3 DEF FailJob, FailureStatus, TypeOK
      <4> QED BY <2>7, <4>1 DEF FailJob, AfterFailure, At, Becomes, Burying, TypeOK
    <3> QED BY <3>2, <3>3
  <2>8. ASSUME NEW v \in Workers, FailJobUnsaved(v)
        PROVE  Recorded
    BY <2>2, <2>8 DEF FailJobUnsaved, Becomes, Fault, rows, TypeOK
  <2>9. ASSUME NEW v \in Workers, Bury(v)
        PROVE  Recorded
    <3>1. CASE j = task[v].job
      BY <2>9, <3>1, BuryStep
    <3>2. CASE j # task[v].job
      <4>1. \/ \E l \in DOMAIN letters : letters[l].job = j /\ Unused(l)
            \/ \E w \in Workers \ {v} : Burying(w, j)
        BY <2>9, <3>2, BuryStep DEF FailedHasLetter, Burying
      <4>2. /\ DOMAIN letters \subseteq DOMAIN letters'
            /\ \A l \in DOMAIN letters : letters'[l] = letters[l] /\ (Unused(l)' <=> Unused(l))
            /\ \A w \in Workers \ {v} : task'[w] = task[w]
        BY <2>9, BuryStep
      <4> QED BY <4>1, <4>2 DEF Burying
    <3> QED BY <3>1, <3>2
  <2>10. ASSUME NEW v \in Workers PROVE ~BuryNothing(v)
    BY <2>10 DEF BuryNothing, Fault
  <2>11. ASSUME NEW r \in Recoverers,
                StartBatch(r) \/ ReadLetter(r) \/ LetterUnread(r) \/ RequeueFails(r)
         PROVE  Recorded
    BY <2>11, RecoveryStep DEF FailedHasLetter, Burying
  <2>12. ASSUME NEW r \in Recoverers, RequeueJob(r)
         PROVE  Recorded
    <3> DEFINE m == recovery[r].letter
    <3>1. /\ UNCHANGED <<letters, task>> /\ harm \subseteq harm'
          /\ m \in DOMAIN letters /\ j # letters[m].job /\ status[j] = "failed"
          /\ recovery'[r].letter = m
          /\ \A q \in Recoverers \ {r} : recovery'[q] = recovery[q]
      BY <2>12, LetterFacts DEF RequeueJob, RecoveryAt, TypeOK
    <3>2. \A l \in DOMAIN letters \ {m} : Unused(l) => Unused(l)'
      BY <3>1 DEF Unused, Marking
    <3> QED BY <3>1, <3>2 DEF FailedHasLetter, Burying
  <2>13. ASSUME NEW r \in Recoverers, Finish(r)
         PROVE  Recorded
    <3>1. /\ UNCHANGED <<status, task>> /\ harm \subseteq harm'
          /\ DOMAIN letters' = DOMAIN letters
          /\ \A l \in DOMAIN letters : letters'[l].job = letters[l].job
          /\ \A l \in DOMAIN letters : Unused(l) => Unused(l)'
      BY <2>13, MarkStep
    <3> QED BY <3>1 DEF FailedHasLetter, Burying
  <2>14. ~Crash
    BY DEF Crash, Fault
  <2> QED
    BY <2>1, <2>3, <2>4, <2>5, <2>6, <2>7, <2>8, <2>9, <2>10, <2>11, <2>12, <2>13, <2>14
       DEF Next, Work, Recover, Finish
<1>3. FailedHasLetter => FailedIsRecorded
  BY DEF FailedHasLetter, FailedIsRecorded, Unused, Burying
<1> QED BY <1>1, <1>2, <1>3, TypeCorrect, PTL DEF Spec

-----------------------------------------------------------------------------
(* Ownership, whoever recovers deadletters.                                *)

\* No job was queued anew from the letter.
Fresh(l) == l \notin used

\* Nobody works on the job, and its row cannot be claimed.
Quiet(j) ==
    /\ status[j] \notin {"none", "queued"}
    /\ "fail" \notin harm => status[j] \in {"failed", "canceled"}
    /\ \A w \in Workers : ~Holds(w, j)

OwnersAreAlone ==
    \A j \in Jobs, w \in Workers : Holds(w, j) =>
        /\ status[j] \in {"running", "canceled"}
        /\ \A v \in Workers : Holds(v, j) => v = w

LettersAreQuiet == \A l \in DOMAIN letters : Fresh(l) => Quiet(letters[l].job)

LettersAreSingle ==
    \A k, l \in DOMAIN letters :
        Fresh(k) /\ Fresh(l) /\ letters[k].job = letters[l].job => k = l

BuriersAreAlone ==
    \A j \in Jobs, w \in Workers : Burying(w, j) =>
        /\ Quiet(j)
        /\ \A v \in Workers : Burying(v, j) => v = w
        /\ \A l \in DOMAIN letters : letters[l].job = j => ~Fresh(l)

Lossless == "twice" \notin harm

\* OneWorkerPerJob is not inductive: a job may be queued anew because its one
\* fresh letter shows that nobody works on it, and a letter is written only
\* where there is none.
Ownership ==
    Lossless => OwnersAreAlone /\ LettersAreQuiet /\ LettersAreSingle /\ BuriersAreAlone

\* A step that gives no worker a job, no worker a letter to write and no letter
\* back keeps the ownership, if a row becomes queued only where nobody is left.
LEMMA ReleaseStep ==
    ASSUME Ownership, harm \subseteq harm', DOMAIN letters' = DOMAIN letters,
           \A l \in DOMAIN letters :
              letters'[l].job = letters[l].job /\ (Lossless' /\ Fresh(l)' => Fresh(l)),
           \A w \in Workers, j \in Jobs :
              /\ Holds(w, j)' => Holds(w, j)
              /\ Burying(w, j)' => Burying(w, j),
           \A l \in DOMAIN letters : letters[l].job \in Jobs,
           \A j \in Jobs :
              \/ status'[j] = status[j]
              \/ status[j] \in {"queued", "running"} /\ status'[j] = "canceled"
              \/ Lossless' => /\ \A w \in Workers : ~Holds(w, j)' /\ ~Burying(w, j)'
                              /\ \A l \in DOMAIN letters :
                                    Fresh(l)' => letters'[l].job # j
    PROVE  Ownership'
<1> SUFFICES ASSUME Lossless'
             PROVE  (OwnersAreAlone /\ LettersAreQuiet /\ LettersAreSingle /\ BuriersAreAlone)'
  BY DEF Ownership
<1>1. Lossless /\ OwnersAreAlone /\ LettersAreQuiet /\ LettersAreSingle /\ BuriersAreAlone
  BY DEF Lossless, Ownership
<1>2. OwnersAreAlone'
  BY <1>1 DEF OwnersAreAlone
<1>3. ASSUME NEW j \in Jobs, Quiet(j),
             \/ \E w \in Workers : Burying(w, j)'
             \/ \E l \in DOMAIN letters : Fresh(l)' /\ letters'[l].job = j
      PROVE  Quiet(j)'
  BY <1>1, <1>3 DEF Quiet
<1>4. LettersAreQuiet'
  BY <1>1, <1>3 DEF LettersAreQuiet
<1>5. LettersAreSingle'
  BY <1>1 DEF LettersAreSingle
<1>6. BuriersAreAlone'
  BY <1>1, <1>3 DEF BuriersAreAlone
<1> QED BY <1>2, <1>4, <1>5, <1>6

LEMMA OwnershipStep ==
    ASSUME TypeOK, Ownership, [Next]_vars
    PROVE  Ownership'
<1>1. \A l \in DOMAIN letters : letters[l].job \in Jobs
  BY LetterFacts DEF TypeOK
<1>2. ASSUME UNCHANGED <<status, letters, used>>, harm \subseteq harm',
             \A w \in Workers : task'[w] = task[w] \/ task'[w].pc \notin {"work", "bury"}
      PROVE  Ownership'
  BY <1>1, <1>2, ReleaseStep DEF Fresh, Holds, Burying
<1>3. CASE UNCHANGED vars
  BY <1>2, <1>3 DEF vars, rows
<1>4. ASSUME NEW k \in Jobs, QueueMemoryJob(k) \/ CancelMemoryJob(k) \/ BackoffEnds(k)
      PROVE  Ownership'
  <2>1. UNCHANGED <<letters, used, task, harm>>
    BY <1>4 DEF QueueMemoryJob, CancelMemoryJob, BackoffEnds, NoFault
  <2>2. ASSUME NEW j \in Jobs
        PROVE  \/ status'[j] = status[j]
               \/ status[j] \in {"queued", "running"} /\ status'[j] = "canceled"
               \/ status[j] = "none"
    BY <1>4 DEF QueueMemoryJob, CancelMemoryJob, BackoffEnds, TypeOK
  <2>3. ASSUME Lossless, NEW j \in Jobs, status[j] = "none"
        PROVE  /\ \A w \in Workers : ~Holds(w, j)' /\ ~Burying(w, j)'
               /\ \A l \in DOMAIN letters : Fresh(l)' => letters'[l].job # j
    BY <2>1, <2>3 DEF Ownership, OwnersAreAlone, LettersAreQuiet, BuriersAreAlone, Quiet,
                      Holds, Burying, Fresh
  <2>4. \A l \in DOMAIN letters : Fresh(l)' <=> Fresh(l)
    BY <2>1 DEF Fresh
  <2>5. \A w \in Workers, j \in Jobs : (Holds(w, j)' <=> Holds(w, j)) /\ (Burying(w, j)' <=> Burying(w, j))
    BY <2>1 DEF Holds, Burying
  <2> QED BY <1>1, <2>1, <2>2, <2>3, <2>4, <2>5, ReleaseStep DEF Lossless
<1>5. CASE Tick
  BY <1>2, <1>5 DEF Tick, Selecting, NoFault, rows, TypeOK
<1>6. ASSUME NEW v \in Workers,
             SelectQueued(v) \/ FindNothing(v) \/ LoseClaim(v) \/ Throw(v) \/ BuryNothing(v)
      PROVE  Ownership'
  BY <1>2, <1>6 DEF SelectQueued, FindNothing, LoseClaim, Throw, BuryNothing, Leave, Becomes,
                    Off, Selecting, Fault, NoFault, rows, TypeOK
<1>7. ASSUME NEW v \in Workers, Claim(v)
      PROVE  Ownership'
  <2> SUFFICES ASSUME Lossless'
               PROVE  (OwnersAreAlone /\ LettersAreQuiet /\ LettersAreSingle /\ BuriersAreAlone)'
    BY DEF Ownership
  <2> DEFINE j == task[v].job
  <2>1. /\ j \in Jobs /\ status[j] = "queued" /\ status' = [status EXCEPT ![j] = "running"]
        /\ UNCHANGED <<letters, used, harm>>
        /\ task'[v].pc = "work" /\ task'[v].job = j /\ task[v].pc = "claim"
        /\ \A w \in Workers \ {v} : task'[w] = task[w]
    BY <1>7 DEF Claim, At, Becomes, NoFault, TypeOK
  <2>2. OwnersAreAlone /\ LettersAreQuiet /\ LettersAreSingle /\ BuriersAreAlone
    BY <2>1 DEF Lossless, Ownership
  <2>3. \A l \in DOMAIN letters : Fresh(l)' <=> Fresh(l)
    BY <2>1 DEF Fresh
  <2>4. /\ \A w \in Workers, k \in Jobs : Burying(w, k)' <=> Burying(w, k)
        /\ \A w \in Workers, k \in Jobs : Holds(w, k)' <=> Holds(w, k) \/ (w = v /\ k = task[v].job)
    BY <2>1 DEF Burying, Holds
  <2>5. ASSUME NEW k \in Jobs, Quiet(k) PROVE k # j /\ Quiet(k)'
    BY <2>1, <2>4, <2>5 DEF Quiet, TypeOK
  <2>6. OwnersAreAlone'
    BY <2>1, <2>2, <2>4 DEF OwnersAreAlone, TypeOK
  <2>7. LettersAreQuiet' /\ LettersAreSingle'
    BY <1>1, <2>1, <2>2, <2>3, <2>5 DEF LettersAreQuiet, LettersAreSingle
  <2>8. BuriersAreAlone'
    BY <2>1, <2>2, <2>3, <2>4, <2>5 DEF BuriersAreAlone
  <2> QED BY <2>6, <2>7, <2>8
<1>8. ASSUME NEW v \in Workers, NEW i \in Jobs, Holds(v, i), task'[v].pc = "select",
             UNCHANGED <<letters, used>>, harm \subseteq harm',
             \A w \in Workers \ {v} : task'[w] = task[w],
             \A j \in Jobs : j # i => status'[j] = status[j]
      PROVE  Ownership'
  <2>1. \A l \in DOMAIN letters : Fresh(l)' <=> Fresh(l)
    BY <1>8 DEF Fresh
  <2>2. \A w \in Workers, j \in Jobs :
           /\ Holds(w, j)' <=> Holds(w, j) /\ w # v
           /\ Burying(w, j)' <=> Burying(w, j)
    BY <1>8 DEF Holds, Burying
  <2>3. Lossless => /\ \A w \in Workers : ~Holds(w, i)' /\ ~Burying(w, i)'
                    /\ \A l \in DOMAIN letters : Fresh(l)' => letters'[l].job # i
    BY <1>8, <2>1, <2>2
       DEF Ownership, OwnersAreAlone, LettersAreQuiet, BuriersAreAlone, Quiet
  <2> QED BY <1>1, <1>8, <2>1, <2>2, <2>3, ReleaseStep DEF Lossless
<1>9. ASSUME NEW v \in Workers, NEW i \in Jobs, Holds(v, i),
             task'[v].pc = "bury", task'[v].job = i,
             UNCHANGED <<letters, used>>, harm \subseteq harm',
             \A w \in Workers \ {v} : task'[w] = task[w],
             \A j \in Jobs : j # i => status'[j] = status[j],
             status[i] \in {"running", "canceled"} =>
                /\ status'[i] \notin {"none", "queued"}
                /\ "fail" \notin harm' => status'[i] \in {"failed", "canceled"}
      PROVE  Ownership'
  <2> SUFFICES ASSUME Lossless'
               PROVE  (OwnersAreAlone /\ LettersAreQuiet /\ LettersAreSingle /\ BuriersAreAlone)'
    BY DEF Ownership
  <2>1. OwnersAreAlone /\ LettersAreQuiet /\ LettersAreSingle /\ BuriersAreAlone
    BY <1>9 DEF Lossless, Ownership
  <2>2. \A l \in DOMAIN letters : Fresh(l)' <=> Fresh(l)
    BY <1>9 DEF Fresh
  <2>3. \A w \in Workers, j \in Jobs :
           /\ Holds(w, j)' <=> Holds(w, j) /\ w # v
           /\ Burying(w, j)' <=> Burying(w, j) \/ (w = v /\ j = i)
    BY <1>9 DEF Holds, Burying
  <2>4. /\ ~Quiet(i)
        /\ \A w \in Workers \ {v} : ~Holds(w, i)
        /\ status[i] \in {"running", "canceled"}
    BY <1>9, <2>1 DEF OwnersAreAlone, Quiet
  <2>5. ASSUME NEW j \in Jobs, Quiet(j) PROVE j # i /\ Quiet(j)'
    BY <1>9, <2>3, <2>4, <2>5 DEF Quiet
  <2>6. Quiet(i)'
    BY <1>9, <2>3, <2>4 DEF Quiet
  <2>7. OwnersAreAlone'
    BY <1>9, <2>1, <2>3, <2>4 DEF OwnersAreAlone
  <2>8. LettersAreQuiet' /\ LettersAreSingle'
    BY <1>1, <1>9, <2>1, <2>2, <2>5 DEF LettersAreQuiet, LettersAreSingle
  <2>9. ASSUME NEW j \in Jobs, NEW w \in Workers, Burying(w, j)'
        PROVE  /\ Quiet(j)'
               /\ \A u \in Workers : Burying(u, j)' => u = w
               /\ \A l \in DOMAIN letters : letters'[l].job = j => ~Fresh(l)'
    <3>1. CASE j = i
      BY <1>9, <2>1, <2>2, <2>3, <2>4, <2>6, <2>9, <3>1 DEF LettersAreQuiet, BuriersAreAlone
    <3>2. CASE j # i
      BY <1>9, <2>1, <2>2, <2>3, <2>5, <2>9, <3>2 DEF BuriersAreAlone
    <3> QED BY <3>1, <3>2
  <2>10. BuriersAreAlone'
    BY <1>9, <2>9 DEF BuriersAreAlone
  <2> QED BY <2>7, <2>8, <2>10
<1>10. ASSUME NEW v \in Workers, Complete(v) \/ FailJob(v) \/ FailJobUnsaved(v)
       PROVE  Ownership'
  <2>1. PICK i \in Jobs : Holds(v, i) /\ i = task[v].job
    BY <1>10 DEF Complete, FailJob, FailJobUnsaved, Holds, TypeOK
  <2>2. /\ UNCHANGED <<letters, used>> /\ harm \subseteq harm'
        /\ \A w \in Workers \ {v} : task'[w] = task[w]
        /\ \A j \in Jobs : j # i => status'[j] = status[j]
    BY <1>10, <2>1 DEF Complete, Completed, FailJob, FailJobUnsaved, Becomes, Fault, NoFault,
                       rows, TypeOK
  <2>3. CASE Complete(v)
    <3>1. task'[v].pc = "select"
      BY <2>3 DEF Complete, Becomes, Selecting, TypeOK
    <3> QED BY <1>8, <2>1, <2>2, <3>1
  <2>4. CASE ~IsLastAttempt(v) /\ ~Complete(v)
    <3>1. task'[v].pc = "select"
      BY <1>10, <2>4 DEF FailJob, FailJobUnsaved, AfterFailure, Becomes, Selecting, TypeOK
    <3> QED BY <1>8, <2>1, <2>2, <3>1
  <2>5. CASE IsLastAttempt(v) /\ ~Complete(v)
    <3>1. task'[v].pc = "bury" /\ task'[v].job = i
      BY <1>10, <2>1, <2>5 DEF FailJob, FailJobUnsaved, AfterFailure, At, Becomes, TypeOK
    <3>2. status[i] \in {"running", "canceled"} =>
             /\ status'[i] \notin {"none", "queued"}
             /\ "fail" \notin harm' => status'[i] \in {"failed", "canceled"}
      BY <1>10, <2>1, <2>5 DEF FailJob, FailJobUnsaved, FailureStatus, Fault, rows, TypeOK
    <3> QED BY <1>9, <2>1, <2>2, <3>1, <3>2
  <2> QED BY <2>3, <2>4, <2>5
<1>11. ASSUME NEW v \in Workers, Bury(v)
       PROVE  Ownership'
  <2> SUFFICES ASSUME Lossless'
               PROVE  (OwnersAreAlone /\ LettersAreQuiet /\ LettersAreSingle /\ BuriersAreAlone)'
    BY DEF Ownership
  <2>1. /\ UNCHANGED <<status, used, harm>>
        /\ task[v].pc = "bury" /\ task'[v].pc = "select"
        /\ \A w \in Workers \ {v} : task'[w] = task[w]
        /\ \A l \in DOMAIN letters : letters'[l] = letters[l] /\ (Fresh(l)' <=> Fresh(l))
    BY <1>11, BuryStep DEF Fresh
  <2>2. PICK i \in Jobs : Burying(v, i) /\ i = task[v].job
    BY <2>1 DEF Burying, TypeOK
  <2>3. PICK new : /\ DOMAIN letters' = DOMAIN letters \union {new}
                   /\ new \notin DOMAIN letters
                   /\ letters'[new].job = i
    BY <1>11, <2>2, BuryStep
  <2>4. OwnersAreAlone /\ LettersAreQuiet /\ LettersAreSingle /\ BuriersAreAlone
    BY <2>1 DEF Lossless, Ownership
  <2>5. \A w \in Workers, j \in Jobs :
           /\ Holds(w, j)' <=> Holds(w, j)
           /\ Burying(w, j)' <=> Burying(w, j) /\ w # v
    BY <2>1 DEF Holds, Burying
  <2>6. /\ Quiet(i)
        /\ \A w \in Workers : Burying(w, i) => w = v
        /\ \A l \in DOMAIN letters : letters[l].job = i => ~Fresh(l)
    BY <2>2, <2>4 DEF BuriersAreAlone
  <2>7. ASSUME NEW j \in Jobs, Quiet(j) PROVE Quiet(j)'
    BY <2>1, <2>5, <2>7 DEF Quiet
  <2>8. OwnersAreAlone'
    BY <2>1, <2>4, <2>5 DEF OwnersAreAlone
  <2>9. LettersAreQuiet' /\ LettersAreSingle'
    BY <1>1, <2>1, <2>3, <2>4, <2>6, <2>7 DEF LettersAreQuiet, LettersAreSingle
  <2>10. BuriersAreAlone'
    BY <2>1, <2>3, <2>4, <2>5, <2>6, <2>7 DEF BuriersAreAlone
  <2> QED BY <2>8, <2>9, <2>10
<1>12. ASSUME NEW r \in Recoverers,
              StartBatch(r) \/ ReadLetter(r) \/ LetterUnread(r) \/ RequeueFails(r)
       PROVE  Ownership'
  <2>1. UNCHANGED <<status, letters, task, used>> /\ harm' = harm
    BY <1>12, RecoveryStep
  <2> QED BY <1>2, <2>1
<1>13. ASSUME NEW r \in Recoverers, RequeueJob(r)
       PROVE  Ownership'
  <2>1. PICK m \in DOMAIN letters : m = recovery[r].letter
    BY <1>13 DEF RequeueJob, TypeOK
  <2>2. PICK i \in Jobs : i = letters[m].job
    BY <1>1
  <2>3. /\ UNCHANGED <<letters, task>> /\ harm \subseteq harm'
        /\ used' = used \union {m}
        /\ m \in used => ~Lossless'
        /\ \A j \in Jobs : j # i => status'[j] = status[j]
    BY <1>13, <2>1, <2>2 DEF RequeueJob, Lossless, TypeOK
  <2>4. /\ ~Fresh(m)' /\ (Lossless' => Fresh(m))
        /\ \A l \in DOMAIN letters : Fresh(l)' => Fresh(l)
    BY <2>3 DEF Fresh
  <2>5. Lossless' => Lossless
    BY <2>3 DEF Lossless
  <2>6. Lossless' => /\ \A w \in Workers : ~Holds(w, i)' /\ ~Burying(w, i)'
                     /\ \A l \in DOMAIN letters : Fresh(l)' => letters'[l].job # i
    BY <2>1, <2>2, <2>3, <2>4, <2>5
       DEF Ownership, LettersAreQuiet, LettersAreSingle, BuriersAreAlone, Quiet, Holds, Burying
  <2>7. \A w \in Workers, j \in Jobs : (Holds(w, j)' <=> Holds(w, j)) /\ (Burying(w, j)' <=> Burying(w, j))
    BY <2>3 DEF Holds, Burying
  <2> QED BY <1>1, <2>3, <2>4, <2>6, <2>7, ReleaseStep
<1>14. ASSUME NEW r \in Recoverers, Finish(r)
       PROVE  Ownership'
  <2>1. /\ UNCHANGED <<status, task, used>> /\ harm \subseteq harm'
        /\ DOMAIN letters' = DOMAIN letters
        /\ \A l \in DOMAIN letters : letters'[l].job = letters[l].job
    BY <1>14, MarkStep
  <2>2. \A l \in DOMAIN letters : Fresh(l)' => Fresh(l)
    BY <2>1 DEF Fresh
  <2> QED BY <1>1, <2>1, <2>2, ReleaseStep DEF Holds, Burying
<1>15. CASE Crash
  BY <1>2, <1>15 DEF Crash, Fault, Off, rows
<1> QED
  BY <1>3, <1>4, <1>5, <1>6, <1>7, <1>10, <1>11, <1>12, <1>13, <1>14, <1>15
     DEF Next, Work, Recover, Finish

\* No job is ever worked on by two workers, and none whose row may be claimed,
\* whatever was read before the claims and whoever recovers deadletters, until a
\* letter is used twice.
THEOREM OwnersAreUnique == Spec => []OneWorkerPerJob
<1>1. Init => Ownership
  BY DEF Init, Off, Ownership, OwnersAreAlone, LettersAreQuiet, LettersAreSingle,
         BuriersAreAlone, Holds, Burying
<1>2. TypeOK /\ Ownership /\ [Next]_vars => Ownership'
  BY OwnershipStep
<1>3. Ownership => OneWorkerPerJob
  BY DEF Ownership, Lossless, OwnersAreAlone, OneWorkerPerJob
<1> QED BY <1>1, <1>2, <1>3, TypeCorrect, PTL DEF Spec

\* What is queued anew, by whichever recoverer, has ended and has no worker left,
\* until a letter is used twice.
THEOREM OnlyEndedJobsRecover == Spec => RecoversOnlyEndedJobs
<1>1. Init => Ownership
  BY DEF Init, Off, Ownership, OwnersAreAlone, LettersAreQuiet, LettersAreSingle,
         BuriersAreAlone, Holds, Burying
<1>2. TypeOK /\ Ownership /\ [Next]_vars => Ownership'
  BY OwnershipStep
<1>3. TypeOK /\ Ownership /\ [Next]_vars =>
         [\A r \in Recoverers, j \in Jobs :
             /\ recovery[r].pc = "requeue" /\ recovery'[r].pc = "mark"
             /\ j = letters[recovery[r].letter].job
             /\ "twice" \notin harm'
             => /\ \A w \in Workers : ~Holds(w, j)
                /\ status[j] \in {"failed", "canceled"} \/ "fail" \in harm]_vars
  <2> SUFFICES ASSUME TypeOK, Ownership, Next,
                      NEW r \in Recoverers, NEW j \in Jobs,
                      recovery[r].pc = "requeue", recovery'[r].pc = "mark",
                      j = letters[recovery[r].letter].job, "twice" \notin harm'
               PROVE  /\ \A w \in Workers : ~Holds(w, j)
                      /\ status[j] \in {"failed", "canceled"} \/ "fail" \in harm
    OBVIOUS
  <2>1. RequeueJob(r)
    <3>1. ASSUME NEW q \in Recoverers, Recover(q), q # r PROVE recovery'[r] = recovery[r]
      BY <3>1 DEF Recover, StartBatch, ReadLetter, LetterUnread, RequeueJob, RequeueFails,
                  MarkRequeued, MarkNothing, MarkFailed, MarkFailedUnsaved, RecoveryAt,
                  Abort, Continue, TypeOK
    <3>2. ASSUME NEW w \in Workers, Work(w) PROVE recovery' = recovery
      BY <3>2 DEF Work, SelectQueued, FindNothing, Claim, LoseClaim, Throw, Complete,
                  FailJob, FailJobUnsaved, Bury, BuryNothing
    <3>3. ASSUME NEW k \in Jobs, QueueMemoryJob(k) \/ CancelMemoryJob(k) \/ BackoffEnds(k)
          PROVE  recovery' = recovery
      BY <3>3 DEF QueueMemoryJob, CancelMemoryJob, BackoffEnds
    <3>4. Tick => recovery' = recovery
      BY DEF Tick
    <3>5. Crash => recovery'[r].pc # "mark"
      BY DEF Crash, Idle
    <3>6. Recover(r)
      BY <3>1, <3>2, <3>3, <3>4, <3>5 DEF Next
    <3>7. ~(StartBatch(r) \/ ReadLetter(r) \/ LetterUnread(r) \/ Finish(r))
      BY DEF StartBatch, ReadLetter, LetterUnread, Finish, MarkRequeued, MarkNothing,
             MarkFailed, MarkFailedUnsaved
    <3>8. RequeueFails(r) => recovery'[r].pc = "punish"
      BY DEF RequeueFails, RecoveryAt, TypeOK
    <3> QED BY <3>6, <3>7, <3>8 DEF Recover, Finish
  <2>2. PICK l \in DOMAIN letters : l = recovery[r].letter
    BY DEF TypeOK
  <2>3. Fresh(l) /\ Lossless
    BY <2>1, <2>2 DEF RequeueJob, Fresh, Lossless
  <2> QED BY <2>2, <2>3 DEF Ownership, LettersAreQuiet, Quiet
<1> QED BY <1>1, <1>2, <1>3, TypeCorrect, PTL DEF Spec, RecoversOnlyEndedJobs

-----------------------------------------------------------------------------
(* One recoverer.                                                          *)

\* What a recovery is about to requeue was not requeued.
RecoveryIsFresh ==
    \A r \in Recoverers : recovery[r].pc \in {"requeue", "punish"} =>
        letters[recovery[r].letter].recovery # "requeued"

\* What is read as not requeued stays so until the one recovery marks it.
LEMMA FreshStep ==
    ASSUME Recoverers \subseteq {"tick"}, TypeOK, RecoveryIsFresh, [Next]_vars
    PROVE  RecoveryIsFresh'
<1>1. CASE UNCHANGED <<letters, recovery>>
  BY <1>1 DEF RecoveryIsFresh
<1>2. ASSUME NEW j \in Jobs, QueueMemoryJob(j) \/ CancelMemoryJob(j) \/ BackoffEnds(j)
      PROVE  RecoveryIsFresh'
  BY <1>1, <1>2 DEF QueueMemoryJob, CancelMemoryJob, BackoffEnds
<1>3. ASSUME NEW w \in Workers, Work(w), ~Bury(w) PROVE RecoveryIsFresh'
  BY <1>1, <1>3 DEF Work, SelectQueued, FindNothing, Claim, LoseClaim, Throw, Complete,
                    FailJob, FailJobUnsaved, BuryNothing
<1>4. ASSUME NEW w \in Workers, Bury(w) PROVE RecoveryIsFresh'
  <2>1. recovery' = recovery /\ \A l \in DOMAIN letters : letters'[l] = letters[l]
    BY <1>4, BuryStep
  <2> QED BY <2>1 DEF RecoveryIsFresh, TypeOK
<1>5. ASSUME NEW r \in Recoverers, StartBatch(r) PROVE RecoveryIsFresh'
  <2>1. /\ UNCHANGED letters /\ recovery'[r].pc = "read"
        /\ \A q \in Recoverers \ {r} : recovery'[q] = recovery[q]
    BY <1>5 DEF StartBatch, Reading, TypeOK
  <2> QED BY <2>1 DEF RecoveryIsFresh
<1>6. ASSUME NEW r \in Recoverers, ReadLetter(r) \/ LetterUnread(r) PROVE RecoveryIsFresh'
  <2>1. /\ UNCHANGED letters
        /\ recovery'[r].pc \in {"requeue", "punish"} =>
              letters[recovery'[r].letter].recovery # "requeued"
    <3>1. CASE ReadLetter(r)
      <4>1. PICK l \in recovery[r].batch :
               IF letters[l].recovery = "requeued"
               THEN Abort(r, recovery[r].batch \ {l})
               ELSE recovery' = [recovery EXCEPT ![r] =
                       [pc |-> "requeue", batch |-> recovery[r].batch \ {l},
                        letter |-> l, tries |-> letters[l].tries]]
        BY <3>1 DEF ReadLetter
      <4>2. UNCHANGED letters
        BY <3>1 DEF ReadLetter
      <4> QED BY <4>1, <4>2 DEF Abort, Continue, Reading, Idle, TypeOK
    <3>2. CASE LetterUnread(r)
      BY <3>2 DEF LetterUnread, Abort, Continue, Reading, Idle, TypeOK
    <3> QED BY <1>6, <3>1, <3>2
  <2> QED BY <2>1 DEF RecoveryIsFresh
<1>8. ASSUME NEW r \in Recoverers, RequeueJob(r) \/ RequeueFails(r) PROVE RecoveryIsFresh'
  <2>1. /\ UNCHANGED letters /\ recovery[r].pc = "requeue"
        /\ recovery'[r].letter = recovery[r].letter
        /\ \A q \in Recoverers \ {r} : recovery'[q] = recovery[q]
    BY <1>8 DEF RequeueJob, RequeueFails, RecoveryAt, TypeOK
  <2> QED BY <2>1 DEF RecoveryIsFresh
<1>9. ASSUME NEW r \in Recoverers, Finish(r)
      PROVE  RecoveryIsFresh'
  <2>1. recovery'[r].pc \in {"idle", "read"}
    BY <1>9, MarkStep
  <2> QED BY <2>1 DEF RecoveryIsFresh
<1>10. CASE Tick \/ Crash
  <2>1. CASE Tick
    BY <1>1, <2>1 DEF Tick
  <2>2. CASE Crash
    BY <2>2 DEF Crash, Idle, RecoveryIsFresh
  <2> QED BY <1>10, <2>1, <2>2
<1>11. ASSUME NEW r \in Recoverers, Recover(r) PROVE RecoveryIsFresh'
  BY <1>5, <1>6, <1>8, <1>9, <1>11 DEF Recover, Finish
<1>12. CASE UNCHANGED vars
  BY <1>1, <1>12 DEF vars
<1> QED
  BY <1>2, <1>3, <1>4, <1>10, <1>11, <1>12 DEF Next

\* The letters that were used are marked or about to be, and none was used twice.
UsedIsMarked ==
    harm \intersect {"mark", "crash"} = {} =>
        /\ "twice" \notin harm
        /\ \A l \in used : ~Unused(l)

\* No second recoverer comes between a requeue and its mark.
LEMMA MarkedStep ==
    ASSUME Recoverers \subseteq {"tick"}, TypeOK, RecoveryIsFresh, UsedIsMarked, [Next]_vars
    PROVE  UsedIsMarked'
<1>1. ASSUME UNCHANGED used, harm \subseteq harm', "twice" \in harm' => "twice" \in harm,
             \A l \in used : Unused(l)' =>
                Unused(l) \/ harm' \intersect {"mark", "crash"} # {}
      PROVE  UsedIsMarked'
  BY <1>1 DEF UsedIsMarked
<1>2. CASE UNCHANGED vars
  BY <1>1, <1>2 DEF vars, Unused, Marking
<1>3. ASSUME UNCHANGED <<letters, recovery, used>>, harm \subseteq harm',
             "twice" \in harm' => "twice" \in harm
      PROVE  UsedIsMarked'
  BY <1>1, <1>3 DEF Unused, Marking
<1>4. ASSUME NEW j \in Jobs, QueueMemoryJob(j) \/ CancelMemoryJob(j) \/ BackoffEnds(j)
      PROVE  UsedIsMarked'
  BY <1>3, <1>4 DEF QueueMemoryJob, CancelMemoryJob, BackoffEnds, NoFault
<1>5. CASE Tick
  BY <1>3, <1>5 DEF Tick, NoFault
<1>6. ASSUME NEW w \in Workers, Work(w), ~Bury(w) PROVE UsedIsMarked'
  BY <1>3, <1>6 DEF Work, SelectQueued, FindNothing, Claim, LoseClaim, Throw, Complete,
                    FailJob, FailJobUnsaved, BuryNothing, Fault, NoFault
<1>7. ASSUME NEW w \in Workers, Bury(w) PROVE UsedIsMarked'
  <2>1. /\ UNCHANGED <<used, harm>>
        /\ \A l \in DOMAIN letters : Unused(l)' <=> Unused(l)
    BY <1>7, BuryStep
  <2> QED BY <1>1, <2>1 DEF TypeOK
<1>8. ASSUME NEW r \in Recoverers,
             StartBatch(r) \/ ReadLetter(r) \/ LetterUnread(r) \/ RequeueFails(r)
      PROVE  UsedIsMarked'
  <2>1. /\ UNCHANGED <<used, harm>>
        /\ \A l \in DOMAIN letters : Unused(l)' <=> Unused(l)
    BY <1>8, RecoveryStep
  <2> QED BY <1>1, <2>1 DEF TypeOK
<1>9. ASSUME NEW r \in Recoverers, RequeueJob(r) PROVE UsedIsMarked'
  <2>1. PICK m \in DOMAIN letters : m = recovery[r].letter
    BY <1>9 DEF RequeueJob, TypeOK
  <2>2. /\ UNCHANGED letters /\ used' = used \union {m}
        /\ harm' = harm \union IF m \in used THEN {"twice"} ELSE {}
        /\ recovery[r].pc = "requeue"
        /\ recovery'[r].pc = "mark" /\ recovery'[r].letter = m
        /\ \A q \in Recoverers : q = r
    BY <1>9, <2>1 DEF RequeueJob, RecoveryAt, TypeOK
  <2>3. Unused(m)
    BY <2>1, <2>2 DEF RecoveryIsFresh, Unused, Marking
  <2>4. ~Unused(m)' /\ \A l \in used : Unused(l)' => Unused(l)
    BY <2>2 DEF Unused, Marking
  <2> QED BY <2>2, <2>3, <2>4 DEF UsedIsMarked
<1>10. ASSUME NEW r \in Recoverers, Finish(r) PROVE UsedIsMarked'
  <2>1. PICK m : m = recovery[r].letter
    OBVIOUS
  <2>2. /\ UNCHANGED used /\ harm \subseteq harm'
        /\ \A l \in DOMAIN letters \ {m} : Unused(l)' => Unused(l)
        /\ MarkRequeued(r) => ~Unused(m)'
        /\ MarkNothing(r) => "mark" \in harm'
    BY <1>10, <2>1, MarkStep
  <2>3. "twice" \in harm' => "twice" \in harm
    BY <1>10 DEF Finish, MarkRequeued, MarkNothing, MarkFailed, MarkFailedUnsaved,
                 Fault, NoFault
  <2>4. MarkFailed(r) \/ MarkFailedUnsaved(r) => Unused(m)
    BY <2>1 DEF MarkFailed, MarkFailedUnsaved, RecoveryIsFresh, Unused, Marking
  <2> QED BY <1>1, <1>10, <2>2, <2>3, <2>4 DEF Finish, TypeOK
<1>11. CASE Crash
  BY <1>11 DEF Crash, Fault, UsedIsMarked
<1> QED
  BY <1>2, <1>4, <1>5, <1>6, <1>7, <1>8, <1>9, <1>10, <1>11 DEF Next, Recover, Finish

\* With recoveryTick as the only recoverer, a letter is used twice only after a
\* crash or a lost mark: with OwnersAreUnique and OnlyEndedJobsRecover, nothing
\* else then gives a job two workers or starts over one that has not ended.
THEOREM TickUsesLettersOnce ==
    ASSUME Recoverers \subseteq {"tick"}
    PROVE  Spec => [](harm \intersect {"mark", "crash"} = {} => "twice" \notin harm)
<1>1. Init => RecoveryIsFresh /\ UsedIsMarked
  BY DEF Init, Idle, RecoveryIsFresh, UsedIsMarked
<1>2. TypeOK /\ RecoveryIsFresh /\ UsedIsMarked /\ [Next]_vars
         => (RecoveryIsFresh /\ UsedIsMarked)'
  BY FreshStep, MarkedStep
<1>3. UsedIsMarked => (harm \intersect {"mark", "crash"} = {} => "twice" \notin harm)
  BY DEF UsedIsMarked
<1> QED BY <1>1, <1>2, <1>3, TypeCorrect, PTL DEF Spec
=============================================================================
