----------------------------- MODULE MemoryJobs -----------------------------
(***************************************************************************)
(* The memory job queue of src/services/memory/memoryJobRunner.ts: rows of *)
(* memory_jobs and memory_job_deadletters in the database, the workers of  *)
(* the polling tick, the recovery of deadletters, and an administrator who *)
(* cancels.  Every request to the database is a step of its own, so what a *)
(* worker or a recovery has read may be stale when it writes.              *)
(*                                                                         *)
(* A request that is answered with an error has had no effect.  What a job *)
(* computes, timestamps and statistics are left out; next_attempt_at is    *)
(* `due`.                                                                  *)
(***************************************************************************)
EXTENDS Naturals, Sequences, FiniteSets

CONSTANTS
    NumJobs,             \* bound on the jobs that are queued
    Workers,             \* names for the workers of ticks
    Concurrency,         \* MEMORY_JOBS_CONCURRENCY
    MaxRetries,          \* MEMORY_JOBS_MAX_RETRIES
    MaxRecoveryAttempts, \* MEMORY_DEADLETTER_MAX_RECOVERY_ATTEMPTS
    BatchSize,           \* MEMORY_DEADLETTER_RECOVERY_BATCH_SIZE
    Recoverers,          \* who recovers deadletters: "tick", "cron", "admin"
    Faulty,              \* the requests that may be answered with an error
    MaxFaults,           \* bound on such answers and on crashes
    MaxLetters           \* bound on the deadletters

ASSUME ConstantsAssumption ==
    /\ {NumJobs, MaxFaults, MaxLetters} \subseteq Nat
    /\ {Concurrency, MaxRetries, MaxRecoveryAttempts, BatchSize} \subseteq Nat \ {0}
    /\ Recoverers \subseteq {"tick", "cron", "admin"}
    /\ Faulty \subseteq {"select", "claim", "fail", "bury", "read", "requeue", "mark",
                   "punish", "crash"}

VARIABLES
    status, attempts, due, \* the rows of memory_jobs, by order of creation
    letters,               \* the rows of memory_job_deadletters, in order
    task,                  \* what each worker does, and what it has read
    crew,                  \* the workers the tick awaits; inFlight is crew # {}
    recovery,              \* what each recoverer does, and what it has read
    faults,                \* how many faults there have been
    harm,                  \* what is lost by faults, and "twice": see RequeueJob
    used                   \* history: the letters whose jobs were queued anew

rows == <<status, attempts, due>>
vars == <<rows, letters, task, crew, recovery, faults, harm, used>>

Jobs == 1..NumJobs
Statuses == {"none", "queued", "running", "completed", "failed", "canceled"}
Letters == [job : Jobs, recovery : {"pending", "requeued", "ignored"}, tries : Nat]

Off == [pc |-> "off", job |-> 0, attempt |-> 0]
Selecting == [pc |-> "select", job |-> 0, attempt |-> 0]
Idle == [pc |-> "idle", batch |-> {}, letter |-> 0, tries |-> 0]
Reading(batch) == [pc |-> "read", batch |-> batch, letter |-> 0, tries |-> 0]

\* Rows and deadletters hold only the statuses the tables allow, and a worker or a
\* recovery works on rows that exist.
TypeOK ==
    /\ status \in [Jobs -> Statuses]
    /\ attempts \in [Jobs -> Nat]
    /\ due \in [Jobs -> BOOLEAN]
    /\ letters \in Seq(Letters)
    /\ task \in [Workers -> [pc : {"off", "select", "claim", "work", "bury"},
                            job : {0} \union Jobs, attempt : Nat]]
    /\ \A w \in Workers : task[w].pc \in {"claim", "work", "bury"} => task[w].job \in Jobs
    /\ crew \subseteq Workers
    /\ recovery \in [Recoverers -> [pc : {"idle", "read", "requeue", "mark", "punish"},
                                    batch : SUBSET DOMAIN letters,
                                    letter : {0} \union DOMAIN letters, tries : Nat]]
    /\ \A r \in Recoverers :
          recovery[r].pc \in {"requeue", "mark", "punish"} => recovery[r].letter \in DOMAIN letters
    /\ faults \in 0..MaxFaults
    /\ harm \subseteq {"fail", "bury", "mark", "crash", "twice"}
    /\ used \subseteq DOMAIN letters

Init ==
    /\ status = [j \in Jobs |-> "none"]
    /\ attempts = [j \in Jobs |-> 0]
    /\ due = [j \in Jobs |-> FALSE]
    /\ letters = <<>>
    /\ task = [w \in Workers |-> Off]
    /\ crew = {}
    /\ recovery = [r \in Recoverers |-> Idle]
    /\ faults = 0
    /\ harm = {}
    /\ used = {}

\* A request of this kind is answered with an error; losses are remembered.
Fault(kind) ==
    /\ kind \in Faulty
    /\ faults < MaxFaults
    /\ faults' = faults + 1
    /\ harm' = harm \union ({kind} \intersect {"fail", "bury", "mark", "crash"})
    /\ UNCHANGED used
NoFault == UNCHANGED <<faults, harm, used>>

-----------------------------------------------------------------------------
(* Jobs.                                                                   *)

\* queueMemoryJob.
QueueMemoryJob(j) ==
    /\ status[j] = "none"
    /\ \A k \in 1..(j - 1) : status[k] # "none"
    /\ status' = [status EXCEPT ![j] = "queued"]
    /\ due' = [due EXCEPT ![j] = TRUE]
    /\ UNCHANGED <<attempts, letters, task, crew, recovery>> /\ NoFault

\* cancelMemoryJob; one that is neither queued nor running is refused.
CancelMemoryJob(j) ==
    /\ status[j] \in {"queued", "running"}
    /\ status' = [status EXCEPT ![j] = "canceled"]
    /\ UNCHANGED <<attempts, due, letters, task, crew, recovery>> /\ NoFault

\* next_attempt_at has passed.
BackoffEnds(j) ==
    /\ status[j] = "queued" /\ ~due[j]
    /\ due' = [due EXCEPT ![j] = TRUE]
    /\ UNCHANGED <<status, attempts, letters, task, crew, recovery>> /\ NoFault

-----------------------------------------------------------------------------
(* The tick and its workers.                                               *)

\* tick: nothing while the last one is awaited.  A worker that an error left
\* behind is not awaited and goes on beside the new ones.  Names are
\* interchangeable: which of the free ones a new worker gets does not matter.
Tick ==
    LET crews == {S \in SUBSET {w \in Workers : task[w] = Off} : Cardinality(S) = Concurrency} IN
    /\ crew = {}
    /\ crews # {}
    /\ crew' = CHOOSE S \in crews : TRUE
    /\ task' = [w \in Workers |-> IF w \in crew' THEN Selecting ELSE task[w]]
    /\ UNCHANGED <<rows, letters, recovery>> /\ NoFault

Becomes(w, t) == task' = [task EXCEPT ![w] = t]
At(pc, t) == [pc |-> pc, job |-> t.job, attempt |-> t.attempt]

\* processQueuedJob has returned false: the worker leaves its loop.
Leave(w) == Becomes(w, Off) /\ crew' = crew \ {w}

DueJobs == {j \in Jobs : status[j] = "queued" /\ due[j]}

\* The oldest due job is read; the attempt counts from what was read.
SelectQueued(w) ==
    /\ task[w].pc = "select"
    /\ \E j \in DueJobs :
          /\ \A k \in DueJobs : j <= k
          /\ Becomes(w, [pc |-> "claim", job |-> j, attempt |-> attempts[j] + 1])
    /\ UNCHANGED <<rows, letters, crew, recovery>> /\ NoFault

FindNothing(w) ==
    /\ task[w].pc = "select"
    /\ DueJobs = {}
    /\ Leave(w)
    /\ UNCHANGED <<rows, letters, recovery>> /\ NoFault

\* Variant of Claim (OneWorkerPerJob): the update is not conditional.
ClaimAnyway(w) ==
    LET j == task[w].job IN
    /\ task[w].pc = "claim"
    /\ status[j] \in {"queued", "running"}
    /\ status' = [status EXCEPT ![j] = "running"]
    /\ attempts' = [attempts EXCEPT ![j] = task[w].attempt]
    /\ due' = [due EXCEPT ![j] = TRUE]
    /\ Becomes(w, At("work", task[w]))
    /\ UNCHANGED <<letters, crew, recovery>> /\ NoFault

\* The update matches the row while it is queued, due or not.
Claim(w) ==
    LET j == task[w].job IN
    /\ task[w].pc = "claim"
    /\ status[j] = "queued"
    /\ status' = [status EXCEPT ![j] = "running"]
    /\ attempts' = [attempts EXCEPT ![j] = task[w].attempt]
    /\ due' = [due EXCEPT ![j] = TRUE]
    /\ Becomes(w, At("work", task[w]))
    /\ UNCHANGED <<letters, crew, recovery>> /\ NoFault

\* Somebody else has claimed or cancelled it.
LoseClaim(w) ==
    /\ task[w].pc = "claim"
    /\ status[task[w].job] # "queued"
    /\ Leave(w)
    /\ UNCHANGED <<rows, letters, recovery>> /\ NoFault

\* A failed query or claim: the error ends the worker, and the tick no longer
\* awaits the others.
Throw(w) ==
    /\ task[w].pc \in {"select", "claim"}
    /\ Fault(task[w].pc)
    /\ Becomes(w, Off)
    /\ crew' = IF w \in crew THEN {} ELSE crew
    /\ UNCHANGED <<rows, letters, recovery>>

\* Variant of Completed (WorkersRespectCancel): the update is not conditional.
CompletedAnyway(j) == [status EXCEPT ![j] = "completed"]

\* A row that is no longer running is not matched, which is no error.
Completed(j) == IF status[j] = "running" THEN [status EXCEPT ![j] = "completed"] ELSE status

Complete(w) ==
    /\ task[w].pc = "work"
    /\ status' = Completed(task[w].job)
    /\ due' = [due EXCEPT ![task[w].job] = status'[task[w].job] = "completed" \/ @]
    /\ Becomes(w, Selecting)
    /\ UNCHANGED <<attempts, letters, crew, recovery>> /\ NoFault

IsLastAttempt(w) == task[w].attempt >= MaxRetries

\* There is room for the deadletter of w and of those about to write one.
RoomForLetter ==
    Len(letters) + Cardinality({w \in Workers : task[w].pc = "bury"}) < MaxLetters

\* Variant of AfterFailure (FailedIsRecorded): no deadletter if the row had
\* been requeued before.
NoLetterTheSecondTime(w) ==
    IF IsLastAttempt(w) /\ \A l \in DOMAIN letters : letters[l].job # task[w].job
    THEN At("bury", task[w]) ELSE Selecting

\* The last failure is also buried as a deadletter, whatever the row says.
AfterFailure(w) == IF IsLastAttempt(w) THEN At("bury", task[w]) ELSE Selecting

\* Variant of FailureStatus (RunningIsWorkedOn): a retry only gets a new date.
FailureStatusUnlessRetried(w) == IF IsLastAttempt(w) THEN "failed" ELSE "running"

FailureStatus(w) == IF IsLastAttempt(w) THEN "failed" ELSE "queued"

\* The job, or the update that completes it, has failed.
FailJob(w) ==
    LET j == task[w].job IN
    /\ task[w].pc = "work"
    /\ IsLastAttempt(w) => RoomForLetter
    /\ IF status[j] = "running"
       THEN /\ status' = [status EXCEPT ![j] = FailureStatus(w)]
            /\ due' = [due EXCEPT ![j] = IsLastAttempt(w)]
       ELSE UNCHANGED <<status, due>>
    /\ Becomes(w, AfterFailure(w))
    /\ UNCHANGED <<attempts, letters, crew, recovery>> /\ NoFault

\* The failure cannot be written, which is only logged.
FailJobUnsaved(w) ==
    /\ task[w].pc = "work"
    /\ IsLastAttempt(w) => RoomForLetter
    /\ Fault("fail")
    /\ Becomes(w, AfterFailure(w))
    /\ UNCHANGED <<rows, letters, crew, recovery>>

Bury(w) ==
    /\ task[w].pc = "bury"
    /\ letters' = Append(letters, [job |-> task[w].job, recovery |-> "pending", tries |-> 0])
    /\ Becomes(w, Selecting)
    /\ UNCHANGED <<rows, crew, recovery>> /\ NoFault

\* The deadletter cannot be inserted, which is only logged.
BuryNothing(w) ==
    /\ task[w].pc = "bury"
    /\ Fault("bury")
    /\ Becomes(w, Selecting)
    /\ UNCHANGED <<rows, letters, crew, recovery>>

-----------------------------------------------------------------------------
(* Recovery.                                                               *)

\* The first n letters of a set, in order.
Oldest(n, S) == {l \in S : Cardinality({k \in S : k < l}) < n}

Pending == {l \in DOMAIN letters : letters[l].recovery = "pending"}

\* recoveryTick's query, that of the pg_cron route, and the one an
\* administrator names.
Batches(r) ==
    IF r = "admin" THEN {{l} : l \in DOMAIN letters}
    ELSE IF r = "cron" THEN {Oldest(3, Pending)}
    ELSE {Oldest(BatchSize, {l \in Pending : letters[l].tries < MaxRecoveryAttempts})}

StartBatch(r) ==
    /\ recovery[r].pc = "idle"
    /\ \E batch \in Batches(r) \ {{}} :
          recovery' = [recovery EXCEPT ![r] = Reading(batch)]
    /\ UNCHANGED <<rows, letters, task, crew>> /\ NoFault

\* On to the rest of the batch.
Continue(r, batch) ==
    recovery' = [recovery EXCEPT ![r] = IF batch = {} THEN Idle ELSE Reading(batch)]

\* requeueDeadletterJob has thrown: recoveryTick catches it for each letter, the
\* other callers stop.
Abort(r, batch) == Continue(r, IF r = "tick" THEN batch ELSE {})

IsNext(l, batch) == l \in batch /\ \A k \in batch : l <= k

\* requeueDeadletterJob reads the letter and refuses one that was requeued.
ReadLetter(r) ==
    /\ recovery[r].pc = "read"
    /\ \E l \in recovery[r].batch :
          LET rest == recovery[r].batch \ {l} IN
          /\ IsNext(l, recovery[r].batch)
          /\ IF letters[l].recovery = "requeued"
             THEN Abort(r, rest)
             ELSE recovery' = [recovery EXCEPT ![r] = [pc |-> "requeue", batch |-> rest,
                                   letter |-> l, tries |-> letters[l].tries]]
    /\ UNCHANGED <<rows, letters, task, crew>> /\ NoFault

LetterUnread(r) ==
    /\ recovery[r].pc = "read"
    /\ Fault("read")
    /\ \E l \in recovery[r].batch :
          IsNext(l, recovery[r].batch) /\ Abort(r, recovery[r].batch \ {l})
    /\ UNCHANGED <<rows, letters, task, crew>>

RecoveryAt(r, pc) ==
    recovery' = [recovery EXCEPT ![r] = [pc |-> pc, batch |-> @.batch,
                                         letter |-> @.letter, tries |-> @.tries]]

\* The row is queued anew, whatever it is, and whatever has become of the letter
\* since it was read.  A letter is used twice when another recoverer has requeued
\* it meanwhile, or when its mark was lost, overwritten or cut off by a crash.
RequeueJob(r) ==
    LET l == recovery[r].letter
        j == letters[l].job IN
    /\ recovery[r].pc = "requeue"
    /\ status' = [status EXCEPT ![j] = "queued"]
    /\ attempts' = [attempts EXCEPT ![j] = 0]
    /\ due' = [due EXCEPT ![j] = TRUE]
    /\ RecoveryAt(r, "mark")
    /\ used' = used \union {l}
    /\ harm' = harm \union IF l \in used THEN {"twice"} ELSE {}
    /\ UNCHANGED <<letters, task, crew, faults>>

RequeueFails(r) ==
    /\ recovery[r].pc = "requeue"
    /\ Fault("requeue")
    /\ RecoveryAt(r, "punish")
    /\ UNCHANGED <<rows, letters, task, crew>>

Noted(letter, how, tries) == [job |-> letter.job, recovery |-> how, tries |-> tries]

Requeued(letter, tries) == Noted(letter, "requeued", tries)

MarkRequeued(r) ==
    /\ recovery[r].pc = "mark"
    /\ letters' = [letters EXCEPT ![recovery[r].letter] = Requeued(@, recovery[r].tries + 1)]
    /\ Continue(r, recovery[r].batch)
    /\ UNCHANGED <<rows, task, crew>> /\ NoFault

\* The letter cannot be marked, which nobody looks at.
MarkNothing(r) ==
    /\ recovery[r].pc = "mark"
    /\ Fault("mark")
    /\ Continue(r, recovery[r].batch)
    /\ UNCHANGED <<rows, letters, task, crew>>

\* Variant of AfterFailedRequeue (LettersAreDecided): a letter stays pending.
AlwaysPending(tries) == "pending"

AfterFailedRequeue(tries) == IF tries >= MaxRecoveryAttempts THEN "ignored" ELSE "pending"

\* The failed requeue is noted on the letter, whatever has become of it.
MarkFailed(r) ==
    LET tries == recovery[r].tries + 1 IN
    /\ recovery[r].pc = "punish"
    /\ letters' = [letters EXCEPT ![recovery[r].letter] =
                      Noted(@, AfterFailedRequeue(tries), tries)]
    /\ Abort(r, recovery[r].batch)
    /\ UNCHANGED <<rows, task, crew>> /\ NoFault

\* It cannot be noted either, which nobody looks at.  This goes with the fault of
\* the requeue and is not counted again.
MarkFailedUnsaved(r) ==
    /\ recovery[r].pc = "punish"
    /\ "punish" \in Faulty
    /\ Abort(r, recovery[r].batch)
    /\ UNCHANGED <<rows, letters, task, crew>> /\ NoFault

-----------------------------------------------------------------------------
\* The process dies, or is shut down, which waits for no worker.
Crash ==
    /\ Fault("crash")
    /\ task' = [w \in Workers |-> Off]
    /\ crew' = {}
    /\ recovery' = [r \in Recoverers |-> Idle]
    /\ UNCHANGED <<rows, letters>>

Work(w) ==
    \/ SelectQueued(w)
    \/ FindNothing(w)
    \/ Claim(w)
    \/ LoseClaim(w)
    \/ Throw(w)
    \/ Complete(w)
    \/ FailJob(w)
    \/ FailJobUnsaved(w)
    \/ Bury(w)
    \/ BuryNothing(w)

Recover(r) ==
    \/ StartBatch(r)
    \/ ReadLetter(r)
    \/ LetterUnread(r)
    \/ RequeueJob(r)
    \/ RequeueFails(r)
    \/ MarkRequeued(r)
    \/ MarkNothing(r)
    \/ MarkFailed(r)
    \/ MarkFailedUnsaved(r)

Next ==
    \/ \E j \in Jobs : QueueMemoryJob(j) \/ CancelMemoryJob(j) \/ BackoffEnds(j)
    \/ Tick
    \/ \E w \in Workers : Work(w)
    \/ \E r \in Recoverers : Recover(r)
    \/ Crash

Spec == Init /\ [][Next]_vars

(***************************************************************************)
(* Every request is answered, every job ends, time passes, and the two     *)
(* intervals keep firing: setInterval, or the process is started again.    *)
(***************************************************************************)
Fairness ==
    /\ \A j \in Jobs : WF_vars(BackoffEnds(j))
    /\ WF_vars(Tick)
    /\ \A w \in Workers : WF_vars(Work(w))
    /\ \A r \in Recoverers \intersect {"tick"} : WF_vars(Recover(r))

FairSpec == Spec /\ Fairness

-----------------------------------------------------------------------------
(* Safety.                                                                 *)

Holds(w, j) == task[w].pc = "work" /\ task[w].job = j

\* A job is worked on by at most one worker, and only while its row says running
\* or it was cancelled meanwhile, although claims are made from stale reads,
\* workers are left behind by errors, and any number of recoverers queue rows
\* anew, across crashes and lost updates.  Only a letter that is used twice
\* breaks it: nothing in the requeue looks at the letter or the row again.
OneWorkerPerJob ==
    "twice" \notin harm =>
        \A j \in Jobs, w \in Workers : Holds(w, j) =>
            /\ status[j] \in {"running", "canceled"}
            /\ \A v \in Workers : Holds(v, j) => v = w

\* A row says running only while some worker works on it: nobody looks for rows
\* that were left running.  Only a crash or a failure that cannot be written
\* leaves one.
RunningIsWorkedOn ==
    \A j \in Jobs : status[j] = "running" =>
        (\E w \in Workers : Holds(w, j)) \/ harm \intersect {"fail", "crash"} # {}

\* A failed job can be recovered: it has a deadletter that was not requeued, or
\* its worker is about to write one.  Only a crash or a lost insert takes it away.
FailedIsRecorded ==
    \A j \in Jobs : status[j] = "failed" =>
        \/ \E l \in DOMAIN letters : letters[l].job = j /\ letters[l].recovery # "requeued"
        \/ \E w \in Workers : task[w].pc = "bury" /\ task[w].job = j
        \/ harm \intersect {"bury", "crash"} # {}

\* What an administrator cancelled, the late answer of a worker does not change:
\* only the requeue of one of its letters takes the cancellation back.
WorkersRespectCancel ==
    [][\A j \in Jobs : status[j] = "canceled" /\ status'[j] # "canceled" =>
          \E r \in Recoverers : /\ recovery[r].pc = "requeue" /\ recovery'[r].pc = "mark"
                                /\ letters[recovery[r].letter].job = j]_vars

\* Whoever recovers it, a job is queued anew only after it has ended and when no
\* worker is left on it, cancelled ones that are still at work included, unless
\* its letter is used twice.  A failure that cannot be written leaves the row of
\* an ended job running.
RecoversOnlyEndedJobs ==
    [][\A r \in Recoverers, j \in Jobs :
          /\ recovery[r].pc = "requeue" /\ recovery'[r].pc = "mark"
          /\ j = letters[recovery[r].letter].job
          /\ "twice" \notin harm'
          => /\ \A w \in Workers : ~Holds(w, j)
             /\ status[j] \in {"failed", "canceled"} \/ "fail" \in harm]_vars

-----------------------------------------------------------------------------
(* Liveness.                                                               *)

\* No deadletter stays pending: it is requeued, or ignored after the maximum of
\* failed requeues.
LettersAreDecided == \A l \in 1..MaxLetters : l \in Pending ~> l \notin Pending
=============================================================================
