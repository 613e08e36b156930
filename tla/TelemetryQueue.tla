--------------------------- MODULE TelemetryQueue ---------------------------
(***************************************************************************)
(* The queue of src/services/agent/agentTelemetryQueue.ts: tasks in the    *)
(* memory of one process, each with a row in the database whose id it      *)
(* learns later, retries by timers, and the recovery of rows when the      *)
(* module is loaded.  Saturated queues drop tasks (SATURATION_MODE 'drop');*)
(* rows are in the order of their tasks' ids.                              *)
(***************************************************************************)
EXTENDS Naturals, Sequences, FiniteSets, SequencesExt, FiniteSetsExt

CONSTANTS
    Tasks,        \* calls of enqueueTelemetryTask, numbered
    QueueMaxSize,
    Concurrency,  \* QUEUE_CONCURRENCY
    MaxAttempts,  \* DURABLE_MAX_ATTEMPTS
    RecoveryBatch,
    MaxItems,     \* bound on the items below
    MaxFaults     \* bound on restarts and errors of the database

ASSUME ConstantsAssumption ==
    /\ Tasks \subseteq Nat \ {0}
    /\ {Concurrency, MaxAttempts, RecoveryBatch} \subseteq Nat \ {0}
    /\ {QueueMaxSize, MaxItems, MaxFaults} \subseteq Nat

VARIABLES
    items,     \* the TelemetryTask objects of this process
    queue,     \* those that wait, by number
    scheduled, \* drainScheduled
    insert,    \* where the insert of each task is, unless it was dropped
    rows,      \* the table
    healthy,   \* durableHealthy
    recovery,  \* where recoverDurableQueue is
    result,    \* whether the handler of each task has ever succeeded, or failed
    hurt,      \* of each task, what has happened to it that the queue does not cover
    faults

memory == <<items, queue, scheduled, recovery, healthy>>
vars == <<memory, insert, rows, result, hurt, faults>>

\* ripe: available_at has passed, of a queued row; it is stale, of a running one.
NoRow == [status |-> "none", attempts |-> 0, ripe |-> FALSE]
Places == {"queued", "marking", "handling", "closing", "updating", "waiting", "gone"}
Harms == {"untracked", "duplicated", "crash", "unsaved", "fault"}

\* An object that is no longer used.
Nothing == [task |-> 0, attempt |-> 1, known |-> TRUE, at |-> "gone"]

Items == DOMAIN items
InFlight == {i \in Items : items[i].at \in {"marking", "handling", "closing"}}
Alive(t) == \E i \in Items : items[i].task = t

\* Objects and rows keep their types, each queued object is queued once, and no
\* more handlers run than QUEUE_CONCURRENCY allows.
TypeOK ==
    /\ items \in Seq([task : Tasks \union {0}, attempt : 1..MaxAttempts, known : BOOLEAN, at : Places])
    /\ Range(queue) = {i \in Items : items[i].at = "queued"} /\ IsInjective(queue)
    /\ Cardinality(InFlight) <= Concurrency
    /\ scheduled \in BOOLEAN
    /\ insert \in [Tasks -> {"none", "dropped", "sent", "stored", "settled"}]
    /\ rows \in [Tasks -> [status : {"none", "queued", "running", "failed"},
                           attempts : 0..MaxAttempts, ripe : BOOLEAN]]
    /\ healthy \in BOOLEAN
    /\ recovery \in {"resetting", "selecting", "done", "again"}
    /\ result \in [Tasks -> {"none", "done", "failed"}]
    /\ hurt \in [Tasks -> SUBSET Harms]
    /\ faults \in Nat

Init ==
    /\ items = <<>> /\ queue = <<>> /\ scheduled = FALSE
    /\ insert = [t \in Tasks |-> "none"]
    /\ rows = [t \in Tasks |-> NoRow]
    /\ healthy = TRUE /\ recovery = "resetting"
    /\ result = [t \in Tasks |-> "none"]
    /\ hurt = [t \in Tasks |-> {}]
    /\ faults = 0

Hurt(t, kind) == hurt' = [hurt EXCEPT ![t] = @ \union {kind}]
At(i, place) == items' = [items EXCEPT ![i].at = place]
Gone(i) == items' = [items EXCEPT ![i] = Nothing]
\* Variant of Row (TrackedFailuresAreKept): a compare-and-set for queued rows.
RowIfQueued(t, status, attempts) ==
    rows' = IF rows[t].status # "queued" THEN rows
            ELSE [rows EXCEPT ![t] = [status |-> status, attempts |-> attempts,
                                      ripe |-> FALSE]]

\* An update of the row by its id.
Row(t, status, attempts) ==
    rows' = IF rows[t].status = "none" THEN rows
            ELSE [rows EXCEPT ![t] = [status |-> status, attempts |-> attempts,
                                      ripe |-> FALSE]]

\* markDurableUnavailable: an error of the database, for the rest of the process.
Unavailable == faults < MaxFaults /\ faults' = faults + 1 /\ healthy' = FALSE

\* persistedId is looked at: a first attempt may not have it yet.
Tracked(i) == items[i].known /\ healthy

-----------------------------------------------------------------------------
(* enqueueTelemetryTask and persistQueuedTask.                             *)

Enqueue(t) ==
    /\ insert[t] = "none" /\ \A u \in Tasks : u < t => insert[u] # "none"
    /\ IF Len(queue) >= QueueMaxSize
       THEN insert' = [insert EXCEPT ![t] = "dropped"] /\ UNCHANGED <<items, queue, scheduled, hurt>>
       ELSE /\ Len(items) < MaxItems
            /\ items' = Append(items, [task |-> t, attempt |-> 1, known |-> FALSE,
                                       at |-> "queued"])
            /\ queue' = Append(queue, Len(items) + 1)
            /\ scheduled' = TRUE
            /\ insert' = [insert EXCEPT ![t] = IF healthy THEN "sent" ELSE "settled"]
            /\ IF healthy THEN UNCHANGED hurt ELSE Hurt(t, "fault")
    /\ UNCHANGED <<recovery, healthy, rows, result, faults>>

NewRow == [status |-> "queued", attempts |-> 1, ripe |-> TRUE]

Insert(t) ==
    /\ insert[t] = "sent"
    /\ insert' = [insert EXCEPT ![t] = "stored"]
    /\ rows' = [rows EXCEPT ![t] = NewRow]
    /\ UNCHANGED <<memory, result, hurt, faults>>

InsertFails(t) ==
    /\ insert[t] = "sent" /\ Unavailable
    /\ insert' = [insert EXCEPT ![t] = "settled"] /\ Hurt(t, "fault")
    /\ UNCHANGED <<items, queue, scheduled, recovery, rows, result>>

\* The id arrives at the object, wherever it is by now; the copies a retry
\* makes have it.
Learn(t) ==
    /\ insert[t] = "stored"
    /\ insert' = [insert EXCEPT ![t] = "settled"]
    /\ items' = [i \in Items |-> IF items[i].task = t THEN [items[i] EXCEPT !.known = TRUE]
                                 ELSE items[i]]
    /\ UNCHANGED <<queue, scheduled, recovery, healthy, rows, result, hurt, faults>>

-----------------------------------------------------------------------------
(* scheduleDrain and the tasks it starts.                                  *)

\* Variant of Room (TypeOK): the loop looks at inflight too late.
RoomForOneMore == Concurrency + 1 - Cardinality(InFlight)

Room == Concurrency - Cardinality(InFlight)

\* The loop starts as many as there is room for.
Drain ==
    /\ scheduled /\ scheduled' = FALSE
    /\ LET n == Min({Room, Len(queue)})
           taken == Range(SubSeq(queue, 1, n))
       IN  /\ queue' = SubSeq(queue, n + 1, Len(queue))
           /\ items' = [i \in Items |-> IF i \notin taken THEN items[i]
                           ELSE [items[i] EXCEPT !.at = IF Tracked(i) THEN "marking"
                                                        ELSE "handling"]]
    /\ UNCHANGED <<recovery, healthy, insert, rows, result, hurt, faults>>

MarkRunning(i) ==
    /\ items[i].at = "marking" /\ At(i, "handling")
    /\ \/ /\ Row(items[i].task, "running", items[i].attempt)
          /\ UNCHANGED <<healthy, hurt, faults>>
       \/ Unavailable /\ Hurt(items[i].task, "fault") /\ UNCHANGED rows
    /\ UNCHANGED <<queue, scheduled, recovery, insert, result>>

\* Variant of Succeed (DoneOnce): the row is left as it is.
SucceedUnmarked(i) ==
    /\ items[i].at = "handling"
    /\ result' = [result EXCEPT ![items[i].task] = "done"]
    /\ Gone(i) /\ scheduled' = TRUE
    /\ UNCHANGED <<queue, recovery, healthy, insert, rows, hurt, faults>>

\* The slot is freed, and the queue drained again.
Succeed(i) ==
    /\ items[i].at = "handling"
    /\ result' = [result EXCEPT ![items[i].task] = "done"]
    /\ IF Tracked(i)
       THEN At(i, "closing") /\ UNCHANGED <<scheduled, hurt>>
       ELSE Gone(i) /\ scheduled' = TRUE /\ Hurt(items[i].task, "untracked")
    /\ UNCHANGED <<queue, recovery, healthy, insert, rows, faults>>

MarkSucceeded(i) ==
    /\ items[i].at = "closing" /\ Gone(i) /\ scheduled' = TRUE
    /\ \/ /\ rows' = [rows EXCEPT ![items[i].task] = NoRow]
          /\ UNCHANGED <<healthy, hurt, faults>>
       \/ Unavailable /\ Hurt(items[i].task, "fault") /\ UNCHANGED rows
    /\ UNCHANGED <<queue, recovery, insert, result>>

\* Variant of Fail (NothingIsLost): the task is closed like one that succeeded.
FailClosing(i) ==
    /\ items[i].at = "handling"
    /\ result' = [result EXCEPT ![items[i].task] = IF @ = "done" THEN @ ELSE "failed"]
    /\ IF Tracked(i)
       THEN At(i, "closing") /\ UNCHANGED <<scheduled, hurt>>
       ELSE Gone(i) /\ scheduled' = TRUE /\ Hurt(items[i].task, "untracked")
    /\ UNCHANGED <<queue, recovery, healthy, insert, rows, faults>>

\* The catch clause; markFailedOrRetry is not awaited.
Fail(i) ==
    /\ items[i].at = "handling" /\ scheduled' = TRUE
    /\ result' = [result EXCEPT ![items[i].task] = IF @ = "done" THEN @ ELSE "failed"]
    /\ IF Tracked(i)
       THEN At(i, "updating") /\ UNCHANGED hurt
       ELSE Gone(i) /\ Hurt(items[i].task, "untracked")
    /\ UNCHANGED <<queue, recovery, healthy, insert, rows, faults>>

Exhausted(i) == items[i].attempt >= MaxAttempts

MarkFailedOrRetry(i) ==
    /\ items[i].at = "updating"
    /\ \/ /\ Exhausted(i)
          /\ Row(items[i].task, "failed", items[i].attempt)
          /\ Gone(i) /\ UNCHANGED <<healthy, hurt, faults>>
       \/ /\ ~Exhausted(i)
          /\ Row(items[i].task, "queued", items[i].attempt)
          /\ At(i, "waiting") /\ UNCHANGED <<healthy, hurt, faults>>
       \/ /\ Unavailable /\ Hurt(items[i].task, "fault")
          /\ Gone(i) /\ UNCHANGED rows
    /\ UNCHANGED <<queue, scheduled, recovery, insert, result>>

\* Variant of Retry (EveryTaskSettles): the timer forgets to schedule the drain.
RetryAsleep(i) ==
    /\ items[i].at = "waiting"
    /\ items' = [items EXCEPT ![i].at = "queued", ![i].attempt = @ + 1]
    /\ queue' = Append(queue, i)
    /\ UNCHANGED <<scheduled, recovery, healthy, insert, rows, result, hurt, faults>>

\* The timer of the retry, whatever the size of the queue is.
Retry(i) ==
    /\ items[i].at = "waiting"
    /\ items' = [items EXCEPT ![i].at = "queued", ![i].attempt = @ + 1]
    /\ queue' = Append(queue, i) /\ scheduled' = TRUE
    /\ UNCHANGED <<recovery, healthy, insert, rows, result, hurt, faults>>

-----------------------------------------------------------------------------
(* recoverDurableQueue.                                                    *)

\* The error of this update is not looked at.
Reset ==
    /\ recovery = "resetting" /\ recovery' = "selecting"
    /\ \/ /\ rows' = [t \in Tasks |-> IF rows[t].status = "running" /\ rows[t].ripe
                                      THEN [rows[t] EXCEPT !.status = "queued"]
                                      ELSE rows[t]]
          /\ UNCHANGED faults
       \/ faults < MaxFaults /\ faults' = faults + 1 /\ UNCHANGED rows
    /\ UNCHANGED <<items, queue, scheduled, healthy, insert, result, hurt>>

Recoverable == {t \in Tasks : rows[t].status = "queued" /\ rows[t].ripe}

\* The rows of one pass: the first by id, as many as a batch holds.
FirstRows(batch) ==
    /\ \A m, n \in DOMAIN batch : m < n => batch[m] < batch[n]
    /\ \A t \in Recoverable \ Range(batch) :
          Len(batch) = RecoveryBatch /\ \A n \in DOMAIN batch : batch[n] < t

\* Another pass follows a full batch.  A row whose task is in memory already is
\* recovered like any other.
Select ==
    /\ recovery = "selecting"
    /\ \E batch \in SeqOf(Recoverable, RecoveryBatch) :
           /\ FirstRows(batch)
           /\ Len(items) + Len(batch) <= MaxItems
           /\ items' = items \o [n \in DOMAIN batch |->
                           [task |-> batch[n], attempt |-> rows[batch[n]].attempts,
                            known |-> TRUE, at |-> "queued"]]
           /\ queue' = queue \o [n \in DOMAIN batch |-> Len(items) + n]
           /\ scheduled' = (scheduled \/ batch # <<>>)
           /\ recovery' = IF Len(batch) = RecoveryBatch THEN "again" ELSE "done"
           /\ hurt' = [t \in Tasks |-> IF t \in Range(batch) /\ (Alive(t) \/ insert[t] = "stored")
                                       THEN hurt[t] \union {"duplicated"} ELSE hurt[t]]
    /\ UNCHANGED <<healthy, insert, rows, result, faults>>

RecoverAgain ==
    /\ recovery = "again" /\ recovery' = "resetting"
    /\ UNCHANGED <<items, queue, scheduled, healthy, insert, rows, result, hurt, faults>>

RecoveryFails ==
    /\ recovery = "selecting" /\ recovery' = "done" /\ Unavailable
    /\ UNCHANGED <<items, queue, scheduled, insert, rows, result, hurt>>

-----------------------------------------------------------------------------
(* Time and restarts.                                                      *)

\* available_at passes, or DURABLE_STALE_RUNNING_MS.
Ripen(t) ==
    /\ rows[t].status \in {"queued", "running"} /\ ~rows[t].ripe
    /\ rows' = [rows EXCEPT ![t].ripe = TRUE]
    /\ UNCHANGED <<memory, insert, result, hurt, faults>>

\* The memory is lost.  An insert that was under way arrives all the same, or does not.
Restart ==
    /\ faults < MaxFaults /\ faults' = faults + 1
    /\ items' = <<>> /\ queue' = <<>> /\ scheduled' = FALSE
    /\ healthy' = TRUE /\ recovery' = "resetting"
    /\ \E landed \in SUBSET {t \in Tasks : insert[t] = "sent"} :
          /\ rows' = [t \in Tasks |-> IF t \in landed THEN NewRow ELSE rows[t]]
          /\ hurt' = [t \in Tasks |-> hurt[t]
                \union (IF Alive(t) THEN {"crash"} ELSE {})
                \union (IF insert[t] = "sent" /\ t \notin landed THEN {"unsaved"} ELSE {})]
    /\ insert' = [t \in Tasks |-> IF insert[t] \in {"sent", "stored"} THEN "settled" ELSE insert[t]]
    /\ UNCHANGED result

Works(i) ==
    \/ MarkRunning(i) \/ Succeed(i) \/ MarkSucceeded(i) \/ Fail(i)
    \/ MarkFailedOrRetry(i) \/ Retry(i)

Next ==
    \/ \E t \in Tasks : Enqueue(t) \/ Insert(t) \/ InsertFails(t) \/ Learn(t) \/ Ripen(t)
    \/ \E i \in Items : Works(i)
    \/ Drain \/ Reset \/ Select \/ RecoverAgain \/ RecoveryFails \/ Restart

Spec == Init /\ [][Next]_vars

\* Timers fire, requests are answered and handlers end.
FairSpec ==
    /\ Spec
    /\ WF_vars(Drain) /\ WF_vars(Reset \/ Select \/ RecoverAgain)
    /\ \A t \in Tasks : WF_vars(Insert(t)) /\ WF_vars(Learn(t))
    /\ \A i \in 1..MaxItems : WF_vars(i \in Items /\ Works(i))

-----------------------------------------------------------------------------
(* Properties.                                                             *)

\* docs/RUNBOOK_MUEL_PLATFORM.md promises that a failed task is retried, and that
\* after the last attempt its row stays behind as failed.  It is so unless an
\* attempt failed before the insert was answered, the database failed, or the
\* process restarted.
TrackedFailuresAreKept ==
    \A t \in Tasks : hurt[t] \subseteq {"duplicated"} /\ result[t] = "failed" =>
        Alive(t) \/ rows[t].status = "failed"

\* A task that was accepted and has not succeeded is in memory or has a row, even
\* after a restart: unless its insert failed or was cut short by the restart.
NothingIsLost ==
    \A t \in Tasks :
        /\ insert[t] \notin {"none", "dropped"} /\ result[t] # "done"
        /\ hurt[t] \intersect {"fault", "unsaved"} = {}
        => Alive(t) \/ insert[t] = "sent" \/ rows[t].status # "none"

\* A task that succeeded is not begun again: unless its end was untracked or the
\* database failed, it was recovered while it was in memory, or a crash came
\* between its end and the deletion of its row.
Begun(i) == items[i].at = "queued" /\ i \notin Range(queue')
DoneOnce ==
    [][\A t \in Tasks : result[t] = "done" /\ hurt[t] = {} =>
          ~\E i \in Items : items[i].task = t /\ Begun(i)]_vars

\* Every task that is in memory leaves it: no wake-up is lost.
EveryTaskSettles == \A t \in Tasks : Alive(t) ~> ~Alive(t)
=============================================================================
