-------------------------- MODULE ChangePublishing --------------------------
(***************************************************************************)
(* The publishing of a change request: the control plane that decides and  *)
(* enqueues (src/services/opencode/opencodeGitHubQueueService.ts) and the  *)
(* workers of several processes that open a pull request for it            *)
(* (opencodePublishWorker.ts), one process at a time by a DistributedLease.*)
(*                                                                         *)
(* A step is a request to the database or to GitHub, and may fail; the     *)
(* errors of most updates are not read by the code.  There is one change   *)
(* request; what is published, its checks and its learning signals are     *)
(* left out.                                                               *)
(***************************************************************************)
EXTENDS Naturals, Sequences, FiniteSets

CONSTANTS
    Procs,        \* processes that run a publish worker
    Ticks,        \* names for calls of runTick
    ProcOf,       \* the process of each call
    Callers,      \* calls of enqueueOpencodePublishJob
    Free, Orphan, \* no owner of the lease; the owner of a process that ended
    BatchSize,    \* WORKER_BATCH_SIZE
    MaxAttempts,  \* WORKER_MAX_ATTEMPTS
    MaxJobs,      \* bound on jobs
    MaxDecisions, \* bound on decisions
    MaxFaults     \* bound on faults: crashes, failed requests, late workers

ASSUME ConstantsAssumption ==
    /\ ProcOf \in [Ticks -> Procs] /\ {Free, Orphan} \cap (Procs \union Ticks) = {}
    /\ Free # Orphan /\ BatchSize \in Nat \ {0} /\ MaxAttempts \in Nat \ {0}
    /\ {MaxJobs, MaxDecisions, MaxFaults} \subseteq Nat

VARIABLES
    request,  \* the status of the change request
    jobs,     \* the rows of the publish queue, in the order of creation
    caller,   \* where each call of enqueueOpencodePublishJob is
    tick,     \* where each call of runTick is
    inFlight, \* the flag of each process
    lease,    \* the row opencode.publish.worker
    approved, \* whether the last decision about the request is to approve it
    decisions,
    faults,
    harm      \* the kinds of faults and races that happened

worker == <<tick, inFlight>>
control == <<request, caller, approved, decisions>>
vars == <<control, jobs, worker, lease, faults, harm>>

L == INSTANCE DistributedLease

Publishable == {"approved", "queued_for_publish"}
Decisions == {"approved", "rejected", "published", "failed"}
Active == {"queued", "running"}
Ended == {"succeeded", "failed"}

Jobs == DOMAIN jobs
Job(status, attempts) == [status |-> status, attempts |-> attempts, aged |-> FALSE]
JobRows == [status : Active \union Ended, attempts : Nat, aged : BOOLEAN]

\* left: how many jobs it may still take.  found: rows it has read, with their
\* attempts.  job, attempts: the row it has claimed.  final: it will not retry.
Idle == [pc |-> "idle", left |-> 0, found |-> {}, job |-> 0, attempts |-> 0,
         final |-> FALSE]

TickStates ==
    [pc : {"idle", "acquiring", "scanning", "recovering", "selecting", "claiming", "reading",
           "publishing", "succeeding", "failing", "telling", "regretting", "releasing"},
     left : 0..BatchSize, found : SUBSET (Jobs \X Nat), job : {0} \union Jobs,
     attempts : Nat, final : BOOLEAN]

\* The request, its jobs and the calls of runTick keep their types; what a call has
\* read and holds are jobs that exist.
TypeOK ==
    /\ request \in {"review_pending"} \union Decisions \union Publishable
    /\ jobs \in Seq(JobRows) /\ Len(jobs) <= MaxJobs
    /\ caller \in [Callers -> {"idle", "checked", "clear", "inserted"}]
    /\ tick \in [Ticks -> TickStates]
    /\ \A t \in Ticks : tick[t].pc = "idle" => tick[t] = Idle
    /\ inFlight \in [Procs -> BOOLEAN]
    /\ lease \in [owner : {Free, Orphan} \union Procs, expired : BOOLEAN]
    /\ approved \in BOOLEAN
    /\ {decisions, faults} \subseteq Nat
    /\ harm \subseteq {"crash", "lost", "late", "misjudged", "overwritten",
                     "overtaken", "overrun", "released"}

Fault(kind) == faults < MaxFaults /\ faults' = faults + 1 /\ harm' = harm \union {kind}
NoFault == UNCHANGED <<faults, harm>>

\* A call of runTick of the process p is between the lease and the finally clause.
Works(p) ==
    \E t \in Ticks : ProcOf[t] = p /\ tick[t].pc \notin {"idle", "acquiring", "releasing"}

-----------------------------------------------------------------------------
(* The control plane.                                                      *)

\* The call t has read that the request may be published, and has yet to write
\* what became of it: nothing looks at the request again in between.
Trusts(t) == tick[t].pc \in {"publishing", "succeeding", "telling"}

\* decideOpencodeChangeRequest, whatever the request's status is and whoever
\* works on it.
Decide(d) ==
    /\ decisions < MaxDecisions /\ decisions' = decisions + 1
    /\ request' = d /\ approved' = (d = "approved")
    /\ harm' = harm \union
                  IF d # "approved" /\ \E t \in Ticks : Trusts(t) THEN {"overtaken"} ELSE {}
    /\ UNCHANGED <<caller, jobs, worker, lease, faults>>

\* enqueueOpencodePublishJob reads the status of the request, looks for an
\* active job, inserts one, and updates the request without a condition.
CheckRequest(c) ==
    /\ caller[c] = "idle" /\ request \in Publishable
    /\ caller' = [caller EXCEPT ![c] = "checked"]
    /\ UNCHANGED <<request, approved, decisions, jobs, worker, lease, faults, harm>>

HasActive == \E j \in Jobs : jobs[j].status \in Active

FindActive(c) ==
    /\ caller[c] = "checked"
    /\ caller' = [caller EXCEPT ![c] = IF HasActive THEN "idle" ELSE "clear"]
    /\ UNCHANGED <<request, approved, decisions, jobs, worker, lease, faults, harm>>

\* idx_agent_opencode_publish_queue_active_unique refuses a second active job.  The
\* schema calls it optional; it is assumed to be there.
Refused(others) == \E j \in others : jobs[j].status \in Active

InsertJob(c) ==
    /\ caller[c] = "clear" /\ (Len(jobs) < MaxJobs \/ Refused(Jobs))
    /\ IF Refused(Jobs)
       THEN caller' = [caller EXCEPT ![c] = "idle"] /\ UNCHANGED jobs
       ELSE caller' = [caller EXCEPT ![c] = "inserted"] /\ jobs' = Append(jobs, Job("queued", 0))
    /\ UNCHANGED <<request, approved, decisions, worker, lease, faults, harm>>

\* By now the request, or the job, may have gone on.
TellQueued(c) ==
    /\ caller[c] = "inserted"
    /\ caller' = [caller EXCEPT ![c] = "idle"]
    /\ request' = "queued_for_publish"
    /\ harm' = harm \union
                  IF request \in Publishable /\ HasActive THEN {} ELSE {"overwritten"}
    /\ UNCHANGED <<approved, decisions, jobs, worker, lease, faults>>

-----------------------------------------------------------------------------
(* runTick.                                                                *)

\* The call t goes on to the state r, which is one of those below.
Becomes(t, r) == tick' = [tick EXCEPT ![t] = r]

Afresh(pc, left) == [Idle EXCEPT !.pc = pc, !.left = left]
At(t, pc) == [tick[t] EXCEPT !.pc = pc]
Found(t, pc, rows) == [tick[t] EXCEPT !.pc = pc, !.found = rows]
Failing(t, final) == [tick[t] EXCEPT !.pc = "failing", !.final = final]

\* It looks at the flag of its process, then awaits the lease.
StartTick(t) ==
    /\ tick[t].pc = "idle" /\ ~inFlight[ProcOf[t]]
    /\ Becomes(t, Afresh("acquiring", 0))
    /\ UNCHANGED <<control, jobs, inFlight, lease, faults, harm>>

AcquireLease(t) ==
    /\ tick[t].pc = "acquiring"
    /\ L!Acquire(ProcOf[t])
    /\ inFlight' = [inFlight EXCEPT ![ProcOf[t]] = TRUE]
    /\ Becomes(t, Afresh("scanning", BatchSize))
    /\ UNCHANGED <<control, jobs, faults, harm>>

LeaseIsHeld(t) ==
    /\ tick[t].pc = "acquiring" /\ ~L!CanAcquire(ProcOf[t])
    /\ Becomes(t, Idle)
    /\ UNCHANGED <<control, jobs, inFlight, lease, faults, harm>>

\* The loop takes one more job, or the finally clause is reached.
GoOn(t, left) ==
    IF left > 0
    THEN Becomes(t, Afresh("selecting", left)) /\ UNCHANGED inFlight
    ELSE /\ Becomes(t, Afresh("releasing", 0))
         /\ inFlight' = [inFlight EXCEPT ![ProcOf[t]] = FALSE]

\* It is done with this row of those it has read.
NextRow(t, row, left) ==
    IF tick[t].found = {row} THEN GoOn(t, left)
    ELSE Becomes(t, Found(t, tick[t].pc, tick[t].found \ {row})) /\ UNCHANGED inFlight

\* Variant of Stale (JobsEnd): the comparison with staleBefore is turned round.
StaleReversed ==
    {<<j, jobs[j].attempts>> : j \in {i \in Jobs : jobs[i].status = "running" /\ ~jobs[i].aged}}

\* recoverStaleRunningJobs: the scan, and an update of each row that is still
\* running, which also writes the attempts that the scan has read.
Stale ==
    {<<j, jobs[j].attempts>> : j \in {i \in Jobs : jobs[i].status = "running" /\ jobs[i].aged}}

ScanStale(t) ==
    /\ tick[t].pc = "scanning"
    /\ IF Stale = {} THEN GoOn(t, tick[t].left)
       ELSE Becomes(t, Found(t, "recovering", Stale)) /\ UNCHANGED inFlight
    /\ UNCHANGED <<control, jobs, lease, faults, harm>>

RecoverStale(t) ==
    /\ tick[t].pc = "recovering"
    /\ \E row \in tick[t].found :
          /\ IF jobs[row[1]].status = "running"
             THEN /\ jobs' = [jobs EXCEPT ![row[1]] = Job("queued", row[2])]
                  /\ harm' = harm \union IF jobs[row[1]].aged THEN {} ELSE {"misjudged"}
             ELSE UNCHANGED <<jobs, harm>>
          /\ NextRow(t, row, tick[t].left)
    /\ UNCHANGED <<control, lease, faults>>

\* claimQueuedJob: the query, and an update of one row after the other until
\* one is still queued.
Queued == {<<j, 0>> : j \in {i \in Jobs : jobs[i].status = "queued"}}

SelectQueued(t) ==
    /\ tick[t].pc = "selecting"
    /\ IF Queued = {} THEN GoOn(t, 0)
       ELSE Becomes(t, Found(t, "claiming", Queued)) /\ UNCHANGED inFlight
    /\ UNCHANGED <<control, jobs, lease, faults, harm>>

Running(j) == [jobs[j] EXCEPT !.status = "running"]

IsOldest(row, found) == \A other \in found : row[1] <= other[1]

\* The call has claimed the job j.
Claimed(t, j) ==
    [pc |-> "reading", left |-> tick[t].left - 1, found |-> {}, job |-> j,
     attempts |-> jobs[j].attempts, final |-> FALSE]

\* Variant of Claim (OneWorkerPerJob): the update does not ask for a queued row.
ClaimUnconditionally(t) ==
    /\ tick[t].pc = "claiming"
    /\ \E row \in tick[t].found :
          /\ IsOldest(row, tick[t].found)
          /\ jobs' = [jobs EXCEPT ![row[1]] = Running(row[1])]
          /\ Becomes(t, Claimed(t, row[1]))
    /\ UNCHANGED <<control, inFlight, lease, faults, harm>>

Claim(t) ==
    /\ tick[t].pc = "claiming"
    /\ \E row \in tick[t].found :
          /\ IsOldest(row, tick[t].found)
          /\ IF jobs[row[1]].status = "queued"
             THEN /\ jobs' = [jobs EXCEPT ![row[1]] = Running(row[1])]
                  /\ Becomes(t, Claimed(t, row[1]))
                  /\ UNCHANGED inFlight
             ELSE UNCHANGED jobs /\ NextRow(t, row, 0)
    /\ UNCHANGED <<control, lease, faults, harm>>

\* Variant of ReadRequest (ApprovedIsPublished): the status is not checked again.
ReadRequestUnchecked(t) ==
    /\ tick[t].pc = "reading"
    /\ Becomes(t, At(t, "publishing"))
    /\ UNCHANGED <<control, jobs, inFlight, lease, faults, harm>>

\* getChangeRequest and the checks.
ReadRequest(t) ==
    /\ tick[t].pc = "reading"
    /\ Becomes(t, IF request \in Publishable THEN At(t, "publishing") ELSE Failing(t, TRUE))
    /\ UNCHANGED <<control, jobs, inFlight, lease, faults, harm>>

\* This attempt is the last one, were it to fail.
LastAttempt(t) == tick[t].attempts + 1 >= MaxAttempts

\* processGitHubPublish opens the pull request, or fails, for good or not.
Publish(t) ==
    /\ tick[t].pc = "publishing"
    /\ \/ Becomes(t, At(t, "succeeding"))
       \/ \E final \in BOOLEAN : Becomes(t, Failing(t, final \/ LastAttempt(t)))
    /\ UNCHANGED <<control, jobs, inFlight, lease, faults, harm>>

\* The status its job is given: one that may be retried goes back to the queue.
Verdict(t) == IF tick[t].pc = "succeeding" THEN "succeeded"
              ELSE IF tick[t].final THEN "failed" ELSE "queued"

\* markJobSucceeded and markJobFailed update the job, whatever it has become
\* since it was claimed, unless the index refuses it.
MarkJob(t) ==
    /\ tick[t].pc \in {"succeeding", "failing"}
    /\ \/ /\ IF Verdict(t) = "queued" /\ Refused(Jobs \ {tick[t].job})
             THEN UNCHANGED jobs
             ELSE jobs' = [jobs EXCEPT ![tick[t].job] = Job(Verdict(t), tick[t].attempts + 1)]
          /\ NoFault
       \/ UNCHANGED jobs /\ Fault("lost")
    /\ IF tick[t].pc = "failing" /\ ~tick[t].final
       THEN GoOn(t, tick[t].left)
       ELSE /\ Becomes(t, At(t, IF tick[t].pc = "succeeding" THEN "telling" ELSE "regretting"))
            /\ UNCHANGED inFlight
    /\ UNCHANGED <<control, lease>>

\* Variant of TellRequest (QueuedRequestHasJob): a failed job leaves the request.
TellRequestPublished(t) ==
    /\ tick[t].pc \in {"telling", "regretting"}
    /\ \/ /\ request' = IF tick[t].pc = "telling" THEN "published" ELSE request
          /\ NoFault
       \/ UNCHANGED request /\ Fault("lost")
    /\ GoOn(t, tick[t].left)
    /\ UNCHANGED <<caller, approved, decisions, jobs, lease>>

\* The request becomes published, whatever its status; or failed, if it was
\* publishable.
TellRequest(t) ==
    /\ tick[t].pc \in {"telling", "regretting"}
    /\ \/ /\ request' = IF tick[t].pc = "telling" THEN "published"
                        ELSE IF request \in Publishable THEN "failed" ELSE request
          /\ NoFault
       \/ UNCHANGED request /\ Fault("lost")
    /\ GoOn(t, tick[t].left)
    /\ UNCHANGED <<caller, approved, decisions, jobs, lease>>

\* The lease is the process's, whichever of its calls has acquired it.
ReleaseLease(t) ==
    /\ tick[t].pc = "releasing"
    /\ L!Release(ProcOf[t])
    /\ Becomes(t, Idle)
    /\ harm' = harm \union IF lease.owner = ProcOf[t] /\ Works(ProcOf[t]) THEN {"released"} ELSE {}
    /\ UNCHANGED <<control, jobs, inFlight, faults>>

\* A request of runTick to the database fails.  The lease is then not acquired, as
\* far as the call knows, or not released; nothing is found; a row is left, or is
\* claimed by nobody; the job fails, but not for good.
RequestFails(t) ==
    /\ Fault("lost")
    /\ \/ /\ tick[t].pc \in {"acquiring", "releasing"}
          /\ Becomes(t, Idle)
          /\ UNCHANGED <<jobs, inFlight>>
       \/ tick[t].pc = "scanning" /\ GoOn(t, tick[t].left) /\ UNCHANGED jobs
       \/ tick[t].pc = "selecting" /\ GoOn(t, 0) /\ UNCHANGED jobs
       \/ /\ tick[t].pc = "recovering"
          /\ \E row \in tick[t].found : NextRow(t, row, tick[t].left)
          /\ UNCHANGED jobs
       \/ /\ tick[t].pc = "claiming"
          /\ \E row \in tick[t].found :
                /\ IsOldest(row, tick[t].found)
                /\ NextRow(t, row, 0)
                /\ \/ UNCHANGED jobs
                   \/ /\ jobs[row[1]].status = "queued"
                      /\ jobs' = [jobs EXCEPT ![row[1]] = Running(row[1])]
       \/ /\ tick[t].pc = "reading"
          /\ Becomes(t, Failing(t, LastAttempt(t)))
          /\ UNCHANGED <<jobs, inFlight>>
    /\ UNCHANGED lease \/ (tick[t].pc = "acquiring" /\ L!Acquire(ProcOf[t]))
    /\ UNCHANGED control

-----------------------------------------------------------------------------
(* Time, and the end of a process.                                         *)

LeaseExpires ==
    /\ L!Expire
    /\ harm' = harm \union IF Works(lease.owner) THEN {"overrun"} ELSE {}
    /\ UNCHANGED <<control, jobs, worker, faults>>

WorksOn(t, j) == tick[t].job = j

\* WORKER_STALE_RUNNING_MS have passed since the row was claimed: it was left, or
\* its worker is late.
JobAges(j) ==
    /\ jobs[j].status = "running" /\ ~jobs[j].aged
    /\ jobs' = [jobs EXCEPT ![j] = [jobs[j] EXCEPT !.aged = TRUE]]
    /\ IF \E t \in Ticks : WorksOn(t, j) THEN Fault("late") ELSE NoFault
    /\ UNCHANGED <<control, worker, lease>>

Crash(p) ==
    /\ \E t \in Ticks : ProcOf[t] = p /\ tick[t] # Idle
    /\ Fault("crash")
    /\ tick' = [t \in Ticks |-> IF ProcOf[t] = p THEN Idle ELSE tick[t]]
    /\ inFlight' = [inFlight EXCEPT ![p] = FALSE]
    /\ L!Abandon(p, Orphan)
    /\ UNCHANGED <<control, jobs>>

-----------------------------------------------------------------------------
Init ==
    /\ request = "review_pending" /\ jobs = <<>>
    /\ caller = [c \in Callers |-> "idle"]
    /\ tick = [t \in Ticks |-> Idle] /\ inFlight = [p \in Procs |-> FALSE]
    /\ L!LeaseInit
    /\ approved = FALSE /\ decisions = 0 /\ faults = 0 /\ harm = {}

Enqueue(c) == CheckRequest(c) \/ FindActive(c) \/ InsertJob(c) \/ TellQueued(c)

Work(t) ==
    \/ AcquireLease(t) \/ LeaseIsHeld(t)
    \/ ScanStale(t) \/ RecoverStale(t) \/ SelectQueued(t) \/ Claim(t)
    \/ ReadRequest(t) \/ Publish(t) \/ MarkJob(t) \/ TellRequest(t)
    \/ ReleaseLease(t)

Next ==
    \/ \E d \in Decisions : Decide(d)
    \/ \E c \in Callers : Enqueue(c)
    \/ \E t \in Ticks : StartTick(t) \/ Work(t) \/ RequestFails(t)
    \/ LeaseExpires
    \/ \E j \in Jobs : JobAges(j)
    \/ \E p \in Procs : Crash(p)

Spec == Init /\ [][Next]_vars

(***************************************************************************)
(* setInterval fires again and again in each process, requests are         *)
(* answered, time passes.                                                  *)
(***************************************************************************)
Fairness ==
    /\ \A p \in Procs : WF_vars(\E t \in Ticks : ProcOf[t] = p /\ StartTick(t))
    /\ \A t \in Ticks : WF_vars(Work(t))
    /\ WF_vars(LeaseExpires)
    /\ \A j \in 1..MaxJobs : WF_vars(j \in Jobs /\ JobAges(j))

FairSpec == Spec /\ Fairness

-----------------------------------------------------------------------------
(* Safety.                                                                 *)

\* A job is worked on by one call of runTick at a time, in whichever process,
\* until a worker is so late that its job is recovered as stale.
OneWorkerPerJob ==
    harm \cap {"late", "misjudged"} = {} =>
        \A t1, t2 \in Ticks : t1 # t2 /\ tick[t1].job # 0 => tick[t1].job # tick[t2].job

\* A request that is queued for publishing has a job that will settle it.  A
\* worker's two updates can be torn apart by a crash or an error nobody reads, and
\* the last update of an enqueue can overwrite what a fast worker wrote.
QueuedRequestHasJob ==
    harm \cap {"crash", "lost", "overwritten"} = {} /\ request = "queued_for_publish" =>
        HasActive \/ \E t \in Ticks : tick[t].pc \in {"telling", "regretting"}

\* The worker opens a pull request, and writes that the request is published, only
\* while the last decision about it is to approve it.  What breaks it is a
\* decision that comes after the worker has read the request, during the calls
\* to GitHub, or one that an enqueue has overwritten.
ApprovedIsPublished ==
    [][\A t \in Ticks :
          \/ tick[t].pc = "publishing" /\ tick'[t].pc = "succeeding"
          \/ tick[t].pc = "telling" /\ request' = "published" /\ request # "published"
          => approved \/ harm \cap {"overtaken", "overwritten"} # {}]_vars

\* One process works at a time, until a tick takes longer than its lease, which
\* nobody renews, or another tick of its process releases it.
SingleLeader ==
    harm \cap {"overrun", "released"} = {} =>
        \A p1, p2 \in Procs : Works(p1) /\ Works(p2) => p1 = p2

-----------------------------------------------------------------------------
(* Liveness.                                                               *)

\* Every job in the queue is published or fails for good, although workers
\* crash, updates are lost and leases are held by processes that ended.
JobsEnd ==
    \A j \in 1..MaxJobs :
        (j \in Jobs /\ jobs[j].status \in Active) ~> (j \in Jobs /\ jobs[j].status \in Ended)
=============================================================================
