# A TLA+ model of the Muel agent runtime

Specifications of what this repository (a Discord bot with an HTTP API) runs in the
background: the queue that runs agent sessions, the two engines that execute one, the
life they give a session together; the queue of memory jobs with its deadletters; the
sprint pipelines with their approvals; the publishing of change requests by workers
that share a lease; and three parts the others rely on, the telemetry queue, the
idempotency guard and the file lock. TLC checks the models on small instances; TLAPS
proves every safety property of every model, and that the session queue and the engines
each implement the abstract life of a session, for every number of sessions, guilds,
jobs, processes, workers, tasks, requests, callers, restarts and faults and every limit.
Liveness is model-checked.

Paths below are relative to `src/services/` unless they start with `src/` or `docs/`.

## 1. The system and its parts

| Part | State | Operations | Interacts with |
|---|---|---|---|
| **Session queue** `multiAgentRuntimeQueue.ts` | pending ids, running ids and their guilds, per-guild counters, attempts, deadletters, one drain timer | enqueue, remove, drain, the `.then`/`.finally` of an execution | called by the session service; calls back `executeSession`, `requeueForRetry`, `markCancelled`, `getMaxConcurrent` |
| **Session service** `multiAgentService.ts` | `sessions` Map | start (with pruning), cancel, resume, retry, rehydrate, executeSession | queue, engines, store, policy cache |
| **Engines** `langgraph/sessionRuntime/*`, `langgraph/langgraphjsAdapter.ts` | the session object: status, steps, checkpoint, hitlState, shadowGraph | nodes, steps, pause for a human, fallback LangGraph → main pipeline | skills (external), memory hints, policy gate |
| **State support** `langgraph/runtimeSupport/*` | the same object | terminal marking, checkpointing, reset for retry, resume, routing | service, engines |
| **Session store** `agent/agentSessionStore.ts` | a row per session in Supabase | upsert, fired without awaiting; read at startup | service |
| **Policy cache** `agent/agentPolicyService.ts` | limits per guild with a TTL | refresh, expiry, lookup | admission and drain |
| **Workflow templates** `agent/agentWorkflowService.ts` | step templates per guild | lookup | session creation, retry |
| **Sprint pipelines** `sprint/sprintOrchestrator.ts`, `sprintTriggers.ts`, `sprintCodeWriter.ts` | `pipelines` Map, the ids a phase is in progress for, rows of `sprint_pipelines` | create, advance, run to the end, approve, cancel, rehydrate | actions and code changes (external), approval requests, Supabase |
| **Memory jobs** `memory/memoryJobRunner.ts` | rows of `memory_jobs` and `memory_job_deadletters`; `inFlight`, `recoveryInFlight` | queue, claim, complete, fail, bury, recover, cancel | Supabase, pg_cron route, admin routes |
| **Change publishing** `opencode/opencodeGitHubQueueService.ts`, `opencodePublishWorker.ts` | change requests and the publish queue in Supabase; `inFlight` per process | decide, enqueue; tick: recover stale jobs, claim, publish, mark | lease, GitHub, admin routes |
| **Lease** `infra/distributedLockService.ts` | a row per lease | acquire, release, expiry | publish worker, Discord commands, trading |
| **Telemetry queue** `agent/agentTelemetryQueue.ts` | bounded array of tasks, `inflight`, `drainScheduled`, `durableHealthy`; a row per task, whose id is learnt late | enqueue and insert; drain, close, retry; recover at startup | engines, Supabase |
| **Idempotency** `src/middleware/idempotency.ts` | a record per key, in a table or a Map | claim, replay or refuse; complete or release when the response has been sent; expiry | every mutating route |
| **File lock** `src/utils/obsidianFileLock.ts` | a lock file per key | create, write, run, remove; wait, time out, take over a stale one | any processes that share the vault |
| Breakers and loops `src/utils/circuitBreaker.ts`, `src/utils/backgroundLoop.ts` | failures per key, a timer | isOpen, record; start, stop, tick | most services |
| Others | | | LLM providers, action runner, worker approvals, monitors, Obsidian, Discord, traffic routing: listed in `PROJECT.json` with the reason they are not modelled |

What makes the runtime hard: everything runs on one event loop, so races are
between *handlers* (a user's cancel, a resume, a policy refresh, the drain) and
the awaits inside an execution; the drain splices the array it iterates; a
session is carried by four structures at once (Map, queue array, slot tables,
promise) that are updated at different moments; pauses look like queued
sessions; failure, cancellation, timeout and pause race to end an execution;
and a restart rebuilds a session, or a pipeline, from a row that holds only part of
it or is one write old. Where several processes share a table, a step is a request to
the database: what was read before it may be stale, the errors of many updates are not
read, and a lease may run out under the process that holds it.

### What makes each part correct

* **Queue**: counters equal the running set; no lost wake-up; first come first
  served within a guild; nothing runnable is left behind; a session runs once
  at a time, within the limit in force, and a bounded number of times; failures
  are recorded and final.
* **Service**: an accepted cancellation is never undone; ended sessions stay
  ended; a queued session can always make progress; every session settles.
* **Engines**: a human who must review does, on a draft of this attempt, and
  what he decides is what happens; no skill runs twice in an attempt, whatever
  falls back or resumes; nothing starts after a cancellation; executions end.
* **Restart**: what was in progress is carried on (it is not, see section 6).
* **Memory jobs**: one worker per job; no row is left running, no failure is lost;
  a cancellation outlives the worker's answer; only ended jobs are started over;
  every deadletter is decided.
* **Sprint pipelines**: a phase reserved to a human runs only for a human, whoever
  advances, approves or cancels at the same time; what ships was checked as it is; a
  pipeline is never left in the middle.
* **Publishing**: one process works at a time, one worker on a job; what is published
  was approved when its worker last looked, and was not decided otherwise since; a
  request that is queued has a job; every job ends.
* **Telemetry queue**: an accepted task is kept until it succeeded, and a failed one is
  retried and then kept as failed; no task that succeeded runs again; none waits for ever.
* **Idempotency**: one request with a key takes effect; a replay is a response to the
  same payload; who is told to come back later finds something in progress.
* **File lock**: one holder; every call ends.

## 2. Modules

| Module | Models | Correspondence |
|---|---|---|
| `SessionLifecycle` | the abstract life of a session | `status`, `cancelRequested` and `hitlState`, as a poller of the API sees them |
| `AgentRuntime` | queue and session service, many sessions | a variable per field of `MultiAgentRuntimeQueue`; an action per handler, and per iteration of the drain loop |
| `SessionExecution` | one session inside `executeSession`, both engines, retry and restart | a state per node; a node that awaits a skill is two steps, so that a cancellation fits between |
| `MCAgentRuntime` | sessions, guilds and symmetry for TLC | `SessionExecution` needs no such module: its cfg files give its two constants |
| `AgentRuntimeProofs` | what splicing does to sequences without duplicates; the inductive invariant, slots, admission, cancellation; the order and completeness of the drain; the deadletters; the life of a session, and that the queue implements `SessionLifecycle` | theorems about `AgentRuntime` |
| `SessionExecutionProofs` | all its safety properties, and that the engines implement `SessionLifecycle` | theorems about `SessionExecution` |
| `MemoryJobs` | the memory job queue, its workers, recoveries and administrator | a variable per table column that matters; a step per request to the database |
| `MemoryJobsProofs` | all its safety properties | theorems about `MemoryJobs` |
| `SprintPipeline` | one pipeline, all who act on it, its row, and the restart | a step between two awaits that take time |
| `SprintPipelineProofs` | types, the approval gate, and that ship follows the checks | theorems about `SprintPipeline` |
| `DistributedLease` | the row of a lease | the atomic statement of the database, release, expiry |
| `ChangePublishing` | one change request, its jobs, the control plane and the publish workers of several processes; instantiates `DistributedLease` | a step per request to the database or GitHub |
| `MCChangePublishing` | the processes of the calls, for TLC | no code of its own |
| `ChangePublishingProofs` | all its safety properties | theorems about `ChangePublishing` |
| `TelemetryQueue` | the tasks in the memory of one process, their rows, and the restart | a step per timer, handler, and request to the database |
| `TelemetryQueueProofs` | what the queue's operations do to sequences; all its safety properties, and that no wake-up is lost | theorems about `TelemetryQueue` |
| `IdempotencyGuard` | the requests with one key of one scope, on the table or the Map | a step per request to the table; the handler between its start and its response |
| `IdempotencyGuardProofs` | all its safety properties | theorems about `IdempotencyGuard` |
| `VaultFileLock` | the calls of `withObsidianFileLock` for one key | a step per call of the file system |
| `VaultFileLockProofs` | mutual exclusion | theorems about `VaultFileLock` |

`AgentRuntime` abstracts an execution to three outcomes (`PauseForHitl`,
`CompleteSession`, `FailSession`), `SessionExecution` abstracts the queue to one
flag (`enqueued`). What each assumes of the other is `SessionLifecycle`, and
both are proved to implement it (`ImplementsLifecycle`): the engines pause only
before a decision, end once, obey a cancellation; the queue never runs a session
that waits for a human or was asked to stop.

Operators whose comment begins "Variant of" are faulty versions of the next
definition. No specification uses them: they document which mistake each
property would catch, and that it would.

### AgentRuntime

`cursor` is the index of the drain loop; while it is positive the callback is on
the stack and no other handler may run (`LoopIsFree`), except that the policy
cache may expire, which is a matter of the clock. `execution[s]` is the promise
returned by `executeSession`: executing, resolved with a status (`.then` due),
`handled` (`.finally` due), idle. `TimerFires` waits until no continuation is
due, because microtasks run before the next timer. `hitl` is what
`prepareSessionForResume` and `runHitlReviewStateNode` distinguish.

Abstractions: which old session `pruneSessions` drops is a choice of any, since
it depends on `updatedAt` touches; ids are never reused (UUIDs); the check of
goal, skill and administrator in `validateAgentSessionRequest` is left out (it
only refuses); `markSessionTerminal` is reduced to the status.

### SessionExecution

`node` is where the execution is. `MoveTo` is what happens between two nodes; on
LangGraph this includes `onTransition`, which saves a checkpoint. `Throw` is an
exception that leaves the engine: the fallback, or the catch of `executeSession`.
`saved` is the row in Supabase with the rows of its steps, and `Restart` builds the
session from them as `rehydrateActiveSessions` does. A retry and a personalization build
the steps anew, with new ids, and nothing deletes the rows of the old ones from
`agent_steps`: `others` keeps their statuses. A restart reads them all, and until a save
gives all of them the same `updated_at` those of earlier attempts come first, so the
steps the handlers find by their index may be any of them (`RestoreSteps`, `listed`).
The fallback to the main pipeline looks at all of them.

Abstractions: texts are kinds (`result`); exceptions may come from any node that
can throw (`ThrowingNodes`); intent, gate and route are choices; the LangGraph
library runs the node `resolveNext` names and returns without another macrotask
in between; a write to the database arrives at once and in order, which the code
does not ensure (a listed hazard); workflow templates are the default ones.
Attempts are not counted here (`AgentRuntime` counts them), so retries are
unbounded and the runs cover any number of them.

### MemoryJobs

A job is a row (`status`, `attempts`, and `due` for `next_attempt_at`), jobs are
numbered by creation. `task[w]` is one call of the loop in `tick`: what the worker
has selected stays in `task[w].job` and `task[w].attempt` until it claims, so it
may be stale. `crew` is what `Promise.all` awaits, and `inFlight` is `crew # {}`.
Claim, completion and failure are conditional updates (`.eq('status', ...)`): a row
that does not match is not an error. `recovery[r]` is one call of
`processDeadletterRecoveryBatch` or of the admin route, each with its own batch;
the database and not the process is shared, so several may run at once.

Assumed: a request answered with an error has had no effect. Such an answer is a
`Fault`, and `harm` remembers the kinds that lose an update, so that each property
says exactly which loss breaks it. It also remembers that a deadletter was requeued a
second time (`twice`, told by the history variable `used`), which the code does not
prevent: another recoverer had read it as well, or the mark of the first requeue was
lost, overwritten or cut off. `RoomForLetter`
bounds the deadletters, since a job that always fails is recovered for ever: the
attempts of a recovery are counted on the deadletter, and each failure writes a
fresh one. Left out: what a job computes, timestamps, statistics, deadletters
without a job (the runner writes none). A claim does not ask whether the row is still
due, so a stale selection skips the backoff: the model allows it, no property
forbids it.

### SprintPipeline

`mem` is the pipeline's entry in the Map, `adv` the call of `advanceSprintPhase` in
progress (the code refuses a second one), `runners[r]` a call of
`runFullSprintPipeline`. The functions change one shared object, so the model's
operators do too: `Begin` (the guards, and the approval gate of `executePhaseAction`),
`Conclude` (the loop count and the rollback), `Record` (the result and the transition,
which overwrites the phase whatever happened meanwhile), `Return` (to a run, or to
`approveSprintPhase`, which restores the level it had overridden). An advance is cut at
the action, the rollback and the approval request; in between others may approve,
cancel or advance. `row` and `sent` are the row before and after the last upsert, which
a crash may lose. `checked` is a history variable: the phases that succeeded since the
files or the code last changed. `stray` is a code change that `raceWithTimeout` has
given up and that goes on.

Results are kept per phase, as the sort of their keys lets `approveSprintPhase` find
them: `KeyRank` is the order of numbers written in decimal (up to 100, hence the
assumption on `MaxTotalPhases`). Abstractions: an action succeeds, fails, or (plan)
asks for an approval, and may change files or exceed its scope; whether review inserts
the security audit is a choice. Left out: the content of the results, lifecycle hooks
(none is registered), mutations of the phase order, the pipeline that is marked blocked
when a run throws, and the eviction of ended pipelines.

### ChangePublishing and DistributedLease

The three reads and writes of `enqueueOpencodePublishJob` and every request of
`runTick` are separate steps. `found` holds the rows a call has read, with the attempts
it read, so that a recovery or a claim may act on rows that have gone on. The owner of
the lease is a token of the process, so any call of a process finds the lease its own:
`inFlight` is set only after the lease was awaited, and two ticks of one process can
both acquire it, the first to end releasing it under the other. The unique index on
active jobs refuses a second one (`Refused`; the schema calls the index optional, the
model assumes it). An acquire, or a claim, may have taken effect although its answer was
lost: the lease is then held until it expires. As in `MemoryJobs`, `harm` remembers the faults and
races that happened, so that each property names exactly what breaks it:
`overrun` (a lease expired under a working process), `released` (by another tick of the
process), `late` (a job aged under its worker), `misjudged` (a stale scan was applied
to a later claim), `overwritten` (an enqueue's last update changed a status that had
gone on), `overtaken` (a decision other than to approve came while a worker relied on
the status it had read, `Trusts`), `lost`, `crash`.

Left out: the patch and its checks, branches and pull requests, learning signals,
other change requests (they share the lease and the queue, not the rows).

### TelemetryQueue

`items` are the `TelemetryTask` objects: those enqueued, and those a recovery makes from
rows, so that a task may have two. `at` is where an object is: in the queue, in a handler,
in the update before or after it, waiting for the timer of its retry. `known` says whether
the object has its `persistedId`: the insert is sent when the task is enqueued, its answer
(`Learn`) may come after the handler has ended, and every update is skipped until then.
`healthy` is `durableHealthy`, cleared by an error and never set again. `rows[t].ripe`
stands for `available_at` and for the staleness of a running row. `hurt[t]` remembers what
happened to a task that the queue does not cover; each property names what breaks it.

Abstractions: ids are the numbers of the tasks, so rows are selected in their order; a
request answered with an error has had no effect. An insert that is under way when the
process restarts may still land or not (`Restart`). Left out: the saturation mode that runs
a task inline (the default drops it), tasks without a handler, statistics.

### IdempotencyGuard

`row` is the record: `by` is the request whose payload it holds, `from` the one whose
response. `guarded` are the requests with a listener of `finish`; a request whose client
left (`left`) never emits it. `durable` chooses between the table and the Map, where
claims, reads and updates are immediate. An insert that fails lets the request through
(`Bypass`), with or without the row written. `Expire` is the date in the record, and
`Purge` the SQL function of the schema. What responses and payloads contain is reduced to
whose they are, and whether they are the usual ones.

### VaultFileLock

`pc` is the file-system call that is due. `file.stale` is the age of the lock file against
`staleMs`, `late` the call's clock against `timeoutMs`. `Kill` ends a process that waits
for the lock or holds it, `Seal` makes the directory read-only, where `releaseLock`
swallows the error. `harm` remembers the two races of a lock that can only be told by its
age: a task that takes longer (`overstayed`) and a takeover that removes another's fresh
lock (`stolen`).

## 3. Runs

| Run | Instance | Question |
|---|---|---|
| `runtime_guilds` | 3 sessions, 2 guilds, limits 1 and 2, history of 2, 1 attempt | admission, order, one execution at a time, work conservation |
| `runtime_live` | 2 sessions, 1 guild, 2 attempts, history of 1 | retries, stranded sessions, deadletters, refinement of `SessionLifecycle`; every session settles |
| `runtime_cancel_parked` | 2 sessions | a counterexample (section 6) |
| `execution` | one session, up to 2 restarts | reviews, decisions, checkpoints, fallback, cancellation, refinement of `SessionLifecycle`; executions end |
| `execution_zombie` | one session, 1 restart | a counterexample (section 6) |
| `memory` | 1 job, 3 workers in ticks of 2, `recoveryTick` and pg_cron, 2 deadletters, 1 fault of any kind | ownership, lost updates, cancellation, recovery; deadletters are decided |
| `sprint` | each level, 2 runs, 10 phases, 2 loops, 1 cancellation, 1 crash | the approval gate, the checks before ship; pipelines settle |
| `sprint_restart` | 10 phases, 3 loops, 1 crash | a counterexample (section 6) |
| `publishing` | 2 processes with a tick each, 1 enqueue, 1 job, 2 decisions, 2 attempts, batches of 2, 1 fault | the lease, ownership of jobs, what is published; jobs end |
| `telemetry` | 2 tasks, queue of 1, 1 at a time, 2 attempts, batches of 2, 3 objects, 1 fault | what is kept, what runs again; every task settles |
| `idempotency` | 3 requests, 1 with another payload, table and Map, 2 faults | one effect, own replays, true refusals |
| `vault_lock` | 3 callers | one holder; every call ends |

Why the bounds are enough to be interesting. Three sessions give a queue with a
first, a middle and a last element, so every splice of the drain meets an
element before and after it. Two guilds let one be full while the other is not;
two limits let the limit shrink below what is running. A history of 2 with three
sessions prunes sessions that are queued, running and parked; in
`runtime_live` a history of 1 does with two. Two attempts give a failure that is
retried and one that is not. In `runtime_guilds` a queue limit of two makes
`startAgentSession` refuse. For one session `SessionExecution` is explored
completely: its only bound is the number of restarts, and two give a restart of
a restored session.

For `MemoryJobs`, three workers are a tick of two and a third that an error of another
has left behind at its job, so that a left-behind worker, the next tick and what either
has read meet; with two recoverers, both read a deadletter and both requeue it, and the
job is claimed in between. There is one job: the statements are about one job and its
deadletters, and a second one only gives the workers and recoveries something else to do
(the theorems hold for any number of jobs). Two retries give a failure that is retried
and one that is final; a fault hits any request the code makes, or is a crash.
`MaxLetters` makes the last attempts wait when it is reached (`RoomForLetter`), so that
every deadletter that is written is seen; with two, the job is requeued and fails again.

For `SprintPipeline`, the shortest way through takes seven phases, so ten leave room
for a loop back or for phases that wait; with two loops the bound on loops is reached.
Two runs are the one that was started and the one an approval or a restart starts. Four
levels and one cancellation meet every gate.

For `ChangePublishing`, one job is recovered, requeued and published again by either
process; a batch of two lets a call go on to a job that was put back meanwhile; two
decisions are an approval and a rejection, which may come at any moment of the
publishing. With one tick per process `released` and `misjudged` cannot happen in the
run; the theorems cover them.

For `TelemetryQueue`, a queue of one is full when the second task comes early, and one
slot makes it wait when it comes late; two attempts are a retry and a last failure; with
three objects both tasks are in memory and one of them is recovered as well, or both are
recovered after the restart. The fault is that restart, or one error, which costs the
process its durability. For `IdempotencyGuard`, two requests with the same payload and
one with another meet every answer; two faults are an error and a crash, or two errors. For
`VaultFileLock`, a takeover that hits the wrong lock takes three callers: the dead owner
and two waiters; kills and the clock are not bounded.

Most type invariants, and what is only a step to another property, are left to the
theorems (section 5); the runs check the properties that say most, and all liveness.
`HumanSawTheDraft`, `RejectionIsFinal`, `DeliveredUntilRestart` and `SomebodyCarriesIt`
speak of one life of the process only. After a restart they fail, for the reasons of
section 6: steps are rebuilt when personalization is applied again, or are those of an
earlier attempt, and the intent is not restored. So do `GatedUntilRestart` and
`ShipFollowsChecks`: a restart forgets the level (section 6), the code changes to roll
back, and whatever was checked in between. `NoRepeatedWork` is stated across restarts, of
the steps the session then has.

`CHECK_DEADLOCK FALSE` is set where everything may have ended: `SessionExecution`,
`SprintPipeline`, `TelemetryQueue`, `IdempotencyGuard` and `VaultFileLock` have one
session, one pipeline, or a number of calls. `AgentRuntime`, `MemoryJobs` and
`ChangePublishing` are checked for it.

## 4. Fairness

*Queue* (`AgentRuntime!Fairness`). The event loop runs due timers and promise
continuations, and a loop that has begun goes on: weak fairness of `TimerFires`,
`Drain` and `Settle(s)`. An execution ends, because skills are raced with
`AGENT_STEP_TIMEOUT_MS` and the session has a budget; its fairness is strong,
since a timer that polls may disable its next step again and again while the
drain is on the stack. Nothing is assumed of users or of the policy cache:
`SessionsSettle` and `AcceptedCancelTakesEffect` have as their premise that
policies are eventually known for good, without which a guild may wait for ever.

*Execution* (`SessionExecution!FairSpec`). Weak fairness of `Execute` only: every
await inside an execution ends, by the timeouts above. Being run, resumed,
retried or restarted is not assumed.

*Memory jobs* (`MemoryJobs!Fairness`). `setInterval` fires, or the process is started
again and then it does (`Tick`, and `recoveryTick` for the recoverer "tick"); every
request is answered, with or without an error, and a job ends (`Work`); time passes
until `next_attempt_at` (`BackoffEnds`). Nothing is assumed of cancellations, of the
pg_cron route, or of administrators. Faults and crashes are bounded by `MaxFaults`:
liveness is claimed once they cease.

*Sprint pipelines* (`SprintPipeline!Fairness`). Promises are settled: an action ends or
times out (`SPRINT_PHASE_TIMEOUT_MS`), a rollback and a request to the database are
answered, a loop that may go on does, a started process reads the rows. Nobody has to
approve or to cancel: a pipeline that waits for a human is settled.

*Publishing* (`ChangePublishing!Fairness`). `setInterval` fires again and again in each
process; requests are answered, with or without an error; the lease and the claims
age. Decisions, enqueues and faults are not assumed.

*Telemetry queue* (`TelemetryQueue!FairSpec`). Timers fire (`Drain`, `Retry`), requests to
the database are answered, handlers end, and the recovery at startup goes on.

*File lock* (`VaultFileLock!FairSpec`). A call that was made goes on, its task ends, and
the clock reaches `timeoutMs` and `staleMs`. Removing a file may fail for ever (`Seal`).

## 5. What is proved

### AgentRuntime

From the named assumptions of `AgentRuntime` on its constants (every session has a
guild, policies and limits are positive):

| Theorem | What it says, for every number of sessions and guilds and every limit |
|---|---|
| `TypeCorrect` | every variable keeps its type |
| `Invariance` | the inductive invariant `IInv` below holds for ever |
| `CountersAreExact` | `runningSessionGuildCounts` is the number of the guild's sessions in `runningSessionIds` |
| `NoWakeupIsLost` | outside the drain, a non-empty queue has a timer, or an execution whose `.finally` sets one |
| `OneExecutionAtATime` | a session starts only when its earlier execution is settled |
| `AdmissionIsBounded` | the drain starts a session only within the limit the policy cache answers at that moment |
| `CancellationIsSticky` | an accepted cancellation is never taken back |
| `EndIsFinal` | an ended session keeps its status, but for the retry of a failed one |
| `GuildsAreServedInOrder` | a started session overtakes none of its guild's that waited before it |
| `DrainLeavesNothingRunnable` | what the drain leaves in the queue is blocked |
| `NoSessionIsStranded` | a session the Map holds as queued is in the queue, or waits for a human |
| `ExecutionsAreBounded` | a session is executed at most `MaxAttempts` + 1 times |
| `LifecycleIsImplemented` | every session lives the life `SessionLifecycle` describes (the refinement) |
| `DeadlettersStay`, `NoFailureIsDropped` | a deadletter is final and listed once; no final failure is missing |

That is every safety property the runs check of `AgentRuntime`, and more.

**`IInv`**. `guildCounts` is incremented without a look at
what is counted already, so the counter is right only if the session the drain
picks has no slot yet. That needs facts about other structures: the queue holds
only ids of queued sessions, each once (`QueueAgrees`); a session has a slot
exactly while its promise is unsettled, and the status it has meanwhile agrees
with the promise (`SlotsTracked`, `ExecutionAgrees`); and a paused session, which
is `queued` again while its promise is still to be settled, is not seen by a
drain before that, because the drain runs only when no continuation is due
(`DrainIsAlone`). With the types, the counters (`GuildCountsExact`), and the fact
that no session ends successfully or fails with its flag set (`CancelAgrees`),
these are inductive: one lemma per group of operations, one step per operation.
The lemmas that open the module say what appending to and splicing a queue of distinct
ids does.

**`PrefixBlocked`**. While the drain scans, what lies
before the cursor is blocked. The splices happen at the cursor, a pick restarts
the scan, and the one thing that may happen meanwhile, an expiry of the policy
cache, only blocks more. Order and work conservation follow.

**`SInv`**. A session that waits for a human is in no
queue (`HumanAgrees`), which is why the drain never runs one, and what it has
left of its attempts depends on whether a human decided (`AttemptsLeft`), which
is where the extra execution comes from. `NoStrandedSession` belongs to it: a
second resume finds the session queued, so it grants nothing.

**`FInv`**. A deadletter's execution is over
(`LettersAgree`), so the `.then` that records a failure never finds it recorded,
and the cut of the list drops something only when it is full.

### SessionExecution

From `RestartsAssumption` (the bound on restarts is a number) and `NoNodeAssumption` (no
node is called like the lack of a checkpoint), for one session through any number of
resumes, retries, fallbacks and restarts:

| Theorem | What it says |
|---|---|
| `TypeCorrect` | the session object, its saved row and the place of its execution keep their types |
| `DraftSeen` | a session that waits for a human, or has a decision, has a complete draft of this attempt (until a restart) |
| `ReviewedBeforeCompletion` | on LangGraph, a full review at precise priority or under a review gate completes only after a decision |
| `RejectionStays` | after a rejection no step starts, and the session ends with the rejection text (until a restart) |
| `Delivered` | what a human approved, or asked to revise, completes as the result of a task (until a restart) |
| `WorkIsNotRepeated` | no step the session has completed is run again in its attempt, but for the final text and the draft after a split research; after a restart, of the steps that were restored |
| `CancelObeyed` | once cancellation is requested, no step starts, and the session neither completes nor fails |
| `LifecycleIsImplemented` | the engines live the life `SessionLifecycle` describes (the refinement), until the process restarts |

That is every safety property the run `execution` checks.

**`SessionInv`**. `NoRepeatedWork` is not about one node: a step must be known not to be
done when its node begins. `PositionInv` says, for each node, which steps are untouched,
begun or done there, and `PlannedInv` that a step is cancelled early only in the plan of
a fast session. An execution may begin anywhere a checkpoint says, though, so this holds
only because of what a session looks like between two executions (`ReadyInv`): it has no
checkpoint and untouched steps, or it was paused at `hitl_review` with every step
completed (`Parked`). All other checkpoints, which are saved at every node, are never
continued, since what leads back to the queue either resets the session or comes from the
pause. The same is true of the saved row (`SavedInv`), hence of a restart, and a fallback
to the main pipeline happens only while the steps are untouched. When a restart restores
the steps of earlier attempts as well, nothing is known of those a handler finds, but the
way of the session is: only one that was paused is executed again without a retry, one of
its restored steps is completed (`StoreInv`), so no fallback is made, and it reaches the
review and what follows it only (`ListedInv`). `RestInv`
(a step runs only while the handler of its node awaits it) is what a cancellation that
arrives in between relies on. `LifeInv` holds for one life of the process: a session a
human was asked about is a task, and goes nowhere but from the review to its end. A
restart breaks it, which is why three of the theorems are limited to `restarts = 0`; the
others are not.

### MemoryJobs

From the named assumptions on its constants, whoever recovers deadletters, for every
number of jobs, workers, retries, deadletters and faults:

| Theorem | What it says |
|---|---|
| `TypeCorrect` | rows and deadletters keep their types; a recovery names a deadletter that exists |
| `RunningHasWorker` | no row is left running without a worker, but for a crash or an unwritten failure |
| `CancelIsRespected` | a worker's late answer never changes a cancelled row |
| `FailedCanBeRecovered` | a failed job has a deadletter nobody has used, or is getting one, but for a crash or a lost insert |
| `OwnersAreUnique` | one worker per job, and none while the row can be claimed, across crashes and lost updates, until a deadletter is used twice |
| `OnlyEndedJobsRecover` | what is queued anew has ended and nobody works on it, unless its deadletter is used twice, or a failure could not be written |
| `TickUsesLettersOnce` | with `recoveryTick` alone, no deadletter is used twice without a crash or a lost mark (this one assumes `Recoverers \subseteq {"tick"}`) |

That is every safety property the run `memory` checks, and more.

`RequeueJob` updates a row whatever its status, and nothing in it looks again at the
deadletter that was read. What makes it safe all the same, the first time, is in the
deadletters, and the invariant **`Ownership`** says so: a deadletter is *fresh* while no
job was queued anew from it; the job of a fresh deadletter is quiet (nobody works on it,
and it cannot be claimed); a job has one fresh deadletter at most; a worker about to
write one finds the job quiet and without any (`LettersAreQuiet`, `LettersAreSingle`,
`BuriersAreAlone`). Then the requeue of a fresh deadletter finds nobody to disturb
(`OwnersAreAlone`). This holds whoever recovers and whatever fails; what is left is
whether a deadletter is used a second time, which is `twice`. For `recoveryTick` alone,
`UsedIsMarked` and `RecoveryIsFresh` (what was read as not requeued stays so) show that
it is not, unless a crash or an error loses the mark; with pg_cron or an administrator
beside it, it can be (section 6). `ReleaseStep` treats all steps that only let go of
something.
`FailedHasLetter` strengthens `FailedIsRecorded` by leaving out a deadletter that is about
to be marked.

### SprintPipeline

From the named assumptions on its constants, for every number of runs, cancellations,
loops and phases (up to the 100 for which `KeyRank` is the order of the keys):

| Theorem | What it says |
|---|---|
| `TypeCorrect` | the pipeline, the phase in progress and the saved rows keep their types; whoever acts has a pipeline |
| `GatedPhasesWait` | until a restart, a gated phase acts only in a call of `approveSprintPhase` |
| `ShipsWhatWasChecked` | ship follows review, qa and ops-validate of the files as they are, until a restart or a stray write |

`advanceSprintPhase` ends in many ways, so the proofs go through what `Begin`,
`Conclude` and `Record` leave behind (`Concludes`, `Settles`, `RollsBack`), one lemma
each, and each invariant is then shown for these outcomes. **`LevelKept`**: at any
moment either the pipeline has its own level, or the call in progress is the approver's
and holds the level it will put back; so no other call finds it overridden. The same is
why the restart has to be excluded: the row is written in between. **`ChecksKept`**: the
checks a phase needs have succeeded whenever it is the current phase or in progress, and
a rollback, which makes them void, leads to implement. The last is not so when a phase
with the level `manual` waits for an approval: it is counted and rolled back like a
failure, and then stays. **`ReviewKept`** shows that this happens only in review, which
needs no checks: nothing that was written since implement is left to roll back after it,
because review itself was gated, and its approval belongs to files already rolled back.

### ChangePublishing

From the named assumptions on its constants, for every number of processes, calls of
`runTick`, enqueues, jobs, decisions and faults:

| Theorem | What it says |
|---|---|
| `TypeCorrect` | what a call has read and holds are rows that exist; every other variable keeps its type |
| `OneLeader` | one process works at a time, but for `overrun` and `released` |
| `PublishesTheApproved` | when a pull request is opened, and when `published` is written, the last decision approves it, but for `overtaken` and `overwritten` |
| `QueuedIsCarried` | a queued request has an active job or a worker about to settle it, but for `crash`, `lost` and `overwritten` |
| `OneWorkerEach` | no two calls work on one job, but for `late` and `misjudged` |

That is every safety property the run checks. **`LeaseInv`**: a working process owns an
unexpired lease. **`ApprovalInv`**: a request that may be published is approved, or an
enqueue has overwritten something; and so is what a worker relies on after it has read
the request (`Trusts`), or a decision has overtaken it. **`WorkerInv`**: calls hold
different jobs, a held job is not queued and has not aged, and only a running job has: so neither a claim nor a
recovery, however old the rows it has read, takes a held one. `RecoverStale` asks for
`running` and not for the age, which is why `misjudged` must be excluded.

### TelemetryQueue

From `ConstantsAssumption` (tasks are positive numbers, and so are the limits that the
code bounds from below by one), for every number of tasks, objects and faults and every
limit:

| Theorem | What it says |
|---|---|
| `TypeCorrect` | objects and rows keep their types, a queued object is queued once, and no more handlers run than `QUEUE_CONCURRENCY` |
| `AcceptedTasksAreKept` | an accepted task that has not succeeded is in memory, on its way to the table or in it, but for `fault` and `unsaved` |
| `FailuresAreKept` | a task that failed is in memory or has a failed row, unless it met a harm other than `duplicated` |
| `NotBegunAgain` | a task that succeeded and met no harm is not begun again |
| `DrainIsWoken` | while a task is queued, the drain is scheduled, or a handler runs whose end schedules it |

That is every safety property the run `telemetry` checks, and one more: `DrainIsWoken`
is the safety that `EveryTaskSettles` rests on.

**`QueueSafe`**. The limit on handlers needs that `Drain` takes no more objects than there
is room for: the queue holds each object once, so a prefix of it has as many members as
places (`QueueTake`; appending and the recovery of a batch keep the queue so). An object
that has its id has a row that was stored (`ItemInv`), a stored row stays until its task
has succeeded (`StoredInv`), and so the update after the last attempt finds it: the
update itself does not look. A row without an id in memory is what the insert leaves
when it is answered late; `RowInv` says that a row exists only once its insert was sent,
so no insert overwrites one. A task without any harm has one object (`OnceInv`), since a
recovery that adds another makes it `duplicated`; once it succeeded, that object is the
one that deletes the row, and without it there is no row. These are proved by what each operation does to objects, rows
and harms (`WorksBecome`, `Grows`, `Changes`, `Steady`), so that each part of the invariant
is shown against these outcomes.

### VaultFileLock

From `Absent \notin Callers`, for every number of callers, kills and takeovers:

| Theorem | What it says |
|---|---|
| `TypeCorrect` | callers, the lock file and its age keep their types |
| `LockIsExclusive` | two calls never hold the lock, but for `overstayed` and `stolen` |

**`OwnFile`**: the lock file of a call that holds it exists, is its own and is not stale.
Then `open` with `wx` fails for the others, and who holds the lock removes its own file.

### IdempotencyGuard

From `RequestsAssumption`, for every number of requests and faults, with both stores:

| Theorem | What it says |
|---|---|
| `TypeCorrect` | the record and the requests keep their types; a record names the request that claimed it |
| `OneEffectPerKey` | one request at most runs, or has run with effect, until the guard was bypassed or its record is gone |
| `ReplaysItsOwn` | a replay is the response of a successful request with the same payload, until a request outlives its record |
| `BusyMeansBusy` | who is told that the key is in progress is told the truth, until a client leaves, the process crashes or an answer is lost |

**`ActsWithRecord`**: whoever runs or has had its effect is the one the record names.
**`RecordInv`**: a completed record holds the response of the request it names; since the
updates go by key alone, this needs that no guarded request is older than the record.
**`InProgressIsTrue`**: a record in progress has a guarded request that is alive.

## 6. Where the code and its documentation differ

1. **An accepted cancellation can be ignored by the human review.**
   `runHitlReviewStateNode` (`langgraph/sessionRuntime/fullReviewDeliberationNodes.ts:151`)
   does not look at `cancelRequested`, so a session whose cancellation was accepted
   while it ran is parked as queued. It ends only if somebody resumes it (the
   drain then drops it) or cancels it again. Run `runtime_cancel_parked`.
2. **Rehydrated sessions are carried by nobody.** `rehydrateActiveSessionsInner`
   puts them into the Map but does not enqueue them. Run `execution_zombie`.
3. **An approval can outlive itself.** The pipeline is saved with the overridden level
   while an approved phase runs (`sprint/sprintOrchestrator.ts:1395`); after a restart
   it is `full-auto` and ships unapproved. Run `sprint_restart`.

Met while modelling, without a run of its own:

* An approval given after a restart is lost: the restored `routedIntent` is `'uncertain'`
  (`multiAgentService.ts:1271`), so the resumed graph composes the approved result and
  answers with a clarification question. `DeliveredUntilRestart` excludes it.
* A deadletter can be requeued twice: `requeueDeadletterJob` refuses a letter that was
  requeued on a read and then updates the job unconditionally (`memory/memoryJobRunner.ts:1014`);
  `recoveryTick` and the pg_cron route (`src/routes/internal.ts:488`) may both have read it,
  and the second requeue starts the job over while a worker is on it. No crash or error is
  needed. `OneWorkerPerJob` excludes it by name (`twice`).
* A pipeline is stuck when its tenth phase waits for an approval: results are found by
  sorting keys like `ship-10` and `ship-8` as strings (`sprint/sprintOrchestrator.ts:1380`),
  and `SPRINT_MAX_TOTAL_PHASES` is 12. `KeyRank` models it.
* `docs/RUNBOOK_MUEL_PLATFORM.md:1351` promises that failed telemetry tasks are retried
  and stay as failed rows; a task that fails before its insert is answered is neither
  (`agent/agentTelemetryQueue.ts:165`). `TrackedFailuresAreKept` excludes it.
* `docs/planning/CONTROL_PLANE_POLICY_TABLE.md:30` promises that a 5xx response releases
  its record; the release hangs on `finish` (`src/middleware/idempotency.ts:318`), which a
  client that has left prevents. `BusyIsTrue` excludes it.
* `src/utils/circuitBreaker.ts:9` promises that a failed probe re-opens the circuit;
  line 54 deletes the count, so it does only with a threshold of one. Line 5 promises a
  sliding window; lines 70 to 74 start a fresh one and forget the failures before it.
* `docs/RENDER_AGENT_ENV_TEMPLATE.md:114` promises a single leader among the publish
  workers ("단일 publish worker 리더 보장"), which holds until a tick outlives its lease
  or another tick of the process releases it (`SingleLeader` names both).
* The last update of an enqueue has no condition and can turn a rejection back into a
  request that is published (`overwritten`).
* A worker reads the request once and then makes dozens of calls to GitHub
  (`opencode/opencodePublishWorker.ts:755`): a rejection in between neither keeps it from
  opening the pull request nor stays, since line 631 writes `published` without a
  condition (`overtaken`).
* `agent_steps` keeps the rows of steps that a retry or a personalization has replaced
  (`agent/agentSessionStore.ts:139`), and rehydration restores them all, the oldest
  first (`multiAgentService.ts:1230`): the handlers, which find steps by their index, then
  take those of an earlier attempt for the present ones.
* A phase of the level `manual` that waits for an approval has its files rolled back and
  counts as a loop.
* A cancellation of a pipeline while a phase is in progress is overwritten by the next
  phase.
* A deadletter can be written for a job that was cancelled.

## 7. Only model-checked, and not modelled

Liveness (`SessionsSettle`, `ExecutionEnds`, `LettersAreDecided`, `PipelineSettles`,
`JobsEnd`, `EveryTaskSettles`, `CallsEnd`) is model-checked only: the proof system does
not prove liveness under fairness. Nothing else is: each safety property of a run that
passes is also a theorem of section 5. The three counterexamples of section 6 are TLC's.

Not modelled, and why:

* unordered and lost writes of the session store (the rows of one upsert are taken to be
  restored in the order they were inserted), and effects of a skill that goes on after its
  timeout: `SessionExecution` abstracts the data they would disturb;
* circuit breakers and background loops: local counters around single calls; where the
  breaker's comments differ from its code is in section 6;
* the action runner, worker approvals, LLM client, traffic routing, shadow runs,
  monitors, Obsidian and Discord adapters: calls of external services with local
  bookkeeping, or pure I/O. The scripts of `src/scripts` are command-line tools that
  run one step after the other.

## 8. Plan

Done: every module of section 2. What would add most next:

1. The session store with unordered writes, under `SessionExecution`'s `Restart`.
2. `ChangePublishing` with two change requests, and an abstract specification of a
   request (pending, decided, queued, settled) that it implements.
3. Wake-up invariants like `DrainIsWoken` for the memory jobs and the publish workers.
4. The inline saturation mode of the telemetry queue; worker approvals; the circuit
   breaker.
