---------------------------- MODULE AgentRuntime ----------------------------
(***************************************************************************)
(* The multi-agent session runtime: the queue of                           *)
(* src/services/multiAgentRuntimeQueue.ts together with the session        *)
(* operations of src/services/multiAgentService.ts that call it.           *)
(*                                                                         *)
(* The program is one JavaScript event loop, so a handler runs without     *)
(* interruption up to its first await.  The one handler whose intermediate *)
(* states are kept is the drain callback, whose loop splices the array it  *)
(* iterates over: while cursor > 0 the callback is on the stack and no     *)
(* other handler can run.  Sessions execute asynchronously; what happens   *)
(* inside one execution is the subject of SessionExecution, and is         *)
(* abstracted here to Pause, Complete and Fail.                            *)
(***************************************************************************)
EXTENDS Naturals, FiniteSets, SequencesExt

CONSTANTS
    Sessions,       \* the ids startAgentSession may draw (uuids, never reused)
    Guilds,
    GuildOf,        \* the guild a session is started for
    Policies,       \* the values max_concurrent_sessions may take
    Unresolved,     \* no policy can be resolved for the guild right now
    NoGuild,        \* no entry in runningSessionGuilds
    MaxAttempts,    \* AGENT_SESSION_MAX_ATTEMPTS
    MaxDeadletters, \* AGENT_DEADLETTER_MAX
    MaxQueueSize,   \* AGENT_MAX_QUEUE_SIZE
    MaxHistory      \* AGENT_MAX_SESSION_HISTORY

ASSUME GuildOfAssumption == GuildOf \in [Sessions -> Guilds]
ASSUME PoliciesAssumption == Policies \subseteq Nat \ {0} /\ Unresolved \notin Nat
ASSUME NoGuildAssumption == NoGuild \notin Guilds
ASSUME LimitsAssumption ==
    {MaxAttempts, MaxDeadletters, MaxQueueSize, MaxHistory} \subseteq Nat \ {0}

VARIABLES
    sessions,        \* the ids present in the `sessions` Map
    status,          \* session.status; "unborn" before startAgentSession
    cancelRequested, \* session.cancelRequested
    hitl,            \* session.hitlState: none, awaiting input, or decided
    pending,         \* pendingSessionQueue
    runningIds,      \* runningSessionIds
    runningGuild,    \* runningSessionGuilds
    guildCounts,     \* runningSessionGuildCounts; 0 stands for no entry
    attempts,        \* sessionAttempts; 0 stands for no entry
    deadletters,     \* deadletters, newest first
    timer,           \* queueDrainTimer # null
    cursor,          \* 1 + index of the drain loop; 0 when it is not running
    execution,       \* the executeSession promise of each session
    policy           \* what getMaxConcurrent answers for each guild

sessionVars == <<sessions, status, cancelRequested, hitl>>
runVars == <<runningIds, runningGuild, guildCounts>>
queueVars == <<pending, attempts, deadletters, timer, cursor>>
vars == <<sessionVars, runVars, queueVars, execution, policy>>

Terminal == {"completed", "failed", "cancelled"}
Statuses == {"unborn", "queued", "running"} \union Terminal

(***************************************************************************)
(* The promise of executeSession.  "executing": executeSession has not     *)
(* returned; a status: it returned that status and the .then callback is   *)
(* due; "handled": .then ran and .finally is due.                          *)
(***************************************************************************)
Results == {"queued"} \union Terminal
Settling == Results \union {"handled"}
Executions == {"idle", "executing"} \union Settling

\* The fields of the queue and the sessions keep their types, whatever handlers
\* interleave with the drain; a deadletter and a queued id are of sessions.
TypeOK ==
    /\ sessions \subseteq Sessions
    /\ status \in [Sessions -> Statuses]
    /\ cancelRequested \in [Sessions -> BOOLEAN]
    /\ hitl \in [Sessions -> {"none", "awaiting", "decided"}]
    /\ pending \in Seq(Sessions)
    /\ runningIds \subseteq Sessions
    /\ runningGuild \in [Sessions -> Guilds \union {NoGuild}]
    /\ guildCounts \in [Guilds -> Nat]
    /\ attempts \in [Sessions -> Nat]
    /\ deadletters \in Seq(Sessions)
    /\ timer \in BOOLEAN
    /\ cursor \in Nat
    /\ execution \in [Sessions -> Executions]
    /\ policy \in [Guilds -> Policies \union {Unresolved}]

Init ==
    /\ sessions = {}
    /\ status = [s \in Sessions |-> "unborn"]
    /\ cancelRequested = [s \in Sessions |-> FALSE]
    /\ hitl = [s \in Sessions |-> "none"]
    /\ pending = <<>>
    /\ runningIds = {}
    /\ runningGuild = [s \in Sessions |-> NoGuild]
    /\ guildCounts = [g \in Guilds |-> 0]
    /\ attempts = [s \in Sessions |-> 0]
    /\ deadletters = <<>>
    /\ timer = FALSE
    /\ cursor = 0
    /\ execution = [s \in Sessions |-> "idle"]
    /\ policy \in [Guilds -> Policies \union {Unresolved}]

-----------------------------------------------------------------------------
(* Helpers of the queue.                                                   *)

(* Each operator whose comment begins "Variant" is a faulty version of the *)
(* definition it precedes.  The specification uses none of them; replacing *)
(* the definition by its variant must break the property named.            *)

\* enqueueSession: an id is never queued twice.
Enqueued(queue, s) == IF Contains(queue, s) THEN queue ELSE Append(queue, s)

\* The slots the drain may fill in a guild; none when getMaxConcurrent is null.
\* (Its Math.max(1, ...) changes nothing: the cache keeps values >= 1.)
Slots(g) == IF policy[g] = Unresolved THEN 0 ELSE policy[g]

\* Variant of Blocked (AdmissionBound): off by one.
BlockedAboveLimit(s) == guildCounts[GuildOf[s]] > Slots(GuildOf[s])

\* The scan leaves a session where it is: no policy, or its guild is full.
Blocked(s) == guildCounts[GuildOf[s]] >= Slots(GuildOf[s])

\* The event loop is free to run another handler.
LoopIsFree == cursor = 0

-----------------------------------------------------------------------------
(* The operations of the API (routes and Discord commands).                *)

\* startAgentSession.  Pruning drops the sessions with the oldest updatedAt,
\* whatever their status; which ones these are depends on touches this model
\* leaves out, so any older session may be dropped.
StartAgentSession(s) ==
    /\ LoopIsFree
    /\ status[s] = "unborn"
    /\ Len(pending) < MaxQueueSize
    /\ ~Blocked(s)
    /\ \E kept \in SUBSET sessions :
          /\ IF Cardinality(sessions) < MaxHistory
                THEN kept = sessions
                ELSE Cardinality(kept) = MaxHistory - 1
          /\ sessions' = kept \union {s}
    /\ status' = [status EXCEPT ![s] = "queued"]
    /\ pending' = Enqueued(pending, s)
    /\ timer' = TRUE
    /\ UNCHANGED <<cancelRequested, hitl, runVars, attempts, deadletters,
                   cursor, execution, policy>>

\* cancelAgentSession of a queued session: it ends at once.
CancelQueued(s) ==
    /\ LoopIsFree
    /\ s \in sessions
    /\ status[s] = "queued"
    /\ cancelRequested' = [cancelRequested EXCEPT ![s] = TRUE]
    /\ pending' = RemoveFirst(pending, s)
    /\ status' = [status EXCEPT ![s] = "cancelled"]
    /\ UNCHANGED <<sessions, hitl, runVars, attempts, deadletters, timer,
                   cursor, execution, policy>>

\* cancelAgentSession of a running session: only the flag is set, and the
\* execution is expected to notice it.
CancelRunning(s) ==
    /\ LoopIsFree
    /\ s \in sessions
    /\ status[s] = "running"
    /\ cancelRequested' = [cancelRequested EXCEPT ![s] = TRUE]
    /\ UNCHANGED <<sessions, status, hitl, runVars, queueVars, execution, policy>>

\* Variant of ResumeAgentSession (NeverRunsTwice): a running session is not
\* refused.
ResumeEvenRunning(s) ==
    /\ LoopIsFree
    /\ s \in sessions
    /\ status[s] \in {"queued", "running"}
    /\ hitl[s] # "none"
    /\ status' = [status EXCEPT ![s] = "queued"]
    /\ hitl' = [hitl EXCEPT ![s] = "decided"]
    /\ pending' = Enqueued(pending, s)
    /\ timer' = TRUE
    /\ UNCHANGED <<sessions, cancelRequested, runVars, attempts,
                   deadletters, cursor, execution, policy>>

\* Variant of ResumeAgentSession (ImplementsLifecycle): the decision is not
\* recorded.
ResumeUndecided(s) ==
    /\ LoopIsFree
    /\ s \in sessions
    /\ status[s] = "queued"
    /\ hitl[s] # "none"
    /\ pending' = Enqueued(pending, s)
    /\ timer' = TRUE
    /\ UNCHANGED <<sessionVars, runVars, attempts, deadletters, cursor, execution, policy>>

\* resumeAgentSession.  A queued session has a resumable checkpoint exactly
\* when it paused for a human (hitl # "none"); neither the queue limit nor the
\* policy is consulted, and a second resume finds the decision already made.
ResumeAgentSession(s) ==
    /\ LoopIsFree
    /\ s \in sessions
    /\ status[s] = "queued"
    /\ hitl[s] # "none"
    /\ status' = [status EXCEPT ![s] = "queued"]
    /\ hitl' = [hitl EXCEPT ![s] = "decided"]
    /\ pending' = Enqueued(pending, s)
    /\ timer' = TRUE
    /\ UNCHANGED <<sessions, cancelRequested, runVars, attempts,
                   deadletters, cursor, execution, policy>>

-----------------------------------------------------------------------------
(* The drain: scheduleDrain's timer callback, one iteration per step.       *)

\* Variant of TimerFires (FifoPerGuild): the scan starts at the second entry.
TimerFiresPastHead ==
    /\ LoopIsFree
    /\ timer
    /\ \A s \in Sessions : execution[s] \notin Settling
    /\ timer' = FALSE
    /\ cursor' = 2
    /\ UNCHANGED <<sessionVars, runVars, pending, attempts, deadletters,
                   execution, policy>>

\* The callback starts.  A timer is a macrotask and the continuations of a
\* settled promise are microtasks, so none of those is due any more.
TimerFires ==
    /\ LoopIsFree
    /\ timer
    /\ \A s \in Sessions : execution[s] \notin Settling
    /\ timer' = FALSE
    /\ cursor' = 1
    /\ UNCHANGED <<sessionVars, runVars, pending, attempts, deadletters,
                   execution, policy>>

Scanning == cursor \in 1..Len(pending)
Scanned == pending[cursor]

\* Variant of DropGone (WorkConserving): the index is not moved back after the
\* splice.
DropGoneAndAdvance ==
    /\ Scanning
    /\ Scanned \notin sessions
    /\ pending' = RemoveAt(pending, cursor)
    /\ cursor' = cursor + 1
    /\ UNCHANGED <<sessionVars, runVars, attempts, deadletters, timer,
                   execution, policy>>

\* The id was pruned from the Map while it waited.
DropGone ==
    /\ Scanning
    /\ Scanned \notin sessions
    /\ pending' = RemoveAt(pending, cursor)
    /\ UNCHANGED <<sessionVars, runVars, attempts, deadletters, timer, cursor,
                   execution, policy>>

\* A cancelled session is taken out of the queue and ended.
DropCancelled ==
    /\ Scanning
    /\ Scanned \in sessions
    /\ cancelRequested[Scanned] \/ status[Scanned] = "cancelled"
    /\ pending' = RemoveAt(pending, cursor)
    /\ status' = [status EXCEPT ![Scanned] = "cancelled"]
    /\ UNCHANGED <<sessions, cancelRequested, hitl, runVars, attempts,
                   deadletters, timer, cursor, execution, policy>>

\* The scanned session is in the Map and was not cancelled.
Eligible ==
    /\ Scanned \in sessions
    /\ ~cancelRequested[Scanned]
    /\ status[Scanned] # "cancelled"

\* The guild has no policy or is at its limit: look at the next id.
SkipBlocked ==
    /\ Scanning
    /\ Eligible
    /\ Blocked(Scanned)
    /\ cursor' = cursor + 1
    /\ UNCHANGED <<sessionVars, runVars, pending, attempts, deadletters,
                   timer, execution, policy>>

\* The effects of a pick: the session is spliced out, marked running, and
\* executed (executeSession sets its status before its first await).
RunScanned ==
    LET s == Scanned
        g == GuildOf[Scanned]
    IN  /\ pending' = RemoveAt(pending, cursor)
        /\ runningIds' = runningIds \union {s}
        /\ runningGuild' = [runningGuild EXCEPT ![s] = g]
        /\ guildCounts' = [guildCounts EXCEPT ![g] = @ + 1]
        /\ attempts' = [attempts EXCEPT ![s] = @ + 1]
        /\ status' = [status EXCEPT ![s] = "running"]
        /\ execution' = [execution EXCEPT ![s] = "executing"]
        /\ UNCHANGED <<sessions, cancelRequested, hitl, deadletters, timer, policy>>

\* The first session that can run is picked; then the scan restarts.
PickNext ==
    /\ Scanning
    /\ Eligible
    /\ ~Blocked(Scanned)
    /\ RunScanned
    /\ cursor' = 1

\* Nothing more can be picked: the callback returns, and schedules itself
\* again when ids are left.
EndScan ==
    /\ cursor > Len(pending)
    /\ cursor' = 0
    /\ timer' = (timer \/ pending # <<>>)
    /\ UNCHANGED <<sessionVars, runVars, pending, attempts, deadletters,
                   execution, policy>>

Drain == DropGone \/ DropCancelled \/ SkipBlocked \/ PickNext \/ EndScan

-----------------------------------------------------------------------------
(* The outcomes of an execution, and the continuations of its promise.      *)

Executing(s) == LoopIsFree /\ execution[s] = "executing"

EndExecution(s, result) ==
    /\ status' = [status EXCEPT ![s] = result]
    /\ execution' = [execution EXCEPT ![s] = result]

\* pauseSessionForHitl: runHitlReviewStateNode does not look at
\* cancelRequested, and pauses unless a human has decided already.
PauseForHitl(s) ==
    /\ Executing(s)
    /\ hitl[s] # "decided"
    /\ EndExecution(s, "queued")
    /\ hitl' = [hitl EXCEPT ![s] = "awaiting"]
    /\ UNCHANGED <<sessions, cancelRequested, runVars, queueVars, policy>>

\* completeSession, completeGraphTaskSession, a blocked policy gate and a
\* non-task answer all end this way.
CompleteSession(s) ==
    /\ Executing(s)
    /\ EndExecution(s, IF cancelRequested[s] THEN "cancelled" ELSE "completed")
    /\ UNCHANGED <<sessions, cancelRequested, hitl, runVars, queueVars, policy>>

\* executeSession's catch: resolveTerminalSessionFailure.
FailSession(s) ==
    /\ Executing(s)
    /\ EndExecution(s, IF cancelRequested[s] THEN "cancelled" ELSE "failed")
    /\ UNCHANGED <<sessions, cancelRequested, hitl, runVars, queueVars, policy>>

\* Variant of Deadlettered (FailuresAreRecorded): cut one short.
DeadletteredShort(s) ==
    LET letters == <<s>> \o deadletters
    IN  IF Len(letters) > MaxDeadletters
        THEN SubSeq(letters, 1, MaxDeadletters - 1)
        ELSE letters

\* deadletters.unshift, cut at the maximum.
Deadlettered(s) ==
    LET letters == <<s>> \o deadletters
    IN  IF Len(letters) > MaxDeadletters
        THEN SubSeq(letters, 1, MaxDeadletters)
        ELSE letters

\* The execution failed and attempts are left.
Retriable(s) == execution[s] = "failed" /\ attempts[s] < MaxAttempts

\* Variant of RequeueForRetry (NoStrandedSession): the admission check of
\* startAgentSession applied to a retry, whose own slot is still taken.
RequeueIfAdmitted(s) ==
    /\ LoopIsFree
    /\ s \in sessions
    /\ Retriable(s)
    /\ status' = [status EXCEPT ![s] = "queued"]
    /\ cancelRequested' = [cancelRequested EXCEPT ![s] = FALSE]
    /\ hitl' = [hitl EXCEPT ![s] = "none"]
    /\ pending' = IF Blocked(s) THEN pending ELSE Enqueued(pending, s)
    /\ execution' = [execution EXCEPT ![s] = "handled"]
    /\ UNCHANGED <<sessions, runVars, attempts, deadletters, timer, cursor, policy>>

\* .then of a failed execution with attempts left: requeueForRetry and
\* resetSessionForRetry.
RequeueForRetry(s) ==
    /\ LoopIsFree
    /\ s \in sessions
    /\ Retriable(s)
    /\ status' = [status EXCEPT ![s] = "queued"]
    /\ cancelRequested' = [cancelRequested EXCEPT ![s] = FALSE]
    /\ hitl' = [hitl EXCEPT ![s] = "none"]
    /\ pending' = Enqueued(pending, s)
    /\ execution' = [execution EXCEPT ![s] = "handled"]
    /\ UNCHANGED <<sessions, runVars, attempts, deadletters, timer, cursor, policy>>

\* .then of a failed execution with no attempt left.
MoveToDeadletters(s) ==
    /\ LoopIsFree
    /\ s \in sessions
    /\ execution[s] = "failed"
    /\ ~Retriable(s)
    /\ deadletters' = Deadlettered(s)
    /\ execution' = [execution EXCEPT ![s] = "handled"]
    /\ UNCHANGED <<sessionVars, runVars, pending, attempts, timer, cursor, policy>>

\* .then in the other cases: not failed, or the session was pruned.
IgnoreResult(s) ==
    /\ LoopIsFree
    /\ \/ execution[s] \in Results \ {"failed"}
       \/ execution[s] = "failed" /\ s \notin sessions
    /\ execution' = [execution EXCEPT ![s] = "handled"]
    /\ UNCHANGED <<sessionVars, runVars, queueVars, policy>>

\* Variant of ReleaseSlot (GuildCountsExact, SessionsSettle): the guild is
\* looked up in the Map, where a pruned session is no longer found.
ReleaseSlotIfKnown(s) ==
    /\ LoopIsFree
    /\ execution[s] = "handled"
    /\ runningIds' = runningIds \ {s}
    /\ runningGuild' = [runningGuild EXCEPT ![s] = NoGuild]
    /\ guildCounts' = IF s \in sessions
                      THEN [guildCounts EXCEPT ![GuildOf[s]] = IF @ > 0 THEN @ - 1 ELSE 0]
                      ELSE guildCounts
    /\ timer' = TRUE
    /\ execution' = [execution EXCEPT ![s] = "idle"]
    /\ UNCHANGED <<sessionVars, pending, attempts, deadletters, cursor, policy>>

\* .finally: clearRunningSession, then scheduleDrain.
ReleaseSlot(s) ==
    LET g == runningGuild[s]
    IN  /\ LoopIsFree
        /\ execution[s] = "handled"
        /\ runningIds' = runningIds \ {s}
        /\ runningGuild' = [runningGuild EXCEPT ![s] = NoGuild]
        /\ guildCounts' = IF g = NoGuild
                          THEN guildCounts
                          ELSE [guildCounts EXCEPT ![g] = IF @ > 0 THEN @ - 1 ELSE 0]
        /\ timer' = TRUE
        /\ execution' = [execution EXCEPT ![s] = "idle"]
        /\ UNCHANGED <<sessionVars, pending, attempts, deadletters, cursor, policy>>

-----------------------------------------------------------------------------
(* The policy cache of agentPolicyService.ts, as the drain sees it.         *)

\* A refresh of the cache ends, with any row for the guild.
PolicyRefreshed(g) ==
    /\ LoopIsFree
    /\ \E n \in Policies \ {policy[g]} : policy' = [policy EXCEPT ![g] = n]
    /\ UNCHANGED <<sessionVars, runVars, queueVars, execution>>

\* The cache grows stale while the guild has no row of its own: wall-clock
\* time, so this may happen in the middle of a scan.
PolicyExpires(g) ==
    /\ policy[g] # Unresolved
    /\ policy' = [policy EXCEPT ![g] = Unresolved]
    /\ UNCHANGED <<sessionVars, runVars, queueVars, execution>>

-----------------------------------------------------------------------------
Execute(s) == PauseForHitl(s) \/ CompleteSession(s) \/ FailSession(s)

Settle(s) ==
    RequeueForRetry(s) \/ MoveToDeadletters(s) \/ IgnoreResult(s) \/ ReleaseSlot(s)

Request(s) ==
    \/ StartAgentSession(s)
    \/ CancelQueued(s)
    \/ CancelRunning(s)
    \/ ResumeAgentSession(s)

Next ==
    \/ \E s \in Sessions : Request(s) \/ Execute(s) \/ Settle(s)
    \/ TimerFires
    \/ Drain
    \/ \E g \in Guilds : PolicyRefreshed(g) \/ PolicyExpires(g)

Spec == Init /\ [][Next]_vars

(***************************************************************************)
(* Fairness.  setTimeout callbacks and promise continuations are run by    *)
(* the event loop, a started loop iteration goes on, and an execution ends *)
(* because every skill call is raced with STEP_TIMEOUT and the session     *)
(* with SESSION_TIMEOUT.  An execution's next step cannot run while the    *)
(* drain is on the stack, and the drain polls: its fairness is strong, as  *)
(* the event loop serves a due callback however often timers fire between. *)
(* Nothing is assumed of users (start, cancel, resume) or of the policy    *)
(* cache.                                                                  *)
(***************************************************************************)
Fairness ==
    /\ WF_vars(TimerFires)
    /\ WF_vars(Drain)
    /\ \A s \in Sessions : SF_vars(Execute(s)) /\ WF_vars(Settle(s))

FairSpec == Spec /\ Fairness

-----------------------------------------------------------------------------
(* Safety.                                                                 *)

RunningOf(g) == {s \in runningIds : GuildOf[s] = g}

\* The per-guild counter that admission and the drain decide by is the number
\* of the guild's sessions in runningSessionIds, at every moment: it is kept
\* by increments in markSessionRunning and guarded decrements in
\* clearRunningSession, and a slot lost or released twice would never heal.
GuildCountsExact == \A g \in Guilds : guildCounts[g] = Cardinality(RunningOf(g))

\* A non-empty queue is never forgotten: outside the drain a timer is set, or
\* a .finally that sets one is due.  scheduleDrain is called from four places
\* and does nothing when a timer exists.
NoLostWakeup ==
    LoopIsFree /\ pending # <<>> =>
        timer \/ \E s \in Sessions : execution[s] = "handled"

\* A session the Map still holds as queued can make progress: it waits in the
\* queue, or it waits for a human and can be resumed.
NoStrandedSession ==
    \A s \in sessions :
        status[s] = "queued" => Contains(pending, s) \/ hitl[s] = "awaiting"

\* A deadletter is a session that failed for good: it is out of attempts, no
\* retry will revive it, and it is recorded once.
DeadlettersAreFinal ==
    /\ \A i \in DOMAIN deadletters :
          LET s == deadletters[i]
          IN  status[s] = "failed" /\ attempts[s] >= MaxAttempts /\ ~Contains(pending, s)
    /\ \A i, j \in DOMAIN deadletters : deadletters[i] = deadletters[j] => i = j

\* No failure is dropped: once its continuation ran, a failed session that is
\* still in the Map is in the deadletters, unless newer ones pushed it out.
FailuresAreRecorded ==
    \A s \in sessions :
        status[s] = "failed" /\ execution[s] \in {"idle", "handled"} =>
            Contains(deadletters, s) \/ Len(deadletters) = MaxDeadletters

\* A session is executed at most MaxAttempts + 1 times.  The extra time is the
\* execution that a human resumed: the pause consumed an attempt, and a retry
\* that forgets the decision may pause once more.
AttemptsBounded == \A s \in Sessions : attempts[s] <= MaxAttempts + 1

-----------------------------------------------------------------------------
(* Action properties.                                                      *)

\* The drain starts an execution of s in this step.
Started(s) == attempts'[s] # attempts[s]

\* A session is never executed by two executeSession calls at once: it starts
\* only when the continuations of its previous execution have run.
NeverRunsTwice ==
    [][\A s \in Sessions :
          Started(s) => execution[s] = "idle" /\ s \notin runningIds]_vars

\* A session starts only in a guild whose policy is known, and the guild is
\* then within its limit, whatever policy changes, retries and resumes
\* happened between its admission and now.
AdmissionBound ==
    [][\A s \in Sessions :
          Started(s) =>
             /\ policy[GuildOf[s]] # Unresolved
             /\ Cardinality(RunningOf(GuildOf[s])') <= Slots(GuildOf[s])]_vars

\* The drain is fair within a guild: a started session overtakes none of its
\* guild's sessions that were queued before it.
FifoPerGuild ==
    [][\A s \in Sessions :
          Started(s) =>
             \A i, j \in DOMAIN pending :
                i < j /\ pending[j] = s => GuildOf[pending[i]] # GuildOf[s]]_vars

\* The drain leaves nothing behind that could run: what is in the queue when
\* the callback returns is blocked, although the array was spliced while it
\* was being iterated over.
WorkConserving ==
    [][cursor > 0 /\ cursor' = 0 =>
          \A i \in DOMAIN pending : Blocked(pending[i])]_vars

\* A session that ended stays as it is; the one exception is the retry of a
\* failed session that has attempts left.
FinalIsFinal ==
    [][\A s \in Sessions :
          status[s] \in Terminal /\ status'[s] # status[s] =>
             /\ status[s] = "failed" /\ status'[s] = "queued"
             /\ attempts[s] < MaxAttempts]_vars

\* An accepted cancellation is never lost: the request is not reset by a
\* retry, and the session neither completes, nor fails, nor starts again.
CancelIsSticky ==
    [][\A s \in Sessions :
          cancelRequested[s] =>
             /\ cancelRequested'[s]
             /\ ~Started(s)
             /\ status'[s] \in {status[s], "queued", "cancelled"}]_vars

-----------------------------------------------------------------------------
(* Refinement.                                                             *)

Life(s) == INSTANCE SessionLifecycle
               WITH status <- status[s], cancelRequested <- cancelRequested[s],
                    hitl <- hitl[s]

\* Whatever the queue does with the others, each session lives the life that
\* SessionLifecycle describes: above all, the drain never runs one that waits
\* for a human, or was asked to stop.
ImplementsLifecycle ==
    /\ \A s \in Sessions : Life(s)!Init
    /\ [][\A s \in Sessions : Life(s)!Next \/ UNCHANGED Life(s)!vars]_vars

-----------------------------------------------------------------------------
(* Liveness, when every policy is eventually known for good.                *)

PoliciesSettle == <>[](\A g \in Guilds : policy[g] # Unresolved)

Over(s) == s \notin sessions \/ status[s] \in Terminal

\* Every session that was started ends, waits for a human, or is pruned: no
\* order of retries, cancellations and full guilds starves it.
SessionsSettle ==
    PoliciesSettle =>
        \A s \in Sessions :
            status[s] \in {"queued", "running"} ~>
                Over(s) \/ (status[s] = "queued" /\ hitl[s] = "awaiting")

\* What cancelAgentSession answers to the user, that the stop request is
\* accepted, taken at its word: the session ends.
AcceptedCancelTakesEffect ==
    PoliciesSettle => \A s \in Sessions : cancelRequested[s] ~> Over(s)
=============================================================================
