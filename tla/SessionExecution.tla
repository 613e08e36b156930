-------------------------- MODULE SessionExecution --------------------------
(***************************************************************************)
(* One session as executeSession of src/services/multiAgentService.ts runs *)
(* it: the route, the graph of nodes that the LangGraph engine and the     *)
(* main pipeline share, the steps and their skills, the pause for a human, *)
(* the fallback from one engine to the other, checkpoints, and what a      *)
(* restart of the process makes of the row saved in the database.          *)
(*                                                                         *)
(* A node's handler is one step when it awaits nothing that matters, and   *)
(* two (StartStep, then its outcome) when it runs a skill, so that a       *)
(* cancellation can arrive in between.  The queue is reduced to `enqueued` *)
(* (AgentRuntime models it); texts, memory hints, scores and traces are    *)
(* left out.                                                               *)
(***************************************************************************)
EXTENDS Naturals

CONSTANTS
    MaxRestarts, \* bound on the restarts of the process
    NoNode       \* no resumable checkpoint

ASSUME RestartsAssumption == MaxRestarts \in Nat

VARIABLES
    status, cancelRequested,
    priority, personalized, \* session.priority; personalization # undefined
    wantsSkill,      \* session.requestedSkillId # null
    intent,          \* session.routedIntent: "task", or any other
    gate,            \* session.policyGate.decision; "none" until evaluated
    strategy,        \* shadowGraph.executionStrategy
    engine,          \* session.executionEngine
    steps,           \* the status of session.steps
    checkpoint,      \* the node a resumable graphCheckpoint continues at
    hitl,            \* session.hitlState: awaiting input, or its decision
    result,          \* what kind of text session.result is
    node,            \* where executeSession is; "idle" when it is not running
    leastToMost,     \* the research of this execution is split into subgoals
    enqueued,        \* the id is in the queue
    saved,           \* its row in agent_sessions, and of its steps in agent_steps
    others,          \* the statuses of its further rows in agent_steps
    listed,          \* session.steps holds these rows too
    restarts         \* how often the process restarted

request == <<priority, personalized, wantsSkill>>
routing == <<intent, gate, strategy, engine>>
progress == <<steps, checkpoint, hitl, result>>
past == <<others, listed, restarts>>
vars == <<status, cancelRequested, request, routing, progress, node,
          leastToMost, enqueued, saved, past>>

Terminal == {"completed", "failed", "cancelled"}
Priorities == {"fast", "balanced", "precise"}
Engines == {"main", "langgraphjs"}
Roles == {"planner", "researcher", "critic"}
StepStatuses == {"pending", "running"} \union Terminal
Decisions == {"approve", "revise", "reject"}
Results == {"none", "task_result", "rejection", "policy_block", "chat"}

\* The step that a node's handler runs a skill for.
StepOf == [requested_skill_run |-> "planner", fast_path_run |-> "researcher",
           full_review_plan |-> "planner", full_review_execute |-> "researcher",
           full_review_critique |-> "critic", full_review_compose |-> "researcher"]

\* The edges of resolveNext that no condition decides; the branches of
\* branchRuntime.ts call the same nodes in this order.  "self_refine" is the
\* second half of full_review_compose.
Successor == [ingest |-> "compile_prompt", compile_prompt |-> "route_intent",
              route_intent |-> "policy_gate",
              hydrate_memory |-> "select_execution_strategy",
              requested_skill_run |-> "requested_skill_refine",
              requested_skill_refine |-> "compose_response",
              fast_path_run |-> "fast_path_refine",
              fast_path_refine |-> "compose_response",
              full_review_plan |-> "full_review_execute",
              full_review_execute |-> "full_review_critique",
              full_review_critique |-> "full_review_tot",
              full_review_compose |-> "self_refine",
              self_refine |-> "full_review_promote",
              full_review_promote |-> "compose_response"]

GraphNodes == (DOMAIN Successor \ {"self_refine"}) \union
    {"policy_gate", "select_execution_strategy", "full_review_tot",
     "hitl_review", "compose_response"}
Nodes == GraphNodes \union {"idle", "starting", "self_refine"}

ASSUME NoNodeAssumption == NoNode \notin GraphNodes

\* Handlers that only prepare something and go on.
PassNodes == {"ingest", "compile_prompt", "hydrate_memory", "requested_skill_refine",
              "fast_path_refine", "self_refine", "full_review_promote"}

\* Where an exception can come from: an exceeded session budget, a cancelled
\* refinement or exploration, a reply that cannot be generated, no result.
ThrowingNodes == Nodes \ {"idle", "starting", "ingest", "compile_prompt",
                          "policy_gate", "select_execution_strategy", "hitl_review"}

Rows == [status : {"queued", "running"} \union Terminal, priority : Priorities,
         engine : Engines, strategy : {"none", "requested_skill", "fast_path", "full_review"},
         checkpoint : GraphNodes \union {NoNode},
         hitl : {"none", "awaiting"} \union Decisions, steps : [Roles -> StepStatuses]]

\* The session object keeps its types through both engines, and its saved row
\* restores to such an object: the strategy, steps and checkpoint are ones that exist.
TypeOK ==
    /\ status \in {"queued", "running"} \union Terminal
    /\ {cancelRequested, personalized, wantsSkill, leastToMost, enqueued, listed} \subseteq BOOLEAN
    /\ priority \in Priorities
    /\ intent \in {"task", "other"}
    /\ gate \in {"none", "allow", "review", "block"}
    /\ strategy \in {"none", "requested_skill", "fast_path", "full_review"}
    /\ engine \in Engines
    /\ steps \in [Roles -> StepStatuses]
    /\ checkpoint \in GraphNodes \union {NoNode}
    /\ hitl \in {"none", "awaiting"} \union Decisions
    /\ result \in Results
    /\ node \in Nodes
    /\ saved \in Rows
    /\ others \subseteq StepStatuses
    /\ restarts \in 0..MaxRestarts

-----------------------------------------------------------------------------
\* buildInitialSessionSteps with the default workflow templates.
InitialSteps(p) ==
    [r \in Roles |-> IF p = "fast" /\ r # "researcher" THEN "cancelled" ELSE "pending"]

\* What persistAgentSession writes; the strategy is part of the checkpointed
\* state.  Writes are taken to arrive at once and in order.
Row == [status |-> status, priority |-> priority, engine |-> engine,
        strategy |-> strategy, checkpoint |-> checkpoint, hitl |-> hitl,
        steps |-> steps]
Persist == saved' = Row'

Statuses(rows) == {rows[r] : r \in Roles}

\* session.steps is built anew.  The steps it held had ids of their own, and their
\* rows stay in agent_steps.
ReplaceSteps(p) ==
    /\ steps' = InitialSteps(p)
    /\ others' = others \union Statuses(saved.steps)
    /\ listed' = FALSE
    /\ UNCHANGED restarts

\* startAgentSession has just created, saved and queued the session.
Init ==
    /\ status = "queued" /\ cancelRequested = FALSE
    /\ priority \in Priorities /\ personalized = FALSE /\ wantsSkill \in BOOLEAN
    /\ intent = "task" /\ gate = "none" /\ strategy = "none" /\ engine = "main"
    /\ steps = InitialSteps(priority)
    /\ checkpoint = NoNode /\ hitl = "none" /\ result = "none"
    /\ node = "idle" /\ leastToMost = FALSE /\ enqueued = TRUE
    /\ saved = Row /\ others = {} /\ listed = FALSE /\ restarts = 0

\* A step is running: the handler of the node awaits its skill.
AwaitsSkill == node \in DOMAIN StepOf /\ steps[StepOf[node]] = "running"

\* The handler of a node has returned and m is next.  On LangGraph,
\* onTransition saves a checkpoint that continues at m.
MoveTo(m) ==
    /\ node' = m
    /\ IF engine = "langgraphjs" /\ m # "self_refine"
       THEN checkpoint' = m /\ Persist
       ELSE UNCHANGED <<checkpoint, saved>>

\* cancelAllPendingSteps.
PendingCancelled ==
    [r \in Roles |-> IF steps[r] \in {"pending", "running"} THEN "cancelled" ELSE steps[r]]

\* markSessionTerminal; the caller says what becomes of gate, steps and queue.
End(final, text) ==
    /\ status' = final
    /\ result' = text
    /\ strategy' = "none"
    /\ checkpoint' = NoNode
    /\ node' = "idle"
    /\ UNCHANGED <<cancelRequested, request, intent, engine, hitl, leastToMost, past>>
    /\ Persist

\* Variant of Finish (CancelStopsWork): the flag is not looked at.
FinishAnyway(text) == End("completed", text) /\ UNCHANGED enqueued

\* The end of an execution that has a text to deliver.
Finish(text) ==
    /\ UNCHANGED enqueued
    /\ End(IF cancelRequested THEN "cancelled" ELSE "completed", text)

\* Variant of CanFallback (NoRepeatedWork): only completed steps count.
CanFallbackAfterFailure == \A r \in Roles : steps'[r] # "completed"

\* canFallbackToMainPipeline, asked after the exception: no step has run.
CanFallback ==
    Statuses(steps') \union (IF listed THEN others ELSE {}) \subseteq {"pending", "cancelled"}

\* An exception leaves the engine, the caller having set steps': the main
\* pipeline takes over from its start (applyLangGraphPrimaryFallback), or
\* executeSession's catch ends the session.
Throw ==
    /\ UNCHANGED <<gate, enqueued>>
    /\ IF engine = "langgraphjs" /\ CanFallback /\ ~cancelRequested
       THEN /\ engine' = "main"
            /\ strategy' = "none"
            /\ node' = "ingest"
            /\ UNCHANGED <<status, cancelRequested, request, intent, checkpoint,
                           hitl, result, leastToMost, past>>
            /\ Persist
       ELSE End(IF cancelRequested THEN "cancelled" ELSE "failed", "none")

-----------------------------------------------------------------------------
(* The execution.                                                          *)

\* Variant of ExecuteSession (ImplementsLifecycle): the flag is not looked at.
ExecuteEvenCancelled ==
    /\ enqueued
    /\ status = "queued"
    /\ status' = "running"
    /\ enqueued' = FALSE
    /\ node' = "starting"
    /\ UNCHANGED <<cancelRequested, request, routing, progress, leastToMost, past>>
    /\ Persist

\* The drain picks the session.
ExecuteSession ==
    /\ enqueued
    /\ status = "queued"
    /\ ~cancelRequested
    /\ status' = "running"
    /\ enqueued' = FALSE
    /\ node' = "starting"
    /\ UNCHANGED <<cancelRequested, request, routing, progress, leastToMost, past>>
    /\ Persist

\* isResumableLangGraphSession.
Resumable == engine = "langgraphjs" /\ checkpoint # NoNode

\* Variant of EngineFor (TypeOK): the route is taken for the engine.
RouteAsEngine(route) == route

\* applyTrafficRoutingDecisionToSession.
EngineFor(route) == IF route = "langgraph" THEN "langgraphjs" ELSE "main"

\* applySessionPersonalization may change a balanced priority, once; then the
\* route is resolved, unless a checkpoint tells where to continue.
ResolveSessionTrafficRoute ==
    /\ node = "starting"
    /\ personalized' = TRUE
    /\ priority' \in IF personalized \/ priority # "balanced" THEN {priority} ELSE Priorities
    /\ IF priority' = priority THEN UNCHANGED <<steps, past>> ELSE ReplaceSteps(priority')
    /\ IF Resumable
       THEN node' = checkpoint /\ UNCHANGED <<engine, strategy>>
       ELSE /\ node' = "ingest"
            /\ strategy' = "none"
            /\ \E route \in {"main", "shadow", "langgraph"} : engine' = EngineFor(route)
    /\ UNCHANGED <<status, cancelRequested, wantsSkill, intent, gate, checkpoint,
                   hitl, result, leastToMost, enqueued>>
    /\ IF Resumable THEN UNCHANGED saved ELSE Persist

\* A handler that awaits nothing the properties are about.
Pass ==
    /\ node \in PassNodes
    /\ UNCHANGED <<status, cancelRequested, request, routing, steps, hitl, result,
                   leastToMost, enqueued, past>>
    /\ MoveTo(Successor[node])

RouteIntent ==
    /\ node = "route_intent"
    /\ intent' \in {"task", "other"}
    /\ UNCHANGED <<status, cancelRequested, request, gate, strategy, engine, steps,
                   hitl, result, leastToMost, enqueued, past>>
    /\ MoveTo("policy_gate")

\* applySessionPolicyGateState lets the goal through.
PassPolicyGate ==
    /\ node = "policy_gate"
    /\ gate' \in IF intent = "task" THEN {"allow", "review"} ELSE {"allow"}
    /\ UNCHANGED <<status, cancelRequested, request, intent, strategy, engine, steps,
                   hitl, result, leastToMost, enqueued, past>>
    /\ MoveTo(IF intent = "task" THEN "hydrate_memory" ELSE "compose_response")

\* applySessionPolicyGateState blocks it.
BlockByPolicyGate ==
    /\ node = "policy_gate"
    /\ intent = "task"
    /\ gate' = "block"
    /\ steps' = PendingCancelled
    /\ Finish("policy_block")

\* maybeCompleteNonTaskSession.
AnswerNonTask ==
    /\ node = "compose_response"
    /\ intent # "task"
    /\ steps' = PendingCancelled
    /\ UNCHANGED gate
    /\ Finish("chat")

SelectStrategy ==
    IF gate = "review" THEN "full_review"
    ELSE IF wantsSkill THEN "requested_skill"
    ELSE IF priority = "fast" THEN "fast_path"
    ELSE "full_review"

FirstNode == [requested_skill |-> "requested_skill_run", fast_path |-> "fast_path_run",
              full_review |-> "full_review_plan"]

SelectExecutionStrategy ==
    /\ node = "select_execution_strategy"
    /\ strategy' = SelectStrategy
    /\ UNCHANGED <<status, cancelRequested, request, intent, gate, engine, steps,
                   hitl, result, leastToMost, enqueued, past>>
    /\ MoveTo(FirstNode[SelectStrategy])

\* runStep (or runLeastToMostExecutionDraft) up to the call of the skill.
StartStep ==
    /\ node \in DOMAIN StepOf
    /\ ~AwaitsSkill
    /\ ~cancelRequested
    /\ steps' = [steps EXCEPT ![StepOf[node]] = "running"]
    /\ UNCHANGED <<status, cancelRequested, request, routing, checkpoint, hitl, result,
                   node, leastToMost, enqueued, saved, past>>

\* runStep finds the session cancelled before it calls the skill.
RefuseStep ==
    /\ node \in DOMAIN StepOf
    /\ ~AwaitsSkill
    /\ cancelRequested
    /\ steps' = [steps EXCEPT ![StepOf[node]] = "cancelled"]
    /\ Throw

\* runLeastToMostExecutionDraft, once the plan has split the research.
InSplitResearch == node = "full_review_execute" /\ leastToMost

\* The skill answered.  The plan decides whether the research is split; after
\* the last subgoal of one nobody asks whether the session was cancelled.
CompleteStep ==
    /\ AwaitsSkill
    /\ ~cancelRequested \/ InSplitResearch
    /\ steps' = [steps EXCEPT ![StepOf[node]] = "completed"]
    /\ IF node = "full_review_plan"
       THEN leastToMost' \in BOOLEAN
       ELSE UNCHANGED leastToMost
    /\ UNCHANGED <<status, cancelRequested, request, routing, hitl, result, enqueued, past>>
    /\ MoveTo(Successor[node])

StepFails == steps' = [steps EXCEPT ![StepOf[node]] = "failed"]

\* The skill failed, timed out, or answered after a cancellation, whose
\* "cancelled" the catch of runStep overwrites.
FailStep ==
    /\ AwaitsSkill
    /\ ~InSplitResearch
    /\ StepFails
    /\ Throw

\* The same in a split research: one ordinary runStep is tried instead.
FallBackToOneDraft ==
    /\ AwaitsSkill
    /\ InSplitResearch
    /\ StepFails
    /\ leastToMost' = FALSE
    /\ UNCHANGED <<status, cancelRequested, request, routing, checkpoint, hitl, result,
                   node, enqueued, saved, past>>

\* runFullReviewTotStateNode: only LangGraph has a node for the human.
ExploreAlternatives ==
    /\ node = "full_review_tot"
    /\ UNCHANGED <<status, cancelRequested, request, routing, steps, hitl, result,
                   leastToMost, enqueued, past>>
    /\ MoveTo(IF engine = "langgraphjs" THEN "hitl_review" ELSE "full_review_compose")

\* Variant of ShouldPauseForHitlReview (HumanReviewsBeforeCompletion): the
\* priority is not looked at.
ShouldPauseForPolicyOnly ==
    engine = "langgraphjs" /\ strategy = "full_review" /\ gate = "review"

ShouldPauseForHitlReview ==
    /\ engine = "langgraphjs"
    /\ strategy = "full_review"
    /\ gate = "review" \/ priority = "precise"

\* pauseSessionForHitl: the session waits outside the queue.
PauseForHitl ==
    /\ node = "hitl_review"
    /\ ShouldPauseForHitlReview
    /\ hitl \notin Decisions
    /\ status' = "queued"
    /\ result' = "none"
    /\ hitl' = "awaiting"
    /\ checkpoint' = "hitl_review"
    /\ node' = "idle"
    /\ UNCHANGED <<cancelRequested, request, routing, steps, leastToMost, enqueued, past>>
    /\ Persist

\* Variant of AfterReview (RejectionIsFinal): every decision lets the draft pass.
AfterAnyReview == "full_review_compose"

\* Variant of AfterReview (ExecutionEnds): a revision is explored again, and no
\* new decision is asked for.
AfterReviewExploreAgain ==
    IF hitl = "reject" THEN "compose_response"
    ELSE IF hitl = "revise" THEN "full_review_tot"
    ELSE "full_review_compose"

\* resolveNext after hitl_review.
AfterReview == IF hitl = "reject" THEN "compose_response" ELSE "full_review_compose"

\* hitl_review when a human has decided, or need not.
PassHitlReview ==
    /\ node = "hitl_review"
    /\ ~ShouldPauseForHitlReview \/ hitl \in Decisions
    /\ UNCHANGED <<status, cancelRequested, request, routing, steps, hitl, result,
                   leastToMost, enqueued, past>>
    /\ MoveTo(AfterReview)

\* Variant of FinalText (DeliveredUntilRestart): a revision is a rejection.
FinalTextIfApproved == IF hitl \in {"revise", "reject"} THEN "rejection" ELSE "task_result"

FinalText == IF hitl = "reject" THEN "rejection" ELSE "task_result"

\* completeGraphTaskSession, and completeSession of the main pipeline.
CompleteTask ==
    /\ node = "compose_response"
    /\ intent = "task"
    /\ UNCHANGED <<steps, gate>>
    /\ Finish(FinalText)

\* An exception that is not a step's.
NodeThrows ==
    /\ node \in ThrowingNodes
    /\ ~AwaitsSkill
    /\ UNCHANGED steps
    /\ Throw

-----------------------------------------------------------------------------
(* What happens to the session outside its execution.                      *)

\* cancelAgentSession: a queued session ends at once.
CancelQueued ==
    /\ status = "queued"
    /\ status' = "cancelled"
    /\ cancelRequested' = TRUE
    /\ enqueued' = FALSE
    /\ strategy' = "none"
    /\ checkpoint' = NoNode
    /\ UNCHANGED <<request, intent, gate, engine, steps, hitl, result, node,
                   leastToMost, past>>
    /\ Persist

\* cancelAgentSession: a running one is asked to stop.
CancelRunning ==
    /\ status = "running"
    /\ ~cancelRequested
    /\ cancelRequested' = TRUE
    /\ UNCHANGED <<status, request, routing, progress, node, leastToMost,
                   enqueued, saved, past>>

\* The drain meets a session that was cancelled while it ran, paused all the
\* same, and was resumed.
DropCancelled ==
    /\ enqueued
    /\ cancelRequested
    /\ enqueued' = FALSE
    /\ UNCHANGED <<gate, steps>>
    /\ End("cancelled", result)

\* resumeAgentSession and prepareSessionForResume; no decision means approval.
\* A decision that was made is not changed by another resume.
ResumeAgentSession(decision) ==
    /\ status = "queued"
    /\ checkpoint # NoNode
    /\ hitl' = IF hitl = "awaiting" THEN decision ELSE hitl
    /\ result' = "none"
    /\ enqueued' = TRUE
    /\ UNCHANGED <<status, cancelRequested, request, routing, steps, checkpoint, node,
                   leastToMost, past>>
    /\ Persist

\* Variant of RequeueForRetry (HumanSawTheDraft): the decision of the last
\* attempt is kept.
RetryWithDecision ==
    /\ status = "failed"
    /\ status' = "queued"
    /\ UNCHANGED <<cancelRequested, hitl>>
    /\ engine' = "main"
    /\ checkpoint' = NoNode
    /\ gate' = "none"
    /\ ReplaceSteps(priority)
    /\ strategy' = "none"
    /\ result' = "none"
    /\ enqueued' = TRUE
    /\ UNCHANGED <<request, intent, node, leastToMost>>
    /\ Persist

\* requeueForRetry and resetSessionForRetry, when attempts are left.
RequeueForRetry ==
    /\ status = "failed"
    /\ status' = "queued"
    /\ cancelRequested' = FALSE
    /\ engine' = "main"
    /\ checkpoint' = NoNode
    /\ hitl' = "none"
    /\ gate' = "none"
    /\ ReplaceSteps(priority)
    /\ strategy' = "none"
    /\ result' = "none"
    /\ enqueued' = TRUE
    /\ UNCHANGED <<request, intent, node, leastToMost>>
    /\ Persist

\* rehydrateActiveSessions restores all its rows of agent_steps; the first three
\* are the planner's, the researcher's and the critic's to every handler.  With
\* rows of earlier steps they can be any: those come first until a save gives
\* all of them the same updated_at.
RestoreSteps ==
    /\ restarts' = restarts + 1
    /\ IF others = {}
       THEN steps' = saved.steps /\ UNCHANGED <<others, listed>>
       ELSE /\ others' = others \union Statuses(saved.steps)
            /\ steps' \in [Roles -> others']
            /\ listed' = TRUE

\* The process restarts and the session is rebuilt from its row: as it was saved,
\* outside the queue, and with what the row does not hold (intent, gate, the
\* cancellation) at fixed values.
Restart ==
    /\ restarts < MaxRestarts
    /\ saved.status \in {"queued", "running"}
    /\ RestoreSteps
    /\ status' = saved.status
    /\ priority' = saved.priority
    /\ engine' = saved.engine
    /\ checkpoint' = saved.checkpoint
    /\ strategy' = IF saved.checkpoint = NoNode THEN "none" ELSE saved.strategy
    /\ hitl' = saved.hitl
    /\ intent' = "other"
    /\ gate' = "none"
    /\ cancelRequested' = FALSE
    /\ personalized' = FALSE
    /\ leastToMost' = FALSE
    /\ enqueued' = FALSE
    /\ node' = "idle"
    /\ result' = "none"
    /\ UNCHANGED <<wantsSkill, saved>>

-----------------------------------------------------------------------------
Skill == StartStep \/ RefuseStep \/ CompleteStep \/ FailStep \/ FallBackToOneDraft

Execute ==
    \/ ResolveSessionTrafficRoute
    \/ Pass
    \/ RouteIntent
    \/ PassPolicyGate
    \/ BlockByPolicyGate
    \/ AnswerNonTask
    \/ SelectExecutionStrategy
    \/ Skill
    \/ ExploreAlternatives
    \/ PauseForHitl
    \/ PassHitlReview
    \/ CompleteTask
    \/ NodeThrows

Next ==
    \/ ExecuteSession
    \/ Execute
    \/ CancelQueued
    \/ CancelRunning
    \/ DropCancelled
    \/ \E decision \in Decisions : ResumeAgentSession(decision)
    \/ RequeueForRetry
    \/ Restart

Spec == Init /\ [][Next]_vars

(***************************************************************************)
(* Every await of an execution ends: skills, hints and refinements are     *)
(* raced with a timeout, and LLM requests have one of their own.  Nothing  *)
(* is assumed of the queue, of users or of restarts.                       *)
(***************************************************************************)
FairSpec == Spec /\ WF_vars(Execute)

-----------------------------------------------------------------------------
(* Safety.                                                                 *)

\* A human decides about a draft of this attempt: while a session waits for a
\* decision or has one, its plan, research and critique are done.  A decision
\* kept across a retry, or a resume that starts over, would approve a draft
\* nobody saw.  (A restart applies the personalization again, which may add steps.)
HumanSawTheDraft ==
    hitl # "none" /\ restarts = 0 =>
        /\ steps["planner"] = "completed" /\ steps["critic"] = "completed"
        /\ steps["researcher"] = "completed" \/ hitl \in Decisions

\* A session in progress is carried by somebody: the queue, an execution, or
\* the human it waits for.
SomebodyCarriesIt ==
    status \in {"queued", "running"} => enqueued \/ node # "idle" \/ hitl = "awaiting"

\* The promise of the review prompt, "human review is required before automatic
\* completion": what LangGraph's full review completes under a review gate or
\* at precise priority, a human has decided about.
HumanReviewsBeforeCompletion ==
    [][/\ status = "running" /\ status' = "completed"
       /\ engine = "langgraphjs" /\ strategy = "full_review"
       /\ gate = "review" \/ priority = "precise"
       => hitl \in Decisions]_vars

\* After a rejection nothing more is done in this attempt: no step starts, and
\* the session ends with the rejection text, if it completes at all.  (A restart
\* forgets the intent, and with it the way to the rejection text.)
RejectionIsFinal ==
    [][hitl = "reject" /\ hitl' = "reject" /\ restarts = 0 =>
          /\ \A r \in Roles : steps'[r] = "running" => steps[r] = "running"
          /\ status' = "completed" /\ status # "completed" => result' = "rejection"]_vars

\* No skill is run again within an attempt, by a resumed graph or by the main
\* pipeline after a fallback: plan and critique start at most once, and what
\* the researcher does a second time is the final text, or one draft in place
\* of a split research that failed.  (After a restart a step may be one of an
\* earlier attempt, whatever became of it, and the personalization, applied again,
\* may replace the steps, which then count as new.)
NoRepeatedWork ==
    [][\A r \in Roles :
          steps[r] \notin {"pending", "running"} /\ steps'[r] = "running" =>
             \/ r # "researcher" /\ steps[r] = "cancelled" /\ priority = "fast"
             \/ r = "researcher" /\ (steps[r] = "completed" \/ listed)
                                /\ node = "full_review_compose"
             \/ r = "researcher" /\ steps[r] = "failed" /\ node = "full_review_execute"]_vars

\* Once a cancellation is accepted no further step starts, and the session
\* neither completes nor fails.
CancelStopsWork ==
    [][cancelRequested /\ cancelRequested' =>
          /\ \A r \in Roles : steps'[r] = "running" => steps[r] = "running"
          /\ status' # status => status' \in {"queued", "cancelled"}]_vars

Delivers ==
    status = "running" /\ status' = "completed" /\ hitl \in {"approve", "revise"} =>
        result' = "task_result"

\* What a human approved is what the session delivers, while it lives in one
\* process (a restart forgets the intent).
DeliveredUntilRestart == [][restarts = 0 => Delivers]_vars

-----------------------------------------------------------------------------
(* Refinement.                                                             *)

Life == INSTANCE SessionLifecycle
            WITH hitl <- IF hitl \in Decisions THEN "decided" ELSE hitl

\* The execution keeps to the life of a session that the queue relies on: it
\* pauses only before a decision, ends once, and obeys a cancellation.  The queue
\* is empty after a restart.
ImplementsLifecycle == Life!Init /\ [][restarts' = 0 => Life!Next]_(Life!vars)

-----------------------------------------------------------------------------
(* Liveness.                                                               *)

\* An execution ends, whatever it throws and whichever engine takes over: the
\* slot it holds in the queue is given back.
ExecutionEnds == node # "idle" ~> node = "idle"
=============================================================================
