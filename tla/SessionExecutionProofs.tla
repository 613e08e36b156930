----------------------- MODULE SessionExecutionProofs -----------------------
(***************************************************************************)
(* Theorems about SessionExecution, for every number of restarts.          *)
(***************************************************************************)
EXTENDS SessionExecution, TLAPS

USE DEF past

(***************************************************************************)
(* The inductive invariant, relative to TypeOK.  A checkpoint is saved at  *)
(* every node, but a session can only be resumed at one of them: what is   *)
(* queued has either no checkpoint and untouched steps, or was paused at   *)
(* hitl_review with a complete draft.  A saved row that is queued is the   *)
(* same, which is why a restart does not break it; only the steps may be   *)
(* any once they are mixed with those of earlier attempts.                 *)
(***************************************************************************)
Parked(cp, eng, h, st, pr, mixed) ==
    \/ cp = NoNode /\ h = "none" /\ (mixed \/ st = InitialSteps(pr))
    \/ /\ cp = "hitl_review" /\ eng = "langgraphjs" /\ h # "none"
       /\ mixed \/ \A r \in Roles : st[r] = "completed"

ReadyInv ==
    /\ node # "idle" => status = "running"
    /\ enqueued => status = "queued" /\ hitl # "awaiting"
    /\ hitl = "awaiting" => status \in {"queued", "cancelled"}
    /\ status = "queued" \/ node = "starting" =>
          Parked(checkpoint, engine, hitl, steps, priority, listed)

SavedInv ==
    /\ saved.status = "queued" =>
          Parked(saved.checkpoint, saved.engine, saved.hitl, saved.steps, saved.priority,
                 others # {})
    /\ saved.hitl = "awaiting" => saved.status \in {"queued", "cancelled"}
    /\ \A r \in Roles : saved.steps[r] # "running"

(***************************************************************************)
(* Where the execution is says what has become of the steps.               *)
(***************************************************************************)
Untouched(r) == steps[r] \in {"pending", "cancelled"}
Begun(r) == Untouched(r) \/ steps[r] = "running"
Done(r) == steps[r] = "completed"

Early == {"ingest", "compile_prompt", "route_intent", "policy_gate", "hydrate_memory",
          "select_execution_strategy"}

\* A step runs while the handler of its node awaits it, and at no other time.
RestInv == \A r \in Roles : steps[r] = "running" => node \in DOMAIN StepOf /\ r = StepOf[node]

\* A step is cancelled before its time only in the plan of a fast session.
PlannedInv ==
    node # "idle" /\ ~listed => \A r \in Roles :
        /\ steps[r] = "cancelled" => priority = "fast" /\ r # "researcher"
        /\ steps[r] = "pending" => priority # "fast" \/ r = "researcher"

PositionInv ==
    ~listed =>
        /\ node \in Early => \A r \in Roles : Untouched(r)
        /\ node = "requested_skill_run" => Begun("planner")
        /\ node = "fast_path_run" => Begun("researcher")
        /\ node = "full_review_plan" =>
              Begun("planner") /\ Untouched("researcher") /\ Untouched("critic")
        /\ node = "full_review_execute" =>
              /\ Done("planner") /\ Untouched("critic")
              /\ Begun("researcher") \/ steps["researcher"] = "failed"
        /\ node = "full_review_critique" => Done("planner") /\ Done("researcher") /\ Begun("critic")
        /\ node = "full_review_tot" => \A r \in Roles : Done(r)
        /\ node = "hitl_review" =>
              \/ \A r \in Roles : Done(r)
              \/ hitl \in Decisions /\ \A r \in Roles : Untouched(r)
        /\ node = "full_review_compose" => Begun("researcher") \/ Done("researcher")

(***************************************************************************)
(* What a human has to see, has seen.                                      *)
(***************************************************************************)
AfterReviewNodes == {"full_review_compose", "self_refine", "full_review_promote",
                     "compose_response"}

ReviewInv ==
    /\ node \in Early => strategy = "none"
    /\ node \in {"requested_skill_run", "requested_skill_refine"} => strategy = "requested_skill"
    /\ node \in {"fast_path_run", "fast_path_refine"} => strategy = "fast_path"
    /\ node \in AfterReviewNodes /\ ShouldPauseForHitlReview => hitl \in Decisions

(***************************************************************************)
(* One life of the process: a session a human was asked about is a task,   *)
(* and goes nowhere but from the review to its end.                        *)
(***************************************************************************)
TaskNodes == Nodes \ {"idle", "starting", "ingest", "compile_prompt", "route_intent",
                      "policy_gate", "compose_response"}

LifeInv ==
    restarts = 0 =>
        /\ node \in TaskNodes => intent = "task"
        /\ node \notin {"idle", "starting"} => personalized
        /\ hitl # "none" =>
              /\ intent = "task" /\ personalized
              /\ Done("planner") /\ Done("critic")
              /\ Done("researcher") \/ hitl \in Decisions
              /\ node \in {"idle", "starting", "hitl_review"} \union AfterReviewNodes
        /\ hitl = "reject" => node \in {"idle", "starting", "hitl_review", "compose_response"}

FailedInv == status = "failed" => ~cancelRequested

(***************************************************************************)
(* Steps mixed with those of earlier attempts: the session was paused when *)
(* the process ended, so one of its steps is completed, no engine falls    *)
(* back, and no node is reached but the review and what follows it.        *)
(***************************************************************************)
StoreInv ==
    /\ "running" \notin others
    /\ saved.status = "queued" /\ saved.checkpoint # NoNode =>
          "completed" \in others \union Statuses(saved.steps)

ListedInv ==
    listed =>
        /\ restarts # 0 /\ others # {}
        /\ enqueued \/ node = "starting" => checkpoint # NoNode
        /\ status = "queued" /\ checkpoint # NoNode => "completed" \in others
        /\ node # "idle" =>
              /\ "completed" \in others
              /\ node \in {"starting", "hitl_review"} \union AfterReviewNodes

SessionInv ==
    /\ TypeOK /\ ReadyInv /\ SavedInv /\ RestInv /\ PlannedInv /\ PositionInv /\ ReviewInv
    /\ LifeInv /\ FailedInv /\ StoreInv /\ ListedInv

-----------------------------------------------------------------------------
(* The graph.                                                              *)

LEMMA NodesAre ==
    /\ GraphNodes = {"ingest", "compile_prompt", "route_intent", "policy_gate",
                     "hydrate_memory", "select_execution_strategy", "requested_skill_run",
                     "requested_skill_refine", "fast_path_run", "fast_path_refine",
                     "full_review_plan", "full_review_execute", "full_review_critique",
                     "full_review_tot", "hitl_review", "full_review_compose",
                     "full_review_promote", "compose_response"}
    /\ Nodes = GraphNodes \union {"idle", "starting", "self_refine"}
BY DEF GraphNodes, Nodes, Successor

\* Where the handlers lead that no condition decides.
LEMMA Edges ==
    /\ Successor["ingest"] = "compile_prompt"
    /\ Successor["compile_prompt"] = "route_intent"
    /\ Successor["hydrate_memory"] = "select_execution_strategy"
    /\ Successor["requested_skill_run"] = "requested_skill_refine"
    /\ Successor["requested_skill_refine"] = "compose_response"
    /\ Successor["fast_path_run"] = "fast_path_refine"
    /\ Successor["fast_path_refine"] = "compose_response"
    /\ Successor["full_review_plan"] = "full_review_execute"
    /\ Successor["full_review_execute"] = "full_review_critique"
    /\ Successor["full_review_critique"] = "full_review_tot"
    /\ Successor["full_review_compose"] = "self_refine"
    /\ Successor["self_refine"] = "full_review_promote"
    /\ Successor["full_review_promote"] = "compose_response"
BY DEF Successor

LEMMA StepNodes ==
    /\ DOMAIN StepOf = {"requested_skill_run", "fast_path_run", "full_review_plan",
                        "full_review_execute", "full_review_critique", "full_review_compose"}
    /\ StepOf["requested_skill_run"] = "planner"
    /\ StepOf["fast_path_run"] = "researcher"
    /\ StepOf["full_review_plan"] = "planner"
    /\ StepOf["full_review_execute"] = "researcher"
    /\ StepOf["full_review_critique"] = "critic"
    /\ StepOf["full_review_compose"] = "researcher"
    /\ \A n \in DOMAIN StepOf : StepOf[n] \in Roles
BY DEF StepOf, Roles

LEMMA FirstNodes ==
    /\ FirstNode["requested_skill"] = "requested_skill_run"
    /\ FirstNode["fast_path"] = "fast_path_run"
    /\ FirstNode["full_review"] = "full_review_plan"
BY DEF FirstNode

-----------------------------------------------------------------------------
(* Types.                                                                  *)

LEMMA InitTypeOK == Init => TypeOK
<1> SUFFICES ASSUME Init PROVE TypeOK
  OBVIOUS
<1> USE DEF Init, InitialSteps, Roles, StepStatuses, Terminal, Priorities, Engines, Decisions,
        Results
<1>1. steps \in [Roles -> StepStatuses]
  OBVIOUS
<1>2. Row \in Rows
  BY <1>1 DEF Row, Rows
<1>3. restarts \in 0..MaxRestarts
  BY RestartsAssumption
<1>4. node \in Nodes
  BY NodesAre
<1> QED
  BY <1>1, <1>2, <1>3, <1>4 DEF TypeOK

\* What is saved is a row.
LEMMA RowTypeOK ==
    ASSUME TypeOK
    PROVE  Row \in Rows
BY DEF TypeOK, Row, Rows, Terminal

\* The rows of agent_steps that the session's steps leave behind.
LEMMA StoredStatuses ==
    ASSUME TypeOK
    PROVE  /\ Statuses(saved.steps) \subseteq StepStatuses /\ Statuses(saved.steps) # {}
           /\ others \union Statuses(saved.steps) \subseteq StepStatuses
<1>1. saved.steps \in [Roles -> StepStatuses] /\ others \subseteq StepStatuses
  BY DEF TypeOK, Rows
<1> QED
  BY <1>1 DEF Statuses, Roles

LEMMA ReplacesSteps ==
    ASSUME TypeOK, NEW p \in Priorities, ReplaceSteps(p)
    PROVE  /\ steps' = InitialSteps(p) /\ steps' \in [Roles -> {"pending", "cancelled"}]
           /\ others' = others \union Statuses(saved.steps)
           /\ others' \subseteq StepStatuses /\ others' # {}
           /\ listed' = FALSE /\ restarts' = restarts
<1>1. /\ steps' = InitialSteps(p) /\ others' = others \union Statuses(saved.steps)
      /\ listed' = FALSE /\ restarts' = restarts
  BY DEF ReplaceSteps
<1>2. InitialSteps(p) \in [Roles -> {"pending", "cancelled"}]
  BY DEF InitialSteps
<1> QED
  BY <1>1, <1>2, StoredStatuses

LEMMA RestoresSteps ==
    ASSUME TypeOK, Restart
    PROVE  /\ restarts' = restarts + 1 /\ restarts' \in 0..MaxRestarts /\ restarts' # 0
           /\ \/ others = {} /\ steps' = saved.steps /\ UNCHANGED <<others, listed>>
              \/ /\ others' = others \union Statuses(saved.steps) /\ others' # {}
                 /\ steps' \in [Roles -> others'] /\ listed' = TRUE
           /\ steps' \in [Roles -> StepStatuses] /\ others' \subseteq StepStatuses
           /\ listed' \in BOOLEAN
<1>1. restarts' = restarts + 1 /\ restarts' \in 0..MaxRestarts /\ restarts' # 0
  BY RestartsAssumption DEF Restart, RestoreSteps, TypeOK
<1>2. CASE others = {}
  <2>1. steps' = saved.steps /\ UNCHANGED <<others, listed>>
    BY <1>2 DEF Restart, RestoreSteps
  <2> QED
    BY <1>1, <1>2, <2>1 DEF TypeOK, Rows
<1>3. CASE others # {}
  <2>1. /\ others' = others \union Statuses(saved.steps)
        /\ steps' \in [Roles -> others'] /\ listed' = TRUE
    BY <1>3 DEF Restart, RestoreSteps
  <2>2. others' \subseteq StepStatuses /\ others' # {}
    BY <1>3, <2>1, StoredStatuses
  <2> QED
    BY <1>1, <2>1, <2>2
<1> QED
  BY <1>2, <1>3

\* Only an engine that has done nothing, as far as its session lists, falls back.
LEMMA FallbackIsUntouched ==
    ASSUME CanFallback
    PROVE  /\ \A r \in Roles : steps'[r] \in {"pending", "cancelled"}
           /\ listed => "completed" \notin others
BY DEF CanFallback, Statuses

LEMMA ThrowTypeOK ==
    ASSUME TypeOK, steps' \in [Roles -> StepStatuses], Throw,
           UNCHANGED <<cancelRequested, request, intent, hitl, leastToMost, past>>
    PROVE  TypeOK'
<1>1. /\ status' \in {status, "cancelled", "failed"} /\ engine' \in {engine, "main"}
      /\ strategy' = "none" /\ node' \in {"ingest", "idle"} /\ result' \in {result, "none"}
      /\ checkpoint' \in {checkpoint, NoNode} /\ saved' = Row'
      /\ UNCHANGED <<gate, enqueued>>
  BY DEF Throw, End, Persist
<1>2. /\ status' \in {"queued", "running"} \union Terminal /\ engine' \in Engines
      /\ checkpoint' \in GraphNodes \union {NoNode} /\ result' \in Results
      /\ node' \in Nodes
  BY <1>1, NodesAre DEF TypeOK, Terminal, Engines, Results
<1>3. saved' \in Rows
  BY <1>1, <1>2 DEF Row, Rows, TypeOK, request
<1> QED
  BY <1>1, <1>2, <1>3 DEF TypeOK, request

LEMMA ExecutionTypeOK ==
    ASSUME TypeOK, Execute
    PROVE  TypeOK'
<1> USE NodesAre, RestartsAssumption
    DEF TypeOK, Rows, Row, Persist, InitialSteps, Roles, StepStatuses, Terminal, Priorities,
        Engines, Decisions, Results, MoveTo, request, routing, progress
<1>1. CASE ResolveSessionTrafficRoute
  <2>1. priority' \in Priorities
    BY <1>1 DEF ResolveSessionTrafficRoute
  <2>2. steps' \in [Roles -> StepStatuses] /\ others' \subseteq StepStatuses
        /\ listed' \in BOOLEAN /\ restarts' \in 0..MaxRestarts
    <3>1. CASE UNCHANGED <<steps, past>>
      BY <3>1
    <3>2. ASSUME NEW p \in Priorities, ReplaceSteps(p)
          PROVE  steps' \in [Roles -> StepStatuses] /\ others' \subseteq StepStatuses
                 /\ listed' \in BOOLEAN /\ restarts' \in 0..MaxRestarts
      BY <3>2, ReplacesSteps
    <3> QED
      BY <1>1, <2>1, <3>1, <3>2 DEF ResolveSessionTrafficRoute
  <2>3. /\ status' = status /\ personalized' = TRUE /\ engine' \in Engines
        /\ strategy' \in {strategy, "none"} /\ node' \in Nodes
        /\ UNCHANGED <<cancelRequested, wantsSkill, intent, gate, checkpoint, hitl, result,
                       leastToMost, enqueued>>
        /\ saved' = saved \/ saved' = Row'
    BY <1>1 DEF ResolveSessionTrafficRoute, Resumable, EngineFor
  <2> HIDE DEF Rows, Row
  <2>4. saved \in Rows /\ (saved' = Row' => saved' \in Rows)
    BY <2>1, <2>2, <2>3 DEF Row, Rows
  <2> QED
    BY <2>1, <2>2, <2>3, <2>4
<1>2. CASE Pass
  BY <1>2, Edges DEF Pass, PassNodes
<1>3. CASE RouteIntent
  BY <1>3 DEF RouteIntent
<1>4. CASE PassPolicyGate
  BY <1>4 DEF PassPolicyGate
<1>5. CASE BlockByPolicyGate
  BY <1>5 DEF BlockByPolicyGate, PendingCancelled, Finish, End
<1>6. CASE AnswerNonTask
  BY <1>6 DEF AnswerNonTask, PendingCancelled, Finish, End
<1>7. CASE SelectExecutionStrategy
  BY <1>7, FirstNodes DEF SelectExecutionStrategy, SelectStrategy
<1>8. CASE StartStep
  BY <1>8, StepNodes DEF StartStep
<1>9. CASE RefuseStep
  <2>1. steps' \in [Roles -> StepStatuses] /\ Throw
    BY <1>9, StepNodes DEF RefuseStep
  <2>2. UNCHANGED <<cancelRequested, request, intent, hitl, leastToMost, past>>
    BY <2>1 DEF Throw, End
  <2> QED
    BY <2>1, <2>2, ThrowTypeOK
<1>10. CASE CompleteStep
  BY <1>10, StepNodes, Edges DEF CompleteStep, AwaitsSkill
<1>11. CASE FailStep
  <2>1. steps' \in [Roles -> StepStatuses] /\ Throw
    BY <1>11, StepNodes DEF FailStep, StepFails, AwaitsSkill
  <2>2. UNCHANGED <<cancelRequested, request, intent, hitl, leastToMost, past>>
    BY <2>1 DEF Throw, End
  <2> QED
    BY <2>1, <2>2, ThrowTypeOK
<1>12. CASE FallBackToOneDraft
  <2>1. steps' \in [Roles -> StepStatuses]
    BY <1>12, StepNodes DEF FallBackToOneDraft, StepFails
  <2>2. UNCHANGED <<status, cancelRequested, priority, personalized, wantsSkill, intent, gate,
                    strategy, engine, checkpoint, hitl, result, node, enqueued, saved, past>>
    BY <1>12 DEF FallBackToOneDraft
  <2>3. leastToMost' \in BOOLEAN
    BY <1>12 DEF FallBackToOneDraft
  <2> HIDE DEF Rows
  <2> QED
    BY <2>1, <2>2, <2>3
<1>13. CASE ExploreAlternatives
  BY <1>13 DEF ExploreAlternatives
<1>14. CASE PauseForHitl
  BY <1>14 DEF PauseForHitl
<1>15. CASE PassHitlReview
  BY <1>15 DEF PassHitlReview, AfterReview
<1>16. CASE CompleteTask
  BY <1>16 DEF CompleteTask, FinalText, Finish, End
<1>17. CASE NodeThrows
  <2>1. steps' \in [Roles -> StepStatuses] /\ Throw
    BY <1>17 DEF NodeThrows
  <2>2. UNCHANGED <<cancelRequested, request, intent, hitl, leastToMost, past>>
    BY <2>1 DEF Throw, End
  <2> QED
    BY <2>1, <2>2, ThrowTypeOK
<1> QED
  BY <1>1, <1>2, <1>3, <1>4, <1>5, <1>6, <1>7, <1>8, <1>9, <1>10, <1>11, <1>12, <1>13, <1>14,
     <1>15, <1>16, <1>17 DEF Execute, Skill

LEMMA NextTypeOK ==
    ASSUME TypeOK, [Next]_vars
    PROVE  TypeOK'
<1> USE NodesAre, RestartsAssumption
    DEF TypeOK, Rows, Row, Persist, InitialSteps, Roles, StepStatuses, Terminal, Priorities,
        Engines, Decisions, Results, request, routing, progress
<1>1. CASE ExecuteSession
  <2>1. Row' \in Rows
    BY <1>1 DEF ExecuteSession
  <2>2. /\ status' = "running" /\ enqueued' = FALSE /\ node' = "starting" /\ saved' = Row'
        /\ UNCHANGED <<cancelRequested, priority, personalized, wantsSkill, intent, gate, strategy,
                       engine, steps, checkpoint, hitl, result, leastToMost, past>>
    BY <1>1 DEF ExecuteSession
  <2> HIDE DEF Rows, Row
  <2>3. saved' \in Rows
    BY <2>1, <2>2
  <2>4. {cancelRequested, personalized, wantsSkill, leastToMost, enqueued, listed}'
           \subseteq BOOLEAN
    BY <2>2
  <2> QED
    BY <2>2, <2>3, <2>4
<1>2. CASE Execute
  BY <1>2, ExecutionTypeOK
<1>3. CASE CancelQueued
  BY <1>3 DEF CancelQueued
<1>4. CASE CancelRunning
  BY <1>4 DEF CancelRunning
<1>5. CASE DropCancelled
  BY <1>5 DEF DropCancelled, End
<1>6. ASSUME NEW decision \in Decisions, ResumeAgentSession(decision)
      PROVE  TypeOK'
  BY <1>6 DEF ResumeAgentSession
<1>7. CASE RequeueForRetry
  <2>1. ReplaceSteps(priority)
    BY <1>7 DEF RequeueForRetry
  <2>2. /\ steps' \in [Roles -> StepStatuses] /\ others' \subseteq StepStatuses
        /\ listed' \in BOOLEAN /\ restarts' \in 0..MaxRestarts
    BY <2>1, ReplacesSteps
  <2> QED
    BY <1>7, <2>2 DEF RequeueForRetry
<1>8. CASE Restart
  <2>1. /\ steps' \in [Roles -> StepStatuses] /\ others' \subseteq StepStatuses
        /\ listed' \in BOOLEAN /\ restarts' \in 0..MaxRestarts
    BY <1>8, RestoresSteps
  <2>2. saved \in Rows
    OBVIOUS
  <2> QED
    BY <1>8, <2>1, <2>2 DEF Restart
<1>9. CASE UNCHANGED vars
  BY <1>9 DEF vars
<1> QED
  BY <1>1, <1>2, <1>3, <1>4, <1>5, <1>6, <1>7, <1>8, <1>9 DEF Next

(***************************************************************************)
(* The session object keeps its types through both engines, its saved row, *)
(* resumes, retries and restarts.                                          *)
(***************************************************************************)
THEOREM TypeCorrect == Spec => []TypeOK
<1>1. Init => TypeOK
  BY InitTypeOK
<1>2. TypeOK /\ [Next]_vars => TypeOK'
  BY NextTypeOK
<1> QED
  BY <1>1, <1>2, PTL DEF Spec

-----------------------------------------------------------------------------
(***************************************************************************)
(* What the steps of an execution have in common: they move on to another  *)
(* node, stay at one with a step that started, end the session, or throw.  *)
(***************************************************************************)
Moves == \/ Pass \/ RouteIntent \/ PassPolicyGate \/ SelectExecutionStrategy \/ CompleteStep
         \/ ExploreAlternatives \/ PassHitlReview
Stays == StartStep \/ FallBackToOneDraft
Ends == BlockByPolicyGate \/ AnswerNonTask \/ CompleteTask
Throws == RefuseStep \/ FailStep \/ NodeThrows

LEMMA ExecutionSteps ==
    ASSUME Execute
    PROVE  ResolveSessionTrafficRoute \/ Moves \/ Stays \/ Ends \/ Throws \/ PauseForHitl
BY DEF Execute, Skill, Moves, Stays, Ends, Throws

LEMMA MovesKeep ==
    ASSUME TypeOK, Moves
    PROVE  /\ node \notin {"idle", "starting"} /\ node' \in Nodes \ {"idle", "starting"}
           /\ UNCHANGED <<status, cancelRequested, priority, personalized, wantsSkill, engine,
                          hitl, result, enqueued, past>>
           /\ saved' = saved \/ saved' = Row'
<1> USE NodesAre DEF MoveTo, request, routing, Persist
<1>1. CASE Pass
  BY <1>1, Edges DEF Pass, PassNodes
<1>2. CASE RouteIntent
  BY <1>2 DEF RouteIntent
<1>3. CASE PassPolicyGate
  BY <1>3 DEF PassPolicyGate
<1>4. CASE SelectExecutionStrategy
  BY <1>4, FirstNodes DEF SelectExecutionStrategy, SelectStrategy
<1>5. CASE CompleteStep
  BY <1>5, StepNodes, Edges DEF CompleteStep, AwaitsSkill
<1>6. CASE ExploreAlternatives
  BY <1>6 DEF ExploreAlternatives
<1>7. CASE PassHitlReview
  BY <1>7 DEF PassHitlReview, AfterReview
<1> QED
  BY <1>1, <1>2, <1>3, <1>4, <1>5, <1>6, <1>7 DEF Moves

LEMMA StaysKeep ==
    ASSUME TypeOK, Stays
    PROVE  /\ node \in DOMAIN StepOf /\ node' = node
           /\ UNCHANGED <<status, cancelRequested, request, routing, checkpoint, hitl, result,
                          enqueued, saved, past>>
           /\ \/ StartStep /\ ~cancelRequested /\ leastToMost' = leastToMost
                 /\ steps' = [steps EXCEPT ![StepOf[node]] = "running"]
              \/ FallBackToOneDraft /\ node = "full_review_execute"
                 /\ steps["researcher"] = "running"
                 /\ steps' = [steps EXCEPT !["researcher"] = "failed"]
BY StepNodes DEF Stays, StartStep, FallBackToOneDraft, InSplitResearch, AwaitsSkill, StepFails

\* The session has ended, in this state or another.
Ended(final) ==
    /\ status' = final /\ node' = "idle" /\ strategy' = "none" /\ checkpoint' = NoNode
    /\ saved' = Row'
    /\ UNCHANGED <<cancelRequested, priority, personalized, wantsSkill, intent, engine, hitl,
                   leastToMost, enqueued, past>>

LEMMA EndsDo ==
    ASSUME TypeOK, Ends
    PROVE  /\ node \in {"policy_gate", "compose_response"}
           /\ Ended(IF cancelRequested THEN "cancelled" ELSE "completed")
           /\ \A r \in Roles : steps'[r] = steps[r] \/ steps'[r] = "cancelled"
           /\ \A r \in Roles : Done(r) => steps'[r] = "completed"
BY DEF Ends, BlockByPolicyGate, AnswerNonTask, CompleteTask, Finish, End, Ended, Persist, request,
       PendingCancelled, Done, TypeOK

\* An exception ends the session, or lets the main pipeline start over when
\* nothing has been done.
LEMMA ThrowsDo ==
    ASSUME TypeOK, Throws
    PROVE  /\ node \notin {"idle", "starting", "hitl_review", "policy_gate"}
           /\ \A r \in Roles : steps'[r] = "running" => steps[r] = "running"
           /\ steps' # steps => node \in DOMAIN StepOf
           /\ \A r \in Roles : r # StepOf[node] => steps'[r] = steps[r]
           /\ \/ Ended(IF cancelRequested THEN "cancelled" ELSE "failed")
              \/ /\ ~cancelRequested /\ engine = "langgraphjs" /\ engine' = "main"
                 /\ strategy' = "none" /\ node' = "ingest" /\ saved' = Row'
                 /\ UNCHANGED <<status, cancelRequested, request, intent, gate, steps, checkpoint,
                                hitl, result, leastToMost, enqueued, past>>
                 /\ \A r \in Roles : Untouched(r)
                 /\ listed => "completed" \notin others
<1>1. /\ Throw /\ node \notin {"idle", "starting", "hitl_review", "policy_gate"}
      /\ \/ steps' = steps
         \/ /\ node \in DOMAIN StepOf
            /\ \/ steps' = [steps EXCEPT ![StepOf[node]] = "cancelled"] /\ cancelRequested
               \/ steps' = [steps EXCEPT ![StepOf[node]] = "failed"]
  BY StepNodes DEF Throws, RefuseStep, FailStep, NodeThrows, StepFails, AwaitsSkill, ThrowingNodes
<1>2. /\ steps' # steps => node \in DOMAIN StepOf
      /\ \A r \in Roles : steps'[r] = "running" => steps[r] = "running"
      /\ \A r \in Roles : r # StepOf[node] => steps'[r] = steps[r]
  BY <1>1 DEF TypeOK
<1>3. CASE engine = "langgraphjs" /\ CanFallback /\ ~cancelRequested
  <2>1. steps' = steps
    BY <1>1, <1>3, StepNodes, FallbackIsUntouched DEF TypeOK
  <2> QED
    BY <1>1, <1>2, <1>3, <2>1, FallbackIsUntouched DEF Throw, Untouched, Persist
<1>4. CASE ~(engine = "langgraphjs" /\ CanFallback /\ ~cancelRequested)
  BY <1>1, <1>2, <1>4 DEF Throw, End, Ended, Persist, request
<1> QED
  BY <1>3, <1>4

\* What is done to a session from outside, by users and the process.
Outside == \/ CancelQueued \/ DropCancelled \/ RequeueForRetry \/ Restart
           \/ \E decision \in Decisions : ResumeAgentSession(decision)

LEMMA Steps ==
    ASSUME [Next]_vars
    PROVE  ExecuteSession \/ Execute \/ Outside \/ CancelRunning \/ UNCHANGED vars
BY DEF Next, Outside

\* Only a session that no execution holds is touched from outside.
LEMMA OutsideIsIdle ==
    ASSUME TypeOK, ReadyInv, Outside
    PROVE  node' = "idle"
BY DEF TypeOK, ReadyInv, Outside, CancelQueued, DropCancelled, End, ResumeAgentSession,
       RequeueForRetry, Restart

-----------------------------------------------------------------------------
(* The invariant, part by part.                                            *)

LEMMA InitSessionInv == Init => SessionInv
<1> SUFFICES ASSUME Init PROVE SessionInv
  OBVIOUS
<1> USE DEF Init
<1>1. TypeOK
  BY InitTypeOK
<1>2. ReadyInv
  BY DEF ReadyInv, Parked
<1>3. SavedInv /\ RestInv
  BY DEF SavedInv, RestInv, Parked, Row, InitialSteps
<1>4. PlannedInv /\ PositionInv
  BY DEF PlannedInv, PositionInv, Early
<1>5. ReviewInv
  BY DEF ReviewInv, Early, AfterReviewNodes
<1>6. LifeInv /\ FailedInv /\ StoreInv /\ ListedInv
  BY DEF LifeInv, TaskNodes, FailedInv, StoreInv, ListedInv, Row
<1> QED
  BY <1>1, <1>2, <1>3, <1>4, <1>5, <1>6 DEF SessionInv

LEMMA NextReadyInv ==
    ASSUME SessionInv, [Next]_vars
    PROVE  ReadyInv'
<1> USE DEF SessionInv, ReadyInv
<1>1. CASE ExecuteSession
  BY <1>1 DEF ExecuteSession, request, routing, progress
<1>2. CASE ResolveSessionTrafficRoute
  BY <1>2, NodesAre, NoNodeAssumption DEF ResolveSessionTrafficRoute, Resumable, TypeOK
<1>3. CASE Moves
  BY <1>3, MovesKeep
<1>4. CASE Stays
  BY <1>4, StaysKeep, StepNodes
<1>5. CASE Ends
  BY <1>5, EndsDo DEF Ended
<1>6. CASE Throws
  BY <1>6, ThrowsDo DEF Ended
<1>7. CASE PauseForHitl
  BY <1>7 DEF PauseForHitl, ShouldPauseForHitlReview, Parked, PositionInv, Done, request, routing
<1>8. CASE CancelQueued
  BY <1>8 DEF CancelQueued
<1>9. CASE DropCancelled
  BY <1>9 DEF DropCancelled, End
<1>10. ASSUME NEW decision \in Decisions, ResumeAgentSession(decision)
       PROVE  ReadyInv'
  BY <1>10 DEF ResumeAgentSession, Parked, Decisions, TypeOK, request, routing
<1>11. CASE RequeueForRetry
  <2>1. steps' = InitialSteps(priority)
    BY <1>11 DEF RequeueForRetry, ReplaceSteps
  <2> QED
    BY <1>11, <2>1 DEF RequeueForRetry, Parked, request
<1>12. CASE Restart
  <2>1. saved.status = "queued" /\ ~listed' => steps' = saved.steps /\ others = {}
    BY <1>12, RestoresSteps
  <2>2. ~listed' => ~(others # {})
    BY <1>12, RestoresSteps
  <2> QED
    BY <1>12, <2>1, <2>2 DEF Restart, SavedInv, Parked
<1>13. CASE CancelRunning
  BY <1>13 DEF CancelRunning, request, routing, progress
<1>14. CASE UNCHANGED vars
  BY <1>14 DEF vars, request, routing, progress
<1> QED
  BY <1>1, <1>2, <1>3, <1>4, <1>5, <1>6, <1>7, <1>8, <1>9, <1>10, <1>11, <1>12, <1>13, <1>14,
     Steps, ExecutionSteps DEF Outside

\* Every save writes the whole row.
LEMMA SavesTheRow ==
    ASSUME TypeOK, [Next]_vars
    PROVE  saved' = saved \/ saved' = Row'
<1>1. CASE Execute
  <2>1. CASE ResolveSessionTrafficRoute \/ PauseForHitl
    BY <2>1 DEF ResolveSessionTrafficRoute, PauseForHitl, Persist
  <2> QED
    BY <1>1, <2>1, ExecutionSteps, MovesKeep, StaysKeep, EndsDo, ThrowsDo DEF Ended
<1>2. CASE Outside
  BY <1>2 DEF Outside, CancelQueued, DropCancelled, End, ResumeAgentSession, RequeueForRetry,
              Restart, Persist
<1>3. CASE ExecuteSession \/ CancelRunning \/ UNCHANGED vars
  BY <1>3 DEF ExecuteSession, CancelRunning, vars, Persist
<1> QED
  BY <1>1, <1>2, <1>3, Steps

\* Whenever the row is saved no step is running.
LEMMA NothingRuns ==
    ASSUME SessionInv, [Next]_vars, ~Stays, ~CancelRunning, ~UNCHANGED vars
    PROVE  \A r \in Roles : steps'[r] # "running"
<1> USE DEF SessionInv, RestInv
<1>1. CASE ExecuteSession
  BY <1>1, StepNodes DEF ExecuteSession, ReadyInv, Parked, InitialSteps, progress
<1>2. CASE ResolveSessionTrafficRoute
  <2>1. steps' = steps \/ \A r \in Roles : steps'[r] # "running"
    BY <1>2 DEF ResolveSessionTrafficRoute, ReplaceSteps, InitialSteps
  <2> QED
    BY <1>2, <2>1, StepNodes DEF ResolveSessionTrafficRoute
<1>3. CASE Moves
  BY <1>3, StepNodes DEF Moves, Pass, PassNodes, RouteIntent, PassPolicyGate,
     SelectExecutionStrategy, CompleteStep, AwaitsSkill, ExploreAlternatives, PassHitlReview, TypeOK
<1>4. CASE Ends
  BY <1>4, StepNodes DEF Ends, BlockByPolicyGate, AnswerNonTask, CompleteTask, PendingCancelled
<1>5. CASE Throws
  BY <1>5, StepNodes DEF Throws, RefuseStep, FailStep, NodeThrows, StepFails, AwaitsSkill, TypeOK
<1>6. CASE PauseForHitl
  BY <1>6, StepNodes DEF PauseForHitl
<1>7. CASE CancelQueued \/ DropCancelled \/ \E decision \in Decisions : ResumeAgentSession(decision)
  BY <1>7, StepNodes DEF CancelQueued, DropCancelled, ResumeAgentSession, ReadyInv
<1>8. CASE RequeueForRetry
  BY <1>8 DEF RequeueForRetry, ReplaceSteps, InitialSteps
<1>9. CASE Restart
  <2>1. "running" \notin others \union Statuses(saved.steps)
    BY DEF SavedInv, StoreInv, Statuses
  <2> QED
    BY <1>9, <2>1, RestoresSteps DEF SavedInv
<1> QED
  BY <1>1, <1>2, <1>3, <1>4, <1>5, <1>6, <1>7, <1>8, <1>9, Steps, ExecutionSteps DEF Outside

\* What becomes of the rows that the session's steps leave behind.
LEMMA OthersGrow ==
    ASSUME TypeOK, [Next]_vars
    PROVE  /\ others' = others \/ others' = others \union Statuses(saved.steps)
           /\ others # {} => others' # {}
           /\ \/ UNCHANGED past
              \/ ResolveSessionTrafficRoute /\ listed' = FALSE /\ restarts' = restarts
              \/ RequeueForRetry /\ listed' = FALSE /\ restarts' = restarts
              \/ Restart
<1>1. CASE Execute
  <2>1. CASE ResolveSessionTrafficRoute
    BY <2>1 DEF ResolveSessionTrafficRoute, ReplaceSteps
  <2>2. CASE PauseForHitl
    BY <2>2 DEF PauseForHitl
  <2> QED
    BY <1>1, <2>1, <2>2, ExecutionSteps, MovesKeep, StaysKeep, EndsDo, ThrowsDo DEF Ended
<1>2. CASE Restart
  BY <1>2, RestoresSteps
<1>3. CASE RequeueForRetry
  BY <1>3 DEF RequeueForRetry, ReplaceSteps
<1>4. CASE CancelQueued \/ DropCancelled \/ \E decision \in Decisions : ResumeAgentSession(decision)
  BY <1>4 DEF CancelQueued, DropCancelled, End, ResumeAgentSession
<1>5. CASE ExecuteSession \/ CancelRunning \/ UNCHANGED vars
  BY <1>5 DEF ExecuteSession, CancelRunning, vars
<1> QED
  BY <1>1, <1>2, <1>3, <1>4, <1>5, Steps DEF Outside

LEMMA NextRestInv ==
    ASSUME SessionInv, [Next]_vars
    PROVE  RestInv'
<1> USE DEF SessionInv, RestInv
<1>1. CASE Stays
  BY <1>1, StaysKeep, StepNodes DEF TypeOK, Roles
<1>2. CASE CancelRunning \/ UNCHANGED vars
  BY <1>2 DEF CancelRunning, vars, progress
<1> QED
  BY <1>1, <1>2, NothingRuns

\* From the review on, the graph goes nowhere but to its end.
LEMMA MovesOn ==
    ASSUME Moves, node \in {"starting", "hitl_review"} \union AfterReviewNodes
    PROVE  node' \in AfterReviewNodes
<1> USE NodesAre, Edges, StepNodes DEF AfterReviewNodes, MoveTo
<1>1. CASE Pass
  BY <1>1 DEF Pass, PassNodes
<1>2. CASE CompleteStep
  BY <1>2 DEF CompleteStep, AwaitsSkill
<1>3. CASE PassHitlReview
  BY <1>3 DEF PassHitlReview, AfterReview
<1> QED
  BY <1>1, <1>2, <1>3
  DEF Moves, RouteIntent, PassPolicyGate, SelectExecutionStrategy, ExploreAlternatives

LEMMA NextListedInv ==
    ASSUME SessionInv, [Next]_vars
    PROVE  ListedInv'
<1> USE DEF SessionInv
<1>1. CASE Restart
  <2>1. /\ enqueued' = FALSE /\ node' = "idle"
        /\ status' = saved.status /\ checkpoint' = saved.checkpoint
    BY <1>1 DEF Restart
  <2>2. listed' => others' = others \union Statuses(saved.steps) /\ others' # {} /\ restarts' # 0
    BY <1>1, RestoresSteps DEF ListedInv
  <2> QED
    BY <2>1, <2>2 DEF ListedInv, StoreInv
<1>2. CASE UNCHANGED past /\ listed
  <2>1. restarts' # 0 /\ others' # {} /\ others' = others
    BY <1>2 DEF ListedInv
  <2>2. CASE ExecuteSession
    BY <1>2, <2>1, <2>2 DEF ExecuteSession, ListedInv, progress
  <2>3. CASE ResolveSessionTrafficRoute
    <3>1. Resumable /\ checkpoint = "hitl_review"
      BY <1>2, <2>3 DEF ResolveSessionTrafficRoute, ListedInv, ReadyInv, Parked, Resumable
    <3> QED
      BY <1>2, <2>1, <2>3, <3>1 DEF ResolveSessionTrafficRoute, ListedInv, ReadyInv
  <2>4. CASE Moves
    <3>1. node \notin {"idle", "starting"} /\ UNCHANGED <<status, enqueued>>
      BY <2>4, MovesKeep
    <3> QED
      BY <1>2, <2>1, <2>4, <3>1, MovesOn DEF ListedInv, AfterReviewNodes, ReadyInv
  <2>5. CASE Stays
    BY <1>2, <2>1, <2>5, StaysKeep, StepNodes DEF ListedInv, ReadyInv
  <2>6. CASE Ends
    BY <1>2, <2>1, <2>6, EndsDo DEF ListedInv, Ended, ReadyInv
  <2>7. CASE Throws
    BY <1>2, <2>1, <2>7, ThrowsDo DEF ListedInv, Ended, ReadyInv
  <2>8. CASE PauseForHitl
    BY <1>2, <2>1, <2>8 DEF PauseForHitl, ListedInv, ReadyInv
  <2>9. CASE CancelQueued \/ DropCancelled \/ RequeueForRetry
             \/ \E decision \in Decisions : ResumeAgentSession(decision)
    BY <1>2, <2>1, <2>9 DEF CancelQueued, DropCancelled, End, ResumeAgentSession, RequeueForRetry,
       ReplaceSteps, ListedInv, ReadyInv
  <2>10. CASE CancelRunning \/ UNCHANGED vars
    BY <1>2, <2>1, <2>10 DEF CancelRunning, vars, progress, ListedInv
  <2> QED
    BY <1>1, <2>2, <2>3, <2>4, <2>5, <2>6, <2>7, <2>8, <2>9, <2>10, Steps, ExecutionSteps
    DEF Outside
<1>3. CASE ~listed'
  BY <1>3 DEF ListedInv
<1> QED
  BY <1>1, <1>2, <1>3, OthersGrow

LEMMA NextStoreInv ==
    ASSUME SessionInv, [Next]_vars
    PROVE  StoreInv'
<1> USE DEF SessionInv
<1>1. "running" \notin others'
  BY OthersGrow DEF StoreInv, SavedInv, Statuses
<1>2. CASE saved' = saved
  <2>1. others \subseteq others'
    BY OthersGrow
  <2> QED
    BY <1>1, <1>2, <2>1 DEF StoreInv
<1>3. CASE saved' = Row'
  <2> SUFFICES ASSUME status' = "queued", checkpoint' # NoNode
               PROVE  "completed" \in others' \union Statuses(steps')
    BY <1>1, <1>3 DEF StoreInv, Row
  <2>1. CASE listed'
    BY <2>1, NextListedInv DEF ListedInv
  <2>2. CASE ~listed'
    <3>1. \A r \in Roles : steps'[r] = "completed"
      BY <2>2, NextReadyInv DEF ReadyInv, Parked
    <3> QED
      BY <3>1 DEF Statuses, Roles
  <2> QED
    BY <2>1, <2>2
<1> QED
  BY <1>2, <1>3, SavesTheRow

LEMMA NextSavedInv ==
    ASSUME SessionInv, [Next]_vars
    PROVE  SavedInv'
<1>1. CASE saved' = saved
  <2>1. others # {} => others' # {}
    BY OthersGrow DEF SessionInv
  <2> QED
    BY <1>1, <2>1 DEF SessionInv, SavedInv, Parked
<1>2. CASE saved' # saved
  <2>1. saved' = Row'
    BY <1>2, SavesTheRow DEF SessionInv
  <2>2. ~Stays /\ ~CancelRunning /\ ~UNCHANGED vars
    BY <1>2, StaysKeep DEF SessionInv, CancelRunning, vars
  <2> QED
    <3>1. listed' => others' # {}
      BY NextListedInv DEF ListedInv
    <3>2. \A r \in Roles : steps'[r] # "running"
      BY <2>2, NothingRuns
    <3>3. /\ status' = "queued" =>
                Parked(checkpoint', engine', hitl', steps', priority', others' # {})
          /\ hitl' = "awaiting" => status' \in {"queued", "cancelled"}
      BY <3>1, NextReadyInv DEF ReadyInv, Parked
    <3> QED
      BY <2>1, <3>2, <3>3 DEF SavedInv, Row
<1> QED
  BY <1>1, <1>2

LEMMA NextPlannedInv ==
    ASSUME SessionInv, [Next]_vars
    PROVE  PlannedInv'
<1> USE DEF SessionInv, PlannedInv
<1>1. CASE ExecuteSession
  BY <1>1 DEF ExecuteSession, ReadyInv, Parked, InitialSteps, request, routing, progress
<1>2. CASE ResolveSessionTrafficRoute
  <2>1. CASE UNCHANGED <<steps, past>> /\ priority' = priority
    BY <1>2, <2>1 DEF ResolveSessionTrafficRoute
  <2>2. CASE ReplaceSteps(priority')
    BY <2>2 DEF ReplaceSteps, InitialSteps
  <2> QED
    BY <1>2, <2>1, <2>2 DEF ResolveSessionTrafficRoute
<1>3. CASE Moves
  <2>1. \A r \in Roles : steps'[r] = steps[r] \/ steps'[r] = "completed"
    BY <1>3, StepNodes DEF Moves, Pass, RouteIntent, PassPolicyGate, SelectExecutionStrategy,
       CompleteStep, AwaitsSkill, ExploreAlternatives, PassHitlReview, TypeOK
  <2> QED
    BY <1>3, <2>1, MovesKeep
<1>4. CASE Stays
  BY <1>4, StaysKeep, StepNodes DEF request, TypeOK, Roles
<1>5. CASE Ends
  BY <1>5, EndsDo DEF Ended
<1>6. CASE Throws
  BY <1>6, ThrowsDo DEF Ended, request
<1>7. CASE PauseForHitl
  BY <1>7 DEF PauseForHitl
<1>8. CASE Outside
  BY <1>8, OutsideIsIdle
<1>9. CASE CancelRunning \/ UNCHANGED vars
  BY <1>9 DEF CancelRunning, vars, request, progress
<1> QED
  BY <1>1, <1>2, <1>3, <1>4, <1>5, <1>6, <1>7, <1>8, <1>9, Steps, ExecutionSteps

LEMMA MovesPosition ==
    ASSUME SessionInv, Moves
    PROVE  PositionInv'
<1> USE NodesAre, Edges, StepNodes DEF SessionInv, PositionInv, Early, Untouched, Begun, Done,
        MoveTo
<1>1. CASE Pass
  BY <1>1 DEF Pass, PassNodes
<1>2. CASE RouteIntent
  BY <1>2 DEF RouteIntent
<1>3. CASE PassPolicyGate
  BY <1>3 DEF PassPolicyGate
<1>4. CASE SelectExecutionStrategy
  BY <1>4, FirstNodes DEF SelectExecutionStrategy, SelectStrategy, Roles
<1>5. CASE CompleteStep
  BY <1>5 DEF CompleteStep, AwaitsSkill, TypeOK, Roles
<1>6. CASE ExploreAlternatives
  BY <1>6 DEF ExploreAlternatives, Roles
<1>7. CASE PassHitlReview
  BY <1>7 DEF PassHitlReview, AfterReview, Roles
<1> QED
  BY <1>1, <1>2, <1>3, <1>4, <1>5, <1>6, <1>7 DEF Moves

LEMMA NextPositionInv ==
    ASSUME SessionInv, [Next]_vars
    PROVE  PositionInv'
<1> SUFFICES ASSUME ~listed' PROVE PositionInv'
  BY DEF PositionInv
<1> USE DEF SessionInv, PositionInv, Early
<1>1. CASE ExecuteSession
  BY <1>1 DEF ExecuteSession
<1>2. CASE ResolveSessionTrafficRoute
  <2>1. /\ Parked(checkpoint, engine, hitl, steps, priority, listed) /\ hitl # "awaiting"
        /\ hitl' = hitl
        /\ \/ steps' = steps /\ ~listed
           \/ \A r \in Roles : steps'[r] \in {"pending", "cancelled"}
    BY <1>2 DEF ResolveSessionTrafficRoute, ReplaceSteps, ReadyInv, InitialSteps
  <2>2. CASE Resumable
    BY <1>2, <2>1, <2>2
    DEF ResolveSessionTrafficRoute, Resumable, Parked, Untouched, Done, TypeOK, Decisions
  <2>3. CASE ~Resumable
    BY <1>2, <2>1, <2>3, NoNodeAssumption, NodesAre
    DEF ResolveSessionTrafficRoute, Resumable, Parked, InitialSteps, Untouched
  <2> QED
    BY <2>2, <2>3
<1>3. CASE Moves
  BY <1>3, MovesPosition
<1>4. CASE Stays
  <2>0. ~listed
    BY <1>4, StaysKeep
  <2>1. node' = node /\ hitl' = hitl /\ node \in DOMAIN StepOf
    BY <1>4, StaysKeep
  <2>2. CASE steps' = [steps EXCEPT ![StepOf[node]] = "running"]
    BY <2>0, <2>1, <2>2, StepNodes DEF TypeOK, Roles, Untouched, Begun, Done
  <2>3. CASE node = "full_review_execute" /\ steps' = [steps EXCEPT !["researcher"] = "failed"]
    BY <2>0, <2>1, <2>3 DEF TypeOK, Roles, Untouched, Begun, Done
  <2> QED
    BY <1>4, <2>2, <2>3, StaysKeep
<1>5. CASE Ends
  BY <1>5, EndsDo DEF Ended
<1>6. CASE Throws
  BY <1>6, ThrowsDo DEF Ended, Untouched
<1>7. CASE PauseForHitl
  BY <1>7 DEF PauseForHitl
<1>8. CASE Outside
  BY <1>8, OutsideIsIdle
<1>9. CASE CancelRunning \/ UNCHANGED vars
  BY <1>9 DEF CancelRunning, vars, progress, Untouched, Begun, Done
<1> QED
  BY <1>1, <1>2, <1>3, <1>4, <1>5, <1>6, <1>7, <1>8, <1>9, Steps, ExecutionSteps

LEMMA NextReviewInv ==
    ASSUME SessionInv, [Next]_vars
    PROVE  ReviewInv'
<1> USE DEF SessionInv, ReviewInv, Early, AfterReviewNodes, ShouldPauseForHitlReview
<1>1. CASE ExecuteSession
  BY <1>1 DEF ExecuteSession
<1>2. CASE ResolveSessionTrafficRoute
  BY <1>2, NoNodeAssumption, NodesAre
  DEF ResolveSessionTrafficRoute, ReadyInv, Parked, Resumable
<1>3. CASE Moves
  <2> USE NodesAre, Edges, StepNodes DEF MoveTo, request, routing
  <2>1. CASE Pass
    BY <2>1 DEF Pass, PassNodes
  <2>2. CASE RouteIntent
    BY <2>2 DEF RouteIntent
  <2>3. CASE PassPolicyGate
    BY <2>3 DEF PassPolicyGate
  <2>4. CASE SelectExecutionStrategy
    BY <2>4, FirstNodes DEF SelectExecutionStrategy, SelectStrategy
  <2>5. CASE CompleteStep
    BY <2>5 DEF CompleteStep, AwaitsSkill
  <2>6. CASE ExploreAlternatives
    BY <2>6 DEF ExploreAlternatives
  <2>7. CASE PassHitlReview
    BY <2>7 DEF PassHitlReview, AfterReview
  <2> QED
    BY <1>3, <2>1, <2>2, <2>3, <2>4, <2>5, <2>6, <2>7 DEF Moves
<1>4. CASE Stays
  BY <1>4, StaysKeep DEF request, routing
<1>5. CASE Ends
  BY <1>5, EndsDo DEF Ended
<1>6. CASE Throws
  BY <1>6, ThrowsDo DEF Ended
<1>7. CASE PauseForHitl
  BY <1>7 DEF PauseForHitl
<1>8. CASE Outside
  BY <1>8, OutsideIsIdle
<1>9. CASE CancelRunning \/ UNCHANGED vars
  BY <1>9 DEF CancelRunning, vars, request, routing, progress
<1> QED
  BY <1>1, <1>2, <1>3, <1>4, <1>5, <1>6, <1>7, <1>8, <1>9, Steps, ExecutionSteps

LEMMA NextFailedInv ==
    ASSUME SessionInv, [Next]_vars
    PROVE  FailedInv'
<1> USE DEF SessionInv, FailedInv
<1>1. CASE Execute
  <2>1. CASE ResolveSessionTrafficRoute \/ PauseForHitl
    BY <2>1 DEF ResolveSessionTrafficRoute, PauseForHitl
  <2> QED
    BY <1>1, <2>1, ExecutionSteps, MovesKeep, StaysKeep, EndsDo, ThrowsDo DEF Ended
<1>2. CASE Outside
  BY <1>2 DEF Outside, CancelQueued, DropCancelled, End, ResumeAgentSession, RequeueForRetry,
              Restart
<1>3. CASE ExecuteSession \/ CancelRunning \/ UNCHANGED vars
  BY <1>3 DEF ExecuteSession, CancelRunning, vars
<1> QED
  BY <1>1, <1>2, <1>3, Steps

\* While it is executed, a session a human was asked about has been decided.
LEMMA ExecutedIsDecided ==
    ASSUME SessionInv, restarts = 0, node # "idle", hitl # "none"
    PROVE  /\ status = "running" /\ hitl \in Decisions /\ intent = "task" /\ personalized
           /\ Done("planner") /\ Done("critic")
           /\ node \in {"starting", "hitl_review"} \union AfterReviewNodes
           /\ hitl = "reject" => node \in {"starting", "hitl_review", "compose_response"}
BY DEF SessionInv, ReadyInv, LifeInv, TypeOK

LEMMA MovesLife ==
    ASSUME SessionInv, restarts = 0, Moves
    PROVE  /\ node' \in TaskNodes => intent' = "task"
           /\ hitl # "none" =>
                 /\ intent' = "task"
                 /\ steps'["planner"] = "completed" /\ steps'["critic"] = "completed"
                 /\ node' \in {"hitl_review"} \union AfterReviewNodes
           /\ hitl = "reject" => node' \in {"hitl_review", "compose_response"}
<1> USE NodesAre, Edges, StepNodes, ExecutedIsDecided
    DEF SessionInv, LifeInv, TaskNodes, AfterReviewNodes, Done, MoveTo, routing
<1>1. CASE Pass
  BY <1>1 DEF Pass, PassNodes
<1>2. CASE RouteIntent
  BY <1>2 DEF RouteIntent
<1>3. CASE PassPolicyGate
  BY <1>3 DEF PassPolicyGate
<1>4. CASE SelectExecutionStrategy
  BY <1>4 DEF SelectExecutionStrategy
<1>5. CASE CompleteStep
  BY <1>5 DEF CompleteStep, AwaitsSkill, TypeOK, Roles
<1>6. CASE ExploreAlternatives
  BY <1>6 DEF ExploreAlternatives
<1>7. CASE PassHitlReview
  BY <1>7 DEF PassHitlReview, AfterReview
<1> QED
  BY <1>1, <1>2, <1>3, <1>4, <1>5, <1>6, <1>7 DEF Moves

\* The process never un-restarts.
LEMMA RestartsGrow ==
    ASSUME TypeOK, [Next]_vars
    PROVE  restarts' = restarts \/ (Restart /\ restarts' # 0)
BY OthersGrow, RestoresSteps

LEMMA NextLifeInv ==
    ASSUME SessionInv, [Next]_vars
    PROVE  LifeInv'
<1> USE DEF SessionInv
<1> SUFFICES ASSUME restarts = 0, restarts' = 0
             PROVE  LifeInv'
  BY RestartsGrow DEF LifeInv
<1>1. CASE ExecuteSession
  BY <1>1 DEF ExecuteSession, LifeInv, ReadyInv, TaskNodes, Done, request, routing, progress
<1>2. CASE ResolveSessionTrafficRoute
  <2>1. Parked(checkpoint, engine, hitl, steps, priority, listed)
    BY <1>2 DEF ResolveSessionTrafficRoute, ReadyInv
  <2>2. CASE hitl = "none"
    <3>1. node' = "ingest" /\ hitl' = "none" /\ personalized'
      BY <1>2, <2>1, <2>2, NoNodeAssumption, NodesAre
      DEF ResolveSessionTrafficRoute, Parked, Resumable
    <3> QED
      BY <3>1 DEF LifeInv, TaskNodes
  <2>3. CASE hitl # "none"
    <3>1. Resumable /\ checkpoint = "hitl_review" /\ node # "idle"
      BY <1>2, <2>1, <2>3, NoNodeAssumption, NodesAre
      DEF ResolveSessionTrafficRoute, Parked, Resumable
    <3>2. node' = "hitl_review" /\ personalized' /\ UNCHANGED <<intent, hitl, steps>>
      BY <1>2, <2>3, <3>1, ExecutedIsDecided DEF ResolveSessionTrafficRoute
    <3> QED
      BY <2>3, <3>1, <3>2, ExecutedIsDecided DEF LifeInv, Done
  <2> QED
    BY <2>2, <2>3
<1>3. CASE Moves
  <2>1. node' \notin {"idle", "starting"} /\ personalized' /\ hitl' = hitl /\ node # "idle"
    BY <1>3, MovesKeep DEF LifeInv
  <2>2. hitl # "none" => hitl \in Decisions
    BY <2>1, ExecutedIsDecided
  <2> QED
    BY <1>3, <2>1, <2>2, MovesLife DEF LifeInv, Done
<1>4. CASE Stays
  <2>1. /\ node' = node /\ node \in DOMAIN StepOf
        /\ UNCHANGED <<intent, hitl, personalized>>
    BY <1>4, StaysKeep DEF request, routing
  <2>2. \A r \in Roles : r # StepOf[node] => steps'[r] = steps[r]
    BY <1>4, <2>1, StaysKeep, StepNodes DEF TypeOK
  <2>3. hitl # "none" => node = "full_review_compose" /\ hitl \in Decisions
    BY <2>1, ExecutedIsDecided, StepNodes DEF AfterReviewNodes
  <2> QED
    BY <2>1, <2>2, <2>3, StepNodes, ExecutedIsDecided DEF LifeInv, Done, Roles
<1>5. CASE Ends
  <2>1. node # "idle" /\ node' = "idle" /\ UNCHANGED <<intent, hitl, personalized>>
    BY <1>5, EndsDo DEF Ended
  <2> QED
    BY <1>5, <2>1, EndsDo, ExecutedIsDecided DEF LifeInv, Done, Roles, TaskNodes
<1>6. CASE Throws
  <2>1. node # "idle" /\ UNCHANGED <<intent, hitl, personalized>> /\ node' \in {"idle", "ingest"}
    BY <1>6, ThrowsDo DEF Ended, request
  <2>2. CASE hitl = "none"
    BY <1>6, <2>1, <2>2, ThrowsDo DEF LifeInv, TaskNodes
  <2>3. CASE hitl # "none"
    <3>1. steps'["planner"] = "completed" /\ steps'["critic"] = "completed"
      BY <1>6, <2>1, <2>3, ThrowsDo, ExecutedIsDecided, StepNodes
      DEF Done, Roles, AfterReviewNodes
    <3>2. node' = "idle"
      BY <1>6, <2>1, <2>3, ThrowsDo, ExecutedIsDecided DEF Ended, Done, Untouched, Roles
    <3> QED
      BY <2>1, <2>3, <3>1, <3>2, ExecutedIsDecided DEF LifeInv, Done, TaskNodes
  <2> QED
    BY <2>2, <2>3
<1>7. CASE PauseForHitl
  <2>1. \A r \in Roles : Done(r)
    BY <1>7 DEF PauseForHitl, PositionInv, ListedInv
  <2>2. intent = "task" /\ personalized
    BY <1>7, NodesAre DEF PauseForHitl, LifeInv, TaskNodes
  <2> QED
    BY <1>7, <2>1, <2>2 DEF PauseForHitl, LifeInv, Done, Roles, TaskNodes, request, routing
<1>8. CASE Outside
  <2>1. node' = "idle"
    BY <1>8, OutsideIsIdle
  <2> DEFINE Kept == /\ hitl' = hitl \/ (hitl = "awaiting" /\ hitl' \in Decisions)
                     /\ UNCHANGED <<intent, personalized, steps>>
  <2>2. CancelQueued \/ DropCancelled => Kept
    BY DEF CancelQueued, DropCancelled, End, request
  <2>3. RequeueForRetry => hitl' = "none"
    BY DEF RequeueForRetry
  <2>4. ASSUME NEW decision \in Decisions, ResumeAgentSession(decision)
        PROVE  Kept
    BY <2>4 DEF ResumeAgentSession, request, routing
  <2>5. ~Restart
    BY RestoresSteps
  <2>6. Kept \/ hitl' = "none"
    BY <1>8, <2>2, <2>3, <2>4, <2>5 DEF Outside
  <2> QED
    BY <2>1, <2>6 DEF LifeInv, Done, TaskNodes
<1>9. CASE CancelRunning \/ UNCHANGED vars
  BY <1>9 DEF CancelRunning, vars, request, routing, progress, LifeInv, Done
<1> QED
  BY <1>1, <1>2, <1>3, <1>4, <1>5, <1>6, <1>7, <1>8, <1>9, Steps, ExecutionSteps

LEMMA NextSessionInv == SessionInv /\ [Next]_vars => SessionInv'
BY NextTypeOK, NextReadyInv, NextSavedInv, NextRestInv, NextPlannedInv, NextPositionInv,
   NextReviewInv, NextLifeInv, NextFailedInv, NextStoreInv, NextListedInv DEF SessionInv

LEMMA Invariance == Spec => []SessionInv
<1>1. Init => SessionInv
  BY InitSessionInv
<1> QED
  BY <1>1, NextSessionInv, PTL DEF Spec

-----------------------------------------------------------------------------
(* What follows from the invariant.                                        *)

(***************************************************************************)
(* A human decides about a draft of this attempt: while a session waits    *)
(* for a decision or has one, its plan, research and critique are done.    *)
(***************************************************************************)
THEOREM DraftSeen == Spec => []HumanSawTheDraft
<1>1. SessionInv => HumanSawTheDraft
  BY DEF SessionInv, LifeInv, HumanSawTheDraft, Done
<1> QED
  BY <1>1, Invariance, PTL

\* A session completes at the policy gate, or at the end of its graph.
LEMMA Completes ==
    ASSUME SessionInv, [Next]_vars, status # "completed", status' = "completed"
    PROVE  /\ BlockByPolicyGate \/ AnswerNonTask \/ CompleteTask
           /\ status = "running" /\ ~cancelRequested /\ hitl # "awaiting" /\ UNCHANGED hitl
<1> USE DEF SessionInv, ReadyInv
<1>1. CASE Execute
  <2>1. ~ResolveSessionTrafficRoute /\ ~PauseForHitl /\ ~Moves /\ ~Stays /\ ~Throws
    BY MovesKeep, StaysKeep, ThrowsDo DEF ResolveSessionTrafficRoute, PauseForHitl, Ended
  <2> QED
    BY <1>1, <2>1, ExecutionSteps, EndsDo DEF Ends, Ended
<1>2. CASE Outside
  BY <1>2 DEF Outside, CancelQueued, DropCancelled, End, ResumeAgentSession, RequeueForRetry,
              Restart
<1>3. CASE ExecuteSession \/ CancelRunning \/ UNCHANGED vars
  BY <1>3 DEF ExecuteSession, CancelRunning, vars
<1> QED
  BY <1>1, <1>2, <1>3, Steps

\* A step starts because the handler of its node starts it.
LEMMA Starts ==
    ASSUME SessionInv, [Next]_vars, NEW r \in Roles, steps[r] # "running", steps'[r] = "running"
    PROVE  /\ StartStep /\ node \in DOMAIN StepOf /\ r = StepOf[node]
           /\ status = "running" /\ ~cancelRequested /\ UNCHANGED <<status, cancelRequested, hitl>>
<1>1. Stays
  BY NothingRuns DEF CancelRunning, vars, progress
<1>2. StartStep /\ r = StepOf[node]
  BY <1>1, StaysKeep, StepNodes DEF SessionInv, TypeOK, Roles
<1> QED
  BY <1>1, <1>2, StaysKeep, StepNodes DEF SessionInv, ReadyInv, StartStep

(***************************************************************************)
(* No full review that needs a human's review completes without it.        *)
(***************************************************************************)
THEOREM ReviewedBeforeCompletion == Spec => HumanReviewsBeforeCompletion
<1>1. ASSUME SessionInv, [Next]_vars, status = "running", status' = "completed",
             engine = "langgraphjs", strategy = "full_review",
             gate = "review" \/ priority = "precise"
      PROVE  hitl \in Decisions
  <2>1. node \in {"policy_gate", "compose_response"}
    BY <1>1, Completes DEF BlockByPolicyGate, AnswerNonTask, CompleteTask
  <2> QED
    BY <1>1, <2>1 DEF SessionInv, ReviewInv, Early, AfterReviewNodes, ShouldPauseForHitlReview
<1> QED
  BY <1>1, Invariance, PTL DEF Spec, HumanReviewsBeforeCompletion

(***************************************************************************)
(* After a rejection no step of the attempt starts, and it completes with  *)
(* the rejection text or not at all.                                       *)
(***************************************************************************)
THEOREM RejectionStays == Spec => RejectionIsFinal
<1>1. ASSUME SessionInv, [Next]_vars, hitl = "reject", hitl' = "reject", restarts = 0
      PROVE  /\ \A r \in Roles : steps'[r] = "running" => steps[r] = "running"
             /\ status' = "completed" /\ status # "completed" => result' = "rejection"
  <2>1. ASSUME node # "idle"
        PROVE  node \notin DOMAIN StepOf /\ node # "policy_gate" /\ intent = "task"
    BY <1>1, <2>1, ExecutedIsDecided, StepNodes
  <2>2. ASSUME NEW r \in Roles, steps'[r] = "running", steps[r] # "running"
        PROVE  FALSE
    BY <1>1, <2>1, <2>2, Starts, StepNodes
  <2>3. ASSUME status' = "completed", status # "completed"
        PROVE  result' = "rejection"
    BY <1>1, <2>1, <2>3, Completes
    DEF BlockByPolicyGate, AnswerNonTask, CompleteTask, FinalText, Finish, End
  <2> QED
    BY <2>2, <2>3
<1> QED
  BY <1>1, Invariance, PTL DEF Spec, RejectionIsFinal

(***************************************************************************)
(* What a human approved, or asked to revise, is what is delivered.        *)
(***************************************************************************)
THEOREM Delivered == Spec => DeliveredUntilRestart
<1>1. ASSUME SessionInv, [Next]_vars, restarts = 0, status = "running", status' = "completed",
             hitl \in {"approve", "revise"}
      PROVE  result' = "task_result"
  <2>1. node # "idle" => node # "policy_gate" /\ intent = "task"
    BY <1>1, ExecutedIsDecided DEF AfterReviewNodes
  <2> QED
    BY <1>1, <2>1, Completes
    DEF BlockByPolicyGate, AnswerNonTask, CompleteTask, FinalText, Finish, End
<1> QED
  BY <1>1, Invariance, PTL DEF Spec, DeliveredUntilRestart, Delivers

(***************************************************************************)
(* Neither a resumed graph nor the main pipeline after a fallback runs a   *)
(* skill again, but for the final text and the draft after a split one.    *)
(***************************************************************************)
THEOREM WorkIsNotRepeated == Spec => NoRepeatedWork
<1> DEFINE Allowed(r) ==
             \/ r # "researcher" /\ steps[r] = "cancelled" /\ priority = "fast"
             \/ r = "researcher" /\ (steps[r] = "completed" \/ listed)
                                /\ node = "full_review_compose"
             \/ r = "researcher" /\ steps[r] = "failed" /\ node = "full_review_execute"
           Repeats(r) == steps[r] \notin {"pending", "running"} /\ steps'[r] = "running"
<1>1. ASSUME SessionInv, [Next]_vars, NEW r \in Roles,
             Repeats(r)
      PROVE  Allowed(r)
  <2>1. node \in DOMAIN StepOf /\ r = StepOf[node]
    BY <1>1, Starts
  <2>2. CASE listed
    <3>1. node = "full_review_compose" /\ r = "researcher"
      <4>1. node # "idle"
        BY <2>1, StepNodes
      <4>2. node \in {"starting", "hitl_review"} \union AfterReviewNodes
        BY <1>1, <2>2, <4>1 DEF SessionInv, ListedInv
      <4> QED
        BY <2>1, <4>2, StepNodes DEF AfterReviewNodes
    <3> QED
      BY <2>2, <3>1
  <2>3. CASE ~listed
    BY <1>1, <2>1, <2>3, StepNodes
    DEF SessionInv, PositionInv, PlannedInv, Begun, Untouched, Done, Roles
  <2> QED
    BY <2>2, <2>3
<1>2. SessionInv /\ [Next]_vars => [\A r \in Roles : Repeats(r) => Allowed(r)]_vars
  BY <1>1
<1> QED
  BY <1>2, Invariance, PTL DEF Spec, NoRepeatedWork

(***************************************************************************)
(* A cancelled session starts no step, and neither completes nor fails.    *)
(***************************************************************************)
THEOREM CancelObeyed == Spec => CancelStopsWork
<1>1. ASSUME SessionInv, [Next]_vars, cancelRequested, cancelRequested'
      PROVE  /\ \A r \in Roles : steps'[r] = "running" => steps[r] = "running"
             /\ status' # status => status' \in {"queued", "cancelled"}
  <2>1. ASSUME NEW r \in Roles, steps'[r] = "running", steps[r] # "running"
        PROVE  FALSE
    BY <1>1, <2>1, Starts
  <2>2. ASSUME status' # status
        PROVE  status' \in {"queued", "cancelled"}
    <3>1. CASE Execute
      <4>1. CASE ResolveSessionTrafficRoute \/ PauseForHitl
        BY <4>1, <2>2 DEF ResolveSessionTrafficRoute, PauseForHitl
      <4> QED
        BY <1>1, <2>2, <3>1, <4>1, ExecutionSteps, MovesKeep, StaysKeep, EndsDo, ThrowsDo
        DEF Ended, SessionInv
    <3>2. CASE Outside
      BY <1>1, <2>2, <3>2 DEF Outside, CancelQueued, DropCancelled, End, ResumeAgentSession,
                              RequeueForRetry, Restart
    <3>3. CASE ExecuteSession \/ CancelRunning \/ UNCHANGED vars
      BY <1>1, <2>2, <3>3 DEF ExecuteSession, CancelRunning, vars
    <3> QED
      BY <1>1, <3>1, <3>2, <3>3, Steps
  <2> QED
    BY <2>1, <2>2
<1> QED
  BY <1>1, Invariance, PTL DEF Spec, CancelStopsWork

-----------------------------------------------------------------------------
(***************************************************************************)
(* The refinement of SessionLifecycle: which step of a life each action    *)
(* is.                                                                     *)
(***************************************************************************)
LifeStep == Life!Next \/ UNCHANGED Life!vars

LEMMA LifeStutters ==
    ASSUME UNCHANGED <<status, cancelRequested, hitl>>
    PROVE  LifeStep
BY DEF LifeStep, Life!vars

LEMMA ExecutionLife ==
    ASSUME SessionInv, Execute
    PROVE  LifeStep
<1>1. CASE ResolveSessionTrafficRoute
  BY <1>1, LifeStutters DEF ResolveSessionTrafficRoute
<1>2. CASE Moves
  BY <1>2, LifeStutters, MovesKeep DEF SessionInv
<1>3. CASE Stays
  BY <1>3, LifeStutters, StaysKeep DEF SessionInv
<1>4. ASSUME NEW final \in {"completed", "failed", "cancelled"}, Ended(final), node # "idle",
             final = "cancelled" <=> cancelRequested
      PROVE  LifeStep
  <2>1. Life!Finish
    BY <1>4 DEF Ended, Life!Finish, SessionInv, ReadyInv
  <2> QED
    BY <2>1 DEF LifeStep, Life!Next
<1>5. CASE Ends
  BY <1>4, <1>5, EndsDo DEF SessionInv
<1>6. CASE Throws
  BY <1>4, <1>6, LifeStutters, ThrowsDo DEF SessionInv
<1>7. CASE PauseForHitl
  <2>1. Life!Pause
    BY <1>7 DEF PauseForHitl, Life!Pause, SessionInv, ReadyInv, TypeOK, Decisions
  <2> QED
    BY <2>1 DEF LifeStep, Life!Next
<1> QED
  BY <1>1, <1>2, <1>3, <1>5, <1>6, <1>7, ExecutionSteps

LEMMA OutsideLife ==
    ASSUME SessionInv, Outside, ~Restart
    PROVE  LifeStep
<1>1. CASE CancelQueued
  <2>1. Life!Cancel
    BY <1>1 DEF CancelQueued, Life!Cancel
  <2> QED
    BY <2>1 DEF LifeStep, Life!Next
<1>2. CASE DropCancelled
  <2>1. Life!EndCancelled
    BY <1>2 DEF DropCancelled, End, Life!EndCancelled, SessionInv, ReadyInv
  <2> QED
    BY <2>1 DEF LifeStep, Life!Next
<1>3. CASE RequeueForRetry
  <2>1. Life!Retry
    BY <1>3 DEF RequeueForRetry, Life!Retry, SessionInv, TypeOK, FailedInv, Decisions
  <2> QED
    BY <2>1 DEF LifeStep, Life!Next
<1>4. ASSUME NEW decision \in Decisions, ResumeAgentSession(decision)
      PROVE  LifeStep
  <2>1. CASE hitl = "awaiting"
    <3>1. Life!Resume
      BY <1>4, <2>1 DEF ResumeAgentSession, Life!Resume, Decisions
    <3> QED
      BY <3>1 DEF LifeStep, Life!Next
  <2>2. CASE hitl # "awaiting"
    BY <1>4, <2>2, LifeStutters DEF ResumeAgentSession
  <2> QED
    BY <2>1, <2>2
<1> QED
  BY <1>1, <1>2, <1>3, <1>4 DEF Outside

(***************************************************************************)
(* Until the process restarts, the engines live the life of a session that *)
(* the queue relies on.                                                    *)
(***************************************************************************)
THEOREM LifecycleIsImplemented == Spec => ImplementsLifecycle
<1>1. Init => Life!Init
  BY DEF Init, Life!Init, Decisions
<1>2. ASSUME SessionInv, [Next]_vars, restarts' = 0
      PROVE  LifeStep
  <2>1. ~Restart
    BY <1>2, RestoresSteps DEF SessionInv
  <2>2. CASE ExecuteSession
    <3>1. Life!Run
      BY <1>2, <2>2 DEF ExecuteSession, Life!Run, SessionInv, ReadyInv, progress, Decisions
    <3> QED
      BY <3>1 DEF LifeStep, Life!Next
  <2>3. CASE CancelRunning
    <3>1. Life!Cancel
      BY <2>3 DEF CancelRunning, Life!Cancel, progress
    <3> QED
      BY <3>1 DEF LifeStep, Life!Next
  <2>4. CASE UNCHANGED vars
    BY <2>4, LifeStutters DEF vars, progress
  <2> QED
    BY <1>2, <2>1, <2>2, <2>3, <2>4, ExecutionLife, OutsideLife, Steps
<1>3. SessionInv /\ [Next]_vars => [restarts' = 0 => Life!Next]_(Life!vars)
  BY <1>2 DEF LifeStep
<1> QED
  BY <1>1, <1>3, Invariance, PTL DEF Spec, ImplementsLifecycle
=============================================================================
