--------------------------- MODULE SprintPipeline ---------------------------
(***************************************************************************)
(* One sprint pipeline of src/services/sprint/sprintOrchestrator.ts: its   *)
(* phases and their transitions, the autonomy level that decides which     *)
(* phases wait for a human, runFullSprintPipeline, approvals and           *)
(* cancellations that arrive while a phase is in progress, the row saved   *)
(* in the database, and the restart of the process that reads it back.     *)
(*                                                                         *)
(* advanceSprintPhase is cut where it awaits something that takes time: the*)
(* action of the phase, the rollback of files, the approval request.  What *)
(* an action produces, hooks (none is registered), metrics and events are  *)
(* left out.                                                               *)
(***************************************************************************)
EXTENDS Naturals, FiniteSets

CONSTANTS
    Runners,            \* names for calls of runFullSprintPipeline
    Approver,           \* the call of approveSprintPhase that runs a phase
    Nobody,             \* no call runs a phase
    NoPipeline,         \* the id is not in the map, or has no row
    Levels,             \* the autonomy levels a pipeline is created with
    MaxTotalPhases,     \* SPRINT_MAX_TOTAL_PHASES
    MaxImplReviewLoops, \* SPRINT_MAX_IMPL_REVIEW_LOOPS
    MaxCancels,         \* bound on cancellations
    MaxCrashes          \* bound on crashes of the process

AutonomyLevels == {"full-auto", "approve-ship", "approve-impl", "manual"}

ASSUME ConstantsAssumption ==
    /\ Levels \subseteq AutonomyLevels
    /\ {MaxTotalPhases, MaxImplReviewLoops, MaxCancels, MaxCrashes} \subseteq Nat
    /\ MaxTotalPhases <= 100
    /\ Approver \notin Runners /\ Nobody \notin Runners /\ Approver # Nobody

VARIABLES
    level,   \* the autonomy level the pipeline was created with
    mem,     \* its entry in the map `pipelines`
    adv,     \* the call of advanceSprintPhase in progress
    runners, \* what each runFullSprintPipeline does
    row,     \* its row in sprint_pipelines before the last upsert
    sent,    \* the last upsert, which a crash may lose
    booted,  \* rehydrateActivePipelines has run
    stray,   \* a code change that timed out may still be written, or was
    checked, \* the phases that succeeded since the files or the code changed
    cancels, crashes

process == <<mem, adv, runners>>
history == <<level, stray, checked, cancels, crashes>>
vars == <<process, row, sent, booted, history>>

Phases == {"plan", "implement", "review", "security-audit", "qa", "ops-validate",
           "ship", "retro"}
Terminal == {"complete", "blocked", "cancelled"}
\* A phase whose failure leads back to implement.
LoopsBack == {"review", "security-audit", "qa", "ops-validate"}
Statuses == {"success", "failed", "awaiting-approval", "approved"}

\* The result of a phase that approveSprintPhase finds: at is its number.
NoResult == [at |-> 0, status |-> "none"]
Results == [at : Nat, status : Statuses \union {"none"}]

Pipelines == [phase : Phases \union Terminal, autonomy : AutonomyLevels,
              results : [Phases -> Results], total : Nat, loops : Nat,
              overreach : BOOLEAN, code : BOOLEAN]

ASSUME NoPipelineAssumption == NoPipeline \notin Pipelines

\* by: the caller.  worked: the action has had its effect.  restore: the
\* autonomy level that approveSprintPhase puts back.
Advances == [by : Runners \union {Approver}, phase : Phases,
             pc : {"acting", "rolling-back", "asking"},
             status : Statuses \union {"none"}, worked : BOOLEAN,
             restore : AutonomyLevels]
NoAdvance == [by |-> Nobody]

\* The pipeline, the phase in progress and the saved rows keep their types, and
\* whoever acts has a pipeline.
TypeOK ==
    /\ level \in Levels \union {"none"}
    /\ mem \in Pipelines \union {NoPipeline}
    /\ adv \in Advances \union {NoAdvance}
    /\ runners \in [Runners -> {"idle", "ready", "waiting"}]
    /\ row \in Pipelines \union {NoPipeline}
    /\ sent \in Pipelines \union {NoPipeline}
    /\ booted \in BOOLEAN
    /\ stray \in {"none", "pending", "written"}
    /\ checked \subseteq Phases
    /\ {cancels, crashes} \subseteq Nat

-----------------------------------------------------------------------------
(* Helpers. *)

RequiresApproval(phase, autonomy) ==
    \/ autonomy = "manual"
    \/ autonomy = "approve-ship" /\ phase = "ship"
    \/ autonomy = "approve-impl" /\ phase \in {"implement", "ship"}

OnSuccess == {<<"plan", "implement">>, <<"implement", "review">>, <<"review", "qa">>,
              <<"review", "security-audit">>, <<"security-audit", "qa">>,
              <<"qa", "ops-validate">>, <<"ops-validate", "ship">>,
              <<"ship", "retro">>, <<"retro", "complete">>}

\* Variant of NextPhases (ShipFollowsChecks): when the loops are used up, the
\* pipeline goes on.
NextPhasesGoOn(phase, status, loops) ==
    IF status = "success" \/ phase = "retro" \/ (phase \in LoopsBack /\ loops >= MaxImplReviewLoops)
    THEN {next \in Phases \union Terminal : <<phase, next>> \in OnSuccess}
    ELSE IF phase \in LoopsBack THEN {"implement"} ELSE {"blocked"}

\* PHASE_TRANSITIONS; whether review inserts the security audit depends on its
\* output.
NextPhases(phase, status, loops) ==
    IF status = "success" \/ phase = "retro"
    THEN {next \in Phases \union Terminal : <<phase, next>> \in OnSuccess}
    ELSE IF phase \in LoopsBack /\ loops < MaxImplReviewLoops THEN {"implement"} ELSE {"blocked"}

\* Results have keys like "plan-10" that are sorted as strings: this is the
\* order of the keys of one phase ("1" < "10" < "19" < "2" < "20").
KeyRank(i) == IF i < 10 THEN 11 * i ELSE 11 * (i \div 10) + 1 + (i % 10)

\* The results with one more.  Only the one whose key sorts last is ever read.
WithResult(results, phase, i, status) ==
    IF results[phase].status = "none" \/ KeyRank(i) > KeyRank(results[phase].at)
    THEN [results EXCEPT ![phase] = [at |-> i, status |-> status]]
    ELSE results

\* The current phase is seen to wait for an approval.
Awaits(p) == p.phase \in Phases /\ p.results[p.phase].status = "awaiting-approval"

Active(p) == p # NoPipeline /\ p.phase \notin Terminal

\* The pipeline with the approval noted in the result that was found.
Approved(p) ==
    [p EXCEPT !.results = [p.results EXCEPT ![p.phase] = [at |-> p.results[p.phase].at,
                                                          status |-> "approved"]]]

\* The pipeline p with another phase, another level, or one more result or loop.
InPhase(p, phase) == [p EXCEPT !.phase = phase]
WithLevel(p, autonomy) == [p EXCEPT !.autonomy = autonomy]
Recorded(p, phase, status) ==
    [p EXCEPT !.results = WithResult(p.results, phase, p.total, status), !.total = @ + 1]
Counted(p) == [p EXCEPT !.loops = @ + 1]
WithChanges(p, code, overreach) == [p EXCEPT !.code = code, !.overreach = overreach]

\* The call goes on to another step, with a status for its phase.
CallAt(call, pc, status) == [call EXCEPT !.pc = pc, !.status = status]

\* persistPipeline: an upsert is sent with what the pipeline p is now.  Upserts
\* arrive in order, the one before the next is sent.
Save(p) == sent' = p /\ row' = sent
NoSave == UNCHANGED <<row, sent>>

-----------------------------------------------------------------------------
(* advanceSprintPhase.                                                     *)

\* Variant of Return (GatedUntilRestart): approveSprintPhase leaves the level.
ReturnUnrestored(call, p, ok, save) ==
    /\ adv' = NoAdvance /\ mem' = p
    /\ IF call.by = Approver
       THEN /\ Save(p)
            /\ IF ok
               THEN \E r \in Runners : /\ runners[r] = "idle"
                                       /\ runners' = [runners EXCEPT ![r] = "ready"]
               ELSE UNCHANGED runners
       ELSE /\ IF save THEN Save(p) ELSE NoSave
            /\ runners' = [runners EXCEPT ![call.by] = IF ok THEN "ready" ELSE "idle"]

\* It returns to its caller with the pipeline p, having saved it or not.
\* runFullSprintPipeline goes on if ok; approveSprintPhase restores the level
\* and starts runFullSprintPipeline, or saves once more and gives up.
Return(call, p, ok, save) ==
    /\ adv' = NoAdvance
    /\ IF call.by = Approver
       THEN LET restored == WithLevel(p, call.restore)
            IN  /\ mem' = restored
                /\ Save(IF ok THEN p ELSE restored)
                /\ IF ok
                   THEN \E r \in Runners : /\ runners[r] = "idle"
                                           /\ runners' = [runners EXCEPT ![r] = "ready"]
                   ELSE UNCHANGED runners
       ELSE /\ mem' = p
            /\ IF save THEN Save(p) ELSE NoSave
            /\ runners' = [runners EXCEPT ![call.by] = IF ok THEN "ready" ELSE "idle"]

\* The result is recorded; a phase that awaits approval is announced, any other
\* decides the next phase and overwrites the current one.
Record(call, p, status) ==
    LET q == Recorded(p, call.phase, status)
    IN  IF status = "awaiting-approval"
        THEN /\ mem' = q
             /\ adv' = CallAt(call, "asking", status)
             /\ UNCHANGED runners /\ NoSave
        ELSE \E next \in NextPhases(call.phase, status, q.loops) :
                Return(call, InPhase(q, next), next # "blocked", TRUE)

\* The phase has a status.  One that loops back is counted, and the code changes
\* are rolled back first.
Conclude(call, p, status) ==
    IF call.phase \in LoopsBack /\ status # "success"
    THEN IF p.code
         THEN /\ mem' = Counted(p)
              /\ adv' = CallAt(call, "rolling-back", status)
              /\ UNCHANGED runners /\ NoSave
         ELSE Record(call, Counted(p), status)
    ELSE Record(call, p, status)

\* It is called while no other call is in progress, for a pipeline p that is not
\* terminal: the guards, and the approval gate of executePhaseAction.
Begin(caller, p, restore) ==
    LET call == [by |-> caller, phase |-> p.phase, pc |-> "acting", status |-> "none",
                 worked |-> FALSE, restore |-> restore]
        waiting == IF caller = Approver THEN runners
                   ELSE [runners EXCEPT ![caller] = "waiting"]
    IN  IF p.total >= MaxTotalPhases \/ p.overreach
        THEN Return(call, InPhase(p, "blocked"), FALSE, FALSE)
        ELSE IF RequiresApproval(p.phase, p.autonomy)
             THEN Conclude(call, p, "awaiting-approval")
             ELSE /\ mem' = p /\ adv' = call /\ runners' = waiting
                  /\ NoSave

\* The action of implement changes files.
ActionTakesEffect ==
    /\ adv # NoAdvance /\ adv.pc = "acting" /\ adv.phase = "implement" /\ ~adv.worked
    /\ adv' = [adv EXCEPT !.worked = TRUE]
    /\ checked' = {}
    /\ UNCHANGED <<mem, runners, row, sent, booted, level, stray, cancels, crashes>>

\* It does so after raceWithTimeout has given it up, in the same process.
StrayEffect ==
    /\ stray = "pending" /\ mem # NoPipeline
    /\ stray' = "written" /\ checked' = {}
    /\ UNCHANGED <<process, row, sent, booted, level, cancels, crashes>>

\* The action ends or its time is over.  A plan may need a human after autoplan;
\* changes written by an implement that timed out are not known to the pipeline.
ActionEnds ==
    /\ adv # NoAdvance /\ adv.pc = "acting"
    /\ \E status \in {"success", "failed", "awaiting-approval"},
          code \in BOOLEAN, overreach \in BOOLEAN :
         /\ status = "awaiting-approval" => adv.phase = "plan" /\ mem.autonomy # "full-auto"
         /\ code # mem.code => code /\ adv.phase = "implement" /\ adv.worked /\ status = "success"
         /\ overreach # mem.overreach => overreach
         /\ Conclude(adv, WithChanges(mem, code, overreach), status)
         /\ checked' = IF status # "success" THEN checked
                       ELSE IF adv.phase = "implement" THEN {}
                       ELSE checked \union {adv.phase}
    /\ stray' = IF adv.phase = "implement" /\ ~adv.worked /\ stray = "none" THEN "pending" ELSE stray
    /\ UNCHANGED <<booted, level, cancels, crashes>>

RollbackEnds ==
    /\ adv # NoAdvance /\ adv.pc = "rolling-back"
    /\ checked' = {}
    /\ Record(adv, WithChanges(mem, FALSE, mem.overreach), adv.status)
    /\ UNCHANGED <<booted, level, stray, cancels, crashes>>

\* createActionApprovalRequest is answered.  The result is an object that an
\* approval may have changed meanwhile.
ApprovalAsked ==
    /\ adv # NoAdvance /\ adv.pc = "asking"
    /\ Return(adv, mem, adv.by = Approver \/ adv.status # "awaiting-approval", TRUE)
    /\ UNCHANGED <<booted, history>>

-----------------------------------------------------------------------------
(* Its callers.                                                            *)

NewPipeline(l) ==
    [phase |-> "plan", autonomy |-> l, results |-> [p \in Phases |-> NoResult],
     total |-> 0, loops |-> 0, overreach |-> FALSE, code |-> FALSE]

Init ==
    /\ level = "none" /\ mem = NoPipeline /\ adv = NoAdvance
    /\ runners = [r \in Runners |-> "idle"]
    /\ row = NoPipeline /\ sent = NoPipeline /\ booted = FALSE
    /\ stray = "none" /\ checked = {} /\ cancels = 0 /\ crashes = 0

\* triggerSprint: createSprintPipeline, and a run of it.
Create(l) ==
    /\ level = "none"
    /\ level' = l /\ mem' = NewPipeline(l) /\ Save(NewPipeline(l))
    /\ \E r \in Runners : runners' = [runners EXCEPT ![r] = "ready"]
    /\ UNCHANGED <<adv, booted, stray, checked, cancels, crashes>>

RunnerGoesOn(r) ==
    /\ runners[r] = "ready" /\ adv = NoAdvance
    /\ mem.phase \in Phases /\ mem.total < MaxTotalPhases
    /\ Begin(r, mem, mem.autonomy)
    /\ UNCHANGED <<booted, history>>

\* The pipeline has ended or is used up, or another call is in progress.
RunnerStops(r) ==
    /\ runners[r] = "ready"
    /\ mem.phase \in Terminal \/ mem.total >= MaxTotalPhases \/ adv # NoAdvance
    /\ runners' = [runners EXCEPT ![r] = "idle"]
    /\ UNCHANGED <<mem, adv, row, sent, booted, history>>

\* approveSprintPhase, when its call of advanceSprintPhase is accepted.
Approve ==
    /\ mem # NoPipeline /\ Awaits(mem) /\ adv = NoAdvance
    /\ Begin(Approver, WithLevel(Approved(mem), "full-auto"), mem.autonomy)
    /\ UNCHANGED <<booted, history>>

\* approveSprintPhase, when a phase is in progress: the approval is noted, the
\* call refused, the level restored and the pipeline saved.
ApproveWhileBusy ==
    /\ mem # NoPipeline /\ Awaits(mem) /\ adv # NoAdvance
    /\ mem' = Approved(mem)
    /\ adv' = IF mem.results[mem.phase].at + 1 = mem.total /\ adv.pc = "asking"
              THEN CallAt(adv, "asking", "approved") ELSE adv
    /\ Save(mem')
    /\ UNCHANGED <<runners, booted, history>>

\* cancelSprintPipeline, whatever the pipeline does.
Cancel ==
    /\ mem # NoPipeline /\ cancels < MaxCancels
    /\ cancels' = cancels + 1
    /\ mem' = InPhase(mem, "cancelled")
    /\ Save(mem')
    /\ UNCHANGED <<adv, runners, booted, level, stray, checked, crashes>>

-----------------------------------------------------------------------------
(* The database, and restarts.                                             *)

\* The process ends; the last upsert has arrived or never does.
Crash ==
    /\ level # "none" /\ crashes < MaxCrashes
    /\ crashes' = crashes + 1
    /\ mem' = NoPipeline /\ adv' = NoAdvance
    /\ runners' = [r \in Runners |-> "idle"] /\ booted' = FALSE
    /\ sent' \in {row, sent} /\ row' = sent'
    /\ stray' = IF stray = "pending" THEN "none" ELSE stray
    /\ UNCHANGED <<level, checked, cancels>>

\* The pipeline that rehydrateActivePipelines leaves in the map: what it read,
\* without the code changes, unless the id is there already.
Rehydrated(read) == IF mem = NoPipeline THEN WithChanges(read, FALSE, read.overreach) ELSE mem

\* Variant of Rehydrate (PipelineSettles): the pipelines are read but not run.
RehydrateOnly ==
    /\ ~booted /\ booted' = TRUE
    /\ \E read \in {row, sent} : mem' = IF Active(read) THEN Rehydrated(read) ELSE mem
    /\ UNCHANGED <<adv, runners, row, sent, history>>

\* rehydrateActivePipelines, at the start of the process.  Whatever has an
\* active row and does not await an approval is run.
Rehydrate ==
    /\ ~booted /\ booted' = TRUE
    /\ \E read \in {row, sent} :
          IF Active(read)
          THEN /\ mem' = Rehydrated(read)
               /\ IF Awaits(mem') THEN UNCHANGED runners
                  ELSE \E r \in Runners : /\ runners[r] = "idle"
                                          /\ runners' = [runners EXCEPT ![r] = "ready"]
          ELSE UNCHANGED <<mem, runners>>
    /\ UNCHANGED <<adv, row, sent, history>>

Next ==
    \/ \E l \in Levels : Create(l)
    \/ \E r \in Runners : RunnerGoesOn(r) \/ RunnerStops(r)
    \/ ActionTakesEffect \/ StrayEffect \/ ActionEnds \/ RollbackEnds \/ ApprovalAsked
    \/ Approve \/ ApproveWhileBusy \/ Cancel
    \/ Crash \/ Rehydrate

Spec == Init /\ [][Next]_vars

(***************************************************************************)
(* Promises are settled: an action ends or times out, a rollback and a     *)
(* request to the database are answered, a run goes on, a process that was *)
(* started reads the rows.  Nobody has to approve or to cancel.            *)
(***************************************************************************)
Fairness ==
    /\ \A r \in Runners : WF_vars(RunnerGoesOn(r) \/ RunnerStops(r))
    /\ WF_vars(ActionEnds) /\ WF_vars(RollbackEnds) /\ WF_vars(ApprovalAsked)
    /\ WF_vars(Rehydrate)

FairSpec == Spec /\ Fairness

-----------------------------------------------------------------------------
(* Safety.                                                                 *)

Acting == adv # NoAdvance /\ adv.pc = "acting"

\* The action of a phase that the level of the pipeline reserves to a human runs
\* only for a human's approval, whoever calls at the same time.
GatedPhaseIsApproved ==
    Acting /\ RequiresApproval(adv.phase, level) => adv.by = Approver

\* Without a restart.
GatedUntilRestart == crashes = 0 => GatedPhaseIsApproved

\* Ship runs only after review, qa and ops-validate have succeeded for the files
\* as they are now, unless a code change that had timed out was written later, or
\* the process restarted.
ShipFollowsChecks ==
    Acting /\ adv.phase = "ship" /\ crashes = 0 /\ stray # "written" =>
        {"review", "qa", "ops-validate"} \subseteq checked

-----------------------------------------------------------------------------
(* Liveness.                                                               *)

Settled ==
    \/ mem = NoPipeline
    \/ mem.phase \in Terminal
    \/ mem.total >= MaxTotalPhases
    \/ adv = NoAdvance /\ Awaits(mem)

\* A pipeline is not left in the middle: again and again it has ended, waits for
\* a human, or has used up its phases.
PipelineSettles == []<>Settled
=============================================================================
