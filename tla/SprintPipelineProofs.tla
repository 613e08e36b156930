------------------------ MODULE SprintPipelineProofs ------------------------
(***************************************************************************)
(* Theorems about SprintPipeline, for every number of runs, every set of   *)
(* levels and every bound.                                                 *)
(***************************************************************************)
EXTENDS SprintPipeline, TLAPS

-----------------------------------------------------------------------------
(* Lemmas about pipelines and calls.                                       *)

LEMMA FieldFacts ==
    ASSUME NEW p \in Pipelines
    PROVE  /\ p.phase \in Phases \union Terminal /\ p.autonomy \in AutonomyLevels
           /\ p.results \in [Phases -> Results] /\ p.total \in Nat /\ p.loops \in Nat
           /\ p.overreach \in BOOLEAN /\ p.code \in BOOLEAN
BY DEF Pipelines

\* A pipeline with another phase or level.
LEMMA InPhaseFacts ==
    ASSUME NEW p \in Pipelines, NEW phase \in Phases \union Terminal
    PROVE  /\ InPhase(p, phase) \in Pipelines /\ InPhase(p, phase).phase = phase
           /\ InPhase(p, phase).autonomy = p.autonomy /\ InPhase(p, phase).code = p.code
           /\ InPhase(p, phase).results = p.results
BY DEF Pipelines, InPhase

LEMMA WithLevelFacts ==
    ASSUME NEW p \in Pipelines, NEW autonomy \in AutonomyLevels
    PROVE  /\ WithLevel(p, autonomy) \in Pipelines /\ WithLevel(p, autonomy).autonomy = autonomy
           /\ WithLevel(p, autonomy).phase = p.phase /\ WithLevel(p, autonomy).code = p.code
           /\ WithLevel(p, autonomy).results = p.results
BY DEF Pipelines, WithLevel

\* A result more keeps the results of the other phases, and the result that is
\* found for this one is the new one or the one found before.
LEMMA WithResultFacts ==
    ASSUME NEW results \in [Phases -> Results], NEW phase \in Phases, NEW i \in Nat,
           NEW status \in Statuses
    PROVE  /\ WithResult(results, phase, i, status) \in [Phases -> Results]
           /\ \A other \in Phases \ {phase} :
                 WithResult(results, phase, i, status)[other] = results[other]
           /\ WithResult(results, phase, i, status)[phase].status
                 \in {status, results[phase].status}
<1> DEFINE new == [at |-> i, status |-> status]
<1>1. new \in Results /\ new.status = status
  BY DEF Results
<1> HIDE DEF new
<1>2. WithResult(results, phase, i, status) \in {results, [results EXCEPT ![phase] = new]}
  BY DEF WithResult, new
<1> QED BY <1>1, <1>2

LEMMA RecordedFacts ==
    ASSUME NEW p \in Pipelines, NEW phase \in Phases, NEW status \in Statuses
    PROVE  /\ Recorded(p, phase, status) \in Pipelines
           /\ Recorded(p, phase, status).phase = p.phase
           /\ Recorded(p, phase, status).autonomy = p.autonomy
           /\ Recorded(p, phase, status).code = p.code
           /\ \A other \in Phases \ {phase} :
                 Recorded(p, phase, status).results[other] = p.results[other]
           /\ Recorded(p, phase, status).results[phase].status
                 \in {status, p.results[phase].status}
<1> DEFINE new == WithResult(p.results, phase, p.total, status)
<1>1. p.total \in Nat /\ p.results \in [Phases -> Results]
  BY FieldFacts
<1>2. /\ new \in [Phases -> Results]
      /\ \A other \in Phases \ {phase} : new[other] = p.results[other]
      /\ new[phase].status \in {status, p.results[phase].status}
  BY <1>1, WithResultFacts
<1>3. /\ Recorded(p, phase, status).results = new
      /\ Recorded(p, phase, status).phase = p.phase
      /\ Recorded(p, phase, status).autonomy = p.autonomy
      /\ Recorded(p, phase, status).code = p.code
  BY DEF Recorded, Pipelines
<1>4. Recorded(p, phase, status) \in Pipelines
  <2> HIDE DEF new
  <2>1. Recorded(p, phase, status) = [p EXCEPT !.results = new, !.total = p.total + 1]
    BY DEF Recorded, new, Pipelines
  <2>2. p.total + 1 \in Nat
    BY <1>1
  <2> QED BY <1>2, <2>1, <2>2 DEF Pipelines
<1> QED BY <1>2, <1>3, <1>4

LEMMA CountedFacts ==
    ASSUME NEW p \in Pipelines
    PROVE  /\ Counted(p) \in Pipelines /\ Counted(p).phase = p.phase
           /\ Counted(p).autonomy = p.autonomy /\ Counted(p).code = p.code
           /\ Counted(p).results = p.results
BY DEF Pipelines, Counted

LEMMA WithChangesFacts ==
    ASSUME NEW p \in Pipelines, NEW code \in BOOLEAN, NEW overreach \in BOOLEAN
    PROVE  /\ WithChanges(p, code, overreach) \in Pipelines
           /\ WithChanges(p, code, overreach).phase = p.phase
           /\ WithChanges(p, code, overreach).autonomy = p.autonomy
           /\ WithChanges(p, code, overreach).code = code
           /\ WithChanges(p, code, overreach).results = p.results
BY DEF Pipelines, WithChanges

LEMMA ApprovedFacts ==
    ASSUME NEW p \in Pipelines, p.phase \in Phases
    PROVE  /\ Approved(p) \in Pipelines /\ Approved(p).phase = p.phase
           /\ Approved(p).autonomy = p.autonomy /\ Approved(p).code = p.code
           /\ \A other \in Phases \ {p.phase} : Approved(p).results[other] = p.results[other]
           /\ Approved(p).results[p.phase].status = "approved"
<1> DEFINE new == [at |-> p.results[p.phase].at, status |-> "approved"]
           all == [p.results EXCEPT ![p.phase] = new]
<1>1. p.results \in [Phases -> Results]
  BY FieldFacts
<1>2. new \in Results /\ new.status = "approved"
  BY <1>1 DEF Results, Statuses
<1> HIDE DEF new
<1>3. /\ all \in [Phases -> Results] /\ all[p.phase] = new
      /\ \A other \in Phases \ {p.phase} : all[other] = p.results[other]
  BY <1>1, <1>2
<1>4. Approved(p) = [p EXCEPT !.results = all]
  BY DEF Approved, new
<1> HIDE DEF all
<1>5. /\ Approved(p) \in Pipelines /\ Approved(p).phase = p.phase
      /\ Approved(p).autonomy = p.autonomy /\ Approved(p).code = p.code
      /\ Approved(p).results = all
  BY <1>3, <1>4 DEF Pipelines
<1> QED BY <1>2, <1>3, <1>5

LEMMA NewPipelineFacts ==
    ASSUME NEW l \in AutonomyLevels
    PROVE  /\ NewPipeline(l) \in Pipelines /\ NewPipeline(l).autonomy = l
           /\ NewPipeline(l).phase = "plan" /\ ~NewPipeline(l).code
           /\ \A phase \in Phases : NewPipeline(l).results[phase].status = "none"
<1>1. NoResult \in Results /\ NoResult.status = "none"
  BY DEF NoResult, Results
<1> HIDE DEF NoResult
<1>2. "plan" \in Phases
  BY DEF Phases
<1> QED BY <1>1, <1>2 DEF NewPipeline, Pipelines

LEMMA CallFacts ==
    ASSUME NEW call \in Advances, NEW pc \in {"acting", "rolling-back", "asking"},
           NEW status \in Statuses
    PROVE  /\ CallAt(call, pc, status) \in Advances
           /\ CallAt(call, pc, status).by = call.by
           /\ CallAt(call, pc, status).phase = call.phase
           /\ CallAt(call, pc, status).restore = call.restore
           /\ CallAt(call, pc, status).pc = pc
           /\ CallAt(call, pc, status).status = status
BY DEF Advances, CallAt

LEMMA AdvanceFields ==
    ASSUME NEW call \in Advances
    PROVE  /\ call.by \in Runners \union {Approver} /\ call.phase \in Phases
           /\ call.pc \in {"acting", "rolling-back", "asking"}
           /\ call.status \in Statuses \union {"none"} /\ call.restore \in AutonomyLevels
BY DEF Advances

\* A call in progress has a caller, and the approver is none of the runs.
LEMMA NoAdvanceFacts ==
    /\ NoAdvance.by = Nobody /\ Approver \notin Runners /\ Nobody # Approver
    /\ \A call \in Advances : call # NoAdvance
BY ConstantsAssumption DEF NoAdvance, Advances

LEMMA NextPhasesFacts ==
    ASSUME NEW phase \in Phases, NEW status, NEW loops \in Nat
    PROVE  NextPhases(phase, status, loops) \subseteq Phases \union Terminal
BY DEF NextPhases, Phases, Terminal

-----------------------------------------------------------------------------
(* What a step of advanceSprintPhase leaves behind.                        *)

\* What the database and the runs hold.
Stores ==
    /\ row \in Pipelines \union {NoPipeline} /\ sent \in Pipelines \union {NoPipeline}
    /\ runners \in [Runners -> {"idle", "ready", "waiting"}]

\* The pipeline is p but for its phase, its level, its counters and the result of
\* the call's phase.
Kept(call, p, status) ==
    /\ Stores' /\ mem' \in Pipelines /\ mem'.code = p.code
    /\ \A other \in Phases \ {call.phase} : mem'.results[other] = p.results[other]
    /\ mem'.results[call.phase].status \in {status, p.results[call.phase].status}

\* The call goes on to the step pc.
GoesOn(call, p, pc, status) ==
    adv' = CallAt(call, pc, status) /\ mem'.phase = p.phase /\ mem'.autonomy = p.autonomy

\* The call has ended, with the level that it leaves, in one of the phases.
Ends(call, p, phases) ==
    /\ adv' = NoAdvance /\ mem'.phase \in phases
    /\ mem'.autonomy = IF call.by = Approver THEN call.restore ELSE p.autonomy

\* Where the transition of a phase may lead, for any number of loops.
After(phase, status) == UNION {NextPhases(phase, status, loops) : loops \in Nat}

\* Outcomes of Record and of Conclude.
Settles(call, p, status) ==
    /\ Kept(call, p, status)
    /\ \/ status = "awaiting-approval" /\ GoesOn(call, p, "asking", status)
       \/ status # "awaiting-approval" /\ Ends(call, p, After(call.phase, status))

RollsBack(call, p, status) ==
    /\ call.phase \in LoopsBack /\ status # "success" /\ p.code
    /\ Kept(call, p, status) /\ mem'.results = p.results
    /\ GoesOn(call, p, "rolling-back", status)

Concludes(call, p, status) ==
    \/ RollsBack(call, p, status)
    \/ /\ call.phase \in LoopsBack /\ status # "success" => ~p.code
       /\ Settles(call, p, status)

LEMMA ReturnFacts ==
    ASSUME Stores, NEW call \in Advances, NEW p \in Pipelines, NEW ok \in BOOLEAN,
           NEW save \in BOOLEAN, Return(call, p, ok, save)
    PROVE  /\ Stores' /\ mem' \in Pipelines /\ mem'.code = p.code /\ mem'.results = p.results
           /\ Ends(call, p, {p.phase})
<1> DEFINE restored == WithLevel(p, call.restore)
<1>1. call.restore \in AutonomyLevels /\ call.by \in Runners \union {Approver}
  BY AdvanceFields
<1>2. /\ restored \in Pipelines /\ restored.autonomy = call.restore /\ restored.phase = p.phase
      /\ restored.code = p.code /\ restored.results = p.results
  BY <1>1, WithLevelFacts
<1>3. CASE call.by = Approver
  <2>1. /\ adv' = NoAdvance /\ mem' = restored
        /\ Save(IF ok THEN p ELSE restored)
        /\ IF ok THEN \E r \in Runners : /\ runners[r] = "idle"
                                         /\ runners' = [runners EXCEPT ![r] = "ready"]
                 ELSE UNCHANGED runners
    BY <1>3 DEF Return
  <2> HIDE DEF restored
  <2>2. runners' \in [Runners -> {"idle", "ready", "waiting"}]
    BY <2>1 DEF Stores
  <2>3. sent' \in Pipelines /\ row' = sent
    BY <1>2, <2>1 DEF Save
  <2> QED BY <1>2, <1>3, <2>1, <2>2, <2>3 DEF Stores, Ends
<1>4. CASE call.by # Approver
  <2>1. /\ adv' = NoAdvance /\ mem' = p
        /\ IF save THEN Save(p) ELSE NoSave
        /\ runners' = [runners EXCEPT ![call.by] = IF ok THEN "ready" ELSE "idle"]
    BY <1>4 DEF Return
  <2>2. runners' \in [Runners -> {"idle", "ready", "waiting"}]
    BY <2>1 DEF Stores
  <2>3. row' \in Pipelines \union {NoPipeline} /\ sent' \in Pipelines \union {NoPipeline}
    BY <2>1 DEF Save, NoSave, Stores
  <2> QED BY <1>4, <2>1, <2>2, <2>3 DEF Stores, Ends
<1> QED BY <1>3, <1>4

LEMMA RecordFacts ==
    ASSUME Stores, NEW call \in Advances, NEW p \in Pipelines, NEW status \in Statuses,
           Record(call, p, status)
    PROVE  Settles(call, p, status)
<1> DEFINE q == Recorded(p, call.phase, status)
<1>1. call.phase \in Phases
  BY AdvanceFields
<1>2. /\ q \in Pipelines /\ q.phase = p.phase /\ q.autonomy = p.autonomy /\ q.code = p.code
      /\ \A other \in Phases \ {call.phase} : q.results[other] = p.results[other]
      /\ q.results[call.phase].status \in {status, p.results[call.phase].status}
  BY <1>1, RecordedFacts
<1>3. CASE status = "awaiting-approval"
  <2>1. mem' = q /\ adv' = CallAt(call, "asking", status) /\ UNCHANGED runners /\ NoSave
    BY <1>3 DEF Record
  <2> HIDE DEF q
  <2>2. Stores'
    BY <2>1 DEF Stores, NoSave
  <2> QED BY <1>2, <1>3, <2>1, <2>2 DEF Settles, Kept, GoesOn
<1>4. CASE status # "awaiting-approval"
  <2>1. PICK next \in NextPhases(call.phase, status, q.loops) :
           Return(call, InPhase(q, next), next # "blocked", TRUE)
    BY <1>4 DEF Record
  <2> HIDE DEF q
  <2>2. q.loops \in Nat
    BY <1>2, FieldFacts
  <2>3. next \in Phases \union Terminal /\ next \in After(call.phase, status)
    BY <1>1, <2>1, <2>2, NextPhasesFacts DEF After
  <2>4. /\ InPhase(q, next) \in Pipelines /\ InPhase(q, next).phase = next
        /\ InPhase(q, next).autonomy = q.autonomy /\ InPhase(q, next).code = q.code
        /\ InPhase(q, next).results = q.results
    BY <1>2, <2>3, InPhaseFacts
  <2>5. /\ Stores' /\ mem' \in Pipelines /\ mem'.code = q.code /\ mem'.results = q.results
        /\ Ends(call, InPhase(q, next), {next})
    BY <2>1, <2>4, ReturnFacts
  <2> QED BY <1>2, <1>4, <2>3, <2>4, <2>5 DEF Settles, Kept, Ends
<1> QED BY <1>3, <1>4

LEMMA ConcludeFacts ==
    ASSUME Stores, NEW call \in Advances, NEW p \in Pipelines, NEW status \in Statuses,
           Conclude(call, p, status)
    PROVE  Concludes(call, p, status)
<1>1. /\ Counted(p) \in Pipelines /\ Counted(p).phase = p.phase
      /\ Counted(p).autonomy = p.autonomy /\ Counted(p).code = p.code
      /\ Counted(p).results = p.results
  BY CountedFacts
<1>2. CASE call.phase \in LoopsBack /\ status # "success" /\ p.code
  <2>1. /\ mem' = Counted(p) /\ adv' = CallAt(call, "rolling-back", status)
        /\ UNCHANGED runners /\ NoSave
    BY <1>2 DEF Conclude
  <2>2. Stores'
    BY <2>1 DEF Stores, NoSave
  <2> QED BY <1>1, <1>2, <2>1, <2>2 DEF Concludes, RollsBack, Kept, GoesOn
<1>3. CASE call.phase \in LoopsBack /\ status # "success" /\ ~p.code
  <2>1. Record(call, Counted(p), status)
    BY <1>3 DEF Conclude
  <2>2. Settles(call, Counted(p), status)
    BY <1>1, <2>1, RecordFacts
  <2> QED BY <1>1, <1>3, <2>2 DEF Concludes, Settles, Kept, GoesOn, Ends
<1>4. CASE ~(call.phase \in LoopsBack /\ status # "success")
  <2>1. Record(call, p, status)
    BY <1>4 DEF Conclude
  <2>2. Settles(call, p, status)
    BY <2>1, RecordFacts
  <2> QED BY <1>4, <2>2 DEF Concludes
<1>5. p.code \in BOOLEAN
  BY FieldFacts
<1> QED BY <1>2, <1>3, <1>4, <1>5

\* A call that is accepted is blocked, asks for an approval, or acts.
LEMMA BeginFacts ==
    ASSUME Stores, NEW caller \in Runners \union {Approver}, NEW p \in Pipelines,
           p.phase \in Phases, NEW restore \in AutonomyLevels, Begin(caller, p, restore)
    PROVE  \E call \in Advances :
              /\ call.by = caller /\ call.phase = p.phase /\ call.restore = restore
              /\ call.pc = "acting"
              /\ \/ /\ Kept(call, p, "none") /\ mem'.results = p.results
                    /\ Ends(call, p, {"blocked"})
                 \/ /\ RequiresApproval(p.phase, p.autonomy)
                    /\ Concludes(call, p, "awaiting-approval")
                 \/ /\ ~RequiresApproval(p.phase, p.autonomy)
                    /\ adv' = call /\ mem' = p /\ Stores'
<1> DEFINE call == [by |-> caller, phase |-> p.phase, pc |-> "acting", status |-> "none",
                    worked |-> FALSE, restore |-> restore]
<1>1. /\ call \in Advances /\ call.by = caller /\ call.phase = p.phase
      /\ call.restore = restore /\ call.pc = "acting"
  BY DEF Advances
<1>2. CASE p.total >= MaxTotalPhases \/ p.overreach
  <2>1. Return(call, InPhase(p, "blocked"), FALSE, FALSE)
    BY <1>2 DEF Begin
  <2> HIDE DEF call
  <2>2. /\ InPhase(p, "blocked") \in Pipelines /\ InPhase(p, "blocked").phase = "blocked"
        /\ InPhase(p, "blocked").autonomy = p.autonomy /\ InPhase(p, "blocked").code = p.code
        /\ InPhase(p, "blocked").results = p.results
    BY InPhaseFacts DEF Terminal
  <2>3. /\ Stores' /\ mem' \in Pipelines /\ mem'.code = p.code /\ mem'.results = p.results
        /\ Ends(call, InPhase(p, "blocked"), {"blocked"})
    BY <1>1, <2>1, <2>2, ReturnFacts
  <2>4. Kept(call, p, "none") /\ Ends(call, p, {"blocked"})
    BY <2>2, <2>3 DEF Kept, Ends
  <2> QED BY <1>1, <2>3, <2>4
<1>3. CASE /\ ~(p.total >= MaxTotalPhases \/ p.overreach)
           /\ RequiresApproval(p.phase, p.autonomy)
  <2>1. Conclude(call, p, "awaiting-approval")
    BY <1>3 DEF Begin
  <2> HIDE DEF call
  <2>2. Concludes(call, p, "awaiting-approval")
    BY <1>1, <2>1, ConcludeFacts DEF Statuses
  <2> QED BY <1>1, <1>3, <2>2
<1>4. CASE /\ ~(p.total >= MaxTotalPhases \/ p.overreach)
           /\ ~RequiresApproval(p.phase, p.autonomy)
  <2>1. /\ mem' = p /\ adv' = call /\ NoSave
        /\ runners' = IF caller = Approver THEN runners
                      ELSE [runners EXCEPT ![caller] = "waiting"]
    BY <1>4 DEF Begin
  <2> HIDE DEF call
  <2>2. Stores'
    BY <2>1 DEF Stores, NoSave
  <2> QED BY <1>1, <1>4, <2>1, <2>2
<1> QED BY <1>2, <1>3, <1>4

-----------------------------------------------------------------------------
(* Types.                                                                  *)

\* After its action a call has a status.
Underway == {call \in Advances : call.pc # "acting" => call.status \in Statuses}

\* TypeOK is not inductive: a call or a run in progress has a pipeline.
TInv ==
    /\ TypeOK
    /\ adv \in Underway \union {NoAdvance}
    /\ adv # NoAdvance => mem # NoPipeline
    /\ \A r \in Runners : runners[r] # "idle" => mem # NoPipeline
    /\ level = "none" => mem = NoPipeline /\ row = NoPipeline /\ sent = NoPipeline

LEMMA TInvFacts ==
    ASSUME TInv
    PROVE  /\ Stores /\ level \in Levels \union {"none"}
           /\ mem # NoPipeline => mem \in Pipelines
           /\ adv # NoAdvance => adv \in Advances /\ mem \in Pipelines
           /\ \A r \in Runners : runners[r] # "idle" => mem \in Pipelines
           /\ \A r \in Runners : runners[r] \in {"idle", "ready", "waiting"}
BY DEF TInv, TypeOK, Stores

\* The outcome of a phase has the types of the state.
LEMMA ConcludesTypes ==
    ASSUME NEW call \in Advances, NEW p \in Pipelines, NEW status \in Statuses,
           Concludes(call, p, status)
    PROVE  Stores' /\ mem' \in Pipelines /\ adv' \in Underway \union {NoAdvance}
<1>1. CallAt(call, "rolling-back", status) \in Underway /\ CallAt(call, "asking", status) \in Underway
  BY CallFacts DEF Underway
<1> QED BY <1>1 DEF Concludes, RollsBack, Settles, Kept, GoesOn, Ends

LEMMA BeginTypes ==
    ASSUME Stores, NEW caller \in Runners \union {Approver}, NEW p \in Pipelines,
           p.phase \in Phases, NEW restore \in AutonomyLevels, Begin(caller, p, restore)
    PROVE  Stores' /\ mem' \in Pipelines /\ adv' \in Underway \union {NoAdvance}
<1>1. PICK call \in Advances :
         /\ call.pc = "acting"
         /\ \/ Kept(call, p, "none") /\ Ends(call, p, {"blocked"})
            \/ Concludes(call, p, "awaiting-approval")
            \/ adv' = call /\ mem' = p /\ Stores'
  BY BeginFacts
<1>2. CASE Kept(call, p, "none") /\ Ends(call, p, {"blocked"})
  BY <1>2 DEF Kept, Ends
<1>3. CASE Concludes(call, p, "awaiting-approval")
  BY <1>3, ConcludesTypes DEF Statuses
<1>4. CASE adv' = call /\ mem' = p /\ Stores'
  BY <1>1, <1>4 DEF Underway
<1> QED BY <1>1, <1>2, <1>3, <1>4

\* A step of the pipeline that exists.
PipelineStep ==
    \/ \E r \in Runners : RunnerGoesOn(r) \/ RunnerStops(r)
    \/ ActionTakesEffect \/ StrayEffect \/ ActionEnds \/ RollbackEnds \/ ApprovalAsked
    \/ Approve \/ ApproveWhileBusy \/ Cancel

LEMMA PipelineStepTypes ==
    ASSUME TInv, PipelineStep
    PROVE  Stores' /\ mem' \in Pipelines /\ adv' \in Underway \union {NoAdvance}
<1> USE TInvFacts
<1>0. adv \in Underway \union {NoAdvance}
  BY DEF TInv
<1>1. CASE \E r \in Runners : RunnerGoesOn(r)
  <2>1. PICK r \in Runners : RunnerGoesOn(r)
    BY <1>1
  <2>2. mem \in Pipelines /\ mem.phase \in Phases /\ Begin(r, mem, mem.autonomy)
    BY <2>1 DEF RunnerGoesOn
  <2> QED BY <2>2, BeginTypes, FieldFacts
<1>2. CASE \E r \in Runners : RunnerStops(r)
  <2>1. PICK r \in Runners : RunnerStops(r)
    BY <1>2
  <2>2. /\ mem \in Pipelines /\ UNCHANGED <<mem, adv, row, sent>>
        /\ runners' = [runners EXCEPT ![r] = "idle"]
    BY <2>1 DEF RunnerStops
  <2> QED BY <1>0, <2>2 DEF Stores
<1>3. CASE ActionTakesEffect
  <2>1. /\ adv \in Advances /\ mem \in Pipelines /\ adv' = [adv EXCEPT !.worked = TRUE]
        /\ UNCHANGED <<mem, runners, row, sent>>
    BY <1>3 DEF ActionTakesEffect
  <2>2. adv' \in Advances /\ adv'.pc = adv.pc /\ adv'.status = adv.status
    BY <2>1 DEF Advances
  <2>3. adv' \in Underway
    BY <1>0, <2>1, <2>2, NoAdvanceFacts DEF Underway
  <2> QED BY <2>1, <2>3 DEF Stores
<1>4. CASE StrayEffect
  BY <1>0, <1>4 DEF StrayEffect, process, Stores
<1>5. CASE ActionEnds
  <2>1. adv \in Advances /\ mem \in Pipelines
    BY <1>5 DEF ActionEnds
  <2>2. PICK status \in {"success", "failed", "awaiting-approval"}, code \in BOOLEAN,
             overreach \in BOOLEAN : Conclude(adv, WithChanges(mem, code, overreach), status)
    BY <1>5 DEF ActionEnds
  <2>3. WithChanges(mem, code, overreach) \in Pipelines /\ status \in Statuses
    BY <2>1, WithChangesFacts DEF Statuses
  <2>4. Concludes(adv, WithChanges(mem, code, overreach), status)
    BY <2>1, <2>2, <2>3, ConcludeFacts
  <2> QED BY <2>1, <2>3, <2>4, ConcludesTypes
<1>6. CASE RollbackEnds
  <2>1. /\ adv \in Advances /\ mem \in Pipelines
        /\ Record(adv, WithChanges(mem, FALSE, mem.overreach), adv.status)
    BY <1>6 DEF RollbackEnds
  <2>2. adv.status \in Statuses
    BY <1>0, <1>6, NoAdvanceFacts DEF RollbackEnds, Underway
  <2>3. WithChanges(mem, FALSE, mem.overreach) \in Pipelines
    BY <2>1, WithChangesFacts, FieldFacts
  <2>4. Concludes(adv, WithChanges(mem, FALSE, mem.overreach), adv.status)
    <3>1. ~WithChanges(mem, FALSE, mem.overreach).code
      BY <2>1, WithChangesFacts, FieldFacts
    <3> QED BY <2>1, <2>2, <2>3, <3>1, RecordFacts DEF Concludes
  <2> QED BY <2>1, <2>2, <2>3, <2>4, ConcludesTypes
<1>7. CASE ApprovalAsked
  <2>1. /\ adv \in Advances /\ mem \in Pipelines
        /\ Return(adv, mem, adv.by = Approver \/ adv.status # "awaiting-approval", TRUE)
    BY <1>7 DEF ApprovalAsked
  <2>2. (adv.by = Approver \/ adv.status # "awaiting-approval") \in BOOLEAN
    OBVIOUS
  <2> QED BY <2>1, <2>2, ReturnFacts DEF Ends
<1>8. CASE Approve
  <2> DEFINE p == WithLevel(Approved(mem), "full-auto")
  <2>1. mem \in Pipelines /\ mem.phase \in Phases /\ Begin(Approver, p, mem.autonomy)
    BY <1>8 DEF Approve, Awaits
  <2>2. p \in Pipelines /\ p.phase = mem.phase /\ mem.autonomy \in AutonomyLevels
    BY <2>1, ApprovedFacts, WithLevelFacts, FieldFacts DEF AutonomyLevels
  <2> HIDE DEF p
  <2> QED BY <2>1, <2>2, BeginTypes
<1>9. CASE ApproveWhileBusy
  <2>1. /\ adv \in Advances /\ mem \in Pipelines /\ mem.phase \in Phases
        /\ mem' = Approved(mem) /\ Save(mem') /\ UNCHANGED runners
        /\ adv' \in {adv, CallAt(adv, "asking", "approved")}
    BY <1>9 DEF ApproveWhileBusy, Awaits
  <2>2. CallAt(adv, "asking", "approved") \in Underway /\ Approved(mem) \in Pipelines
    BY <2>1, CallFacts, ApprovedFacts DEF Statuses, Underway
  <2> QED BY <1>0, <2>1, <2>2 DEF Save, Stores
<1>10. CASE Cancel
  <2>1. /\ mem \in Pipelines /\ mem' = InPhase(mem, "cancelled") /\ Save(mem')
        /\ UNCHANGED <<adv, runners>>
    BY <1>10 DEF Cancel
  <2>2. InPhase(mem, "cancelled") \in Pipelines
    BY <2>1, InPhaseFacts DEF Terminal
  <2> QED BY <1>0, <2>1, <2>2 DEF Save, Stores
<1> QED BY <1>1, <1>2, <1>3, <1>4, <1>5, <1>6, <1>7, <1>8, <1>9, <1>10 DEF PipelineStep

LEMMA InitTypes == Init => TInv
<1> SUFFICES ASSUME Init PROVE TInv
  OBVIOUS
<1>1. booted \in BOOLEAN
  BY Zenon DEF Init
<1>2. level = "none" /\ stray = "none" /\ cancels = 0 /\ crashes = 0 /\ checked = {}
  BY DEF Init
<1>3. mem = NoPipeline /\ adv = NoAdvance /\ row = NoPipeline /\ sent = NoPipeline
  BY DEF Init
<1>4. runners = [r \in Runners |-> "idle"]
  BY DEF Init
<1>5. \A r \in Runners : runners[r] = "idle"
  BY <1>4
<1>6. runners \in [Runners -> {"idle", "ready", "waiting"}]
  BY <1>4, Zenon
<1>7. TypeOK
  BY <1>1, <1>2, <1>3, <1>6 DEF TypeOK
<1> QED BY <1>2, <1>3, <1>5, <1>7 DEF TInv

LEMMA StepTypes == TInv /\ [Next]_vars => TInv'
<1> SUFFICES ASSUME TInv, [Next]_vars PROVE TInv'
  OBVIOUS
<1> USE TInvFacts
<1>1. /\ adv \in Underway \union {NoAdvance} /\ stray \in {"none", "pending", "written"}
      /\ booted \in BOOLEAN /\ checked \subseteq Phases /\ cancels \in Nat /\ crashes \in Nat
  BY DEF TInv, TypeOK
<1>2. ASSUME Stores', mem' \in Pipelines, adv' \in Underway \union {NoAdvance},
             level' \in Levels \union {"none"}, level' # "none", booted' \in BOOLEAN,
             stray' \in {"none", "pending", "written"}, checked' \subseteq Phases,
             cancels' \in Nat, crashes' \in Nat
      PROVE  TInv'
  BY <1>2, NoPipelineAssumption DEF TInv, TypeOK, Stores, Underway
<1>3. CASE PipelineStep
  <2>1. Stores' /\ mem' \in Pipelines /\ adv' \in Underway \union {NoAdvance}
    BY <1>3, PipelineStepTypes
  <2>2. booted' = booted /\ level' = level /\ crashes' = crashes
    BY <1>3 DEF PipelineStep, RunnerGoesOn, RunnerStops, ActionTakesEffect, StrayEffect,
       ActionEnds, RollbackEnds, ApprovalAsked, Approve, ApproveWhileBusy, Cancel, history
  <2>3. cancels' \in {cancels, cancels + 1} /\ stray' \in {stray, "pending", "written"}
    BY <1>3 DEF PipelineStep, RunnerGoesOn, RunnerStops, ActionTakesEffect, StrayEffect,
       ActionEnds, RollbackEnds, ApprovalAsked, Approve, ApproveWhileBusy, Cancel, history
  <2>4. checked' \subseteq Phases
    <3>1. adv # NoAdvance => adv.phase \in Phases
      BY AdvanceFields
    <3>2. \/ checked' \in {checked, {}}
          \/ adv # NoAdvance /\ checked' = checked \union {adv.phase}
      BY <1>3, Zenon DEF PipelineStep, RunnerGoesOn, RunnerStops, ActionTakesEffect, StrayEffect,
         ActionEnds, RollbackEnds, ApprovalAsked, Approve, ApproveWhileBusy, Cancel, history
    <3> QED BY <1>1, <3>1, <3>2
  <2>5. level # "none"
    <3>1. mem # NoPipeline
      BY <1>3 DEF TInv, PipelineStep, RunnerGoesOn, RunnerStops, ActionTakesEffect, StrayEffect,
         ActionEnds, RollbackEnds, ApprovalAsked, Approve, ApproveWhileBusy, Cancel
    <3> QED BY <3>1 DEF TInv
  <2>6. cancels' \in Nat
    BY <1>1, <2>3
  <2> QED BY <1>1, <1>2, <2>1, <2>2, <2>3, <2>4, <2>5, <2>6
<1>4. CASE \E l \in Levels : Create(l)
  <2>1. PICK l \in Levels : Create(l)
    BY <1>4
  <2>2. l \in AutonomyLevels /\ l # "none"
    BY ConstantsAssumption DEF AutonomyLevels
  <2>3. /\ mem' = NewPipeline(l) /\ level' = l /\ Save(NewPipeline(l))
        /\ runners' \in [Runners -> {"idle", "ready", "waiting"}]
        /\ UNCHANGED <<adv, booted, stray, checked, cancels, crashes>>
    BY <2>1 DEF Create, Stores
  <2>4. NewPipeline(l) \in Pipelines
    BY <2>2, NewPipelineFacts
  <2> QED BY <1>1, <1>2, <2>2, <2>3, <2>4 DEF Save, Stores
<1>5. CASE Crash
  <2>1. /\ crashes' = crashes + 1 /\ mem' = NoPipeline /\ adv' = NoAdvance
        /\ runners' = [r \in Runners |-> "idle"] /\ booted' = FALSE
        /\ sent' \in {row, sent} /\ row' = sent' /\ stray' \in {stray, "none"}
        /\ level' = level /\ checked' = checked /\ cancels' = cancels
    BY <1>5 DEF Crash
  <2>2. crashes' \in Nat
    BY <1>1, <2>1
  <2> QED BY <1>1, <2>1, <2>2 DEF TInv, TypeOK, Stores
<1>6. CASE Rehydrate
  <2>1. PICK read \in {row, sent} :
           IF Active(read)
           THEN /\ mem' = Rehydrated(read)
                /\ \/ UNCHANGED runners
                   \/ \E r \in Runners : runners' = [runners EXCEPT ![r] = "ready"]
           ELSE UNCHANGED <<mem, runners>>
    BY <1>6 DEF Rehydrate
  <2>2. UNCHANGED <<adv, row, sent, history>> /\ booted' = TRUE
    BY <1>6 DEF Rehydrate
  <2>3. CASE Active(read)
    <3>1. read \in Pipelines
      BY <2>3 DEF Active, Stores
    <3>2. Rehydrated(read) \in Pipelines
      BY <3>1, WithChangesFacts, FieldFacts DEF Rehydrated
    <3>3. runners' \in [Runners -> {"idle", "ready", "waiting"}] /\ mem' = Rehydrated(read)
      BY <2>1, <2>3 DEF Stores
    <3>4. level # "none"
      BY <2>3 DEF TInv, Active
    <3> QED BY <1>1, <1>2, <2>2, <3>2, <3>3, <3>4 DEF Stores, history
  <2>4. CASE ~Active(read)
    BY <2>1, <2>2, <2>4 DEF TInv, TypeOK, history
  <2> QED BY <2>3, <2>4
<1>7. CASE UNCHANGED vars
  BY <1>7 DEF TInv, TypeOK, vars, process, history
<1> QED BY <1>3, <1>4, <1>5, <1>6, <1>7 DEF Next, PipelineStep

\* The variables of SprintPipeline keep their types.
THEOREM TypeCorrect == Spec => []TypeOK
<1>1. TInv => TypeOK
  BY DEF TInv
<1> QED BY <1>1, InitTypes, StepTypes, PTL DEF Spec

-----------------------------------------------------------------------------
(* No gated phase without a human.                                         *)

\* While an approved phase runs the level is overridden, and its call holds the
\* level of the pipeline; at any other time the pipeline has it itself.
LevelKept ==
    /\ adv.by = Approver => adv.restore = level
    /\ adv.by # Approver => mem.autonomy = level
    /\ Acting /\ adv.by # Approver => ~RequiresApproval(adv.phase, level)

GatedInv ==
    crashes = 0 => IF mem = NoPipeline THEN row = NoPipeline /\ sent = NoPipeline ELSE LevelKept

LEMMA GatedInvGates == TInv /\ GatedInv => GatedUntilRestart
BY NoAdvanceFacts DEF TInv, GatedInv, LevelKept, GatedUntilRestart, GatedPhaseIsApproved, Acting

\* What the level is when a phase ends.
LEMMA ConcludesLevel ==
    ASSUME NEW call \in Advances, NEW p \in Pipelines, NEW status \in Statuses,
           Concludes(call, p, status), level' = level,
           IF call.by = Approver THEN call.restore = level ELSE p.autonomy = level
    PROVE  LevelKept'
<1>1. \A pc \in {"rolling-back", "asking"} :
         /\ CallAt(call, pc, status).by = call.by
         /\ CallAt(call, pc, status).restore = call.restore
         /\ CallAt(call, pc, status).pc = pc
  BY CallFacts
<1>2. CASE GoesOn(call, p, "rolling-back", status)
  BY <1>1, <1>2 DEF GoesOn, LevelKept, Acting
<1>3. CASE GoesOn(call, p, "asking", status)
  BY <1>1, <1>3 DEF GoesOn, LevelKept, Acting
<1>4. CASE Ends(call, p, After(call.phase, status))
  BY <1>4, NoAdvanceFacts DEF Ends, LevelKept, Acting
<1> QED BY <1>2, <1>3, <1>4 DEF Concludes, RollsBack, Settles

LEMMA BeginLevel ==
    ASSUME Stores, NEW caller \in Runners \union {Approver}, NEW p \in Pipelines,
           p.phase \in Phases, NEW restore \in AutonomyLevels, Begin(caller, p, restore),
           level' = level,
           IF caller = Approver THEN restore = level ELSE p.autonomy = level
    PROVE  LevelKept'
<1>1. PICK call \in Advances :
         /\ call.by = caller /\ call.phase = p.phase /\ call.restore = restore
         /\ \/ Ends(call, p, {"blocked"})
            \/ Concludes(call, p, "awaiting-approval")
            \/ ~RequiresApproval(p.phase, p.autonomy) /\ adv' = call /\ mem' = p
  BY BeginFacts
<1>2. CASE Ends(call, p, {"blocked"})
  BY <1>1, <1>2, NoAdvanceFacts DEF Ends, LevelKept, Acting
<1>3. CASE Concludes(call, p, "awaiting-approval")
  BY <1>1, <1>3, ConcludesLevel DEF Statuses
<1>4. CASE ~RequiresApproval(p.phase, p.autonomy) /\ adv' = call /\ mem' = p
  BY <1>1, <1>4 DEF LevelKept, Acting
<1> QED BY <1>1, <1>2, <1>3, <1>4

LEMMA PipelineStepLevel ==
    ASSUME TInv, mem \in Pipelines, LevelKept, PipelineStep
    PROVE  LevelKept'
<1> USE TInvFacts
<1>0. level' = level
  BY DEF PipelineStep, RunnerGoesOn, RunnerStops, ActionTakesEffect, StrayEffect, ActionEnds,
     RollbackEnds, ApprovalAsked, Approve, ApproveWhileBusy, Cancel, history
<1>1. CASE \E r \in Runners : RunnerGoesOn(r)
  <2>1. PICK r \in Runners : RunnerGoesOn(r)
    BY <1>1
  <2>2. adv = NoAdvance /\ mem.phase \in Phases /\ Begin(r, mem, mem.autonomy)
    BY <2>1 DEF RunnerGoesOn
  <2>3. mem.autonomy = level /\ r # Approver
    BY <2>2, NoAdvanceFacts DEF LevelKept
  <2> QED BY <1>0, <2>2, <2>3, BeginLevel, FieldFacts
<1>2. CASE \E r \in Runners : RunnerStops(r)
  BY <1>0, <1>2 DEF RunnerStops, LevelKept, Acting
<1>3. CASE ActionTakesEffect
  <2>1. adv \in Advances /\ mem' = mem /\ adv' = [adv EXCEPT !.worked = TRUE]
    BY <1>3 DEF ActionTakesEffect
  <2>2. /\ adv'.by = adv.by /\ adv'.restore = adv.restore /\ adv'.pc = adv.pc
        /\ adv'.phase = adv.phase
    BY <2>1 DEF Advances
  <2>3. Acting
    BY <1>3 DEF ActionTakesEffect, Acting
  <2> QED BY <1>0, <2>1, <2>2, <2>3 DEF LevelKept
<1>4. CASE StrayEffect
  BY <1>0, <1>4 DEF StrayEffect, process, LevelKept, Acting
<1>5. CASE ActionEnds
  <2>1. adv \in Advances
    BY <1>5 DEF ActionEnds
  <2>2. PICK status \in {"success", "failed", "awaiting-approval"}, code \in BOOLEAN,
             overreach \in BOOLEAN : Conclude(adv, WithChanges(mem, code, overreach), status)
    BY <1>5 DEF ActionEnds
  <2> DEFINE p == WithChanges(mem, code, overreach)
  <2>3. p \in Pipelines /\ p.autonomy = mem.autonomy /\ status \in Statuses
    BY WithChangesFacts DEF Statuses
  <2> HIDE DEF p
  <2>4. Concludes(adv, p, status)
    BY <2>1, <2>2, <2>3, ConcludeFacts DEF p
  <2> QED BY <1>0, <2>1, <2>3, <2>4, ConcludesLevel DEF LevelKept
<1>6. CASE RollbackEnds
  <2> DEFINE p == WithChanges(mem, FALSE, mem.overreach)
  <2>1. adv \in Advances /\ Record(adv, p, adv.status)
    BY <1>6 DEF RollbackEnds
  <2>2. adv.status \in Statuses
    BY <1>6, <2>1, NoAdvanceFacts DEF RollbackEnds, TInv, Underway
  <2>3. p \in Pipelines /\ p.autonomy = mem.autonomy /\ ~p.code
    BY WithChangesFacts, FieldFacts
  <2> HIDE DEF p
  <2>4. Concludes(adv, p, adv.status)
    BY <2>1, <2>2, <2>3, RecordFacts DEF Concludes
  <2> QED BY <1>0, <2>1, <2>2, <2>3, <2>4, ConcludesLevel DEF LevelKept
<1>7. CASE ApprovalAsked
  <2>1. /\ adv \in Advances
        /\ Return(adv, mem, adv.by = Approver \/ adv.status # "awaiting-approval", TRUE)
    BY <1>7 DEF ApprovalAsked
  <2>2. (adv.by = Approver \/ adv.status # "awaiting-approval") \in BOOLEAN
    OBVIOUS
  <2>3. Ends(adv, mem, {mem.phase})
    BY <2>1, <2>2, ReturnFacts
  <2> QED BY <1>0, <2>3, NoAdvanceFacts DEF Ends, LevelKept, Acting
<1>8. CASE Approve
  <2> DEFINE p == WithLevel(Approved(mem), "full-auto")
  <2>1. mem.phase \in Phases /\ adv = NoAdvance /\ Begin(Approver, p, mem.autonomy)
    BY <1>8 DEF Approve, Awaits
  <2>2. p \in Pipelines /\ p.phase = mem.phase /\ mem.autonomy \in AutonomyLevels
    BY <2>1, ApprovedFacts, WithLevelFacts, FieldFacts DEF AutonomyLevels
  <2>3. mem.autonomy = level
    BY <2>1, NoAdvanceFacts DEF LevelKept
  <2> HIDE DEF p
  <2> QED BY <1>0, <2>1, <2>2, <2>3, BeginLevel
<1>9. CASE ApproveWhileBusy
  <2>1. /\ adv \in Advances /\ mem.phase \in Phases /\ mem' = Approved(mem)
        /\ \/ adv' = adv
           \/ adv' = CallAt(adv, "asking", "approved")
    BY <1>9 DEF ApproveWhileBusy, Awaits
  <2>2. /\ CallAt(adv, "asking", "approved").by = adv.by
        /\ CallAt(adv, "asking", "approved").restore = adv.restore
        /\ CallAt(adv, "asking", "approved").pc = "asking"
    BY <2>1, CallFacts DEF Statuses
  <2>3. mem'.autonomy = mem.autonomy
    BY <2>1, ApprovedFacts
  <2>4. CASE adv' = adv
    BY <1>0, <2>3, <2>4 DEF LevelKept, Acting
  <2>5. CASE adv' = CallAt(adv, "asking", "approved")
    BY <1>0, <2>2, <2>3, <2>5 DEF LevelKept, Acting
  <2> QED BY <2>1, <2>4, <2>5
<1>10. CASE Cancel
  <2>1. mem' = InPhase(mem, "cancelled") /\ adv' = adv
    BY <1>10 DEF Cancel
  <2>2. mem'.autonomy = mem.autonomy
    BY <2>1, InPhaseFacts DEF Terminal
  <2> QED BY <1>0, <2>1, <2>2 DEF LevelKept, Acting
<1> QED BY <1>1, <1>2, <1>3, <1>4, <1>5, <1>6, <1>7, <1>8, <1>9, <1>10 DEF PipelineStep

LEMMA GatedStep == TInv /\ GatedInv /\ [Next]_vars => GatedInv'
<1> SUFFICES ASSUME TInv, GatedInv, [Next]_vars, crashes' = 0
             PROVE  IF mem' = NoPipeline THEN row' = NoPipeline /\ sent' = NoPipeline
                    ELSE LevelKept'
  BY DEF GatedInv
<1> USE TInvFacts
<1>1. CASE PipelineStep
  <2>1. mem \in Pipelines
    BY <1>1 DEF PipelineStep, RunnerGoesOn, RunnerStops, ActionTakesEffect, StrayEffect,
       ActionEnds, RollbackEnds, ApprovalAsked, Approve, ApproveWhileBusy, Cancel
  <2>2. crashes = 0
    BY <1>1 DEF PipelineStep, RunnerGoesOn, RunnerStops, ActionTakesEffect, StrayEffect,
       ActionEnds, RollbackEnds, ApprovalAsked, Approve, ApproveWhileBusy, Cancel, history
  <2>3. LevelKept'
    BY <1>1, <2>1, <2>2, NoPipelineAssumption, PipelineStepLevel DEF GatedInv
  <2>4. mem' \in Pipelines
    BY <1>1, PipelineStepTypes
  <2> QED BY <2>3, <2>4, NoPipelineAssumption
<1>2. CASE \E l \in Levels : Create(l)
  <2>1. PICK l \in Levels : Create(l)
    BY <1>2
  <2>2. l \in AutonomyLevels /\ mem' = NewPipeline(l) /\ level' = l /\ adv' = adv
    BY <2>1, ConstantsAssumption DEF Create
  <2>3. adv = NoAdvance
    BY <2>1 DEF Create, TInv
  <2>4. mem' # NoPipeline /\ mem'.autonomy = level'
    BY <2>2, NewPipelineFacts, NoPipelineAssumption
  <2> QED BY <2>2, <2>3, <2>4, NoAdvanceFacts DEF LevelKept, Acting
<1>3. CASE Crash
  BY <1>3 DEF Crash, TInv, TypeOK
<1>4. CASE Rehydrate
  <2>1. /\ mem # NoPipeline => mem' = mem
        /\ row = NoPipeline /\ sent = NoPipeline => mem' = mem
        /\ UNCHANGED <<adv, row, sent, level, crashes>>
    BY <1>4 DEF Rehydrate, Rehydrated, Active, history
  <2> QED BY <2>1 DEF GatedInv, LevelKept, Acting
<1>5. CASE UNCHANGED vars
  BY <1>5 DEF GatedInv, LevelKept, Acting, vars, process, history
<1> QED BY <1>1, <1>2, <1>3, <1>4, <1>5 DEF Next, PipelineStep

\* Until the process restarts, the action of a phase that the level of the
\* pipeline reserves to a human runs only in a call of approveSprintPhase, for
\* every number of runs, approvals and cancellations.
THEOREM GatedPhasesWait == Spec => []GatedUntilRestart
<1>1. Init => TInv /\ GatedInv
  BY InitTypes DEF Init, GatedInv
<1>2. TInv /\ GatedInv /\ [Next]_vars => (TInv /\ GatedInv)'
  BY StepTypes, GatedStep
<1> QED BY <1>1, <1>2, GatedInvGates, PTL DEF Spec

-----------------------------------------------------------------------------
(* Ship follows the checks.                                                *)

\* The checks that have succeeded when a phase is reached.
Needs(phase) ==
    {check \in {"review", "qa", "ops-validate"} :
        \/ check = "review" /\ phase \in {"security-audit", "qa", "ops-validate", "ship"}
        \/ check = "qa" /\ phase \in {"ops-validate", "ship"}
        \/ check = "ops-validate" /\ phase = "ship"}

\* They have, for the phase of the pipeline or of the call in progress.  A
\* rollback is for a failure, which leads back to implement, or for a review that
\* awaits approval, which needs none of them.
ChecksKept ==
    /\ adv = NoAdvance => Needs(mem.phase) \subseteq checked
    /\ adv # NoAdvance => mem.phase \in {adv.phase, "cancelled"}
    /\ adv # NoAdvance /\ adv.pc # "rolling-back" => Needs(adv.phase) \subseteq checked
    /\ adv # NoAdvance /\ adv.pc = "rolling-back" =>
          /\ mem.code /\ adv.phase \in LoopsBack
          /\ adv.status = "failed" \/ (adv.status = "awaiting-approval" /\ adv.phase = "review")

\* With the level "manual" every phase waits, and one that loops back rolls the
\* files back before it asks: then nothing is left to roll back after review.
ReviewKept ==
    level = "manual" =>
        /\ mem.code => IF adv = NoAdvance THEN mem.phase \in {"review"} \union Terminal
                       ELSE adv.pc = "rolling-back"
        /\ mem.results["review"].status = "awaiting-approval" =>
              /\ ~mem.code /\ mem.phase \in {"review"} \union Terminal
              /\ adv = NoAdvance \/ (adv.phase = "review" /\ adv.pc = "asking")

ShipInv ==
    crashes = 0 /\ stray # "written" /\ mem # NoPipeline => ChecksKept /\ ReviewKept

LEMMA ShipInvShips == TInv /\ ShipInv => ShipFollowsChecks
BY DEF TInv, ShipInv, ChecksKept, ShipFollowsChecks, Acting, Needs

\* Where the transitions lead.
LEMMA AfterFacts ==
    ASSUME NEW phase \in Phases
    PROVE  /\ \A status \in {"failed", "awaiting-approval"} :
                 After(phase, status) \subseteq {"implement"} \union Terminal
           /\ \A next \in After(phase, "success") : Needs(next) \subseteq Needs(phase) \union {phase}
           /\ \A next \in After("implement", "success") : next = "review"
           /\ \A next \in {"plan", "implement", "review"} \union Terminal : Needs(next) = {}
<1>1. \A status \in {"failed", "awaiting-approval"} :
         After(phase, status) \subseteq {"implement"} \union Terminal
  BY DEF After, NextPhases, OnSuccess, Phases, Terminal, LoopsBack
<1>2. \A next \in After(phase, "success") : <<phase, next>> \in OnSuccess
  BY DEF After, NextPhases
<1>3. \A next \in After(phase, "success") : Needs(next) \subseteq Needs(phase) \union {phase}
  <2> SUFFICES ASSUME NEW next, <<phase, next>> \in OnSuccess
               PROVE  Needs(next) \subseteq Needs(phase) \union {phase}
    BY <1>2
  <2> QED BY DEF OnSuccess, Needs
<1>4. \A next \in After("implement", "success") : next = "review"
  BY DEF After, NextPhases, OnSuccess
<1>5. \A next \in {"plan", "implement", "review"} \union Terminal : Needs(next) = {}
  BY DEF Needs, Terminal
<1> QED BY <1>1, <1>3, <1>4, <1>5

\* What the outcome of a phase with the status does to the checks.
LEMMA ConcludesShip ==
    ASSUME NEW call \in Advances, NEW p \in Pipelines,
           NEW status \in {"success", "failed", "awaiting-approval"},
           Concludes(call, p, status), p.phase \in {call.phase, "cancelled"}, level' = level,
           status = "awaiting-approval" /\ call.phase \in LoopsBack /\ p.code =>
               call.phase = "review",
           status # "failed" => Needs(call.phase) \subseteq checked',
           status = "success" => call.phase = "implement" \/ call.phase \in checked',
           level = "manual" =>
               /\ p.code => \/ status = "success" /\ call.phase = "implement"
                            \/ status # "success" /\ call.phase \in LoopsBack
               /\ p.results["review"].status = "awaiting-approval" =>
                     ~p.code /\ call.phase = "review" /\ status = "awaiting-approval"
    PROVE  ChecksKept' /\ ReviewKept'
<1>0. /\ call.phase \in Phases /\ status \in Statuses /\ "review" \in Phases
      /\ p.code \in BOOLEAN
  BY AdvanceFields, FieldFacts DEF Statuses, Phases
<1>1. \A pc \in {"rolling-back", "asking"} :
         /\ CallAt(call, pc, status) # NoAdvance
         /\ CallAt(call, pc, status).phase = call.phase
         /\ CallAt(call, pc, status).pc = pc
         /\ CallAt(call, pc, status).status = status
  BY <1>0, CallFacts, NoAdvanceFacts
<1>2. CASE RollsBack(call, p, status)
  <2>1. /\ adv' # NoAdvance /\ adv'.phase = call.phase /\ adv'.pc = "rolling-back"
        /\ adv'.status = status /\ mem'.phase = p.phase /\ mem'.code = p.code
        /\ mem'.results = p.results /\ p.code /\ call.phase \in LoopsBack /\ status # "success"
    BY <1>1, <1>2 DEF RollsBack, GoesOn, Kept
  <2>2. status = "failed" \/ (status = "awaiting-approval" /\ call.phase = "review")
    BY <2>1
  <2>3. mem'.code /\ mem'.phase \in {adv'.phase, "cancelled"}
    BY <2>1
  <2>4. ChecksKept'
    BY <2>1, <2>2, <2>3 DEF ChecksKept
  <2>5. ReviewKept'
    BY <2>1 DEF ReviewKept
  <2> QED BY <2>4, <2>5
<1>3. CASE Settles(call, p, status) /\ status = "awaiting-approval"
  <2>1. /\ adv' # NoAdvance /\ adv'.phase = call.phase /\ adv'.pc = "asking"
        /\ mem'.phase = p.phase /\ mem'.code = p.code
    BY <1>1, <1>3 DEF Settles, GoesOn, Kept
  <2>2. call.phase # "review" => mem'.results["review"] = p.results["review"]
    BY <1>0, <1>3 DEF Settles, Kept
  <2>3. call.phase \in LoopsBack => ~p.code
    BY <1>1, <1>3, <2>1 DEF Concludes, RollsBack, GoesOn
  <2>4. ChecksKept'
    BY <1>3, <2>1 DEF ChecksKept
  <2>5. ReviewKept'
    BY <1>3, <2>1, <2>2, <2>3 DEF ReviewKept, Terminal
  <2> QED BY <2>4, <2>5
<1>4. CASE Settles(call, p, status) /\ status # "awaiting-approval"
  <2>1. /\ adv' = NoAdvance /\ mem'.phase \in After(call.phase, status)
        /\ mem'.code = p.code
    BY <1>4 DEF Settles, Ends, Kept
  <2>2. /\ call.phase # "review" => mem'.results["review"] = p.results["review"]
        /\ call.phase = "review" =>
              mem'.results["review"].status \in {status, p.results["review"].status}
    BY <1>0, <1>4 DEF Settles, Kept
  <2>3. status = "failed" => mem'.phase \in {"implement"} \union Terminal
    BY <1>0, <2>1, AfterFacts
  <2>4. status = "success" => Needs(mem'.phase) \subseteq Needs(call.phase) \union {call.phase}
    BY <1>0, <2>1, AfterFacts
  <2>5. status = "success" /\ call.phase = "implement" =>
           mem'.phase = "review" /\ Needs(mem'.phase) = {}
    BY <1>0, <2>1, AfterFacts
  <2>6. Needs(mem'.phase) \subseteq checked'
    <3>1. CASE status = "failed"
      BY <1>0, <2>3, <3>1, AfterFacts
    <3>2. CASE status = "success"
      BY <2>4, <2>5, <3>2
    <3> QED BY <1>4, <3>1, <3>2
  <2>7. ChecksKept'
    BY <2>1, <2>6 DEF ChecksKept
  <2>8. call.phase \in LoopsBack /\ status # "success" => ~p.code
    BY <1>1, <1>4, <2>1 DEF Concludes, RollsBack, GoesOn
  <2>9. ReviewKept'
    BY <1>4, <2>1, <2>2, <2>5, <2>8 DEF ReviewKept
  <2> QED BY <2>7, <2>9
<1> QED BY <1>2, <1>3, <1>4 DEF Concludes

\* A call that begins at a phase whose checks have succeeded.
LEMMA BeginShip ==
    ASSUME Stores, NEW caller \in Runners \union {Approver}, NEW p \in Pipelines,
           p.phase \in Phases, NEW restore \in AutonomyLevels, Begin(caller, p, restore),
           level' = level, checked' = checked, Needs(p.phase) \subseteq checked,
           caller = Approver => p.autonomy = "full-auto",
           caller # Approver => p.autonomy = level,
           level = "manual" =>
               /\ p.code => caller # Approver /\ p.phase = "review"
               /\ p.results["review"].status = "awaiting-approval" =>
                     caller # Approver /\ ~p.code /\ p.phase = "review"
    PROVE  ChecksKept' /\ ReviewKept'
<1>1. PICK call \in Advances :
         /\ call.by = caller /\ call.phase = p.phase /\ call.pc = "acting"
         /\ \/ /\ Kept(call, p, "none") /\ mem'.results = p.results
               /\ Ends(call, p, {"blocked"})
            \/ /\ RequiresApproval(p.phase, p.autonomy)
               /\ Concludes(call, p, "awaiting-approval")
            \/ ~RequiresApproval(p.phase, p.autonomy) /\ adv' = call /\ mem' = p
  BY BeginFacts
<1>2. CASE Kept(call, p, "none") /\ mem'.results = p.results /\ Ends(call, p, {"blocked"})
  <2>1. /\ adv' = NoAdvance /\ mem'.phase = "blocked" /\ mem'.code = p.code
        /\ mem'.results = p.results
    BY <1>2 DEF Kept, Ends
  <2>2. Needs(mem'.phase) = {} /\ mem'.phase \in Terminal
    BY <2>1, AfterFacts DEF Terminal
  <2>3. ChecksKept'
    BY <2>1, <2>2 DEF ChecksKept
  <2>4. ReviewKept'
    BY <2>1, <2>2 DEF ReviewKept
  <2> QED BY <2>3, <2>4
<1>3. CASE RequiresApproval(p.phase, p.autonomy) /\ Concludes(call, p, "awaiting-approval")
  <2>1. caller # Approver
    BY <1>3 DEF RequiresApproval
  <2>2. p.phase \in LoopsBack => level = "manual"
    BY <1>3, <2>1 DEF RequiresApproval, LoopsBack
  <2>3. "review" \in LoopsBack
    BY DEF LoopsBack
  <2> QED BY <1>1, <1>3, <2>2, <2>3, ConcludesShip
<1>4. CASE ~RequiresApproval(p.phase, p.autonomy) /\ adv' = call /\ mem' = p
  <2>1. adv' # NoAdvance /\ adv'.phase = p.phase /\ adv'.pc = "acting"
    BY <1>1, <1>4, NoAdvanceFacts
  <2>2. level = "manual" => caller = Approver
    BY <1>4 DEF RequiresApproval
  <2>3. ChecksKept'
    BY <1>4, <2>1 DEF ChecksKept
  <2>4. ReviewKept'
    BY <1>4, <2>2 DEF ReviewKept
  <2> QED BY <2>3, <2>4
<1> QED BY <1>1, <1>2, <1>3, <1>4

LEMMA PipelineStepShip ==
    ASSUME TInv, mem \in Pipelines, LevelKept, ChecksKept, ReviewKept, PipelineStep,
           stray' # "written"
    PROVE  ChecksKept' /\ ReviewKept'
<1> USE TInvFacts
<1>0. level' = level /\ mem.code \in BOOLEAN /\ mem.results \in [Phases -> Results]
  BY FieldFacts
     DEF PipelineStep, RunnerGoesOn, RunnerStops, ActionTakesEffect, StrayEffect, ActionEnds,
     RollbackEnds, ApprovalAsked, Approve, ApproveWhileBusy, Cancel, history
<1>1. CASE \E r \in Runners : RunnerGoesOn(r)
  <2>1. PICK r \in Runners : RunnerGoesOn(r)
    BY <1>1
  <2>2. /\ adv = NoAdvance /\ mem.phase \in Phases /\ Begin(r, mem, mem.autonomy)
        /\ checked' = checked
    BY <2>1 DEF RunnerGoesOn, history
  <2>3. mem.autonomy = level /\ r # Approver /\ mem.autonomy \in AutonomyLevels
    BY <2>2, NoAdvanceFacts, FieldFacts DEF LevelKept
  <2>4. Needs(mem.phase) \subseteq checked
    BY <2>2 DEF ChecksKept
  <2>5. mem.phase \notin Terminal
    BY <2>2 DEF Phases, Terminal
  <2>6. level = "manual" =>
           /\ mem.code => mem.phase = "review"
           /\ mem.results["review"].status = "awaiting-approval" => ~mem.code /\ mem.phase = "review"
    BY <2>2, <2>5 DEF ReviewKept
  <2> QED BY <1>0, <2>2, <2>3, <2>4, <2>6, BeginShip
<1>2. CASE \E r \in Runners : RunnerStops(r)
  <2>1. UNCHANGED <<mem, adv, checked, level>>
    BY <1>2 DEF RunnerStops, history
  <2> QED BY <2>1 DEF ChecksKept, ReviewKept
<1>3. CASE ActionTakesEffect
  <2>1. /\ adv \in Advances /\ mem' = mem /\ adv' = [adv EXCEPT !.worked = TRUE]
        /\ adv.phase = "implement" /\ adv.pc = "acting"
    BY <1>3 DEF ActionTakesEffect
  <2>2. /\ adv' \in Advances /\ adv'.pc = adv.pc /\ adv'.phase = adv.phase
    BY <2>1 DEF Advances
  <2>3. adv # NoAdvance /\ adv' # NoAdvance /\ Needs(adv'.phase) = {}
    BY <2>1, <2>2, NoAdvanceFacts, AfterFacts DEF Phases
  <2>4. ChecksKept'
    BY <2>1, <2>2, <2>3 DEF ChecksKept
  <2>5. ReviewKept'
    BY <1>0, <2>1, <2>2, <2>3 DEF ReviewKept
  <2> QED BY <2>4, <2>5
<1>4. CASE StrayEffect
  BY <1>4 DEF StrayEffect
<1>5. CASE ActionEnds
  <2>1. adv \in Advances /\ adv # NoAdvance /\ adv.pc = "acting"
    BY <1>5 DEF ActionEnds
  <2>2. PICK status \in {"success", "failed", "awaiting-approval"}, code \in BOOLEAN,
             overreach \in BOOLEAN :
           /\ status = "awaiting-approval" => adv.phase = "plan"
           /\ code # mem.code => code /\ adv.phase = "implement" /\ status = "success"
           /\ Conclude(adv, WithChanges(mem, code, overreach), status)
           /\ checked' = IF status # "success" THEN checked
                         ELSE IF adv.phase = "implement" THEN {}
                         ELSE checked \union {adv.phase}
    BY <1>5 DEF ActionEnds
  <2> DEFINE p == WithChanges(mem, code, overreach)
  <2>3. /\ p \in Pipelines /\ p.phase = mem.phase /\ p.code = code /\ p.results = mem.results
        /\ status \in Statuses
    BY WithChangesFacts DEF Statuses
  <2> HIDE DEF p
  <2>4. Concludes(adv, p, status)
    BY <2>1, <2>2, <2>3, ConcludeFacts DEF p
  <2>5. Needs(adv.phase) \subseteq checked /\ mem.phase \in {adv.phase, "cancelled"}
    BY <2>1 DEF ChecksKept
  <2>6. Needs("implement") = {}
    BY AfterFacts DEF Phases
  <2>7. Needs(adv.phase) \subseteq checked'
    BY <2>2, <2>5, <2>6
  <2>8. status = "success" => adv.phase = "implement" \/ adv.phase \in checked'
    BY <2>2
  <2>9. level = "manual" => ~mem.code /\ mem.results["review"].status # "awaiting-approval"
    BY <2>1 DEF ReviewKept
  <2>10. level = "manual" =>
            /\ p.code => status = "success" /\ adv.phase = "implement"
            /\ p.results["review"].status # "awaiting-approval"
    BY <1>0, <2>2, <2>3, <2>9
  <2>11. "plan" \notin LoopsBack
    BY DEF LoopsBack
  <2> QED BY <1>0, <2>1, <2>2, <2>3, <2>4, <2>5, <2>7, <2>8, <2>10, <2>11, ConcludesShip
<1>6. CASE RollbackEnds
  <2> DEFINE p == WithChanges(mem, FALSE, mem.overreach)
  <2>1. /\ adv \in Advances /\ adv # NoAdvance /\ adv.pc = "rolling-back"
        /\ Record(adv, p, adv.status) /\ checked' = {}
    BY <1>6 DEF RollbackEnds
  <2>2. adv.status \in Statuses
    BY <2>1, NoAdvanceFacts DEF TInv, Underway
  <2> FALSE \in BOOLEAN /\ mem.overreach \in BOOLEAN
    BY FieldFacts
  <2>3. /\ p \in Pipelines /\ p.phase = mem.phase /\ p.code = FALSE /\ p.results = mem.results
    BY WithChangesFacts, Zenon
  <2> HIDE DEF p
  <2>4. Concludes(adv, p, adv.status)
    BY <2>1, <2>2, <2>3, RecordFacts DEF Concludes
  <2>5. /\ mem.code /\ adv.phase \in LoopsBack /\ mem.phase \in {adv.phase, "cancelled"}
        /\ adv.status = "failed" \/ (adv.status = "awaiting-approval" /\ adv.phase = "review")
    BY <2>1 DEF ChecksKept
  <2>6. level = "manual" => p.results["review"].status # "awaiting-approval"
    BY <2>3, <2>5 DEF ReviewKept
  <2>7. Needs("review") = {}
    BY AfterFacts DEF Phases
  <2>8. adv.status # "failed" => Needs(adv.phase) \subseteq checked'
    BY <2>5, <2>7
  <2> QED BY <1>0, <2>1, <2>3, <2>4, <2>5, <2>6, <2>8, ConcludesShip
<1>7. CASE ApprovalAsked
  <2>1. /\ adv \in Advances /\ adv # NoAdvance /\ adv.pc = "asking" /\ checked' = checked
        /\ Return(adv, mem, adv.by = Approver \/ adv.status # "awaiting-approval", TRUE)
    BY <1>7 DEF ApprovalAsked, history
  <2>2. (adv.by = Approver \/ adv.status # "awaiting-approval") \in BOOLEAN
    OBVIOUS
  <2>3. /\ adv' = NoAdvance /\ mem'.phase = mem.phase /\ mem'.code = mem.code
        /\ mem'.results = mem.results
    BY <2>1, <2>2, ReturnFacts DEF Ends
  <2>4. Needs("cancelled") = {}
    BY AfterFacts DEF Phases, Terminal
  <2>5. ChecksKept'
    BY <2>1, <2>3, <2>4 DEF ChecksKept
  <2>6. ReviewKept'
    BY <1>0, <2>1, <2>3 DEF ReviewKept
  <2> QED BY <2>5, <2>6
<1>8. CASE Approve
  <2> DEFINE p == WithLevel(Approved(mem), "full-auto")
  <2>1. /\ mem.phase \in Phases /\ adv = NoAdvance /\ Begin(Approver, p, mem.autonomy)
        /\ mem.results[mem.phase].status = "awaiting-approval" /\ checked' = checked
    BY <1>8 DEF Approve, Awaits, history
  <2>2. /\ p \in Pipelines /\ p.phase = mem.phase /\ mem.autonomy \in AutonomyLevels
        /\ p.autonomy = "full-auto" /\ p.code = mem.code
        /\ mem.phase # "review" => p.results["review"] = mem.results["review"]
        /\ mem.phase = "review" => p.results["review"].status = "approved"
    BY <2>1, ApprovedFacts, WithLevelFacts, FieldFacts DEF AutonomyLevels, Phases
  <2>3. Needs(p.phase) \subseteq checked
    BY <2>1, <2>2 DEF ChecksKept
  <2>4. mem.phase \notin Terminal
    BY <2>1 DEF Phases, Terminal
  <2>5. level = "manual" => ~mem.code
    BY <2>1, <2>4 DEF ReviewKept
  <2>6. level = "manual" => p.results["review"].status # "awaiting-approval"
    BY <2>1, <2>2, <2>4 DEF ReviewKept
  <2> HIDE DEF p
  <2> QED BY <1>0, <2>1, <2>2, <2>3, <2>5, <2>6, BeginShip
<1>9. CASE ApproveWhileBusy
  <2>1. /\ adv \in Advances /\ adv # NoAdvance /\ mem.phase \in Phases /\ mem' = Approved(mem)
        /\ \/ adv' = adv
           \/ adv.pc = "asking" /\ adv' = CallAt(adv, "asking", "approved")
        /\ checked' = checked
    BY <1>9 DEF ApproveWhileBusy, Awaits, history
  <2>2. /\ CallAt(adv, "asking", "approved") # NoAdvance
        /\ CallAt(adv, "asking", "approved").phase = adv.phase
        /\ CallAt(adv, "asking", "approved").pc = "asking"
    BY <2>1, CallFacts, NoAdvanceFacts DEF Statuses
  <2>3. /\ mem'.phase = mem.phase /\ mem'.code = mem.code
        /\ mem.phase # "review" => mem'.results["review"] = mem.results["review"]
        /\ mem.phase = "review" => mem'.results["review"].status = "approved"
    BY <2>1, ApprovedFacts DEF Phases
  <2>4. /\ adv' # NoAdvance /\ adv'.phase = adv.phase /\ adv'.pc = adv.pc
        /\ adv.pc = "rolling-back" => adv' = adv
    BY <2>1, <2>2
  <2>5. ChecksKept'
    BY <2>1, <2>3, <2>4 DEF ChecksKept
  <2>6. ReviewKept'
    BY <1>0, <2>1, <2>3, <2>4 DEF ReviewKept
  <2> QED BY <2>5, <2>6
<1>10. CASE Cancel
  <2>1. mem' = InPhase(mem, "cancelled") /\ adv' = adv /\ checked' = checked
    BY <1>10 DEF Cancel
  <2>2. mem'.phase = "cancelled" /\ mem'.code = mem.code /\ mem'.results = mem.results
    BY <2>1, InPhaseFacts DEF Terminal
  <2>3. Needs("cancelled") = {} /\ "cancelled" \in Terminal
    BY AfterFacts DEF Phases, Terminal
  <2>4. ChecksKept'
    BY <2>1, <2>2, <2>3 DEF ChecksKept
  <2>5. ReviewKept'
    BY <1>0, <2>1, <2>2, <2>3 DEF ReviewKept
  <2> QED BY <2>4, <2>5
<1> QED BY <1>1, <1>2, <1>3, <1>4, <1>5, <1>6, <1>7, <1>8, <1>9, <1>10 DEF PipelineStep

LEMMA ShipStep == TInv /\ GatedInv /\ ShipInv /\ [Next]_vars => ShipInv'
<1> SUFFICES ASSUME TInv, GatedInv, ShipInv, [Next]_vars, crashes' = 0, stray' # "written",
                    mem' # NoPipeline
             PROVE  ChecksKept' /\ ReviewKept'
  BY DEF ShipInv
<1> USE TInvFacts
<1>1. CASE PipelineStep
  <2>1. mem \in Pipelines
    BY <1>1 DEF PipelineStep, RunnerGoesOn, RunnerStops, ActionTakesEffect, StrayEffect,
       ActionEnds, RollbackEnds, ApprovalAsked, Approve, ApproveWhileBusy, Cancel
  <2>2. crashes = 0 /\ stray # "written"
    BY <1>1 DEF PipelineStep, RunnerGoesOn, RunnerStops, ActionTakesEffect, StrayEffect,
       ActionEnds, RollbackEnds, ApprovalAsked, Approve, ApproveWhileBusy, Cancel, history
  <2>3. LevelKept /\ ChecksKept /\ ReviewKept
    BY <2>1, <2>2, NoPipelineAssumption DEF GatedInv, ShipInv
  <2> QED BY <1>1, <2>1, <2>3, PipelineStepShip
<1>2. CASE \E l \in Levels : Create(l)
  <2>1. PICK l \in Levels : Create(l)
    BY <1>2
  <2>2. l \in AutonomyLevels /\ mem' = NewPipeline(l) /\ adv' = adv /\ checked' = checked
    BY <2>1, ConstantsAssumption DEF Create
  <2>3. adv = NoAdvance
    BY <2>1 DEF Create, TInv
  <2>4. /\ mem'.phase = "plan" /\ ~mem'.code
        /\ mem'.results["review"].status = "none"
    BY <2>2, NewPipelineFacts DEF Phases
  <2>5. Needs("plan") = {}
    BY AfterFacts DEF Phases
  <2>6. ChecksKept'
    BY <2>2, <2>3, <2>4, <2>5 DEF ChecksKept
  <2>7. ReviewKept'
    BY <2>4 DEF ReviewKept
  <2> QED BY <2>6, <2>7
<1>3. CASE Crash
  BY <1>3 DEF Crash
<1>4. CASE Rehydrate
  <2>1. /\ mem # NoPipeline => mem' = mem
        /\ row = NoPipeline /\ sent = NoPipeline => mem' = mem
        /\ UNCHANGED <<adv, level, stray, checked, crashes>>
    BY <1>4 DEF Rehydrate, Rehydrated, Active, history
  <2>2. mem # NoPipeline /\ mem' = mem
    BY <2>1 DEF GatedInv
  <2> QED BY <2>1, <2>2 DEF ShipInv, ChecksKept, ReviewKept
<1>5. CASE UNCHANGED vars
  BY <1>5 DEF ShipInv, ChecksKept, ReviewKept, vars, process, history
<1> QED BY <1>1, <1>2, <1>3, <1>4, <1>5 DEF Next, PipelineStep

\* The action of ship runs only after review, qa and ops-validate have succeeded
\* for the files as they are, through every number of loops back, rollbacks,
\* approvals and cancellations, unless a code change that had timed out was
\* written later or the process restarted.
THEOREM ShipsWhatWasChecked == Spec => []ShipFollowsChecks
<1>1. Init => TInv /\ GatedInv /\ ShipInv
  BY InitTypes DEF Init, GatedInv, ShipInv
<1>2. TInv /\ GatedInv /\ ShipInv /\ [Next]_vars => (TInv /\ GatedInv /\ ShipInv)'
  BY StepTypes, GatedStep, ShipStep
<1> QED BY <1>1, <1>2, ShipInvShips, PTL DEF Spec
=============================================================================
