-------------------------- MODULE SessionLifecycle --------------------------
(***************************************************************************)
(* The life of one agent session as everybody outside the runtime sees it: *)
(* the routes and Discord commands that poll its status, and the human who *)
(* reviews it.  AgentRuntime (the queue) implements it for each session,   *)
(* and SessionExecution (the engines) for the one it follows, so that what *)
(* either assumes of the other is written down once.                       *)
(*                                                                         *)
(* "queued" covers both waiting for a slot and waiting for a human: a      *)
(* paused session has no status of its own, only its hitlState.            *)
(***************************************************************************)
VARIABLES
    status,
    cancelRequested,
    hitl             \* "none", "awaiting" a human, or "decided"

vars == <<status, cancelRequested, hitl>>

Terminal == {"completed", "failed", "cancelled"}

Init ==
    /\ status \in {"unborn", "queued"}
    /\ cancelRequested = FALSE
    /\ hitl = "none"

Start ==
    /\ status = "unborn"
    /\ status' = "queued"
    /\ UNCHANGED <<cancelRequested, hitl>>

\* Nobody runs a session that waits for a human or was asked to stop.
Run ==
    /\ status = "queued"
    /\ hitl # "awaiting"
    /\ ~cancelRequested
    /\ status' = "running"
    /\ UNCHANGED <<cancelRequested, hitl>>

\* A human is asked once per attempt.
Pause ==
    /\ status = "running"
    /\ hitl # "decided"
    /\ status' = "queued"
    /\ hitl' = "awaiting"
    /\ UNCHANGED cancelRequested

Finish ==
    /\ status = "running"
    /\ status' \in IF cancelRequested THEN {"cancelled"} ELSE {"completed", "failed"}
    /\ UNCHANGED <<cancelRequested, hitl>>

\* A cancellation ends a queued session and asks a running one to stop.
Cancel ==
    /\ status \in {"queued", "running"}
    /\ cancelRequested' = TRUE
    /\ status' = IF status = "queued" THEN "cancelled" ELSE status
    /\ UNCHANGED hitl

\* A session that paused although it was asked to stop ends when it is resumed.
EndCancelled ==
    /\ status = "queued"
    /\ cancelRequested
    /\ status' = "cancelled"
    /\ UNCHANGED <<cancelRequested, hitl>>

Resume ==
    /\ status = "queued"
    /\ hitl = "awaiting"
    /\ hitl' = "decided"
    /\ UNCHANGED <<status, cancelRequested>>

\* A retry forgets the human's decision.
Retry ==
    /\ status = "failed"
    /\ ~cancelRequested
    /\ status' = "queued"
    /\ hitl' = "none"
    /\ UNCHANGED cancelRequested

Next == Start \/ Run \/ Pause \/ Finish \/ Cancel \/ EndCancelled \/ Resume \/ Retry

Spec == Init /\ [][Next]_vars
=============================================================================
