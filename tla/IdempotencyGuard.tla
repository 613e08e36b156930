-------------------------- MODULE IdempotencyGuard --------------------------
(***************************************************************************)
(* The guard that createIdempotencyGuard (src/middleware/idempotency.ts)   *)
(* puts before a route: requests of the API that carry one key of one      *)
(* scope.  Its records are rows of a table or, where no database is        *)
(* configured, entries of a Map.  A response is named by the request it    *)
(* answers, a payload by whether it is the usual one.                      *)
(***************************************************************************)
EXTENDS Naturals, FiniteSets

CONSTANTS
    Requests,  \* the requests with the key
    Changed,   \* those of them with another payload
    Nobody,    \* no request
    MaxFaults  \* bound on failed requests to the table, and on crashes

ASSUME RequestsAssumption ==
    Changed \subseteq Requests /\ Nobody \notin Requests /\ MaxFaults \in Nat

VARIABLES
    durable, \* isSupabaseConfigured()
    row,     \* the record of the key
    pc,      \* where each request is
    guarded, \* the requests for which the guard has set its 'finish' listener
    told,    \* what each request was answered
    outcome, \* how the handler of each request ended
    left,    \* the requests whose client has disconnected
    faults,
    harm     \* what has happened that the guard does not cover

vars == <<durable, row, pc, guarded, told, outcome, left, faults, harm>>

NoRow == [state |-> "absent", by |-> Nobody, from |-> Nobody, expired |-> FALSE]
Live == {"running", "finalizing"}
Answers == {"nothing", "own", "replayed", "busy", "reused", "conflict"}

\* The record and the requests keep their types: a record names the request that
\* claimed it, and without one nothing of it is left (IdempotencyRecord).
TypeOK ==
    /\ durable \in BOOLEAN
    /\ row \in [state : {"absent", "in_progress", "completed"},
                by : Requests \union {Nobody},     \* whose payload it holds
                from : Requests \union {Nobody},   \* whose response it holds
                expired : BOOLEAN]
    /\ row.state = "absent" => row = NoRow
    /\ row.state # "absent" => row.by \in Requests
    /\ pc \in [Requests -> {"idle", "claiming", "reading", "ended"} \union Live]
    /\ guarded \subseteq Requests
    /\ told \in [Requests -> [answer : Answers, from : Requests \union {Nobody}]]
    /\ outcome \in [Requests -> {"none", "ok", "error"}]
    /\ left \subseteq Requests
    /\ faults \in Nat
    /\ harm \subseteq {"bypassed", "forgotten", "outlived", "left", "crash", "lost"}

Nothing == [answer |-> "nothing", from |-> Nobody]

Init ==
    /\ durable \in BOOLEAN
    /\ row = NoRow
    /\ pc = [r \in Requests |-> "idle"]
    /\ guarded = {} /\ left = {}
    /\ told = [r \in Requests |-> Nothing]
    /\ outcome = [r \in Requests |-> "none"]
    /\ faults = 0 /\ harm = {}

Goes(r, where) == pc' = [pc EXCEPT ![r] = where]
Harm(kinds) == harm' = harm \union kinds
Fault == durable /\ faults < MaxFaults /\ faults' = faults + 1
SamePayload(r, q) == r \in Changed <=> q \in Changed

-----------------------------------------------------------------------------
(* The middleware.                                                         *)

Arrive(r) ==
    /\ pc[r] = "idle"
    /\ Goes(r, "claiming")
    /\ UNCHANGED <<durable, row, guarded, told, outcome, left, faults, harm>>

\* Variant of Taken (RunsOnce): only a completed record conflicts.
TakenWhenCompleted == row.state = "completed"

\* The Map drops an expired record when it looks for it; the table does not look
\* at expires_at.
Taken == row.state # "absent" /\ (durable \/ ~row.expired)

ClaimedBy(r) == [state |-> "in_progress", by |-> r, from |-> Nobody, expired |-> FALSE]

Claim(r) ==
    /\ pc[r] = "claiming" /\ ~Taken
    /\ row' = ClaimedBy(r) /\ guarded' = guarded \union {r} /\ Goes(r, "running")
    /\ Harm(IF row.expired THEN {"forgotten"} ELSE {})
    /\ UNCHANGED <<durable, told, outcome, left, faults>>

\* Variant of Answered (ReplayIsOwn): the payload is not compared.
AnsweredAnyPayload(r) ==
    CASE row.state = "completed" -> [answer |-> "replayed", from |-> row.from]
      [] OTHER -> [Nothing EXCEPT !.answer = "busy"]

\* handleExistingRecord.
Answered(r) ==
    CASE ~SamePayload(row.by, r) -> [Nothing EXCEPT !.answer = "reused"]
      [] SamePayload(row.by, r) /\ row.state = "completed" ->
            [answer |-> "replayed", from |-> row.from]
      [] OTHER -> [Nothing EXCEPT !.answer = "busy"]

Answer(r, answer) == told' = [told EXCEPT ![r] = answer] /\ Goes(r, "ended")

\* The insert conflicts, and the record is read afterwards.
Conflict(r) ==
    /\ pc[r] = "claiming" /\ Taken
    /\ IF durable THEN Goes(r, "reading") /\ UNCHANGED told ELSE Answer(r, Answered(r))
    /\ UNCHANGED <<durable, row, guarded, outcome, left, faults, harm>>

Read(r) ==
    /\ pc[r] = "reading"
    /\ Answer(r, IF row.state = "absent" THEN [Nothing EXCEPT !.answer = "conflict"]
                 ELSE Answered(r))
    /\ UNCHANGED <<durable, row, guarded, outcome, left, faults, harm>>

\* An error of the insert, whose row may have been written, or of the read.
Bypass(r) ==
    /\ pc[r] \in {"claiming", "reading"} /\ Fault
    /\ Goes(r, "running") /\ Harm({"bypassed"})
    /\ \/ UNCHANGED row
       \/ pc[r] = "claiming" /\ row.state = "absent" /\ row' = ClaimedBy(r)
    /\ UNCHANGED <<durable, guarded, told, outcome, left>>

\* The handler ends with a status below 500 or not.  Without its client the
\* response never finishes.
Respond(r, result) ==
    /\ pc[r] = "running"
    /\ outcome' = [outcome EXCEPT ![r] = result]
    /\ told' = IF r \in left THEN told ELSE [told EXCEPT ![r].answer = "own"]
    /\ Goes(r, IF r \in guarded \ left THEN "finalizing" ELSE "ended")
    /\ UNCHANGED <<durable, row, guarded, left, faults, harm>>

Completed(r) ==
    IF row.state = "absent" THEN row ELSE [row EXCEPT !.state = "completed", !.from = r]

\* Variant of Released (BusyIsTrue): the condition on the state is turned round.
ReleasedCompleted == IF row.state = "completed" THEN NoRow ELSE row

Released == IF durable /\ row.state = "completed" THEN row ELSE NoRow

\* The listener of 'finish'; both updates are by key, whoever has it now.
Finalize(r) ==
    /\ pc[r] = "finalizing"
    /\ row' = IF outcome[r] = "ok" THEN Completed(r) ELSE Released
    /\ Goes(r, "ended")
    /\ UNCHANGED <<durable, guarded, told, outcome, left, faults, harm>>

FinalizeFails(r) ==
    /\ pc[r] = "finalizing" /\ Fault
    /\ Goes(r, "ended") /\ Harm({"lost"})
    /\ UNCHANGED <<durable, row, guarded, told, outcome, left>>

-----------------------------------------------------------------------------
(* Clients, time, and the process.                                         *)

Leave(r) ==
    /\ pc[r] = "running" /\ r \notin left
    /\ left' = left \union {r} /\ Harm({"left"})
    /\ UNCHANGED <<durable, row, pc, guarded, told, outcome, faults>>

\* expires_at passes, perhaps under a request that has not ended.
Expire ==
    /\ row.state # "absent" /\ ~row.expired
    /\ row' = [row EXCEPT !.expired = TRUE]
    /\ Harm(IF \E r \in guarded : pc[r] \in Live THEN {"outlived"} ELSE {})
    /\ UNCHANGED <<durable, pc, guarded, told, outcome, left, faults>>

\* The daily job cleanup_api_idempotency_keys of the database; in the Map, the
\* garbage collection by a request with another key.
Purge ==
    /\ row.expired
    /\ row' = NoRow /\ Harm({"forgotten"})
    /\ UNCHANGED <<durable, pc, guarded, told, outcome, left, faults>>

Crash ==
    /\ faults < MaxFaults /\ faults' = faults + 1 /\ Harm({"crash"})
    /\ pc' = [r \in Requests |-> IF pc[r] = "idle" THEN "idle" ELSE "ended"]
    /\ row' = IF durable THEN row ELSE NoRow
    /\ UNCHANGED <<durable, guarded, told, outcome, left>>

Next ==
    \/ \E r \in Requests :
          \/ Arrive(r) \/ Claim(r) \/ Conflict(r) \/ Read(r) \/ Bypass(r)
          \/ \E result \in {"ok", "error"} : Respond(r, result)
          \/ Finalize(r) \/ FinalizeFails(r) \/ Leave(r)
    \/ Expire \/ Purge \/ Crash

Spec == Init /\ [][Next]_vars

-----------------------------------------------------------------------------
(* Properties.                                                             *)

\* What makes the guard let a second request through: a store that failed, a
\* record that is gone, a Map that is gone.
LetsThrough == {"bypassed", "forgotten"} \union IF durable THEN {} ELSE {"crash"}

\* Two requests with the key never both have their effect, nor run together:
\* neither a crash, nor a client that leaves, nor a failed finalization, nor
\* requests with different payloads that race for the key break this.
Acts(r) == pc[r] = "running" \/ outcome[r] = "ok"

RunsOnce ==
    harm \intersect LetsThrough = {} =>
        \A r, q \in Requests : Acts(r) /\ Acts(q) => r = q

\* A replayed response is that of a request with the same payload which
\* succeeded, although a record is completed by key alone: unless a request
\* outlived its record, and completes that of another.
ReplayIsOwn ==
    "outlived" \notin harm =>
        \A r \in Requests : told[r].answer = "replayed" =>
            /\ outcome[told[r].from] = "ok"
            /\ SamePayload(told[r].from, r)

\* Nobody is told IDEMPOTENCY_IN_PROGRESS, and to come back in two seconds, when
\* nothing is in progress: unless a client left, the process crashed, or an
\* answer of the table was lost.
Stuck == {"left", "crash", "lost", "bypassed", "outlived"}

BusyIsTrue ==
    [][harm \intersect Stuck = {} => \A r \in Requests :
          told'[r].answer = "busy" /\ told[r].answer # "busy" =>
              \E q \in guarded : pc[q] \in Live]_vars

=============================================================================
