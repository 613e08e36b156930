------------------------- MODULE AgentRuntimeProofs -------------------------
(***************************************************************************)
(* Theorems about AgentRuntime, for every number of sessions and guilds,   *)
(* every value of the limits and every policy.                             *)
(***************************************************************************)
EXTENDS AgentRuntime, SequenceTheorems, FiniteSetTheorems, TLAPS

-----------------------------------------------------------------------------
(* The array operations of the queue: push if absent, splice at an index,  *)
(* splice of the first occurrence.                                         *)

\* Pushing an element the queue does not hold keeps its elements distinct and
\* adds exactly that element: Array.push in enqueueSession.
LEMMA AppendFacts ==
    ASSUME NEW S, NEW q \in Seq(S), NEW e \in S,
           IsInjective(q), ~Contains(q, e)
    PROVE  /\ Append(q, e) \in Seq(S)
           /\ Len(Append(q, e)) = Len(q) + 1
           /\ IsInjective(Append(q, e))
           /\ \A x : Contains(Append(q, e), x) <=> Contains(q, x) \/ x = e
<1> DEFINE r == Append(q, e)
<1>1. /\ r \in Seq(S)
      /\ Len(r) = Len(q) + 1
      /\ \A i \in 1 .. Len(q) : r[i] = q[i]
      /\ r[Len(q) + 1] = e
  BY AppendProperties
<1>2. DOMAIN r = 1 .. Len(r) /\ DOMAIN q = 1 .. Len(q) /\ Len(q) \in Nat
  BY <1>1, LenProperties
<1> HIDE DEF r
<1>3. IsInjective(r)
  BY <1>1, <1>2 DEF IsInjective, Contains
<1>4. ASSUME NEW x
      PROVE  Contains(r, x) <=> Contains(q, x) \/ x = e
  <2>1. Contains(r, x) => Contains(q, x) \/ x = e
    BY <1>1, <1>2 DEF Contains
  <2>2. Contains(q, x) => Contains(r, x)
    BY <1>1, <1>2 DEF Contains
  <2>3. Contains(r, e)
    BY <1>1, <1>2 DEF Contains
  <2> QED BY <2>1, <2>2, <2>3
<1> QED BY <1>1, <1>3, <1>4 DEF r

\* Splicing one index out of a sequence shifts the later elements down.
LEMMA RemoveAtShape ==
    ASSUME NEW S, NEW q \in Seq(S), NEW i \in 1 .. Len(q)
    PROVE  /\ RemoveAt(q, i) \in Seq(S)
           /\ Len(RemoveAt(q, i)) = Len(q) - 1
           /\ \A j \in 1 .. (Len(q) - 1) :
                 RemoveAt(q, i)[j] = IF j < i THEN q[j] ELSE q[j + 1]
<1> DEFINE a == SubSeq(q, 1, i - 1)
           b == SubSeq(q, i + 1, Len(q))
<1>1. Len(q) \in Nat /\ \A j \in 1 .. Len(q) : q[j] \in S
  BY LenProperties, ElementOfSeq
<1>2. /\ a \in Seq(S)
      /\ Len(a) = i - 1
      /\ \A j \in 1 .. (i - 1) : a[j] = q[j]
  <2>1. \A j \in 1 .. (i - 1) : q[j] \in S
    BY <1>1
  <2>2. /\ a \in Seq(S)
        /\ Len(a) = IF 1 <= i - 1 THEN (i - 1) - 1 + 1 ELSE 0
        /\ \A j \in 1 .. ((i - 1) - 1 + 1) : a[j] = q[1 + j - 1]
    BY <1>1, <2>1, SubSeqProperties
  <2> HIDE DEF a
  <2> QED BY <2>2, <1>1
<1>3. /\ b \in Seq(S)
      /\ Len(b) = Len(q) - i
      /\ \A j \in 1 .. (Len(q) - i) : b[j] = q[i + j]
  <2>1. \A j \in (i + 1) .. Len(q) : q[j] \in S
    BY <1>1
  <2>2. /\ b \in Seq(S)
        /\ Len(b) = IF i + 1 <= Len(q) THEN Len(q) - (i + 1) + 1 ELSE 0
        /\ \A j \in 1 .. (Len(q) - (i + 1) + 1) : b[j] = q[(i + 1) + j - 1]
    BY <1>1, <2>1, SubSeqProperties
  <2> HIDE DEF b
  <2> QED BY <2>2, <1>1
<1>4. /\ a \o b \in Seq(S)
      /\ Len(a \o b) = Len(a) + Len(b)
      /\ \A j \in 1 .. (Len(a) + Len(b)) :
            (a \o b)[j] = IF j <= Len(a) THEN a[j] ELSE b[j - Len(a)]
  BY <1>2, <1>3, ConcatProperties
<1>5. RemoveAt(q, i) = a \o b
  BY DEF RemoveAt
<1> HIDE DEF a, b
<1>6. Len(a \o b) = Len(q) - 1
  BY <1>1, <1>2, <1>3, <1>4
<1>7. ASSUME NEW j \in 1 .. (Len(q) - 1)
      PROVE  (a \o b)[j] = IF j < i THEN q[j] ELSE q[j + 1]
  <2>1. (a \o b)[j] = IF j <= Len(a) THEN a[j] ELSE b[j - Len(a)]
    BY <1>1, <1>2, <1>3, <1>4
  <2>2. CASE j < i
    BY <2>1, <2>2, <1>1, <1>2
  <2>3. CASE ~(j < i)
    <3>1. j - (i - 1) \in 1 .. (Len(q) - i)
      BY <2>3, <1>1
    <3>2. b[j - (i - 1)] = q[i + (j - (i - 1))]
      BY <3>1, <1>3
    <3>3. i + (j - (i - 1)) = j + 1
      BY <1>1
    <3> QED BY <2>1, <2>3, <3>2, <3>3, <1>1, <1>2
  <2> QED BY <2>2, <2>3
<1> QED BY <1>4, <1>5, <1>6, <1>7

\* Splicing an index out of a queue of distinct elements removes exactly the
\* element that was there: pendingSessionQueue.splice(index, 1) in the drain.
LEMMA RemoveAtFacts ==
    ASSUME NEW S, NEW q \in Seq(S), NEW i \in 1 .. Len(q), IsInjective(q)
    PROVE  /\ RemoveAt(q, i) \in Seq(S)
           /\ Len(RemoveAt(q, i)) = Len(q) - 1
           /\ IsInjective(RemoveAt(q, i))
           /\ \A x : Contains(RemoveAt(q, i), x) <=> Contains(q, x) /\ x # q[i]
<1> DEFINE r == RemoveAt(q, i)
<1>1. /\ r \in Seq(S)
      /\ Len(r) = Len(q) - 1
      /\ \A j \in 1 .. (Len(q) - 1) : r[j] = IF j < i THEN q[j] ELSE q[j + 1]
  BY RemoveAtShape
<1>2. DOMAIN r = 1 .. Len(r) /\ DOMAIN q = 1 .. Len(q) /\ Len(q) \in Nat
  BY <1>1, LenProperties
<1> HIDE DEF r
<1>3. \A j, k \in 1 .. Len(q) : q[j] = q[k] => j = k
  BY <1>2 DEF IsInjective
<1>4. IsInjective(r)
  <2>1. SUFFICES ASSUME NEW j \in 1 .. (Len(q) - 1), NEW k \in 1 .. (Len(q) - 1),
                        r[j] = r[k]
                 PROVE  j = k
    BY <1>1, <1>2 DEF IsInjective
  <2> QED BY <2>1, <1>1, <1>2, <1>3
<1>5. ASSUME NEW x
      PROVE  Contains(r, x) <=> Contains(q, x) /\ x # q[i]
  <2>1. ASSUME Contains(r, x)
        PROVE  Contains(q, x) /\ x # q[i]
    <3>1. PICK j \in 1 .. (Len(q) - 1) : r[j] = x
      BY <2>1, <1>1 DEF Contains
    <3>2. CASE j < i
      BY <3>1, <3>2, <1>1, <1>2, <1>3 DEF Contains
    <3>3. CASE ~(j < i)
      <4>1. x = q[j + 1] /\ j + 1 \in 1 .. Len(q) /\ j + 1 # i
        BY <3>1, <3>3, <1>1, <1>2
      <4> QED BY <4>1, <1>3 DEF Contains
    <3> QED BY <3>2, <3>3
  <2>2. ASSUME Contains(q, x), x # q[i]
        PROVE  Contains(r, x)
    <3>1. PICK j \in 1 .. Len(q) : q[j] = x
      BY <2>2 DEF Contains
    <3>2. CASE j < i
      <4>1. j \in 1 .. Len(r) /\ r[j] = x
        BY <3>1, <3>2, <1>1, <1>2
      <4> QED BY <4>1 DEF Contains
    <3>3. CASE ~(j < i)
      <4>1. j # i
        BY <3>1, <2>2
      <4>2. j - 1 \in 1 .. Len(r) /\ r[j - 1] = x
        BY <3>1, <3>3, <4>1, <1>1, <1>2
      <4> QED BY <4>2 DEF Contains
    <3> QED BY <3>2, <3>3
  <2> QED BY <2>1, <2>2
<1> QED BY <1>1, <1>4, <1>5 DEF r

\* Splicing the first occurrence out of a queue of distinct elements:
\* removeFromQueue.
LEMMA RemoveFirstFacts ==
    ASSUME NEW S, NEW q \in Seq(S), NEW e, IsInjective(q)
    PROVE  /\ RemoveFirst(q, e) \in Seq(S)
           /\ IsInjective(RemoveFirst(q, e))
           /\ \A x : Contains(RemoveFirst(q, e), x) <=> Contains(q, x) /\ x # e
<1>1. DOMAIN q = 1 .. Len(q) /\ Len(q) \in Nat
  BY LenProperties
<1>2. CASE Contains(q, e)
  <2>1. PICK i \in 1 .. Len(q) : q[i] = e
    BY <1>2 DEF Contains
  <2>2. {j \in 1 .. Len(q) : q[j] = e} = {i}
    BY <2>1, <1>1 DEF IsInjective
  <2>3. Min({i}) = i
    BY <1>1 DEF Min
  <2>4. SelectInSeq(q, LAMBDA v : v = e) = i
    BY <2>2, <2>3 DEF SelectInSeq
  <2>5. RemoveFirst(q, e) = RemoveAt(q, i)
    BY <2>1, <2>4 DEF RemoveFirst
  <2> QED BY <2>1, <2>5, RemoveAtFacts
<1>3. CASE ~Contains(q, e)
  <2>1. RemoveFirst(q, e) = q
    BY <1>3 DEF RemoveFirst, Contains
  <2> QED BY <2>1, <1>3 DEF Contains
<1> QED BY <1>2, <1>3

-----------------------------------------------------------------------------

(***************************************************************************)
(* The inductive invariant.  The slot counter of a guild is right only     *)
(* because a session that is picked has no slot yet; that follows from     *)
(* what the queue holds (queued sessions, each once), from how status and  *)
(* execution agree, and from the drain never running between the           *)
(* continuations of a promise.                                             *)
(***************************************************************************)
SlotsTracked ==
    /\ IsFiniteSet(runningIds)
    /\ \A s \in Sessions :
          /\ s \in runningIds <=> execution[s] # "idle"
          /\ runningGuild[s] = IF s \in runningIds THEN GuildOf[s] ELSE NoGuild

ExecutionAgrees ==
    \A s \in Sessions :
       /\ execution[s] = "executing" <=> status[s] = "running"
       /\ execution[s] \in Terminal => status[s] = execution[s]

QueueAgrees ==
    /\ IsInjective(pending)
    /\ \A s \in Sessions : Contains(pending, s) => status[s] = "queued"

DrainIsAlone ==
    cursor > 0 => \A s \in Sessions : execution[s] \notin Settling

CancelAgrees ==
    \A s \in Sessions :
       status[s] \in {"completed", "failed"} => ~cancelRequested[s]

IInv ==
    /\ TypeOK
    /\ SlotsTracked
    /\ GuildCountsExact
    /\ ExecutionAgrees
    /\ QueueAgrees
    /\ DrainIsAlone
    /\ CancelAgrees

-----------------------------------------------------------------------------
(* Lemmas.                                                                 *)

\* The two definitions that decide what a pick or a retry may do hold of
\* sequences of sessions with distinct elements only.
LEMMA EnqueuedFacts ==
    ASSUME NEW q \in Seq(Sessions), NEW s \in Sessions, IsInjective(q)
    PROVE  /\ Enqueued(q, s) \in Seq(Sessions)
           /\ IsInjective(Enqueued(q, s))
           /\ \A x : Contains(Enqueued(q, s), x) <=> Contains(q, x) \/ x = s
<1>1. CASE Contains(q, s)
  BY <1>1 DEF Enqueued
<1>2. CASE ~Contains(q, s)
  BY <1>2, AppendFacts DEF Enqueued
<1> QED BY <1>1, <1>2

\* The id the drain looks at is a session, and the queue holds it.
LEMMA ScannedFacts ==
    ASSUME TypeOK, Scanning
    PROVE  /\ Scanned \in Sessions
           /\ Contains(pending, Scanned)
           /\ cursor \in 1 .. Len(pending)
           /\ cursor > 0
<1>1. Len(pending) \in Nat
  BY LenProperties DEF TypeOK
<1> QED BY <1>1, ElementOfSeq DEF TypeOK, Scanning, Scanned, Contains

\* Taking or giving back a slot moves the count of that guild by one and of no
\* other guild.
LEMMA SlotTaken ==
    ASSUME IInv, NEW s \in Sessions, s \notin runningIds, NEW g \in Guilds
    PROVE  /\ IsFiniteSet(runningIds \union {s})
           /\ Cardinality({r \in runningIds \union {s} : GuildOf[r] = g}) =
                 IF GuildOf[s] = g THEN guildCounts[g] + 1 ELSE guildCounts[g]
<1>1. IsFiniteSet(runningIds) /\ IsFiniteSet(RunningOf(g))
  BY FS_Subset DEF IInv, SlotsTracked, RunningOf
<1>2. guildCounts[g] = Cardinality(RunningOf(g))
  BY DEF IInv, GuildCountsExact
<1>3. CASE GuildOf[s] = g
  <2>1. {r \in runningIds \union {s} : GuildOf[r] = g} = RunningOf(g) \union {s}
    BY <1>3 DEF RunningOf
  <2>2. s \notin RunningOf(g)
    BY DEF RunningOf
  <2> QED BY <1>1, <1>2, <1>3, <2>1, <2>2, FS_AddElement
<1>4. CASE GuildOf[s] # g
  <2>1. {r \in runningIds \union {s} : GuildOf[r] = g} = RunningOf(g)
    BY <1>4 DEF RunningOf
  <2> QED BY <1>1, <1>2, <1>4, <2>1, FS_AddElement
<1> QED BY <1>3, <1>4

LEMMA SlotReturned ==
    ASSUME IInv, NEW s \in Sessions, s \in runningIds, NEW g \in Guilds
    PROVE  /\ IsFiniteSet(runningIds \ {s})
           /\ GuildOf[s] = g => guildCounts[g] > 0
           /\ Cardinality({r \in runningIds \ {s} : GuildOf[r] = g}) =
                 IF GuildOf[s] = g THEN guildCounts[g] - 1 ELSE guildCounts[g]
<1>1. IsFiniteSet(runningIds) /\ IsFiniteSet(RunningOf(g))
  BY FS_Subset DEF IInv, SlotsTracked, RunningOf
<1>2. guildCounts[g] = Cardinality(RunningOf(g)) /\ guildCounts[g] \in Nat
  BY DEF IInv, GuildCountsExact, TypeOK
<1>3. CASE GuildOf[s] = g
  <2>1. {r \in runningIds \ {s} : GuildOf[r] = g} = RunningOf(g) \ {s}
    BY DEF RunningOf
  <2>2. s \in RunningOf(g)
    BY <1>3 DEF RunningOf
  <2>3. Cardinality(RunningOf(g)) # 0
    BY <1>1, <2>2, FS_EmptySet
  <2>4. Cardinality(RunningOf(g) \ {s}) = Cardinality(RunningOf(g)) - 1
    BY <1>1, <2>2, FS_RemoveElement
  <2>5. IsFiniteSet(runningIds \ {s})
    BY <1>1, FS_RemoveElement
  <2>6. Cardinality({r \in runningIds \ {s} : GuildOf[r] = g}) = guildCounts[g] - 1
    BY <1>2, <2>1, <2>4
  <2>7. guildCounts[g] > 0
    BY <1>2, <2>3
  <2> QED BY <1>3, <2>5, <2>6, <2>7
<1>4. CASE GuildOf[s] # g
  <2>1. {r \in runningIds \ {s} : GuildOf[r] = g} = RunningOf(g)
    BY <1>4 DEF RunningOf
  <2> QED BY <1>1, <1>2, <1>4, <2>1, FS_RemoveElement
<1> QED BY <1>3, <1>4

\* A step that leaves runningIds, runningSessionGuilds and the counters alone
\* keeps the counters exact.
LEMMA CountsUntouched ==
    ASSUME GuildCountsExact, UNCHANGED runVars
    PROVE  GuildCountsExact'
BY DEF GuildCountsExact, RunningOf, runVars

-----------------------------------------------------------------------------
(* The invariant holds initially and each operation preserves it.           *)

LEMMA InitInv == Init => IInv
<1> SUFFICES ASSUME Init PROVE IInv
  OBVIOUS
<1>1. TypeOK
  BY EmptySeq DEF Init, TypeOK, Statuses, Executions
<1>2. SlotsTracked
  BY FS_EmptySet DEF Init, SlotsTracked
<1>3. GuildCountsExact
  <2>1. \A g \in Guilds : RunningOf(g) = {}
    BY DEF Init, RunningOf
  <2> QED BY <2>1, FS_EmptySet DEF Init, GuildCountsExact
<1>4. ExecutionAgrees
  BY DEF Init, ExecutionAgrees, Terminal
<1>5. QueueAgrees
  BY DEF Init, QueueAgrees, IsInjective, Contains
<1>6. DrainIsAlone /\ CancelAgrees
  BY DEF Init, DrainIsAlone, CancelAgrees
<1> QED BY <1>1, <1>2, <1>3, <1>4, <1>5, <1>6 DEF IInv

LEMMA RequestInv ==
    ASSUME IInv, NEW s \in Sessions, Request(s)
    PROVE  IInv'
<1> USE DEF IInv
<1>1. CASE StartAgentSession(s)
  <2>1. /\ pending' \in Seq(Sessions)
        /\ IsInjective(pending')
        /\ \A x : Contains(pending', x) <=> Contains(pending, x) \/ x = s
    BY <1>1, EnqueuedFacts DEF StartAgentSession, QueueAgrees, TypeOK
  <2>2. TypeOK'
    BY <1>1, <2>1 DEF StartAgentSession, TypeOK, runVars, Statuses
  <2>3. SlotsTracked' /\ GuildCountsExact'
    BY <1>1, CountsUntouched DEF StartAgentSession, SlotsTracked, runVars
  <2>4. ExecutionAgrees'
    BY <1>1 DEF StartAgentSession, ExecutionAgrees, TypeOK, Terminal
  <2>5. QueueAgrees'
    BY <1>1, <2>1 DEF StartAgentSession, QueueAgrees, TypeOK
  <2>6. DrainIsAlone' /\ CancelAgrees'
    BY <1>1 DEF StartAgentSession, DrainIsAlone, CancelAgrees, TypeOK
  <2> QED BY <2>2, <2>3, <2>4, <2>5, <2>6
<1>2. CASE CancelQueued(s)
  <2>1. /\ pending' \in Seq(Sessions)
        /\ IsInjective(pending')
        /\ \A x : Contains(pending', x) <=> Contains(pending, x) /\ x # s
    BY <1>2, RemoveFirstFacts DEF CancelQueued, QueueAgrees, TypeOK
  <2>2. TypeOK'
    BY <1>2, <2>1 DEF CancelQueued, TypeOK, runVars, Statuses, Terminal
  <2>3. SlotsTracked' /\ GuildCountsExact'
    BY <1>2, CountsUntouched DEF CancelQueued, SlotsTracked, runVars
  <2>4. ExecutionAgrees'
    BY <1>2 DEF CancelQueued, ExecutionAgrees, TypeOK, Terminal
  <2>5. QueueAgrees'
    BY <1>2, <2>1 DEF CancelQueued, QueueAgrees, TypeOK
  <2>6. DrainIsAlone' /\ CancelAgrees'
    BY <1>2 DEF CancelQueued, DrainIsAlone, CancelAgrees, TypeOK
  <2> QED BY <2>2, <2>3, <2>4, <2>5, <2>6
<1>3. CASE CancelRunning(s)
  <2>1. TypeOK'
    BY <1>3 DEF CancelRunning, TypeOK, runVars, queueVars
  <2>2. SlotsTracked' /\ GuildCountsExact'
    BY <1>3, CountsUntouched DEF CancelRunning, SlotsTracked, runVars
  <2>3. ExecutionAgrees' /\ QueueAgrees' /\ DrainIsAlone' /\ CancelAgrees'
    BY <1>3 DEF CancelRunning, ExecutionAgrees, QueueAgrees, DrainIsAlone,
                CancelAgrees, TypeOK, queueVars
  <2> QED BY <2>1, <2>2, <2>3
<1>4. CASE ResumeAgentSession(s)
  <2>1. /\ pending' \in Seq(Sessions)
        /\ IsInjective(pending')
        /\ \A x : Contains(pending', x) <=> Contains(pending, x) \/ x = s
    BY <1>4, EnqueuedFacts DEF ResumeAgentSession, QueueAgrees, TypeOK
  <2>2. TypeOK'
    BY <1>4, <2>1 DEF ResumeAgentSession, TypeOK, runVars, Statuses
  <2>3. SlotsTracked' /\ GuildCountsExact'
    BY <1>4, CountsUntouched DEF ResumeAgentSession, SlotsTracked, runVars
  <2>4. status' = status
    BY <1>4 DEF ResumeAgentSession, TypeOK
  <2>5. ExecutionAgrees' /\ DrainIsAlone' /\ CancelAgrees'
    BY <1>4, <2>4 DEF ResumeAgentSession, ExecutionAgrees, DrainIsAlone, CancelAgrees
  <2>6. QueueAgrees'
    BY <1>4, <2>1, <2>4 DEF ResumeAgentSession, QueueAgrees
  <2> QED BY <2>2, <2>3, <2>5, <2>6
<1> QED BY <1>1, <1>2, <1>3, <1>4 DEF Request

LEMMA DrainInv ==
    ASSUME IInv, TimerFires \/ Drain
    PROVE  IInv'
<1> USE DEF IInv
<1>1. CASE TimerFires
  <2>1. TypeOK'
    BY <1>1 DEF TimerFires, TypeOK, sessionVars, runVars
  <2>2. SlotsTracked' /\ GuildCountsExact'
    BY <1>1, CountsUntouched DEF TimerFires, SlotsTracked, runVars
  <2>3. ExecutionAgrees' /\ QueueAgrees' /\ DrainIsAlone' /\ CancelAgrees'
    BY <1>1 DEF TimerFires, ExecutionAgrees, QueueAgrees, DrainIsAlone,
                CancelAgrees, sessionVars
  <2> QED BY <2>1, <2>2, <2>3
<1>2. CASE DropGone
  <2>1. cursor \in 1 .. Len(pending)
    BY <1>2, ScannedFacts DEF DropGone
  <2>2. /\ pending' \in Seq(Sessions)
        /\ IsInjective(pending')
        /\ \A x : Contains(pending', x) => Contains(pending, x)
    BY <1>2, <2>1, RemoveAtFacts DEF DropGone, QueueAgrees, TypeOK
  <2>3. TypeOK'
    BY <1>2, <2>2 DEF DropGone, TypeOK, sessionVars, runVars
  <2>4. SlotsTracked' /\ GuildCountsExact'
    BY <1>2, CountsUntouched DEF DropGone, SlotsTracked, runVars
  <2>5. ExecutionAgrees' /\ DrainIsAlone' /\ CancelAgrees'
    BY <1>2 DEF DropGone, ExecutionAgrees, DrainIsAlone, CancelAgrees, sessionVars
  <2>6. QueueAgrees'
    BY <1>2, <2>2 DEF DropGone, QueueAgrees, sessionVars
  <2> QED BY <2>3, <2>4, <2>5, <2>6
<1>3. CASE DropCancelled
  <2>1. /\ cursor \in 1 .. Len(pending)
        /\ Scanned \in Sessions
        /\ status[Scanned] = "queued"
    BY <1>3, ScannedFacts DEF DropCancelled, QueueAgrees
  <2>2. /\ pending' \in Seq(Sessions)
        /\ IsInjective(pending')
        /\ \A x : Contains(pending', x) => Contains(pending, x) /\ x # Scanned
    BY <1>3, <2>1, RemoveAtFacts DEF DropCancelled, QueueAgrees, TypeOK, Scanned
  <2>3. TypeOK'
    BY <1>3, <2>2 DEF DropCancelled, TypeOK, runVars, Statuses, Terminal
  <2>4. SlotsTracked' /\ GuildCountsExact'
    BY <1>3, CountsUntouched DEF DropCancelled, SlotsTracked, runVars
  <2>5. ExecutionAgrees'
    BY <1>3, <2>1 DEF DropCancelled, ExecutionAgrees, TypeOK, Terminal
  <2>6. DrainIsAlone' /\ CancelAgrees'
    BY <1>3 DEF DropCancelled, DrainIsAlone, CancelAgrees, TypeOK
  <2>7. QueueAgrees'
    BY <1>3, <2>2 DEF DropCancelled, QueueAgrees, TypeOK
  <2> QED BY <2>3, <2>4, <2>5, <2>6, <2>7
<1>4. CASE SkipBlocked
  <2>1. TypeOK'
    BY <1>4 DEF SkipBlocked, TypeOK, sessionVars, runVars
  <2>2. SlotsTracked' /\ GuildCountsExact'
    BY <1>4, CountsUntouched DEF SkipBlocked, SlotsTracked, runVars
  <2>3. cursor > 0
    BY <1>4, ScannedFacts DEF SkipBlocked
  <2>4. ExecutionAgrees' /\ QueueAgrees' /\ DrainIsAlone' /\ CancelAgrees'
    BY <1>4, <2>3 DEF SkipBlocked, ExecutionAgrees, QueueAgrees, DrainIsAlone,
                CancelAgrees, sessionVars
  <2> QED BY <2>1, <2>2, <2>4
<1>5. CASE PickNext
  <2> DEFINE s == Scanned
             g == GuildOf[s]
  <2>1. /\ cursor \in 1 .. Len(pending)
        /\ cursor > 0
        /\ s \in Sessions
        /\ g \in Guilds
        /\ status[s] = "queued"
    BY <1>5, ScannedFacts, GuildOfAssumption DEF PickNext, QueueAgrees
  <2>2. execution[s] = "idle" /\ s \notin runningIds
    <3>1. execution[s] \in Executions /\ execution[s] \notin Settling
      BY <2>1 DEF DrainIsAlone, TypeOK
    <3>2. execution[s] # "executing"
      BY <2>1 DEF ExecutionAgrees
    <3> QED BY <2>1, <3>1, <3>2 DEF Executions, SlotsTracked
  <2>3. /\ pending' \in Seq(Sessions)
        /\ IsInjective(pending')
        /\ \A x : Contains(pending', x) => Contains(pending, x) /\ x # s
    BY <1>5, <2>1, RemoveAtFacts DEF PickNext, RunScanned, QueueAgrees, TypeOK, Scanned
  <2>4. /\ runningIds' = runningIds \union {s}
        /\ runningGuild' = [runningGuild EXCEPT ![s] = g]
        /\ guildCounts' = [guildCounts EXCEPT ![g] = @ + 1]
        /\ attempts' = [attempts EXCEPT ![s] = @ + 1]
        /\ status' = [status EXCEPT ![s] = "running"]
        /\ execution' = [execution EXCEPT ![s] = "executing"]
        /\ cursor' = 1
        /\ UNCHANGED <<sessions, cancelRequested, hitl, deadletters, timer, policy>>
    BY <1>5 DEF PickNext, RunScanned
  <2> HIDE DEF s, g
  <2>5. TypeOK'
    BY <2>1, <2>3, <2>4 DEF TypeOK, Statuses, Executions
  <2>6. SlotsTracked'
    <3>1. IsFiniteSet(runningIds')
      BY <2>1, <2>2, <2>4, SlotTaken
    <3>2. ASSUME NEW r \in Sessions
          PROVE  /\ r \in runningIds' <=> execution'[r] # "idle"
                 /\ runningGuild'[r] = IF r \in runningIds' THEN GuildOf[r] ELSE NoGuild
      BY <2>1, <2>4 DEF SlotsTracked, TypeOK, g
    <3> QED BY <3>1, <3>2 DEF SlotsTracked
  <2>7. GuildCountsExact'
    <3>1. ASSUME NEW h \in Guilds
          PROVE  guildCounts'[h] = Cardinality({r \in runningIds' : GuildOf[r] = h})
      <4>1. Cardinality({r \in runningIds \union {s} : GuildOf[r] = h}) =
               IF GuildOf[s] = h THEN guildCounts[h] + 1 ELSE guildCounts[h]
        BY <2>1, <2>2, SlotTaken
      <4>2. guildCounts'[h] = IF g = h THEN guildCounts[h] + 1 ELSE guildCounts[h]
        BY <2>1, <2>4 DEF TypeOK
      <4> QED BY <4>1, <4>2, <2>4 DEF g
    <3> QED BY <3>1 DEF GuildCountsExact, RunningOf
  <2>8. ExecutionAgrees'
    BY <2>1, <2>4 DEF ExecutionAgrees, TypeOK, Terminal
  <2>9. QueueAgrees'
    BY <2>1, <2>3, <2>4 DEF QueueAgrees, TypeOK
  <2>10. DrainIsAlone' /\ CancelAgrees'
    BY <2>1, <2>4 DEF DrainIsAlone, CancelAgrees, TypeOK, Settling, Results, Terminal
  <2> QED BY <2>5, <2>6, <2>7, <2>8, <2>9, <2>10
<1>6. CASE EndScan
  <2>1. TypeOK'
    BY <1>6 DEF EndScan, TypeOK, sessionVars, runVars
  <2>2. SlotsTracked' /\ GuildCountsExact'
    BY <1>6, CountsUntouched DEF EndScan, SlotsTracked, runVars
  <2>3. ExecutionAgrees' /\ QueueAgrees' /\ DrainIsAlone' /\ CancelAgrees'
    BY <1>6 DEF EndScan, ExecutionAgrees, QueueAgrees, DrainIsAlone,
                CancelAgrees, sessionVars
  <2> QED BY <2>1, <2>2, <2>3
<1> QED BY <1>1, <1>2, <1>3, <1>4, <1>5, <1>6 DEF Drain

LEMMA ExecuteInv ==
    ASSUME IInv, NEW s \in Sessions, Execute(s)
    PROVE  IInv'
<1> USE DEF IInv
<1>1. /\ execution[s] = "executing"
      /\ status[s] = "running"
      /\ cursor = 0
      /\ UNCHANGED <<sessions, cancelRequested, runVars, queueVars, policy>>
  BY DEF Execute, PauseForHitl, CompleteSession, FailSession, Executing,
         LoopIsFree, ExecutionAgrees
<1>2. PICK result \in Results :
         /\ EndExecution(s, result)
         /\ result \in {"completed", "failed"} => ~cancelRequested[s]
  <2>1. CASE PauseForHitl(s)
    BY <2>1 DEF PauseForHitl, Results
  <2>2. CASE CompleteSession(s)
    BY <2>2 DEF CompleteSession, Results, Terminal
  <2>3. CASE FailSession(s)
    BY <2>3 DEF FailSession, Results, Terminal
  <2> QED BY <2>1, <2>2, <2>3 DEF Execute
<1>3. hitl' \in [Sessions -> {"none", "awaiting", "decided"}]
  BY DEF Execute, PauseForHitl, CompleteSession, FailSession, TypeOK
<1>4. TypeOK'
  BY <1>1, <1>2, <1>3 DEF TypeOK, EndExecution, runVars, queueVars, Statuses,
     Executions, Settling, Results
<1>5. GuildCountsExact'
  BY <1>1, CountsUntouched
<1>6. SlotsTracked'
  BY <1>1, <1>2 DEF SlotsTracked, EndExecution, TypeOK, runVars, Results, Terminal
<1>7. ExecutionAgrees'
  BY <1>1, <1>2 DEF ExecutionAgrees, EndExecution, TypeOK, Results, Terminal
<1>8. QueueAgrees'
  BY <1>1, <1>2 DEF QueueAgrees, EndExecution, TypeOK, queueVars
<1>9. DrainIsAlone'
  BY <1>1 DEF DrainIsAlone, queueVars
<1>10. CancelAgrees'
  BY <1>1, <1>2 DEF CancelAgrees, EndExecution, TypeOK, Results, Terminal
<1> QED BY <1>4, <1>5, <1>6, <1>7, <1>8, <1>9, <1>10

LEMMA SettleInv ==
    ASSUME IInv, NEW s \in Sessions, Settle(s)
    PROVE  IInv'
<1> USE DEF IInv
<1>1. CASE RequeueForRetry(s)
  <2>1. /\ pending' \in Seq(Sessions)
        /\ IsInjective(pending')
        /\ \A x : Contains(pending', x) <=> Contains(pending, x) \/ x = s
    BY <1>1, EnqueuedFacts DEF RequeueForRetry, QueueAgrees, TypeOK
  <2>2. TypeOK'
    BY <1>1, <2>1 DEF RequeueForRetry, TypeOK, runVars, Statuses, Executions, Settling
  <2>3. SlotsTracked' /\ GuildCountsExact'
    BY <1>1, CountsUntouched DEF RequeueForRetry, Retriable, SlotsTracked, runVars, TypeOK
  <2>4. ExecutionAgrees'
    BY <1>1 DEF RequeueForRetry, Retriable, ExecutionAgrees, TypeOK, Terminal
  <2>5. QueueAgrees'
    BY <1>1, <2>1 DEF RequeueForRetry, QueueAgrees, TypeOK
  <2>6. DrainIsAlone' /\ CancelAgrees'
    BY <1>1 DEF RequeueForRetry, LoopIsFree, DrainIsAlone, CancelAgrees, TypeOK
  <2> QED BY <2>2, <2>3, <2>4, <2>5, <2>6
<1>2. CASE MoveToDeadletters(s)
  <2>1. deadletters' \in Seq(Sessions)
    <3> DEFINE letters == <<s>> \o deadletters
    <3>1. letters \in Seq(Sessions)
      BY ConcatProperties DEF TypeOK
    <3>2. CASE Len(letters) > MaxDeadletters
      <4>1. MaxDeadletters \in Nat /\ Len(letters) \in Nat
        BY <3>1, LenProperties, LimitsAssumption
      <4>2. \A i \in 1 .. MaxDeadletters : letters[i] \in Sessions
        BY <3>1, <3>2, <4>1, ElementOfSeq
      <4> HIDE DEF letters
      <4>3. SubSeq(letters, 1, MaxDeadletters) \in Seq(Sessions)
        BY <4>1, <4>2, SubSeqProperties
      <4> QED BY <1>2, <3>2, <4>3 DEF MoveToDeadletters, Deadlettered, letters
    <3>3. CASE ~(Len(letters) > MaxDeadletters)
      BY <1>2, <3>1, <3>3 DEF MoveToDeadletters, Deadlettered
    <3> QED BY <3>2, <3>3
  <2>2. TypeOK'
    BY <1>2, <2>1 DEF MoveToDeadletters, TypeOK, sessionVars, runVars, Executions, Settling
  <2>3. SlotsTracked' /\ GuildCountsExact'
    BY <1>2, CountsUntouched DEF MoveToDeadletters, SlotsTracked, runVars, TypeOK
  <2>4. ExecutionAgrees'
    BY <1>2 DEF MoveToDeadletters, ExecutionAgrees, TypeOK, Terminal, sessionVars
  <2>5. QueueAgrees' /\ DrainIsAlone' /\ CancelAgrees'
    BY <1>2 DEF MoveToDeadletters, LoopIsFree, QueueAgrees, DrainIsAlone,
                CancelAgrees, sessionVars
  <2> QED BY <2>2, <2>3, <2>4, <2>5
<1>3. CASE IgnoreResult(s)
  <2>1. execution[s] \in Results
    BY <1>3 DEF IgnoreResult, Results, Terminal
  <2>2. TypeOK'
    BY <1>3 DEF IgnoreResult, TypeOK, sessionVars, runVars, queueVars, Executions, Settling
  <2>3. SlotsTracked' /\ GuildCountsExact'
    BY <1>3, <2>1, CountsUntouched
       DEF IgnoreResult, SlotsTracked, runVars, TypeOK, Results, Terminal
  <2>4. ExecutionAgrees'
    BY <1>3, <2>1 DEF IgnoreResult, ExecutionAgrees, TypeOK, Results, Terminal, sessionVars
  <2>5. QueueAgrees' /\ DrainIsAlone' /\ CancelAgrees'
    BY <1>3 DEF IgnoreResult, LoopIsFree, QueueAgrees, DrainIsAlone,
                CancelAgrees, sessionVars, queueVars
  <2> QED BY <2>2, <2>3, <2>4, <2>5
<1>4. CASE ReleaseSlot(s)
  <2> DEFINE g == GuildOf[s]
  <2>1. /\ s \in runningIds
        /\ g \in Guilds
        /\ runningGuild[s] = g
        /\ g # NoGuild
        /\ guildCounts[g] > 0
        /\ guildCounts[g] \in Nat
    <3>1. s \in runningIds /\ g \in Guilds
      BY <1>4, GuildOfAssumption DEF ReleaseSlot, SlotsTracked
    <3>2. guildCounts[g] > 0
      BY <3>1, SlotReturned
    <3> QED BY <3>1, <3>2, NoGuildAssumption DEF SlotsTracked, TypeOK
  <2>2. /\ runningIds' = runningIds \ {s}
        /\ runningGuild' = [runningGuild EXCEPT ![s] = NoGuild]
        /\ guildCounts' = [guildCounts EXCEPT ![g] = guildCounts[g] - 1]
        /\ timer' = TRUE
        /\ execution' = [execution EXCEPT ![s] = "idle"]
        /\ execution[s] = "handled"
        /\ cursor = 0
        /\ UNCHANGED <<sessionVars, pending, attempts, deadletters, cursor, policy>>
    BY <1>4, <2>1 DEF ReleaseSlot, LoopIsFree
  <2> HIDE DEF g
  <2>3. TypeOK'
    BY <2>1, <2>2 DEF TypeOK, sessionVars, Executions
  <2>4. SlotsTracked'
    <3>1. IsFiniteSet(runningIds')
      BY <2>1, <2>2, SlotReturned DEF g
    <3>2. ASSUME NEW r \in Sessions
          PROVE  /\ r \in runningIds' <=> execution'[r] # "idle"
                 /\ runningGuild'[r] = IF r \in runningIds' THEN GuildOf[r] ELSE NoGuild
      BY <2>1, <2>2 DEF SlotsTracked, TypeOK
    <3> QED BY <3>1, <3>2 DEF SlotsTracked
  <2>5. GuildCountsExact'
    <3>1. ASSUME NEW h \in Guilds
          PROVE  guildCounts'[h] = Cardinality({r \in runningIds' : GuildOf[r] = h})
      <4>1. Cardinality({r \in runningIds \ {s} : GuildOf[r] = h}) =
               IF GuildOf[s] = h THEN guildCounts[h] - 1 ELSE guildCounts[h]
        BY <2>1, SlotReturned
      <4>2. guildCounts'[h] = IF g = h THEN guildCounts[h] - 1 ELSE guildCounts[h]
        BY <2>1, <2>2 DEF TypeOK
      <4> QED BY <4>1, <4>2, <2>2 DEF g
    <3> QED BY <3>1 DEF GuildCountsExact, RunningOf
  <2>6. ExecutionAgrees'
    BY <2>2 DEF ExecutionAgrees, TypeOK, Terminal, sessionVars
  <2>7. QueueAgrees' /\ DrainIsAlone' /\ CancelAgrees'
    BY <2>2 DEF QueueAgrees, DrainIsAlone, CancelAgrees, sessionVars
  <2> QED BY <2>3, <2>4, <2>5, <2>6, <2>7
<1> QED BY <1>1, <1>2, <1>3, <1>4 DEF Settle

LEMMA PolicyInv ==
    ASSUME IInv, NEW g \in Guilds, PolicyRefreshed(g) \/ PolicyExpires(g)
    PROVE  IInv'
<1> USE DEF IInv
<1>1. /\ UNCHANGED <<sessionVars, runVars, queueVars, execution>>
      /\ policy' \in [Guilds -> Policies \union {Unresolved}]
  BY DEF PolicyRefreshed, PolicyExpires, TypeOK
<1>2. TypeOK'
  BY <1>1 DEF TypeOK, sessionVars, runVars, queueVars
<1>3. SlotsTracked' /\ GuildCountsExact'
  BY <1>1, CountsUntouched DEF SlotsTracked, runVars
<1>4. ExecutionAgrees' /\ QueueAgrees' /\ DrainIsAlone' /\ CancelAgrees'
  BY <1>1 DEF ExecutionAgrees, QueueAgrees, DrainIsAlone, CancelAgrees,
              sessionVars, queueVars
<1> QED BY <1>2, <1>3, <1>4

LEMMA StutterInv ==
    ASSUME IInv, UNCHANGED vars
    PROVE  IInv'
BY DEF IInv, TypeOK, SlotsTracked, GuildCountsExact, RunningOf, ExecutionAgrees,
       QueueAgrees, DrainIsAlone, CancelAgrees, vars, sessionVars, runVars, queueVars

LEMMA NextInv == IInv /\ [Next]_vars => IInv'
<1> SUFFICES ASSUME IInv, [Next]_vars PROVE IInv'
  OBVIOUS
<1>1. CASE UNCHANGED vars
  BY <1>1, StutterInv
<1>2. CASE Next
  BY <1>2, RequestInv, ExecuteInv, SettleInv, DrainInv, PolicyInv DEF Next
<1> QED BY <1>1, <1>2

\* Every reachable state satisfies the inductive invariant.
THEOREM Invariance == Spec => []IInv
BY InitInv, NextInv, PTL DEF Spec

-----------------------------------------------------------------------------
(* The safety properties.                                                  *)

\* Every variable keeps its type.
THEOREM TypeCorrect == Spec => []TypeOK
<1>1. IInv => TypeOK
  BY DEF IInv
<1> QED BY <1>1, Invariance, PTL

\* The per-guild counters of multiAgentRuntimeQueue.ts are exact at every
\* moment, whatever is pruned, retried, resumed or cancelled.
THEOREM CountersAreExact == Spec => []GuildCountsExact
<1>1. IInv => GuildCountsExact
  BY DEF IInv
<1> QED BY <1>1, Invariance, PTL

\* Sessions waiting outside the drain always have a wake-up coming.
THEOREM NoWakeupIsLost == Spec => []NoLostWakeup
<1>1. Init => NoLostWakeup
  BY DEF Init, NoLostWakeup
<1>2. IInv /\ NoLostWakeup /\ [Next]_vars => NoLostWakeup'
  <2> SUFFICES ASSUME IInv, NoLostWakeup, [Next]_vars,
                      LoopIsFree', pending' # <<>>
               PROVE  timer' \/ \E s \in Sessions : execution'[s] = "handled"
    BY DEF NoLostWakeup
  <2> USE DEF NoLostWakeup, LoopIsFree
  <2>1. ASSUME NEW s \in Sessions, Request(s)
        PROVE  timer' \/ \E r \in Sessions : execution'[r] = "handled"
    <3>1. CASE StartAgentSession(s) \/ ResumeAgentSession(s)
      BY <3>1 DEF StartAgentSession, ResumeAgentSession
    <3>2. CASE CancelRunning(s)
      BY <3>2 DEF CancelRunning, queueVars
    <3>3. CASE CancelQueued(s)
      <4>1. RemoveFirst(<<>>, s) = <<>>
        BY DEF RemoveFirst
      <4> QED BY <3>3, <4>1 DEF CancelQueued
    <3> QED BY <2>1, <3>1, <3>2, <3>3 DEF Request
  <2>2. ASSUME NEW s \in Sessions, Execute(s)
        PROVE  timer' \/ \E r \in Sessions : execution'[r] = "handled"
    <3>1. /\ UNCHANGED queueVars
          /\ execution[s] = "executing"
          /\ \E result : execution' = [execution EXCEPT ![s] = result]
      BY <2>2 DEF Execute, PauseForHitl, CompleteSession, FailSession, Executing,
                  EndExecution
    <3> QED BY <3>1 DEF queueVars, IInv, TypeOK
  <2>3. ASSUME NEW s \in Sessions, Settle(s)
        PROVE  timer' \/ \E r \in Sessions : execution'[r] = "handled"
    <3>1. CASE ReleaseSlot(s)
      BY <3>1 DEF ReleaseSlot
    <3>2. CASE ~ReleaseSlot(s)
      <4>1. execution' = [execution EXCEPT ![s] = "handled"]
        BY <2>3, <3>2 DEF Settle, RequeueForRetry, MoveToDeadletters, IgnoreResult
      <4> QED BY <4>1 DEF IInv, TypeOK
    <3> QED BY <3>1, <3>2
  <2>4. CASE TimerFires
    BY <2>4 DEF TimerFires
  <2>5. CASE Drain
    <3>1. CASE EndScan
      BY <3>1 DEF EndScan
    <3>2. CASE ~EndScan
      <4>1. Scanning
        BY <2>5, <3>2 DEF Drain, DropGone, DropCancelled, SkipBlocked, PickNext
      <4>2. cursor > 0 /\ cursor \in Nat
        BY <4>1, ScannedFacts DEF IInv, TypeOK
      <4> QED BY <2>5, <3>2, <4>2
             DEF Drain, DropGone, DropCancelled, SkipBlocked, PickNext
    <3> QED BY <3>1, <3>2
  <2>6. CASE \E g \in Guilds : PolicyRefreshed(g) \/ PolicyExpires(g)
    BY <2>6 DEF PolicyRefreshed, PolicyExpires, queueVars
  <2>7. CASE UNCHANGED vars
    BY <2>7 DEF vars, queueVars
  <2> QED BY <2>1, <2>2, <2>3, <2>4, <2>5, <2>6, <2>7 DEF Next
<1> QED BY <1>1, <1>2, Invariance, PTL DEF Spec

-----------------------------------------------------------------------------
(* The action properties.                                                  *)

\* Attempts are counted in one place, so a session is started only by a pick,
\* and then it had neither an execution nor a slot.
LEMMA StartedFacts ==
    ASSUME IInv, [Next]_vars, NEW s \in Sessions, Started(s)
    PROVE  /\ PickNext
           /\ s = Scanned
           /\ execution[s] = "idle"
           /\ s \notin runningIds
           /\ ~cancelRequested[s]
<1>1. attempts' # attempts
  BY DEF Started
<1>2. PickNext
  <2>1. ~(UNCHANGED attempts)
    BY <1>1
  <2>2. ~(UNCHANGED vars)
    BY <2>1 DEF vars, queueVars
  <2>3. \A r \in Sessions : ~Request(r) /\ ~Execute(r) /\ ~Settle(r)
    BY <2>1 DEF Request, StartAgentSession, CancelQueued, CancelRunning,
       ResumeAgentSession, Execute, PauseForHitl, CompleteSession, FailSession,
       Settle, RequeueForRetry, MoveToDeadletters, IgnoreResult, ReleaseSlot, queueVars
  <2>4. \A g \in Guilds : ~PolicyRefreshed(g) /\ ~PolicyExpires(g)
    BY <2>1 DEF PolicyRefreshed, PolicyExpires, queueVars
  <2>5. ~TimerFires /\ ~DropGone /\ ~DropCancelled /\ ~SkipBlocked /\ ~EndScan
    BY <2>1 DEF TimerFires, DropGone, DropCancelled, SkipBlocked, EndScan
  <2> QED BY <2>2, <2>3, <2>4, <2>5 DEF Next, Drain
<1>3. /\ Scanned \in Sessions
      /\ cursor > 0
      /\ status[Scanned] = "queued"
  BY <1>2, ScannedFacts DEF PickNext, IInv, QueueAgrees
<1>4. s = Scanned
  BY <1>2, <1>3 DEF PickNext, RunScanned, Started, IInv, TypeOK
<1>5. execution[s] = "idle"
  <2>1. execution[s] \in Executions /\ execution[s] \notin Settling
    BY <1>3 DEF IInv, DrainIsAlone, TypeOK
  <2>2. execution[s] # "executing"
    BY <1>3, <1>4 DEF IInv, ExecutionAgrees
  <2> QED BY <2>1, <2>2 DEF Executions
<1>6. s \notin runningIds
  BY <1>5 DEF IInv, SlotsTracked
<1>7. ~cancelRequested[s]
  BY <1>2, <1>4 DEF PickNext, Eligible
<1> QED BY <1>2, <1>4, <1>5, <1>6, <1>7

\* No session is ever executed by two executeSession calls at once.
THEOREM OneExecutionAtATime == Spec => NeverRunsTwice
<1>1. IInv /\ [Next]_vars =>
         [\A s \in Sessions :
             Started(s) => execution[s] = "idle" /\ s \notin runningIds]_vars
  BY StartedFacts
<1> QED BY <1>1, Invariance, PTL DEF Spec, NeverRunsTwice

\* A pick leaves the guild within its limit, whatever happened since the
\* session was admitted.
THEOREM AdmissionIsBounded == Spec => AdmissionBound
<1>1. ASSUME IInv, IInv', [Next]_vars, NEW s \in Sessions, Started(s)
      PROVE  /\ policy[GuildOf[s]] # Unresolved
             /\ Cardinality(RunningOf(GuildOf[s])') <= Slots(GuildOf[s])
  <2> DEFINE g == GuildOf[s]
  <2>1. PickNext /\ s = Scanned /\ g \in Guilds
    BY <1>1, StartedFacts, GuildOfAssumption
  <2>2. guildCounts'[g] = guildCounts[g] + 1 /\ guildCounts[g] \in Nat
    BY <1>1, <2>1 DEF PickNext, RunScanned, IInv, TypeOK
  <2>3. ~(guildCounts[g] >= Slots(g))
    BY <2>1 DEF PickNext, Blocked
  <2>4. policy[g] # Unresolved
    BY <2>2, <2>3 DEF Slots
  <2>5. Slots(g) \in Nat
    BY <1>1, <2>1, <2>4, PoliciesAssumption DEF IInv, TypeOK, Slots
  <2>6. Cardinality(RunningOf(g)') = guildCounts'[g]
    BY <1>1, <2>1 DEF IInv, GuildCountsExact
  <2> HIDE DEF g
  <2>7. Cardinality(RunningOf(g)') <= Slots(g)
    BY <2>2, <2>3, <2>5, <2>6
  <2> QED BY <2>4, <2>7 DEF g
<1>2. IInv /\ IInv' /\ [Next]_vars =>
         [\A s \in Sessions :
             Started(s) =>
                /\ policy[GuildOf[s]] # Unresolved
                /\ Cardinality(RunningOf(GuildOf[s])') <= Slots(GuildOf[s])]_vars
  BY <1>1
<1> QED BY <1>2, Invariance, PTL DEF Spec, AdmissionBound

\* An accepted cancellation is never reset, and its session neither starts
\* again nor completes nor fails.
THEOREM CancellationIsSticky == Spec => CancelIsSticky
<1> DEFINE Kept(s) == /\ cancelRequested'[s]
                      /\ status'[s] \in {status[s], "queued", "cancelled"}
<1>1. ASSUME IInv, [Next]_vars, NEW s \in Sessions, cancelRequested[s]
      PROVE  Kept(s)
  <2> USE DEF IInv
  <2>1. ASSUME NEW r \in Sessions, Request(r)
        PROVE  Kept(s)
    BY <1>1, <2>1 DEF Request, StartAgentSession, CancelQueued, CancelRunning,
       ResumeAgentSession, TypeOK
  <2>2. ASSUME NEW r \in Sessions, Execute(r)
        PROVE  Kept(s)
    BY <1>1, <2>2 DEF Execute, PauseForHitl, CompleteSession, FailSession,
       EndExecution, TypeOK
  <2>3. ASSUME NEW r \in Sessions, Settle(r)
        PROVE  Kept(s)
    <3>1. CASE RequeueForRetry(r)
      <4>1. status[r] = "failed"
        BY <1>1, <3>1 DEF RequeueForRetry, Retriable, ExecutionAgrees, Terminal
      <4>2. r # s
        BY <1>1, <4>1 DEF CancelAgrees
      <4> QED BY <1>1, <3>1, <4>2 DEF RequeueForRetry, TypeOK
    <3>2. CASE ~RequeueForRetry(r)
      BY <1>1, <2>3, <3>2 DEF Settle, MoveToDeadletters, IgnoreResult, ReleaseSlot,
         sessionVars
    <3> QED BY <3>1, <3>2
  <2>4. CASE TimerFires \/ Drain
    <3>1. CASE PickNext
      <4>1. Scanned # s
        BY <1>1, <3>1 DEF PickNext, Eligible
      <4> QED BY <1>1, <3>1, <4>1 DEF PickNext, RunScanned, TypeOK
    <3>2. CASE ~PickNext
      BY <1>1, <2>4, <3>2 DEF Drain, TimerFires, DropGone, DropCancelled, SkipBlocked,
         EndScan, sessionVars, TypeOK
    <3> QED BY <3>1, <3>2
  <2>5. CASE \E g \in Guilds : PolicyRefreshed(g) \/ PolicyExpires(g)
    BY <1>1, <2>5 DEF PolicyRefreshed, PolicyExpires, sessionVars
  <2>6. CASE UNCHANGED vars
    BY <1>1, <2>6 DEF vars, sessionVars
  <2> QED BY <1>1, <2>1, <2>2, <2>3, <2>4, <2>5, <2>6 DEF Next
<1>2. IInv /\ [Next]_vars =>
         [\A s \in Sessions :
             cancelRequested[s] =>
                /\ cancelRequested'[s]
                /\ ~Started(s)
                /\ status'[s] \in {status[s], "queued", "cancelled"}]_vars
  BY <1>1, StartedFacts
<1> QED BY <1>2, Invariance, PTL DEF Spec, CancelIsSticky

\* A session that ended stays as it is, except for the retry of a failed one.
THEOREM EndIsFinal == Spec => FinalIsFinal
<1> DEFINE Final(s) ==
              status[s] \in Terminal /\ status'[s] # status[s] =>
                 /\ status[s] = "failed" /\ status'[s] = "queued"
                 /\ attempts[s] < MaxAttempts
<1>1. ASSUME IInv, [Next]_vars, NEW s \in Sessions
      PROVE  Final(s)
  <2> USE DEF IInv
  <2>1. ASSUME NEW r \in Sessions, Request(r)
        PROVE  Final(s)
    BY <1>1, <2>1 DEF Request, StartAgentSession, CancelQueued, CancelRunning,
       ResumeAgentSession, TypeOK, Terminal
  <2>2. ASSUME NEW r \in Sessions, Execute(r)
        PROVE  Final(s)
    BY <1>1, <2>2 DEF Execute, PauseForHitl, CompleteSession, FailSession, Executing,
       EndExecution, ExecutionAgrees, TypeOK, Terminal
  <2>3. ASSUME NEW r \in Sessions, Settle(r)
        PROVE  Final(s)
    BY <1>1, <2>3 DEF Settle, RequeueForRetry, MoveToDeadletters, IgnoreResult,
       ReleaseSlot, Retriable, ExecutionAgrees, TypeOK, Terminal, sessionVars
  <2>4. CASE TimerFires \/ Drain
    <3>1. CASE PickNext \/ DropCancelled
      <4>1. Scanned \in Sessions /\ status[Scanned] = "queued"
        BY <1>1, <3>1, ScannedFacts DEF PickNext, DropCancelled, QueueAgrees
      <4> QED BY <1>1, <3>1, <4>1 DEF PickNext, RunScanned, DropCancelled, TypeOK, Terminal
    <3>2. CASE ~(PickNext \/ DropCancelled)
      BY <1>1, <2>4, <3>2 DEF Drain, TimerFires, DropGone, SkipBlocked, EndScan,
         sessionVars
    <3> QED BY <3>1, <3>2
  <2>5. CASE \E g \in Guilds : PolicyRefreshed(g) \/ PolicyExpires(g)
    BY <1>1, <2>5 DEF PolicyRefreshed, PolicyExpires, sessionVars
  <2>6. CASE UNCHANGED vars
    BY <1>1, <2>6 DEF vars, sessionVars
  <2> QED BY <1>1, <2>1, <2>2, <2>3, <2>4, <2>5, <2>6 DEF Next
<1>2. IInv /\ [Next]_vars => [\A s \in Sessions : Final(s)]_vars
  BY <1>1
<1> QED BY <1>2, Invariance, PTL DEF Spec, FinalIsFinal

-----------------------------------------------------------------------------
(* The order in which the drain picks from the queue, for every limit and  *)
(* every change of policy while it scans; and the deadletters.             *)

(***************************************************************************)
(* The invariant of the loop: what lies before the cursor cannot run.  It  *)
(* survives the splices because they happen at the cursor, a pick because  *)
(* the scan then restarts, and an expiry because that only blocks more.    *)
(***************************************************************************)
PrefixBlocked == \A j \in 1 .. Len(pending) : j < cursor => Blocked(pending[j])

LEMMA PrefixInit == Init => PrefixBlocked
BY DEF Init, PrefixBlocked

\* No handler but the drain runs while it scans.
LEMMA OutsideTheDrain ==
    ASSUME IInv, cursor' = cursor, cursor = 0
    PROVE  PrefixBlocked'
BY DEF PrefixBlocked

\* A splice at the cursor leaves the scanned prefix as it was.
LEMMA SpliceAtCursor ==
    ASSUME IInv, PrefixBlocked, Scanning, pending' = RemoveAt(pending, cursor),
           UNCHANGED <<guildCounts, policy, cursor>>
    PROVE  PrefixBlocked'
<1>1. pending \in Seq(Sessions) /\ cursor \in 1 .. Len(pending) /\ Len(pending) \in Nat
  BY ScannedFacts, LenProperties DEF IInv, TypeOK
<1>2. /\ Len(pending') = Len(pending) - 1
      /\ \A j \in 1 .. (Len(pending) - 1) :
            pending'[j] = IF j < cursor THEN pending[j] ELSE pending[j + 1]
  BY <1>1, RemoveAtShape
<1>3. ASSUME NEW j \in 1 .. Len(pending'), j < cursor'
      PROVE  Blocked(pending[j]) /\ pending'[j] = pending[j]
  BY <1>1, <1>2, <1>3 DEF PrefixBlocked
<1> QED BY <1>3 DEF PrefixBlocked, Blocked, Slots

LEMMA PrefixNext == IInv /\ PrefixBlocked /\ [Next]_vars => PrefixBlocked'
<1> SUFFICES ASSUME IInv, PrefixBlocked, [Next]_vars PROVE PrefixBlocked'
  OBVIOUS
<1>1. ASSUME NEW s \in Sessions, Request(s) \/ Execute(s) \/ Settle(s)
      PROVE  PrefixBlocked'
  <2>1. cursor = 0 /\ cursor' = cursor
    BY <1>1 DEF Request, StartAgentSession, CancelQueued, CancelRunning,
       ResumeAgentSession, Execute, PauseForHitl, CompleteSession, FailSession,
       Executing, Settle, RequeueForRetry, MoveToDeadletters, IgnoreResult,
       ReleaseSlot, LoopIsFree, queueVars
  <2> QED BY <2>1, OutsideTheDrain
<1>2. CASE TimerFires
  BY <1>2 DEF TimerFires, PrefixBlocked
<1>3. CASE DropGone \/ DropCancelled
  BY <1>3, SpliceAtCursor DEF DropGone, DropCancelled, runVars
<1>4. CASE SkipBlocked
  <2>1. cursor \in 1 .. Len(pending) /\ Len(pending) \in Nat
    BY <1>4, ScannedFacts, LenProperties DEF IInv, TypeOK, SkipBlocked
  <2>2. ASSUME NEW j \in 1 .. Len(pending), j < cursor + 1
        PROVE  Blocked(pending[j])
    BY <1>4, <2>1, <2>2 DEF SkipBlocked, Scanned, PrefixBlocked
  <2> QED BY <1>4, <2>2 DEF SkipBlocked, PrefixBlocked, Blocked, Slots, runVars
<1>5. CASE PickNext
  BY <1>5 DEF PickNext, PrefixBlocked
<1>6. CASE EndScan
  BY <1>6 DEF EndScan, PrefixBlocked
<1>7. ASSUME NEW g \in Guilds, PolicyRefreshed(g)
      PROVE  PrefixBlocked'
  BY <1>7, OutsideTheDrain DEF PolicyRefreshed, LoopIsFree, queueVars
<1>8. ASSUME NEW g \in Guilds, PolicyExpires(g)
      PROVE  PrefixBlocked'
  <2>1. /\ policy' = [policy EXCEPT ![g] = Unresolved]
        /\ UNCHANGED <<pending, cursor, guildCounts>>
    BY <1>8 DEF PolicyExpires, runVars, queueVars
  <2>2. ASSUME NEW j \in 1 .. Len(pending), j < cursor
        PROVE  Blocked(pending[j])'
    <3>1. Blocked(pending[j]) /\ pending[j] \in Sessions
      BY <2>2, ElementOfSeq DEF PrefixBlocked, IInv, TypeOK
    <3>2. /\ GuildOf[pending[j]] \in Guilds
          /\ guildCounts[GuildOf[pending[j]]] \in Nat
      BY <3>1, GuildOfAssumption DEF IInv, TypeOK
    <3>3. CASE GuildOf[pending[j]] = g
      BY <2>1, <3>2, <3>3 DEF Blocked, Slots, IInv, TypeOK
    <3>4. CASE GuildOf[pending[j]] # g
      BY <2>1, <3>1, <3>2, <3>4 DEF Blocked, Slots, IInv, TypeOK
    <3> QED BY <3>3, <3>4
  <2> QED BY <2>1, <2>2 DEF PrefixBlocked
<1>9. CASE UNCHANGED vars
  BY <1>9 DEF PrefixBlocked, Blocked, Slots, vars, queueVars, runVars
<1> QED BY <1>1, <1>2, <1>3, <1>4, <1>5, <1>6, <1>7, <1>8, <1>9 DEF Next, Drain

LEMMA PrefixInvariance == Spec => []PrefixBlocked
BY PrefixInit, PrefixNext, Invariance, PTL DEF Spec

-----------------------------------------------------------------------------
\* A started session overtakes none of its guild's sessions that waited
\* before it, although the drain skips over blocked ones of other guilds.
THEOREM GuildsAreServedInOrder == Spec => FifoPerGuild
<1>1. ASSUME IInv, PrefixBlocked, [Next]_vars, NEW s \in Sessions, Started(s),
             NEW i \in DOMAIN pending, NEW j \in DOMAIN pending,
             i < j, pending[j] = s
      PROVE  GuildOf[pending[i]] # GuildOf[s]
  <2>1. PickNext /\ s = Scanned
    BY <1>1, StartedFacts
  <2>2. /\ cursor \in 1 .. Len(pending)
        /\ DOMAIN pending = 1 .. Len(pending)
        /\ Len(pending) \in Nat
    BY <1>1, <2>1, ScannedFacts, LenProperties DEF PickNext, IInv, TypeOK
  <2>3. j = cursor
    BY <1>1, <2>1, <2>2 DEF Scanned, IInv, QueueAgrees, IsInjective
  <2>4. Blocked(pending[i])
    BY <1>1, <2>2, <2>3 DEF PrefixBlocked
  <2> QED BY <2>1, <2>4 DEF PickNext, Blocked
<1>2. IInv /\ PrefixBlocked /\ [Next]_vars =>
         [\A s \in Sessions :
             Started(s) =>
                \A i, j \in DOMAIN pending :
                   i < j /\ pending[j] = s => GuildOf[pending[i]] # GuildOf[s]]_vars
  BY <1>1
<1> QED BY <1>2, Invariance, PrefixInvariance, PTL DEF Spec, FifoPerGuild

\* What the drain leaves in the queue when it returns is blocked: the splices
\* make it skip nothing.
THEOREM DrainLeavesNothingRunnable == Spec => WorkConserving
<1>1. ASSUME IInv, PrefixBlocked, [Next]_vars, cursor > 0, cursor' = 0,
             NEW i \in DOMAIN pending
      PROVE  Blocked(pending[i])
  <2>1. EndScan
    <3>1. ~(UNCHANGED cursor)
      BY <1>1
    <3>2. cursor # 0 /\ cursor \in Nat
      BY <1>1 DEF IInv, TypeOK
    <3>3. ~(UNCHANGED vars)
      BY <3>1 DEF vars, queueVars
    <3>4. \A s \in Sessions : ~Request(s) /\ ~Execute(s) /\ ~Settle(s)
      BY <3>2 DEF Request, StartAgentSession, CancelQueued, CancelRunning,
         ResumeAgentSession, Execute, PauseForHitl, CompleteSession, FailSession,
         Executing, Settle, RequeueForRetry, MoveToDeadletters, IgnoreResult,
         ReleaseSlot, LoopIsFree
    <3>5. \A g \in Guilds : ~PolicyRefreshed(g) /\ ~PolicyExpires(g)
      BY <3>1 DEF PolicyRefreshed, PolicyExpires, queueVars
    <3>6. ~TimerFires /\ ~DropGone /\ ~DropCancelled /\ ~SkipBlocked /\ ~PickNext
      BY <1>1, <3>1, <3>2 DEF TimerFires, DropGone, DropCancelled, SkipBlocked, PickNext
    <3> QED BY <1>1, <3>3, <3>4, <3>5, <3>6 DEF Next, Drain
  <2>2. cursor > Len(pending) /\ cursor \in Nat /\ Len(pending) \in Nat
    BY <1>1, <2>1, LenProperties DEF EndScan, IInv, TypeOK
  <2>3. i \in 1 .. Len(pending)
    BY <1>1, LenProperties DEF IInv, TypeOK
  <2> QED BY <1>1, <2>2, <2>3 DEF PrefixBlocked
<1>2. IInv /\ PrefixBlocked /\ [Next]_vars =>
         [cursor > 0 /\ cursor' = 0 => \A i \in DOMAIN pending : Blocked(pending[i])]_vars
  BY <1>1
<1> QED BY <1>2, Invariance, PrefixInvariance, PTL DEF Spec, WorkConserving

-----------------------------------------------------------------------------


(***************************************************************************)
(* The inductive invariant, relative to IInv.  A session is recorded by    *)
(* the one .then that follows its last execution, so it is not in the list *)
(* before, and no execution follows.                                       *)
(***************************************************************************)
LettersAgree ==
    /\ Len(deadletters) <= MaxDeadletters
    /\ IsInjective(deadletters)
    /\ \A s \in Sessions :
          Contains(deadletters, s) =>
             /\ status[s] = "failed"
             /\ attempts[s] >= MaxAttempts
             /\ execution[s] \in {"idle", "handled"}

\* A paused execution did not fail.
PauseIsNoFailure == \A s \in Sessions : execution[s] = "queued" => status[s] # "failed"

FInv == LettersAgree /\ FailuresAreRecorded /\ PauseIsNoFailure

\* deadletters.unshift and the cut: the new one is first, the order of the
\* others is kept, and something is dropped only when the list is full.
LEMMA DeadletteredFacts ==
    ASSUME IInv, LettersAgree, NEW s \in Sessions, ~Contains(deadletters, s)
    PROVE  /\ Len(Deadlettered(s)) \in Nat
           /\ Len(Deadlettered(s)) <= MaxDeadletters
           /\ IsInjective(Deadlettered(s))
           /\ \A x : Contains(Deadlettered(s), x) => x = s \/ Contains(deadletters, x)
           /\ \/ Len(Deadlettered(s)) = MaxDeadletters
              \/ \A x : x = s \/ Contains(deadletters, x) => Contains(Deadlettered(s), x)
<1> DEFINE letters == <<s>> \o deadletters
<1>1. /\ MaxDeadletters \in Nat \ {0}
      /\ deadletters \in Seq(Sessions)
      /\ Len(deadletters) \in Nat
      /\ DOMAIN deadletters = 1 .. Len(deadletters)
  BY LimitsAssumption, LenProperties DEF IInv, TypeOK
<1>2. /\ letters \in Seq(Sessions)
      /\ Len(letters) = Len(deadletters) + 1
      /\ DOMAIN letters = 1 .. Len(letters)
      /\ letters[1] = s
      /\ \A i \in 1 .. Len(deadletters) : letters[i + 1] = deadletters[i]
  BY <1>1
<1> HIDE DEF letters
<1>3. \A i \in 2 .. Len(letters) : /\ i - 1 \in 1 .. Len(deadletters)
                                   /\ letters[i] = deadletters[i - 1]
  <2>1. ASSUME NEW i \in 2 .. Len(letters)
        PROVE  i - 1 \in 1 .. Len(deadletters) /\ (i - 1) + 1 = i
    BY <1>1, <1>2
  <2> QED BY <1>2, <2>1
<1>4. \A x : Contains(letters, x) <=> x = s \/ Contains(deadletters, x)
  <2>1. ASSUME NEW x, Contains(letters, x) PROVE x = s \/ Contains(deadletters, x)
    <3>1. PICK i \in 1 .. Len(letters) : letters[i] = x
      BY <2>1 DEF Contains
    <3>2. i = 1 \/ i \in 2 .. Len(letters)
      BY <1>1, <1>2
    <3> QED BY <1>2, <1>3, <3>1, <3>2 DEF Contains
  <2>2. ASSUME NEW x, Contains(deadletters, x) PROVE Contains(letters, x)
    <3>1. PICK i \in 1 .. Len(deadletters) : deadletters[i] = x
      BY <2>2 DEF Contains
    <3>2. i + 1 \in 1 .. Len(letters) /\ letters[i + 1] = x
      BY <1>1, <1>2, <3>1
    <3> QED BY <3>2 DEF Contains
  <2>3. Contains(letters, s)
    <3>1. 1 \in 1 .. Len(letters)
      BY <1>1, <1>2
    <3> QED BY <1>2, <3>1 DEF Contains
  <2> QED BY <2>1, <2>2, <2>3
<1>5. \A i, j \in 1 .. Len(letters) : letters[i] = letters[j] => i = j
  <2>1. \A i \in 2 .. Len(letters) : letters[i] # s
    BY <1>3 DEF Contains
  <2>2. \A i, j \in 2 .. Len(letters) : letters[i] = letters[j] => i = j
    <3> SUFFICES ASSUME NEW i \in 2 .. Len(letters), NEW j \in 2 .. Len(letters),
                        letters[i] = letters[j]
                 PROVE  i = j
      OBVIOUS
    <3>1. \A a, b \in 1 .. Len(deadletters) : deadletters[a] = deadletters[b] => a = b
      BY <1>1 DEF LettersAgree, IsInjective
    <3>2. i - 1 = j - 1
      BY <1>3, <3>1
    <3> QED BY <1>1, <1>2, <3>2
  <2>3. \A i \in 1 .. Len(letters) : i = 1 \/ i \in 2 .. Len(letters)
    BY <1>1, <1>2
  <2> QED BY <1>2, <2>1, <2>2, <2>3
<1>6. CASE Len(letters) > MaxDeadletters
  <2> DEFINE cut == SubSeq(letters, 1, MaxDeadletters)
  <2>1. Deadlettered(s) = cut
    BY <1>6 DEF Deadlettered, letters
  <2>2. /\ Len(cut) = MaxDeadletters
        /\ DOMAIN cut = 1 .. MaxDeadletters
        /\ \A i \in 1 .. MaxDeadletters : /\ cut[i] = letters[i]
                                          /\ i \in 1 .. Len(letters)
    BY <1>1, <1>2, <1>6
  <2> HIDE DEF cut
  <2>3. IsInjective(cut)
    BY <1>5, <2>2 DEF IsInjective
  <2>4. \A x : Contains(cut, x) => Contains(letters, x)
    BY <2>2 DEF Contains
  <2> QED BY <1>1, <1>4, <2>1, <2>2, <2>3, <2>4
<1>7. CASE ~(Len(letters) > MaxDeadletters)
  <2>1. Deadlettered(s) = letters
    BY <1>7 DEF Deadlettered, letters
  <2>2. IsInjective(letters)
    BY <1>2, <1>5 DEF IsInjective
  <2> QED BY <1>1, <1>2, <1>4, <1>7, <2>1, <2>2
<1> QED BY <1>6, <1>7

LEMMA FailureInit == Init => FInv
BY LimitsAssumption DEF Init, FInv, LettersAgree, FailuresAreRecorded, IsInjective, Contains,
   PauseIsNoFailure

\* A step that changes no session that failed, and no attempt of one.
LEMMA FailuresUntouched ==
    ASSUME FInv, deadletters' = deadletters,
           \A s \in Sessions : /\ s \in sessions' /\ status'[s] = "failed" => s \in sessions
                               /\ status[s] = "failed" =>
                                    /\ status'[s] = "failed"
                                    /\ attempts'[s] = attempts[s]
                                    /\ execution'[s] = execution[s]
                               /\ status[s] # "failed" => status'[s] # "failed"
                               /\ execution'[s] = "queued" => execution[s] = "queued",
           sessions' \subseteq Sessions
    PROVE  FInv'
<1>1. LettersAgree'
  BY DEF FInv, LettersAgree
<1>2. FailuresAreRecorded'
  BY DEF FInv, FailuresAreRecorded
<1>3. PauseIsNoFailure'
  BY DEF FInv, PauseIsNoFailure
<1> QED BY <1>1, <1>2, <1>3 DEF FInv

LEMMA RequestFailure ==
    ASSUME IInv, IInv', FInv, NEW s \in Sessions, Request(s)
    PROVE  FInv'
<1>1. CASE StartAgentSession(s)
  <2>1. /\ status' = [status EXCEPT ![s] = "queued"]
        /\ status[s] = "unborn"
        /\ sessions' \subseteq sessions \union {s}
        /\ UNCHANGED <<deadletters, attempts, execution>>
    BY <1>1 DEF StartAgentSession
  <2> QED BY <2>1, FailuresUntouched DEF IInv, TypeOK
<1>2. CASE CancelQueued(s) \/ CancelRunning(s) \/ ResumeAgentSession(s)
  BY <1>2, FailuresUntouched DEF CancelQueued, CancelRunning, ResumeAgentSession,
     queueVars, IInv, TypeOK
<1> QED BY <1>1, <1>2 DEF Request

LEMMA DrainFailure ==
    ASSUME IInv, IInv', FInv, TimerFires \/ Drain
    PROVE  FInv'
<1>1. CASE TimerFires \/ DropGone \/ SkipBlocked \/ EndScan
  BY <1>1, FailuresUntouched DEF TimerFires, DropGone, SkipBlocked, EndScan,
     sessionVars, IInv, TypeOK
<1>2. CASE DropCancelled \/ PickNext
  <2>1. Scanned \in Sessions /\ status[Scanned] = "queued"
    BY <1>2, ScannedFacts DEF DropCancelled, PickNext, IInv, QueueAgrees
  <2> QED BY <1>2, <2>1, FailuresUntouched DEF DropCancelled, PickNext, RunScanned,
          IInv, TypeOK
<1> QED BY <1>1, <1>2 DEF Drain

LEMMA ExecuteFailure ==
    ASSUME IInv, FInv, NEW s \in Sessions, Execute(s)
    PROVE  FInv'
<1>1. /\ status[s] = "running"
      /\ UNCHANGED <<sessions, attempts, deadletters>>
  BY DEF Execute, PauseForHitl, CompleteSession, FailSession, Executing, queueVars,
     IInv, ExecutionAgrees
<1>2. PICK result \in Results : EndExecution(s, result)
  BY DEF Execute, PauseForHitl, CompleteSession, FailSession, Results, Terminal
<1>3. LettersAgree'
  BY <1>1, <1>2 DEF EndExecution, FInv, LettersAgree, IInv, TypeOK
<1>4. FailuresAreRecorded'
  BY <1>1, <1>2 DEF EndExecution, FInv, FailuresAreRecorded, IInv, TypeOK, Results, Terminal
<1>5. PauseIsNoFailure'
  BY <1>1, <1>2 DEF EndExecution, FInv, PauseIsNoFailure, IInv, TypeOK
<1> QED BY <1>3, <1>4, <1>5 DEF FInv

LEMMA SettleFailure ==
    ASSUME IInv, FInv, NEW s \in Sessions, Settle(s)
    PROVE  FInv'
<1>1. ASSUME RequeueForRetry(s) PROVE LettersAgree' /\ FailuresAreRecorded'
  <2>1. /\ status' = [status EXCEPT ![s] = "queued"]
        /\ execution[s] = "failed"
        /\ execution' = [execution EXCEPT ![s] = "handled"]
        /\ UNCHANGED <<sessions, attempts, deadletters>>
    BY <1>1 DEF RequeueForRetry, Retriable
  <2>2. LettersAgree'
    BY <2>1 DEF FInv, LettersAgree, IInv, TypeOK
  <2>3. FailuresAreRecorded'
    BY <2>1 DEF FInv, FailuresAreRecorded, IInv, TypeOK
  <2> QED BY <2>2, <2>3
<1>2. ASSUME MoveToDeadletters(s) PROVE LettersAgree' /\ FailuresAreRecorded'
  <2>1. /\ execution[s] = "failed"
        /\ status[s] = "failed"
        /\ attempts[s] >= MaxAttempts
        /\ deadletters' = Deadlettered(s)
        /\ execution' = [execution EXCEPT ![s] = "handled"]
        /\ UNCHANGED <<sessions, status, attempts>>
    BY <1>2, LimitsAssumption DEF MoveToDeadletters, Retriable, sessionVars, IInv,
       TypeOK, ExecutionAgrees, Terminal
  <2>2. ~Contains(deadletters, s)
    BY <2>1 DEF FInv, LettersAgree
  <2>3. LettersAgree'
    BY <2>1, <2>2, DeadletteredFacts DEF FInv, LettersAgree, IInv, TypeOK
  <2>4. FailuresAreRecorded'
    <3> SUFFICES ASSUME NEW r \in sessions, status[r] = "failed",
                        execution'[r] \in {"idle", "handled"},
                        Len(deadletters') # MaxDeadletters
                 PROVE  Contains(deadletters', r)
      BY <2>1 DEF FailuresAreRecorded
    <3>1. \A x : x = s \/ Contains(deadletters, x) => Contains(deadletters', x)
      BY <2>1, <2>2, DeadletteredFacts DEF FInv
    <3>2. CASE r # s
      <4>1. Contains(deadletters, r) \/ Len(deadletters) = MaxDeadletters
        BY <2>1, <3>2 DEF FInv, FailuresAreRecorded, IInv, TypeOK
      <4>2. CASE Len(deadletters) = MaxDeadletters
        <5>1. /\ deadletters \in Seq(Sessions)
              /\ Len(<<s>> \o deadletters) = Len(deadletters) + 1
              /\ MaxDeadletters \in Nat \ {0}
          BY LimitsAssumption DEF IInv, TypeOK
        <5>2. /\ Len(<<s>> \o deadletters) > MaxDeadletters
              /\ 1 .. MaxDeadletters \subseteq 1 .. Len(<<s>> \o deadletters)
          BY <4>2, <5>1
        <5>3. Len(SubSeq(<<s>> \o deadletters, 1, MaxDeadletters)) = MaxDeadletters
          BY <5>1, <5>2
        <5> QED BY <2>1, <5>2, <5>3 DEF Deadlettered
      <4> QED BY <3>1, <4>1, <4>2
    <3> QED BY <3>1, <3>2
  <2> QED BY <2>3, <2>4
<1>3. ASSUME IgnoreResult(s) PROVE LettersAgree' /\ FailuresAreRecorded'
  <2>1. /\ execution[s] \in Results
        /\ execution[s] = "failed" => s \notin sessions
        /\ execution' = [execution EXCEPT ![s] = "handled"]
        /\ UNCHANGED <<sessions, status, attempts, deadletters>>
    BY <1>3 DEF IgnoreResult, sessionVars, queueVars, Results, Terminal
  <2>2. status[s] = "failed" => s \notin sessions
    BY <2>1 DEF IInv, ExecutionAgrees, Results, Terminal, FInv, PauseIsNoFailure
  <2>3. LettersAgree'
    BY <2>1 DEF FInv, LettersAgree, IInv, TypeOK
  <2>4. FailuresAreRecorded'
    BY <2>1, <2>2 DEF FInv, FailuresAreRecorded, IInv, TypeOK
  <2> QED BY <2>3, <2>4
<1>4. ASSUME ReleaseSlot(s) PROVE LettersAgree' /\ FailuresAreRecorded'
  <2>1. /\ execution[s] = "handled"
        /\ execution' = [execution EXCEPT ![s] = "idle"]
        /\ UNCHANGED <<sessions, status, attempts, deadletters>>
    BY <1>4 DEF ReleaseSlot, sessionVars
  <2>2. LettersAgree'
    BY <2>1 DEF FInv, LettersAgree, IInv, TypeOK
  <2>3. FailuresAreRecorded'
    BY <2>1 DEF FInv, FailuresAreRecorded, IInv, TypeOK
  <2> QED BY <2>2, <2>3
<1>5. PauseIsNoFailure'
  <2>1. PICK result \in {"handled", "idle"} :
           /\ execution' = [execution EXCEPT ![s] = result]
           /\ \A r \in Sessions \ {s} : status'[r] = status[r]
    BY DEF Settle, RequeueForRetry, MoveToDeadletters, IgnoreResult, ReleaseSlot,
       sessionVars, IInv, TypeOK
  <2> QED BY <2>1 DEF FInv, PauseIsNoFailure, IInv, TypeOK
<1> QED BY <1>1, <1>2, <1>3, <1>4, <1>5 DEF Settle, FInv

LEMMA FailureNext == IInv /\ IInv' /\ FInv /\ [Next]_vars => FInv'
<1> SUFFICES ASSUME IInv, IInv', FInv, [Next]_vars PROVE FInv'
  OBVIOUS
<1>1. ASSUME NEW g \in Guilds, PolicyRefreshed(g) \/ PolicyExpires(g)
      PROVE  FInv'
  BY <1>1, FailuresUntouched DEF PolicyRefreshed, PolicyExpires, sessionVars, queueVars,
     IInv, TypeOK
<1>2. CASE UNCHANGED vars
  BY <1>2, FailuresUntouched DEF vars, sessionVars, queueVars, IInv, TypeOK
<1> QED BY <1>1, <1>2, RequestFailure, ExecuteFailure, SettleFailure, DrainFailure DEF Next

LEMMA FailureInvariance == Spec => []FInv
BY FailureInit, FailureNext, Invariance, PTL DEF Spec

-----------------------------------------------------------------------------
\* A deadletter failed for good, with no attempt left, and is listed once.
THEOREM DeadlettersStay == Spec => []DeadlettersAreFinal
<1>1. IInv /\ FInv => DeadlettersAreFinal
  <2> SUFFICES ASSUME IInv, FInv PROVE DeadlettersAreFinal
    OBVIOUS
  <2>1. ASSUME NEW i \in DOMAIN deadletters
        PROVE  deadletters[i] \in Sessions /\ Contains(deadletters, deadletters[i])
    BY <2>1, LenProperties, ElementOfSeq DEF IInv, TypeOK, Contains
  <2> QED BY <2>1 DEF FInv, LettersAgree, DeadlettersAreFinal, IsInjective, IInv, QueueAgrees
<1> QED BY <1>1, Invariance, FailureInvariance, PTL

\* The final failure of a session that is still in the Map is recorded, unless
\* newer ones fill the list.
THEOREM NoFailureIsDropped == Spec => []FailuresAreRecorded
<1>1. FInv => FailuresAreRecorded
  BY DEF FInv
<1> QED BY <1>1, FailureInvariance, PTL

-----------------------------------------------------------------------------
(* The life of one session: that it is the one of SessionLifecycle, that   *)
(* no queued session is stranded, how often a session is executed.         *)

(***************************************************************************)
(* The second inductive invariant, relative to IInv.  A session that waits *)
(* for a human is in no queue, and what it has left of its attempts        *)
(* depends on whether a human decided.                                     *)
(***************************************************************************)
HumanAgrees ==
    \A s \in Sessions :
       /\ hitl[s] = "awaiting" => ~Contains(pending, s)
       /\ status[s] = "unborn" => hitl[s] = "none" /\ attempts[s] = 0

AttemptsLeft ==
    \A s \in Sessions :
       LET allowed == IF hitl[s] = "decided" THEN MaxAttempts + 1 ELSE MaxAttempts
       IN  /\ attempts[s] <= allowed
           /\ Contains(pending, s) => attempts[s] < allowed

SInv == HumanAgrees /\ AttemptsLeft /\ NoStrandedSession

LEMMA SessionInit == Init => SInv
<1> SUFFICES ASSUME Init PROVE SInv
  OBVIOUS
<1>1. MaxAttempts \in Nat
  BY LimitsAssumption
<1> QED BY <1>1 DEF Init, SInv, HumanAgrees, AttemptsLeft, NoStrandedSession, Contains

\* A step that leaves the sessions, the queue and the attempts alone.
LEMMA SessionUntouched ==
    ASSUME SInv, UNCHANGED <<sessionVars, pending, attempts>>
    PROVE  SInv'
BY DEF SInv, HumanAgrees, AttemptsLeft, NoStrandedSession, sessionVars

LEMMA RequestSession ==
    ASSUME IInv, SInv, NEW s \in Sessions, Request(s)
    PROVE  SInv'
<1> USE LimitsAssumption DEF SInv
<1>1. CASE StartAgentSession(s)
  <2>1. \A x : Contains(pending', x) <=> Contains(pending, x) \/ x = s
    BY <1>1, EnqueuedFacts DEF StartAgentSession, IInv, QueueAgrees, TypeOK
  <2>2. /\ status' = [status EXCEPT ![s] = "queued"]
        /\ status[s] = "unborn"
        /\ sessions' \subseteq sessions \union {s}
        /\ UNCHANGED <<hitl, attempts>>
    BY <1>1 DEF StartAgentSession
  <2>3. HumanAgrees'
    BY <2>1, <2>2 DEF HumanAgrees, IInv, TypeOK
  <2>4. AttemptsLeft'
    BY <2>1, <2>2 DEF HumanAgrees, AttemptsLeft, IInv, TypeOK
  <2>5. NoStrandedSession'
    BY <2>1, <2>2 DEF NoStrandedSession, IInv, TypeOK
  <2> QED BY <2>3, <2>4, <2>5
<1>2. CASE CancelQueued(s)
  <2>1. \A x : Contains(pending', x) <=> Contains(pending, x) /\ x # s
    BY <1>2, RemoveFirstFacts DEF CancelQueued, IInv, QueueAgrees, TypeOK
  <2>2. /\ status' = [status EXCEPT ![s] = "cancelled"]
        /\ UNCHANGED <<sessions, hitl, attempts>>
    BY <1>2 DEF CancelQueued
  <2>3. HumanAgrees'
    BY <2>1, <2>2 DEF HumanAgrees, IInv, TypeOK
  <2>4. AttemptsLeft'
    BY <2>1, <2>2 DEF AttemptsLeft, IInv, TypeOK
  <2>5. NoStrandedSession'
    BY <2>1, <2>2 DEF NoStrandedSession, IInv, TypeOK
  <2> QED BY <2>3, <2>4, <2>5
<1>3. CASE CancelRunning(s)
  BY <1>3 DEF CancelRunning, HumanAgrees, AttemptsLeft, NoStrandedSession, queueVars
<1>4. CASE ResumeAgentSession(s)
  <2>1. \A x : Contains(pending', x) <=> Contains(pending, x) \/ x = s
    BY <1>4, EnqueuedFacts DEF ResumeAgentSession, IInv, QueueAgrees, TypeOK
  <2>2. /\ status' = status
        /\ status[s] = "queued"
        /\ s \in sessions
        /\ hitl' = [hitl EXCEPT ![s] = "decided"]
        /\ UNCHANGED <<sessions, attempts>>
    BY <1>4 DEF ResumeAgentSession, IInv, TypeOK
  <2>3. HumanAgrees'
    BY <2>1, <2>2 DEF HumanAgrees, IInv, TypeOK
  <2>4. AttemptsLeft'
    <3>1. attempts[s] < MaxAttempts + 1
      <4>1. attempts[s] \in Nat /\ MaxAttempts \in Nat
        BY DEF IInv, TypeOK
      <4>2. CASE Contains(pending, s)
        BY <4>1, <4>2 DEF AttemptsLeft
      <4>3. CASE hitl[s] = "awaiting"
        BY <4>1, <4>3 DEF AttemptsLeft
      <4> QED BY <2>2, <4>2, <4>3 DEF NoStrandedSession
    <3> QED BY <2>1, <2>2, <3>1 DEF AttemptsLeft, IInv, TypeOK
  <2>5. NoStrandedSession'
    BY <2>1, <2>2 DEF NoStrandedSession, IInv, TypeOK
  <2> QED BY <2>3, <2>4, <2>5
<1> QED BY <1>1, <1>2, <1>3, <1>4 DEF Request

LEMMA DrainSession ==
    ASSUME IInv, SInv, TimerFires \/ Drain
    PROVE  SInv'
<1> USE LimitsAssumption DEF SInv
<1>1. CASE TimerFires \/ SkipBlocked \/ EndScan
  BY <1>1, SessionUntouched DEF TimerFires, SkipBlocked, EndScan
<1>2. CASE DropGone \/ DropCancelled \/ PickNext
  <2>1. /\ Scanned \in Sessions
        /\ cursor \in 1 .. Len(pending)
        /\ pending' = RemoveAt(pending, cursor)
        /\ status[Scanned] = "queued"
        /\ Contains(pending, Scanned)
        /\ UNCHANGED <<sessions, hitl>>
    BY <1>2, ScannedFacts DEF DropGone, DropCancelled, PickNext, RunScanned,
       sessionVars, IInv, QueueAgrees
  <2>2. \A x : Contains(pending', x) <=> Contains(pending, x) /\ x # Scanned
    BY <2>1, RemoveAtFacts DEF IInv, QueueAgrees, TypeOK, Scanned
  <2>3. CASE DropGone
    BY <2>1, <2>2, <2>3 DEF DropGone, HumanAgrees, AttemptsLeft, NoStrandedSession,
       sessionVars
  <2>4. CASE DropCancelled
    BY <2>1, <2>2, <2>4 DEF DropCancelled, HumanAgrees, AttemptsLeft, NoStrandedSession,
       IInv, TypeOK
  <2>5. CASE PickNext
    <3>1. /\ status' = [status EXCEPT ![Scanned] = "running"]
          /\ attempts' = [attempts EXCEPT ![Scanned] = @ + 1]
      BY <2>5 DEF PickNext, RunScanned
    <3>2. HumanAgrees' /\ NoStrandedSession'
      BY <2>1, <2>2, <3>1 DEF HumanAgrees, NoStrandedSession, IInv, TypeOK
    <3>3. AttemptsLeft'
      BY <2>1, <2>2, <3>1 DEF AttemptsLeft, IInv, TypeOK
    <3> QED BY <3>2, <3>3
  <2> QED BY <1>2, <2>3, <2>4, <2>5
<1> QED BY <1>1, <1>2 DEF Drain

LEMMA ExecuteSession ==
    ASSUME IInv, SInv, NEW s \in Sessions, Execute(s)
    PROVE  SInv'
<1> USE LimitsAssumption DEF SInv
<1>1. /\ status[s] = "running"
      /\ ~Contains(pending, s)
      /\ UNCHANGED <<sessions, pending, attempts>>
  BY DEF Execute, PauseForHitl, CompleteSession, FailSession, Executing, queueVars,
     IInv, ExecutionAgrees, QueueAgrees
<1>2. CASE PauseForHitl(s)
  BY <1>1, <1>2 DEF PauseForHitl, EndExecution, HumanAgrees, AttemptsLeft,
     NoStrandedSession, IInv, TypeOK
<1>3. CASE CompleteSession(s) \/ FailSession(s)
  BY <1>1, <1>3 DEF CompleteSession, FailSession, EndExecution, HumanAgrees,
     AttemptsLeft, NoStrandedSession, IInv, TypeOK
<1> QED BY <1>2, <1>3 DEF Execute

LEMMA SettleSession ==
    ASSUME IInv, SInv, NEW s \in Sessions, Settle(s)
    PROVE  SInv'
<1> USE LimitsAssumption DEF SInv
<1>1. CASE RequeueForRetry(s)
  <2>1. \A x : Contains(pending', x) <=> Contains(pending, x) \/ x = s
    BY <1>1, EnqueuedFacts DEF RequeueForRetry, IInv, QueueAgrees, TypeOK
  <2>2. /\ status' = [status EXCEPT ![s] = "queued"]
        /\ hitl' = [hitl EXCEPT ![s] = "none"]
        /\ attempts[s] < MaxAttempts
        /\ UNCHANGED <<sessions, attempts>>
    BY <1>1 DEF RequeueForRetry, Retriable
  <2>3. HumanAgrees'
    BY <2>1, <2>2 DEF HumanAgrees, IInv, TypeOK
  <2>4. AttemptsLeft'
    BY <2>1, <2>2 DEF AttemptsLeft, IInv, TypeOK
  <2>5. NoStrandedSession'
    BY <2>1, <2>2 DEF NoStrandedSession, IInv, TypeOK
  <2> QED BY <2>3, <2>4, <2>5
<1>2. CASE MoveToDeadletters(s) \/ IgnoreResult(s) \/ ReleaseSlot(s)
  BY <1>2, SessionUntouched DEF MoveToDeadletters, IgnoreResult, ReleaseSlot, queueVars
<1> QED BY <1>1, <1>2 DEF Settle

LEMMA SessionNext == IInv /\ SInv /\ [Next]_vars => SInv'
<1> SUFFICES ASSUME IInv, SInv, [Next]_vars PROVE SInv'
  OBVIOUS
<1>1. CASE Next
  <2>1. ASSUME NEW g \in Guilds, PolicyRefreshed(g) \/ PolicyExpires(g)
        PROVE  SInv'
    BY <2>1, SessionUntouched DEF PolicyRefreshed, PolicyExpires, queueVars
  <2> QED BY <1>1, <2>1, RequestSession, ExecuteSession, SettleSession, DrainSession
          DEF Next
<1>2. CASE UNCHANGED vars
  BY <1>2, SessionUntouched DEF vars, queueVars
<1> QED BY <1>1, <1>2

LEMMA SessionInvariance == Spec => []SInv
BY SessionInit, SessionNext, Invariance, PTL DEF Spec

-----------------------------------------------------------------------------
\* A session the Map holds as queued waits in the queue, or for a human.
THEOREM NoSessionIsStranded == Spec => []NoStrandedSession
<1>1. SInv => NoStrandedSession
  BY DEF SInv
<1> QED BY <1>1, SessionInvariance, PTL

\* Whatever failures, pauses and resumes happen, a session is executed at most
\* once more than AGENT_SESSION_MAX_ATTEMPTS says.
THEOREM ExecutionsAreBounded == Spec => []AttemptsBounded
<1>1. IInv /\ SInv => AttemptsBounded
  BY LimitsAssumption DEF SInv, AttemptsLeft, AttemptsBounded, IInv, TypeOK
<1> QED BY <1>1, Invariance, SessionInvariance, PTL

-----------------------------------------------------------------------------
(* The refinement of SessionLifecycle: which step of a life each operation *)
(* is for its session; every other session stutters.                       *)

Step(s) == Life(s)!Next \/ UNCHANGED Life(s)!vars

LEMMA LifeStutters ==
    ASSUME NEW s \in Sessions,
           status'[s] = status[s], cancelRequested'[s] = cancelRequested[s],
           hitl'[s] = hitl[s]
    PROVE  Step(s)
BY DEF Step, Life!vars

LEMMA RequestLife ==
    ASSUME IInv, SInv, NEW r \in Sessions, Request(r), NEW s \in Sessions
    PROVE  Step(s)
<1>1. CASE r # s
  BY <1>1, LifeStutters DEF Request, StartAgentSession, CancelQueued, CancelRunning,
     ResumeAgentSession, IInv, TypeOK
<1>2. CASE r = s /\ StartAgentSession(s)
  <2>1. Life(s)!Start
    BY <1>2 DEF StartAgentSession, Life!Start, IInv, TypeOK
  <2> QED BY <2>1 DEF Step, Life!Next
<1>3. CASE r = s /\ (CancelQueued(s) \/ CancelRunning(s))
  <2>1. Life(s)!Cancel
    BY <1>3 DEF CancelQueued, CancelRunning, Life!Cancel, IInv, TypeOK
  <2> QED BY <2>1 DEF Step, Life!Next
<1>4. CASE r = s /\ ResumeAgentSession(s)
  <2>1. CASE hitl[s] = "awaiting"
    <3>1. Life(s)!Resume
      BY <1>4, <2>1 DEF ResumeAgentSession, Life!Resume, IInv, TypeOK
    <3> QED BY <3>1 DEF Step, Life!Next
  <2>2. CASE hitl[s] # "awaiting"
    BY <1>4, <2>2, LifeStutters DEF ResumeAgentSession, IInv, TypeOK
  <2> QED BY <2>1, <2>2
<1> QED BY <1>1, <1>2, <1>3, <1>4 DEF Request

LEMMA DrainLife ==
    ASSUME IInv, SInv, TimerFires \/ Drain, NEW s \in Sessions
    PROVE  Step(s)
<1>1. CASE TimerFires \/ DropGone \/ SkipBlocked \/ EndScan
  BY <1>1, LifeStutters DEF TimerFires, DropGone, SkipBlocked, EndScan, sessionVars
<1>2. CASE DropCancelled \/ PickNext
  <2>1. /\ Scanned \in Sessions
        /\ status[Scanned] = "queued"
        /\ hitl[Scanned] # "awaiting"
    BY <1>2, ScannedFacts DEF DropCancelled, PickNext, IInv, QueueAgrees, SInv, HumanAgrees
  <2>2. CASE s # Scanned
    BY <1>2, <2>1, <2>2, LifeStutters DEF DropCancelled, PickNext, RunScanned, IInv, TypeOK
  <2>3. CASE s = Scanned /\ DropCancelled
    <3>1. Life(s)!EndCancelled
      BY <2>1, <2>3 DEF DropCancelled, Life!EndCancelled, IInv, TypeOK
    <3> QED BY <3>1 DEF Step, Life!Next
  <2>4. CASE s = Scanned /\ PickNext
    <3>1. Life(s)!Run
      BY <2>1, <2>4 DEF PickNext, Eligible, RunScanned, Life!Run, IInv, TypeOK
    <3> QED BY <3>1 DEF Step, Life!Next
  <2> QED BY <1>2, <2>2, <2>3, <2>4
<1> QED BY <1>1, <1>2 DEF Drain

LEMMA ExecuteLife ==
    ASSUME IInv, NEW r \in Sessions, Execute(r), NEW s \in Sessions
    PROVE  Step(s)
<1>1. status[r] = "running"
  BY DEF Execute, PauseForHitl, CompleteSession, FailSession, Executing, IInv,
     ExecutionAgrees
<1>2. CASE r # s
  BY <1>2, LifeStutters DEF Execute, PauseForHitl, CompleteSession, FailSession,
     EndExecution, IInv, TypeOK
<1>3. CASE r = s /\ PauseForHitl(s)
  <2>1. Life(s)!Pause
    BY <1>1, <1>3 DEF PauseForHitl, EndExecution, Life!Pause, IInv, TypeOK
  <2> QED BY <2>1 DEF Step, Life!Next
<1>4. CASE r = s /\ (CompleteSession(s) \/ FailSession(s))
  <2>1. Life(s)!Finish
    BY <1>1, <1>4 DEF CompleteSession, FailSession, EndExecution, Life!Finish, IInv, TypeOK
  <2> QED BY <2>1 DEF Step, Life!Next
<1> QED BY <1>2, <1>3, <1>4 DEF Execute

LEMMA SettleLife ==
    ASSUME IInv, NEW r \in Sessions, Settle(r), NEW s \in Sessions
    PROVE  Step(s)
<1>1. CASE MoveToDeadletters(r) \/ IgnoreResult(r) \/ ReleaseSlot(r)
  BY <1>1, LifeStutters DEF MoveToDeadletters, IgnoreResult, ReleaseSlot, sessionVars
<1>2. CASE r # s /\ RequeueForRetry(r)
  BY <1>2, LifeStutters DEF RequeueForRetry, IInv, TypeOK
<1>3. CASE r = s /\ RequeueForRetry(s)
  <2>1. status[s] = "failed" /\ ~cancelRequested[s]
    BY <1>3 DEF RequeueForRetry, Retriable, IInv, ExecutionAgrees, CancelAgrees, Terminal
  <2>2. Life(s)!Retry
    BY <1>3, <2>1 DEF RequeueForRetry, Life!Retry, IInv, TypeOK
  <2> QED BY <2>2 DEF Step, Life!Next
<1> QED BY <1>1, <1>2, <1>3 DEF Settle

\* Whatever the queue does with the others, every session lives the life that
\* SessionLifecycle describes.
THEOREM LifecycleIsImplemented == Spec => ImplementsLifecycle
<1>1. Init => \A s \in Sessions : Life(s)!Init
  BY DEF Init, Life!Init
<1>2. ASSUME IInv, SInv, [Next]_vars, NEW s \in Sessions
      PROVE  Step(s)
  <2>1. ASSUME NEW g \in Guilds, PolicyRefreshed(g) \/ PolicyExpires(g)
        PROVE  Step(s)
    BY <2>1, LifeStutters DEF PolicyRefreshed, PolicyExpires, sessionVars
  <2>2. CASE UNCHANGED vars
    BY <2>2, LifeStutters DEF vars, sessionVars
  <2> QED BY <1>2, <2>1, <2>2, RequestLife, ExecuteLife, SettleLife, DrainLife DEF Next
<1>3. IInv /\ SInv /\ [Next]_vars =>
         [\A s \in Sessions : Life(s)!Next \/ UNCHANGED Life(s)!vars]_vars
  BY <1>2 DEF Step
<1> QED BY <1>1, <1>3, Invariance, SessionInvariance, PTL DEF Spec, ImplementsLifecycle
=============================================================================
