------------------------ MODULE TelemetryQueueProofs ------------------------
(***************************************************************************)
(* Theorems about TelemetryQueue, for any tasks, sizes, numbers of         *)
(* attempts and faults.                                                    *)
(***************************************************************************)
EXTENDS TelemetryQueue, SequenceTheorems, FiniteSetTheorems, TLAPS

(***************************************************************************)
(* The inductive invariant, relative to TypeOK: what an object knows of    *)
(* its row, and a row of its task.                                         *)
(***************************************************************************)
QueueInv == queue \in Seq(Nat)

ItemOK(i) ==
    /\ items[i].at # "gone" => items[i].task # 0
    /\ items[i].task # 0 =>
          /\ insert[items[i].task] \notin {"none", "dropped"}
          /\ items[i].known => insert[items[i].task] \in {"stored", "settled"}
    /\ items[i].at \in {"closing", "updating", "waiting"} => items[i].known
    /\ items[i].at = "closing" => result[items[i].task] = "done"
    /\ items[i].at = "waiting" => items[i].attempt < MaxAttempts

ItemInv == \A i \in Items : ItemOK(i)

RowInv == \A t \in Tasks :
    rows[t].status # "none" => rows[t].attempts > 0 /\ insert[t] \in {"stored", "settled"}

\* What was inserted stays until its task has succeeded.
Covered(t) == hurt[t] \intersect {"fault", "unsaved"} = {}

StoredInv == \A t \in Tasks :
    insert[t] \in {"stored", "settled"} /\ result[t] # "done" /\ Covered(t)
        => rows[t].status # "none"

\* A task that met no harm has one object at most; once it has succeeded, the
\* object deletes its row, and nothing else is left of it.
OnceOK(t) ==
    /\ \A i, j \in Items : items[i].task = t /\ items[j].task = t => i = j
    /\ result[t] = "done" =>
          /\ \A i \in Items : items[i].task = t => items[i].at = "closing"
          /\ insert[t] \in {"stored", "settled"}
          /\ Alive(t) \/ rows[t].status = "none"

OnceInv == \A t \in Tasks : hurt[t] = {} => OnceOK(t)

\* While a task is queued, the drain is scheduled, or a handler runs whose end
\* schedules it.
Waiting == {i \in Items : items[i].at = "queued"}
WakeUpInv == Waiting # {} => scheduled \/ InFlight # {}

QueueSafe == /\ TypeOK /\ QueueInv /\ ItemInv /\ RowInv /\ StoredInv /\ OnceInv
             /\ TrackedFailuresAreKept /\ WakeUpInv

-----------------------------------------------------------------------------
(* Objects.                                                                *)

ItemType == [task : Tasks \union {0}, attempt : 1..MaxAttempts, known : BOOLEAN, at : Places]
Object(t, n, k, p) == [task |-> t, attempt |-> n, known |-> k, at |-> p]

LEMMA ObjectFields ==
    ASSUME NEW t, NEW n, NEW k, NEW p
    PROVE  /\ Object(t, n, k, p).task = t /\ Object(t, n, k, p).attempt = n
           /\ Object(t, n, k, p).known = k /\ Object(t, n, k, p).at = p
BY DEF Object

LEMMA ItemsAre ==
    ASSUME TypeOK
    PROVE  /\ items \in Seq(ItemType) /\ Len(items) \in Nat /\ Items = 1..Len(items)
           /\ \A i \in Items :
                 /\ items[i] \in ItemType
                 /\ items[i] = Object(items[i].task, items[i].attempt, items[i].known, items[i].at)
                 /\ items[i].task \in Tasks \union {0} /\ items[i].attempt \in 1..MaxAttempts
                 /\ items[i].known \in BOOLEAN /\ items[i].at \in Places
<1>1. items \in Seq(ItemType)
  BY DEF TypeOK, ItemType
<1>2. Len(items) \in Nat /\ Items = 1..Len(items) /\ \A i \in Items : items[i] \in ItemType
  BY <1>1, LenProperties, ElementOfSeq DEF Items
<1> QED
  BY <1>1, <1>2 DEF ItemType, Object

LEMMA ConstantsAre ==
    /\ 0 \notin Tasks /\ Tasks \subseteq Nat
    /\ Concurrency \in Nat \ {0} /\ MaxAttempts \in Nat \ {0} /\ RecoveryBatch \in Nat \ {0}
    /\ QueueMaxSize \in Nat /\ MaxItems \in Nat /\ MaxFaults \in Nat
    /\ 1 \in 1..MaxAttempts
BY ConstantsAssumption

\* One object has changed.
Becomes(i, o) ==
    /\ items' \in Seq(ItemType) /\ Items' = Items /\ items'[i] = o
    /\ \A j \in Items \ {i} : items'[j] = items[j]

LEMMA PutObject ==
    ASSUME TypeOK, NEW i \in Items, NEW o \in ItemType, items' = [items EXCEPT ![i] = o]
    PROVE  Becomes(i, o)
<1>1. /\ items' \in Seq(ItemType) /\ Len(items') = Len(items)
      /\ \A j \in 1..Len(items) : items'[j] = IF j = i THEN o ELSE items[j]
  BY ItemsAre, ExceptSeq
<1>2. Items' = Items
  BY <1>1, ItemsAre, LenProperties DEF Items
<1> QED
  BY <1>1, <1>2, ItemsAre DEF Becomes

LEMMA ObjectExcept ==
    ASSUME NEW t, NEW n, NEW k, NEW p, NEW o, o = Object(t, n, k, p), NEW e
    PROVE  [o EXCEPT !.at = e] = Object(t, n, k, e)
BY DEF Object

LEMMA AtBecomes ==
    ASSUME TypeOK, NEW i \in Items, NEW p \in Places, At(i, p)
    PROVE  Becomes(i, Object(items[i].task, items[i].attempt, items[i].known, p))
<1> DEFINE o == Object(items[i].task, items[i].attempt, items[i].known, p)
<1>1. o \in ItemType
  BY ItemsAre DEF ItemType, Object
<1>2. o = [items[i] EXCEPT !.at = p]
  BY ItemsAre, ObjectExcept
<1>3. items' = [items EXCEPT ![i] = o]
  BY <1>2 DEF At
<1> QED
  BY <1>1, <1>3, PutObject

LEMMA GoneBecomes ==
    ASSUME TypeOK, NEW i \in Items, Gone(i)
    PROVE  Becomes(i, Object(0, 1, TRUE, "gone"))
<1>1. Nothing = Object(0, 1, TRUE, "gone") /\ Nothing \in ItemType
  BY ConstantsAre DEF Nothing, Object, ItemType, Places
<1> QED
  BY <1>1, PutObject DEF Gone

LEMMA RetryBecomes ==
    ASSUME TypeOK, ItemInv, NEW i \in Items, Retry(i)
    PROVE  /\ Becomes(i, Object(items[i].task, items[i].attempt + 1, items[i].known, "queued"))
           /\ items[i].attempt + 1 \in 1..MaxAttempts
<1> DEFINE o == Object(items[i].task, items[i].attempt + 1, items[i].known, "queued")
<1>1. items[i].attempt + 1 \in 1..MaxAttempts
  BY ItemsAre, ConstantsAre DEF ItemInv, ItemOK, Retry
<1>2. o \in ItemType
  BY <1>1, ItemsAre DEF ItemType, Object, Places
<1>3. PICK r : r = [items[i] EXCEPT !.at = "queued"]
  OBVIOUS
<1>4. r = Object(items[i].task, items[i].attempt, items[i].known, "queued")
  BY <1>3, ItemsAre, ObjectExcept
<1>5. o = [r EXCEPT !.attempt = items[i].attempt + 1]
  <2>1. ASSUME NEW n, NEW x, x = Object(items[i].task, items[i].attempt, items[i].known, "queued")
        PROVE  [x EXCEPT !.attempt = n] = Object(items[i].task, n, items[i].known, "queued")
    BY <2>1 DEF Object
  <2> QED
    BY <1>4, <2>1
<1>6. items' = [items EXCEPT ![i] = o]
  BY <1>3, <1>5, ItemsAre DEF Retry
<1> QED
  BY <1>1, <1>2, <1>6, PutObject

-----------------------------------------------------------------------------
(* Queues of numbers.                                                      *)

LEMMA FunctionIsSeq ==
    ASSUME NEW S, NEW l \in Nat, NEW f \in [1..l -> S]
    PROVE  f \in Seq(S) /\ Len(f) = l
<1>1. f \in Seq(S)
  BY SeqDef
<1> QED
  BY <1>1, LenProperties

LEMMA QueueAppend ==
    ASSUME NEW q \in Seq(Nat), IsInjective(q), NEW k \in Nat, k \notin Range(q)
    PROVE  /\ Append(q, k) \in Seq(Nat) /\ IsInjective(Append(q, k))
           /\ Range(Append(q, k)) = Range(q) \union {k}
<1> DEFINE r == Append(q, k)
<1>1. /\ r \in Seq(Nat) /\ Len(r) = Len(q) + 1
      /\ \A n \in 1..Len(q) : r[n] = q[n]
      /\ r[Len(q) + 1] = k
  BY AppendProperties
<1>2. Len(q) \in Nat /\ DOMAIN q = 1..Len(q) /\ DOMAIN r = 1..(Len(q) + 1)
  BY <1>1, LenProperties
<1> HIDE DEF r
<1>3. Range(r) = Range(q) \union {k}
  <2>1. Range(r) \subseteq Range(q) \union {k}
    BY <1>1, <1>2 DEF Range
  <2>2. Range(q) \union {k} \subseteq Range(r)
    BY <1>1, <1>2 DEF Range
  <2> QED
    BY <2>1, <2>2
<1>4. IsInjective(r)
  BY <1>1, <1>2 DEF IsInjective, Range
<1> QED
  BY <1>1, <1>3, <1>4 DEF r

\* The numbers of new objects are put behind the queue.
Numbers(m, l) == [n \in 1..l |-> m + n]

Behind(q, k, m, l, r) ==
    /\ DOMAIN q = 1..k /\ \A n \in 1..k : q[n] \in 1..m
    /\ DOMAIN r = 1..(k + l)
    /\ \A n \in 1..(k + l) : n <= k => r[n] = q[n]
    /\ \A n \in 1..(k + l) : n > k => r[n] = m + (n - k)

LEMMA NumbersBehind ==
    ASSUME NEW q, IsInjective(q), NEW k \in Nat, NEW m \in Nat, NEW l \in Nat, NEW r,
           Behind(q, k, m, l, r)
    PROVE  IsInjective(r) /\ Range(r) = Range(q) \union (m + 1)..(m + l)
<1> USE DEF Behind
<1>1. Range(r) \subseteq Range(q) \union (m + 1)..(m + l)
  <2> SUFFICES ASSUME NEW n \in 1..(k + l)
               PROVE  r[n] \in Range(q) \union (m + 1)..(m + l)
    BY DEF Range
  <2>1. CASE n <= k
    BY <2>1 DEF Range
  <2>2. CASE n > k
    <3>1. r[n] = m + (n - k)
      BY <2>2
    <3> QED
      BY <2>2, <3>1
  <2> QED
    BY <2>1, <2>2
<1>2. Range(q) \subseteq Range(r)
  <2>1. \A n \in 1..k : n \in 1..(k + l) /\ r[n] = q[n]
    OBVIOUS
  <2> QED
    BY <2>1 DEF Range
<1>3. (m + 1)..(m + l) \subseteq Range(r)
  <2> SUFFICES ASSUME NEW x \in (m + 1)..(m + l) PROVE x \in Range(r)
    OBVIOUS
  <2>1. x - m + k \in 1..(k + l) /\ x - m + k > k /\ m + (x - m + k - k) = x
    OBVIOUS
  <2>2. r[x - m + k] = x
    BY <2>1
  <2> QED
    BY <2>1, <2>2 DEF Range
<1>4. IsInjective(r)
  <2> SUFFICES ASSUME NEW a \in 1..(k + l), NEW b \in 1..(k + l), r[a] = r[b] PROVE a = b
    BY DEF IsInjective
  <2>1. CASE a <= k /\ b <= k
    BY <2>1 DEF IsInjective
  <2>2. CASE a <= k /\ b > k
    <3>1. r[a] \in 1..m /\ r[b] = m + (b - k)
      BY <2>2
    <3> QED
      BY <2>2, <3>1
  <2>3. CASE a > k /\ b <= k
    <3>1. r[b] \in 1..m /\ r[a] = m + (a - k)
      BY <2>3
    <3> QED
      BY <2>3, <3>1
  <2>4. CASE a > k /\ b > k
    <3>1. r[a] = m + (a - k) /\ r[b] = m + (b - k)
      BY <2>4
    <3>2. m + (a - k) = m + (b - k)
      BY <3>1
    <3> QED
      BY <3>2
  <2> QED
    BY <2>1, <2>2, <2>3, <2>4
<1> QED
  BY <1>1, <1>2, <1>3, <1>4

LEMMA QueueConcat ==
    ASSUME NEW q \in Seq(Nat), IsInjective(q), NEW m \in Nat, Range(q) \subseteq 1..m,
           NEW l \in Nat
    PROVE  LET r == q \o Numbers(m, l)
           IN  /\ r \in Seq(Nat) /\ IsInjective(r)
               /\ Range(r) = Range(q) \union (m + 1)..(m + l)
<1> DEFINE new == Numbers(m, l)
<1>1. new \in Seq(Nat) /\ Len(new) = l /\ \A n \in 1..l : new[n] = m + n
  <2>1. new \in [1..l -> Nat] /\ \A n \in 1..l : new[n] = m + n
    BY DEF Numbers
  <2> QED
    BY <2>1, FunctionIsSeq
<1> HIDE DEF new
<1>2. PICK k \in Nat : k = Len(q) /\ DOMAIN q = 1..k
  BY LenProperties
<1>3. PICK r : r = q \o new
  OBVIOUS
<1>4. /\ r \in Seq(Nat) /\ Len(r) = k + l
      /\ \A n \in 1..(k + l) : r[n] = IF n <= k THEN q[n] ELSE new[n - k]
  BY <1>1, <1>2, <1>3, ConcatProperties
<1>5. DOMAIN r = 1..(k + l)
  BY <1>4, LenProperties
<1>6. \A n \in 1..(k + l) : n <= k => r[n] = q[n]
  BY <1>4
<1>7. ASSUME NEW n \in 1..(k + l), n > k
      PROVE  r[n] = m + (n - k)
  <2>1. n - k \in 1..l /\ r[n] = new[n - k]
    BY <1>4, <1>7
  <2> QED
    BY <1>1, <2>1
<1>8. \A n \in 1..k : q[n] \in 1..m
  BY <1>2 DEF Range
<1>9. IsInjective(r) /\ Range(r) = Range(q) \union (m + 1)..(m + l)
  <2>1. Behind(q, k, m, l, r)
    BY <1>2, <1>5, <1>6, <1>7, <1>8 DEF Behind
  <2> QED
    BY <2>1, NumbersBehind
<1> QED
  BY <1>3, <1>4, <1>9 DEF new

\* The first n are taken off the queue.
LEMMA QueueTake ==
    ASSUME NEW q \in Seq(Nat), IsInjective(q), NEW n \in 0..Len(q)
    PROVE  LET taken == Range(SubSeq(q, 1, n))
               r == SubSeq(q, n + 1, Len(q))
           IN  /\ r \in Seq(Nat) /\ IsInjective(r)
               /\ taken \subseteq Range(q) /\ Range(r) = Range(q) \ taken
               /\ IsFiniteSet(taken) /\ Cardinality(taken) <= n
<1> DEFINE s == SubSeq(q, 1, n)
           r == SubSeq(q, n + 1, Len(q))
<1>1. /\ Len(q) \in Nat /\ \A x \in 1..Len(q) : q[x] \in Nat
      /\ n \in Nat /\ n <= Len(q)
  BY LenProperties, ElementOfSeq
<1>2. /\ s \in Seq(Nat) /\ Len(s) = (IF 1 <= n THEN n - 1 + 1 ELSE 0)
      /\ \A x \in 1..(n - 1 + 1) : s[x] = q[1 + x - 1]
  <2>1. \A x \in 1..n : q[x] \in Nat
    BY <1>1
  <2> QED
    BY <1>1, <2>1, SubSeqProperties
<1>3. /\ r \in Seq(Nat)
      /\ Len(r) = (IF n + 1 <= Len(q) THEN Len(q) - (n + 1) + 1 ELSE 0)
      /\ \A x \in 1..(Len(q) - (n + 1) + 1) : r[x] = q[n + 1 + x - 1]
  <2>1. \A x \in (n + 1)..Len(q) : q[x] \in Nat
    BY <1>1
  <2> QED
    BY <1>1, <2>1, SubSeqProperties
<1> HIDE DEF s, r
<1>4. Len(s) = n /\ \A x \in 1..n : s[x] = q[x]
  BY <1>1, <1>2
<1>5. Len(r) = Len(q) - n
  BY <1>1, <1>3
<1>6. ASSUME NEW x \in 1..(Len(q) - n)
      PROVE  r[x] = q[n + x]
  <2>1. x \in 1..(Len(q) - (n + 1) + 1) /\ n + 1 + x - 1 = n + x
    BY <1>1
  <2> QED
    BY <1>3, <2>1
<1>7. PICK l \in Nat : /\ l = Len(q) /\ n \in 0..l
                       /\ Len(s) = n /\ \A x \in 1..n : s[x] = q[x]
                       /\ Len(r) = l - n /\ \A x \in 1..(l - n) : r[x] = q[n + x]
  BY <1>1, <1>4, <1>5, <1>6
<1>8. DOMAIN q = 1..l /\ DOMAIN s = 1..n /\ DOMAIN r = 1..(l - n) /\ n \in Nat /\ n <= l
  BY <1>2, <1>3, <1>7, LenProperties
<1>9. Range(s) = {q[x] : x \in 1..n}
  BY <1>7, <1>8 DEF Range
<1>10. Range(s) \subseteq Range(q)
  <2>1. 1..n \subseteq DOMAIN q
    BY <1>8
  <2> QED
    BY <1>9, <2>1 DEF Range
<1>11. Range(r) \subseteq Range(q) \ Range(s)
  <2> SUFFICES ASSUME NEW x \in 1..(l - n) PROVE r[x] \in Range(q) \ Range(s)
    BY <1>8 DEF Range
  <2>1. n + x \in DOMAIN q /\ r[x] = q[n + x]
    BY <1>7, <1>8
  <2>2. ASSUME NEW y \in 1..n, q[y] = q[n + x] PROVE FALSE
    <3>1. PICK z : z = n + x /\ z \in DOMAIN q /\ y \in DOMAIN q /\ y # z
      BY <1>8, <2>1, <2>2
    <3> QED
      BY <2>2, <3>1 DEF IsInjective
  <2> QED
    BY <1>9, <2>1, <2>2 DEF Range
<1>12. Range(q) \ Range(s) \subseteq Range(r)
  <2> SUFFICES ASSUME NEW y \in 1..l, q[y] \notin Range(s) PROVE q[y] \in Range(r)
    BY <1>8 DEF Range
  <2>1. y > n
    BY <1>8, <1>9
  <2>2. y - n \in 1..(l - n) /\ n + (y - n) = y
    BY <1>8, <2>1
  <2>3. r[y - n] = q[y]
    BY <1>7, <2>2
  <2> QED
    BY <1>8, <2>2, <2>3 DEF Range
<1>13. IsInjective(r)
  <2> SUFFICES ASSUME NEW x \in 1..(l - n), NEW y \in 1..(l - n), r[x] = r[y] PROVE x = y
    BY <1>8 DEF IsInjective
  <2>1. n + x \in DOMAIN q /\ n + y \in DOMAIN q /\ q[n + x] = q[n + y]
    BY <1>7, <1>8
  <2>2. n + x = n + y
    BY <2>1 DEF IsInjective
  <2> QED
    BY <1>8, <2>2
<1>14. IsFiniteSet(Range(s)) /\ Cardinality(Range(s)) <= n
  <2>1. s \in Surjection(1..n, Range(s))
    BY <1>2, <1>8, LenProperties DEF Surjection, Range
  <2>2. IsFiniteSet(1..n) /\ Cardinality(1..n) = n
    <3>1. 1 \in Int /\ n \in Int
      BY <1>8
    <3>2. IsFiniteSet(1..n) /\ Cardinality(1..n) = (IF 1 > n THEN 0 ELSE n - 1 + 1)
      BY ONLY <3>1, FS_Interval
    <3> QED
      BY <1>8, <3>2
  <2> QED
    BY <2>1, <2>2, FS_Surjection
<1> QED
  BY <1>3, <1>10, <1>11, <1>12, <1>13, <1>14 DEF s, r

LEMMA MinOfTwo ==
    ASSUME NEW a \in Nat, NEW b \in Nat
    PROVE  Min({a, b}) \in 0..b /\ Min({a, b}) <= a
<1>1. \E x \in {a, b} : \A y \in {a, b} : x =< y
  OBVIOUS
<1>2. Min({a, b}) \in {a, b} /\ \A y \in {a, b} : Min({a, b}) =< y
  BY <1>1 DEF Min
<1> QED
  BY <1>2

-----------------------------------------------------------------------------
(* What the operations do to the objects.                                  *)

LEMMA WorksBecome ==
    ASSUME TypeOK, ItemInv, NEW i \in Items, Works(i)
    PROVE  /\ items[i].task \in Tasks /\ items[i].at \notin {"gone", "queued"}
           /\ UNCHANGED <<insert, recovery>>
           /\ \/ queue' = queue /\ Becomes(i, Object(0, 1, TRUE, "gone"))
              \/ \E p \in {"handling", "closing", "updating", "waiting"} :
                    /\ queue' = queue
                    /\ Becomes(i, Object(items[i].task, items[i].attempt, items[i].known, p))
                    /\ p \in {"handling", "closing"} => items[i].at \in {"marking", "handling"}
                    /\ p \in {"closing", "updating"} => items[i].known
                    /\ p = "closing" => result'[items[i].task] = "done"
                    /\ p = "waiting" => items[i].known /\ items[i].attempt < MaxAttempts
              \/ /\ Retry(i)
                 /\ Becomes(i, Object(items[i].task, items[i].attempt + 1, items[i].known, "queued"))
<1> DEFINE Moved(p) == Becomes(i, Object(items[i].task, items[i].attempt, items[i].known, p))
           Left == Becomes(i, Object(0, 1, TRUE, "gone"))
<1>1. items[i].task \in Tasks /\ items[i].at \notin {"gone", "queued"}
  BY ItemsAre DEF Works, MarkRunning, Succeed, MarkSucceeded, Fail, MarkFailedOrRetry, Retry, ItemInv,
         ItemOK
<1>2. /\ \A p \in {"handling", "closing", "updating", "waiting"} : At(i, p) => Moved(p)
      /\ Gone(i) => Left
  BY AtBecomes, GoneBecomes DEF Places
<1> HIDE DEF Moved, Left
<1>3. CASE MarkRunning(i)
  BY <1>1, <1>2, <1>3 DEF MarkRunning, Moved
<1>4. CASE Succeed(i)
  BY <1>1, <1>2, <1>4 DEF Succeed, Tracked, Moved, Left, TypeOK
<1>5. CASE MarkSucceeded(i)
  BY <1>1, <1>2, <1>5 DEF MarkSucceeded, Left
<1>6. CASE Fail(i)
  BY <1>1, <1>2, <1>6 DEF Fail, Tracked, Moved, Left
<1>7. CASE MarkFailedOrRetry(i)
  <2>1. items[i].known /\ items[i].attempt \in Nat
    BY <1>7, ItemsAre DEF MarkFailedOrRetry, ItemInv, ItemOK
  <2>2. CASE Exhausted(i) /\ Gone(i)
    BY <1>1, <1>2, <1>7, <2>2 DEF MarkFailedOrRetry, Left
  <2>3. CASE ~Exhausted(i) /\ At(i, "waiting")
    <3>1. items[i].attempt < MaxAttempts /\ Moved("waiting")
      BY <1>2, <2>1, <2>3, ConstantsAre DEF Exhausted
    <3> QED
      BY <1>1, <1>7, <2>1, <3>1 DEF MarkFailedOrRetry, Moved
  <2>4. CASE Unavailable /\ Gone(i)
    BY <1>1, <1>2, <1>7, <2>4 DEF MarkFailedOrRetry, Left
  <2> QED
    BY <1>7, <2>2, <2>3, <2>4 DEF MarkFailedOrRetry
<1>8. CASE Retry(i)
  BY <1>1, <1>8, RetryBecomes DEF Retry
<1> QED
  BY <1>3, <1>4, <1>5, <1>6, <1>7, <1>8 DEF Works

\* New objects are put behind the others.
Grows(l) ==
    /\ items' \in Seq(ItemType) /\ l \in Nat /\ Items' = 1..(Len(items) + l)
    /\ \A i \in Items : items'[i] = items[i]

LEMMA EnqueueGrows ==
    ASSUME TypeOK, NEW t \in Tasks, Enqueue(t), ~(Len(queue) >= QueueMaxSize)
    PROVE  Grows(1) /\ items'[Len(items) + 1] = Object(t, 1, FALSE, "queued")
<1> DEFINE o == Object(t, 1, FALSE, "queued")
<1>1. o \in ItemType
  BY ConstantsAre DEF Object, ItemType, Places
<1>2. items' = Append(items, o)
  BY DEF Enqueue, Object
<1> HIDE DEF o
<1>3. /\ items' \in Seq(ItemType) /\ Len(items') = Len(items) + 1
      /\ \A i \in 1..Len(items) : items'[i] = items[i]
      /\ items'[Len(items) + 1] = o
  BY <1>1, <1>2, ItemsAre, AppendProperties
<1>4. Items' = 1..(Len(items) + 1)
  BY <1>3, LenProperties DEF Items
<1> QED
  BY <1>3, <1>4, ItemsAre DEF Grows, o

\* Select with the batch it finds.
SelectBatch(batch) ==
    /\ FirstRows(batch)
    /\ items' = items \o [n \in DOMAIN batch |->
                    [task |-> batch[n], attempt |-> rows[batch[n]].attempts,
                     known |-> TRUE, at |-> "queued"]]
    /\ queue' = queue \o [n \in DOMAIN batch |-> Len(items) + n]
    /\ hurt' = [t \in Tasks |-> IF t \in Range(batch) /\ (Alive(t) \/ insert[t] = "stored")
                                THEN hurt[t] \union {"duplicated"} ELSE hurt[t]]

Recovers(l, batch) ==
    /\ SelectBatch(batch) /\ Grows(l)
    /\ \A n \in 1..l :
          items'[Len(items) + n] = Object(batch[n], rows[batch[n]].attempts, TRUE, "queued")

LEMMA SelectFinds ==
    ASSUME TypeOK, RowInv, Select
    PROVE  \E l \in Nat : \E batch \in [1..l -> Recoverable] : Recovers(l, batch)
<1>1. PICK batch \in SeqOf(Recoverable, RecoveryBatch) : SelectBatch(batch)
  BY DEF Select, SelectBatch
<1>2. PICK l \in 0..RecoveryBatch : batch \in [1..l -> Recoverable]
  BY DEF SeqOf
<1>3. l \in Nat /\ DOMAIN batch = 1..l /\ \A n \in 1..l : batch[n] \in Recoverable
  BY <1>2, ConstantsAre
<1> DEFINE new == [n \in 1..l |-> Object(batch[n], rows[batch[n]].attempts, TRUE, "queued")]
<1>4. ASSUME NEW n \in 1..l
      PROVE  Object(batch[n], rows[batch[n]].attempts, TRUE, "queued") \in ItemType
  <2>1. batch[n] \in Tasks /\ rows[batch[n]].attempts \in 1..MaxAttempts
    <3>1. batch[n] \in Tasks /\ rows[batch[n]].status = "queued"
      BY <1>3 DEF Recoverable
    <3>2. rows[batch[n]].attempts \in 0..MaxAttempts /\ rows[batch[n]].attempts > 0
      BY <3>1 DEF TypeOK, RowInv
    <3> QED
      BY <3>1, <3>2, ConstantsAre
  <2> QED
    BY <2>1 DEF Object, ItemType, Places
<1>5. new \in Seq(ItemType) /\ Len(new) = l
  <2>1. new \in [1..l -> ItemType]
    BY <1>4
  <2> QED
    BY <1>3, <2>1, FunctionIsSeq
<1>6. items' = items \o new
  BY <1>1, <1>3 DEF SelectBatch, Object
<1> HIDE DEF new
<1>7. /\ items' \in Seq(ItemType) /\ Len(items') = Len(items) + l
      /\ \A n \in 1..(Len(items) + l) :
            items'[n] = IF n <= Len(items) THEN items[n] ELSE new[n - Len(items)]
  BY <1>5, <1>6, ItemsAre, ConcatProperties
<1>8. Grows(l)
  BY <1>3, <1>7, ItemsAre, LenProperties DEF Grows, Items
<1>9. ASSUME NEW n \in 1..l
      PROVE  items'[Len(items) + n] = Object(batch[n], rows[batch[n]].attempts, TRUE, "queued")
  <2>1. /\ Len(items) + n \in 1..(Len(items) + l) /\ ~(Len(items) + n <= Len(items))
        /\ Len(items) + n - Len(items) = n
    BY <1>3, ItemsAre
  <2>2. items'[Len(items) + n] = new[n]
    BY <1>7, <2>1
  <2> QED
    BY <2>2 DEF new
<1> QED
  BY <1>1, <1>2, <1>3, <1>8, <1>9 DEF Recovers

LEMMA LearnDoes ==
    ASSUME TypeOK, NEW t \in Tasks, Learn(t)
    PROVE  /\ items' \in Seq(ItemType) /\ Items' = Items
           /\ \A i \in Items : items'[i] = IF items[i].task # t THEN items[i]
                     ELSE Object(items[i].task, items[i].attempt, TRUE, items[i].at)
<1> DEFINE o(i) == IF items[i].task # t THEN items[i]
                   ELSE Object(items[i].task, items[i].attempt, TRUE, items[i].at)
<1>1. items' = [i \in Items |-> o(i)]
  <2>1. ASSUME NEW i \in Items
        PROVE  [items[i] EXCEPT !.known = TRUE]
                  = Object(items[i].task, items[i].attempt, TRUE, items[i].at)
    <3>1. PICK r : r = [items[i] EXCEPT !.known = TRUE]
      OBVIOUS
    <3>2. PICK x : x = items[i] /\ r = [x EXCEPT !.known = TRUE]
      BY <3>1
    <3>3. x = Object(items[i].task, items[i].attempt, items[i].known, items[i].at)
      BY <3>2, ItemsAre
    <3>4. r = Object(items[i].task, items[i].attempt, TRUE, items[i].at)
      BY <3>2, <3>3 DEF Object
    <3> QED
      BY <3>1, <3>4
  <2> QED
    BY <2>1 DEF Learn
<1>2. \A i \in Items : o(i) \in ItemType
  BY ItemsAre DEF ItemType, Object
<1> HIDE DEF o
<1>3. items' \in [1..Len(items) -> ItemType]
  BY <1>1, <1>2, ItemsAre
<1>4. items' \in Seq(ItemType) /\ Items' = Items /\ \A i \in Items : items'[i] = o(i)
  BY <1>1, <1>3, ItemsAre, FunctionIsSeq DEF Items
<1> QED
  BY <1>4 DEF o

\* The numbers that Drain takes off the queue.
Taken == Range(SubSeq(queue, 1, Min({Room, Len(queue)})))

LEMMA InFlightIsFinite ==
    ASSUME TypeOK
    PROVE  IsFiniteSet(InFlight) /\ Cardinality(InFlight) \in 0..Concurrency
<1>1. IsFiniteSet(1..Len(items))
  BY ItemsAre, FS_Interval
<1>2. IsFiniteSet(InFlight)
  BY <1>1, ItemsAre, FS_Subset DEF InFlight
<1> QED
  BY <1>2, FS_CardinalityType, ConstantsAre DEF TypeOK

LEMMA DrainTakes ==
    ASSUME TypeOK, QueueInv, Drain
    PROVE  /\ queue' \in Seq(Nat) /\ IsInjective(queue')
           /\ Taken \subseteq Range(queue) /\ Range(queue') = Range(queue) \ Taken
           /\ IsFiniteSet(Taken) /\ Cardinality(Taken) + Cardinality(InFlight) <= Concurrency
<1> DEFINE n == Min({Room, Len(queue)})
<1>1. Room \in Nat /\ Room + Cardinality(InFlight) = Concurrency /\ Len(queue) \in Nat
  BY InFlightIsFinite, ConstantsAre, LenProperties DEF Room, QueueInv
<1>2. n \in 0..Len(queue) /\ n <= Room
  BY <1>1, MinOfTwo
<1> HIDE DEF n
<1>3. queue' = SubSeq(queue, n + 1, Len(queue)) /\ Taken = Range(SubSeq(queue, 1, n))
  BY DEF Drain, Taken, n
<1>4. queue \in Seq(Nat) /\ IsInjective(queue)
  BY DEF QueueInv, TypeOK
<1>5. /\ queue' \in Seq(Nat) /\ IsInjective(queue')
      /\ Taken \subseteq Range(queue) /\ Range(queue') = Range(queue) \ Taken
      /\ IsFiniteSet(Taken) /\ Cardinality(Taken) <= n
  BY <1>2, <1>3, <1>4, QueueTake
<1>6. Cardinality(Taken) \in Nat /\ Cardinality(InFlight) \in Nat /\ n \in Nat
  BY <1>1, <1>2, <1>5, FS_CardinalityType, InFlightIsFinite
<1> QED
  BY <1>1, <1>2, <1>5, <1>6, ConstantsAre

LEMMA DrainDoes ==
    ASSUME TypeOK, Drain
    PROVE  /\ items' \in Seq(ItemType) /\ Items' = Items
           /\ \A i \in Items \ Taken : items'[i] = items[i]
           /\ \A i \in Items : i \in Taken => \E p \in {"marking", "handling"} :
                 items'[i] = Object(items[i].task, items[i].attempt, items[i].known, p)
<1> DEFINE p(i) == IF Tracked(i) THEN "marking" ELSE "handling"
           o(i) == IF i \notin Taken THEN items[i]
                   ELSE Object(items[i].task, items[i].attempt, items[i].known, p(i))
<1>1. items' = [i \in Items |-> o(i)]
  <2>1. ASSUME NEW i \in Items
        PROVE  [items[i] EXCEPT !.at = p(i)]
                  = Object(items[i].task, items[i].attempt, items[i].known, p(i))
    <3> HIDE DEF p
    <3> QED
      BY ItemsAre, ObjectExcept
  <2> QED
    BY <2>1 DEF Drain, Taken
<1>2. \A i \in Items : p(i) \in {"marking", "handling"} /\ o(i) \in ItemType
  BY ItemsAre DEF ItemType, Object, Places
<1> HIDE DEF o
<1>3. items' \in [1..Len(items) -> ItemType]
  BY <1>1, <1>2, ItemsAre
<1>4. items' \in Seq(ItemType) /\ Items' = Items /\ \A i \in Items : items'[i] = o(i)
  BY <1>1, <1>3, ItemsAre, FunctionIsSeq DEF Items
<1> HIDE DEF p
<1> QED
  BY <1>2, <1>4 DEF o

-----------------------------------------------------------------------------
(* Types.                                                                  *)

QueueAgrees ==
    /\ queue \in Seq(Nat) /\ IsInjective(queue)
    /\ Range(queue) = {i \in Items : items[i].at = "queued"}

RowsType == [Tasks -> [status : {"none", "queued", "running", "failed"},
                       attempts : 0..MaxAttempts, ripe : BOOLEAN]]

ScalarsOK ==
    /\ scheduled \in BOOLEAN
    /\ insert \in [Tasks -> {"none", "dropped", "sent", "stored", "settled"}]
    /\ rows \in RowsType /\ healthy \in BOOLEAN
    /\ recovery \in {"resetting", "selecting", "done", "again"}
    /\ result \in [Tasks -> {"none", "done", "failed"}]
    /\ hurt \in [Tasks -> SUBSET Harms]
    /\ faults \in Nat

ObjectsOK == items \in Seq(ItemType) /\ QueueAgrees /\ Cardinality(InFlight) <= Concurrency

LEMMA TypeParts == TypeOK /\ QueueInv <=> ObjectsOK /\ ScalarsOK
BY DEF TypeOK, QueueInv, ObjectsOK, ScalarsOK, QueueAgrees, ItemType, RowsType

LEMMA ScalarsAre == TypeOK => ScalarsOK
BY DEF TypeOK, ScalarsOK, RowsType

\* No more are in flight.
LEMMA FewerInFlight ==
    ASSUME TypeOK, InFlight' \subseteq InFlight
    PROVE  Cardinality(InFlight') <= Concurrency
<1>1. Cardinality(InFlight') <= Cardinality(InFlight) /\ IsFiniteSet(InFlight')
  BY InFlightIsFinite, FS_Subset
<1>2. Cardinality(InFlight') \in Nat
  BY <1>1, FS_CardinalityType
<1> QED
  BY <1>1, <1>2, InFlightIsFinite, ConstantsAre

LEMMA WorksObjects ==
    ASSUME TypeOK, QueueInv, ItemInv, NEW i \in Items, Works(i)
    PROVE  ObjectsOK'
<1>1. QueueAgrees
  BY TypeParts DEF ObjectsOK
<1>2. ASSUME NEW o, Becomes(i, o), o.at # "queued", queue' = queue,
             o.at \in {"marking", "handling", "closing"} => i \in InFlight
      PROVE  ObjectsOK'
  <2>1. items[i].at # "queued" /\ items' \in Seq(ItemType)
    BY <1>2, WorksBecome DEF Becomes
  <2>2. QueueAgrees'
    BY <1>1, <1>2, <2>1 DEF QueueAgrees, Becomes
  <2>3. InFlight' \subseteq InFlight
    BY <1>2 DEF InFlight, Becomes
  <2> QED
    BY <2>1, <2>2, <2>3, FewerInFlight DEF ObjectsOK
<1>3. CASE queue' = queue /\ Becomes(i, Object(0, 1, TRUE, "gone"))
  BY <1>2, <1>3 DEF Object
<1>4. ASSUME NEW p \in {"handling", "closing", "updating", "waiting"}, queue' = queue,
             Becomes(i, Object(items[i].task, items[i].attempt, items[i].known, p)),
             p \in {"handling", "closing"} => items[i].at \in {"marking", "handling"}
      PROVE  ObjectsOK'
  <2>1. /\ Object(items[i].task, items[i].attempt, items[i].known, p).at = p
        /\ p \in {"marking", "handling", "closing"} => i \in InFlight
    BY <1>4 DEF Object, InFlight
  <2> QED
    BY <1>2, <1>4, <2>1
<1>5. CASE /\ Retry(i)
           /\ Becomes(i, Object(items[i].task, items[i].attempt + 1, items[i].known, "queued"))
  <2>1. items' \in Seq(ItemType) /\ Items' = Items /\ items'[i].at = "queued"
    BY <1>5 DEF Becomes, Object
  <2>2. i \in Nat /\ i \notin Range(queue) /\ queue' = Append(queue, i)
    BY <1>1, <1>5, ItemsAre, WorksBecome DEF QueueAgrees, Retry
  <2>3. QueueAgrees'
    <3>1. /\ queue' \in Seq(Nat) /\ IsInjective(queue') /\ Range(queue') = Range(queue) \union {i}
      BY <1>1, <2>2, QueueAppend DEF QueueAgrees
    <3> QED
      BY <1>1, <1>5, <2>1, <3>1 DEF QueueAgrees, Becomes
  <2>4. InFlight' \subseteq InFlight
    BY <1>5, <2>1 DEF InFlight, Becomes
  <2> QED
    BY <2>1, <2>3, <2>4, FewerInFlight DEF ObjectsOK
<1> QED
  BY <1>3, <1>4, <1>5, WorksBecome

LEMMA GrowsObjects ==
    ASSUME TypeOK, QueueInv, NEW l \in Nat, Grows(l),
           \A n \in 1..l : items'[Len(items) + n].at = "queued",
           queue' \in Seq(Nat), IsInjective(queue'),
           Range(queue') = Range(queue) \union (Len(items) + 1)..(Len(items) + l)
    PROVE  ObjectsOK'
<1>1. QueueAgrees
  BY TypeParts DEF ObjectsOK
<1>2. /\ Len(items) \in Nat /\ Items = 1..Len(items) /\ Items' = 1..(Len(items) + l)
      /\ Items' = Items \union (Len(items) + 1)..(Len(items) + l)
  BY ItemsAre DEF Grows
<1>3. ASSUME NEW i \in (Len(items) + 1)..(Len(items) + l)
      PROVE  items'[i].at = "queued"
  <2>1. i - Len(items) \in 1..l /\ Len(items) + (i - Len(items)) = i
    BY <1>2
  <2> QED
    BY <2>1
<1>4. QueueAgrees'
  BY <1>1, <1>2, <1>3 DEF QueueAgrees, Grows
<1>5. InFlight' \subseteq InFlight
  BY <1>2, <1>3 DEF InFlight, Grows
<1> QED
  BY <1>4, <1>5, FewerInFlight DEF ObjectsOK, Grows

LEMMA EnqueueObjects ==
    ASSUME TypeOK, QueueInv, NEW t \in Tasks, Enqueue(t)
    PROVE  ObjectsOK'
<1>1. CASE Len(queue) >= QueueMaxSize
  BY <1>1, TypeParts DEF Enqueue, ObjectsOK, QueueAgrees, InFlight, Items
<1>2. CASE ~(Len(queue) >= QueueMaxSize)
  <2>1. Grows(1) /\ items'[Len(items) + 1].at = "queued" /\ queue' = Append(queue, Len(items) + 1)
    BY <1>2, EnqueueGrows DEF Object, Enqueue
  <2>2. Len(items) \in Nat /\ Len(items) + 1 \notin Range(queue)
    BY ItemsAre DEF TypeOK
  <2>3. /\ queue' \in Seq(Nat) /\ IsInjective(queue')
        /\ Range(queue') = Range(queue) \union {Len(items) + 1}
    BY <2>1, <2>2, QueueAppend DEF TypeOK, QueueInv
  <2>4. {Len(items) + 1} = (Len(items) + 1)..(Len(items) + 1) /\ 1..1 = {1}
    BY <2>2
  <2> QED
    BY <2>1, <2>3, <2>4, GrowsObjects
<1> QED
  BY <1>1, <1>2

LEMMA SelectObjects ==
    ASSUME TypeOK, QueueInv, RowInv, Select
    PROVE  ObjectsOK'
<1>0. PICK l \in Nat : \E batch \in [1..l -> Recoverable] : Recovers(l, batch)
  BY SelectFinds
<1>1. PICK batch \in [1..l -> Recoverable] : Recovers(l, batch)
  BY <1>0
<1> USE DEF Recovers
<1>2. queue' = queue \o Numbers(Len(items), l)
  BY <1>1 DEF SelectBatch, Numbers
<1>3. Len(items) \in Nat /\ Range(queue) \subseteq 1..Len(items)
  BY ItemsAre DEF TypeOK
<1>4. /\ queue' \in Seq(Nat) /\ IsInjective(queue')
      /\ Range(queue') = Range(queue) \union (Len(items) + 1)..(Len(items) + l)
  <2>1. queue \in Seq(Nat) /\ IsInjective(queue)
    BY DEF TypeOK, QueueInv
  <2> QED
    BY <1>2, <1>3, <2>1, QueueConcat
<1>5. ASSUME NEW n \in 1..l
      PROVE  items'[Len(items) + n].at = "queued"
  <2>1. items'[Len(items) + n] = Object(batch[n], rows[batch[n]].attempts, TRUE, "queued")
    BY <1>1
  <2> QED
    BY <2>1 DEF Object
<1> QED
  BY <1>1, <1>4, <1>5, GrowsObjects

LEMMA DrainObjects ==
    ASSUME TypeOK, QueueInv, Drain
    PROVE  ObjectsOK'
<1>1. QueueAgrees
  BY TypeParts DEF ObjectsOK
<1>2. ASSUME NEW i \in Items, i \in Taken
      PROVE  items'[i].at \in {"marking", "handling"}
  BY <1>2, DrainDoes, ObjectFields
<1>3. QueueAgrees'
  BY <1>1, <1>2, DrainDoes, DrainTakes DEF QueueAgrees
<1>4. InFlight' \subseteq InFlight \union Taken
  BY DrainDoes DEF InFlight
<1>5. Cardinality(InFlight') <= Concurrency
  <2>1. /\ IsFiniteSet(InFlight) /\ IsFiniteSet(Taken)
        /\ Cardinality(Taken) + Cardinality(InFlight) <= Concurrency
    BY DrainTakes, InFlightIsFinite
  <2>2. /\ IsFiniteSet(InFlight \union Taken)
        /\ Cardinality(InFlight \union Taken) <= Cardinality(InFlight) + Cardinality(Taken)
    <3>1. /\ IsFiniteSet(InFlight \union Taken)
          /\ Cardinality(InFlight \union Taken)
                = Cardinality(InFlight) + Cardinality(Taken) - Cardinality(InFlight \intersect Taken)
      BY <2>1, FS_Union
    <3>2. Cardinality(InFlight \intersect Taken) \in Nat
      BY <2>1, FS_Intersection, FS_CardinalityType
    <3> QED
      BY <2>1, <3>1, <3>2, FS_CardinalityType
  <2>3. /\ IsFiniteSet(InFlight') /\ Cardinality(InFlight') <= Cardinality(InFlight \union Taken)
    BY <1>4, <2>2, FS_Subset
  <2> QED
    BY <2>1, <2>2, <2>3, FS_CardinalityType, ConstantsAre
<1> QED
  BY <1>3, <1>5, DrainDoes DEF ObjectsOK

LEMMA LearnObjects ==
    ASSUME TypeOK, QueueInv, NEW t \in Tasks, Learn(t)
    PROVE  ObjectsOK'
<1>1. QueueAgrees
  BY TypeParts DEF ObjectsOK
<1>2. Items' = Items /\ \A i \in Items : items'[i].at = items[i].at
  <2>1. ASSUME NEW i \in Items
        PROVE  items'[i].at = items[i].at
    <3>1. CASE items[i].task = t
      <4>1. items'[i] = Object(items[i].task, items[i].attempt, TRUE, items[i].at)
        BY <3>1, LearnDoes
      <4> QED
        BY <4>1 DEF Object
    <3>2. CASE items[i].task # t
      BY <3>2, LearnDoes
    <3> QED
      BY <3>1, <3>2
  <2> QED
    BY <2>1, LearnDoes
<1>3. QueueAgrees'
  BY <1>1, <1>2 DEF QueueAgrees, Learn
<1>4. InFlight' \subseteq InFlight
  BY <1>2 DEF InFlight
<1> QED
  BY <1>3, <1>4, LearnDoes, FewerInFlight DEF ObjectsOK

-----------------------------------------------------------------------------
(* Rows, results and harms.                                                *)

LEMMA RowDoes ==
    ASSUME TypeOK, NEW t \in Tasks, NEW status \in {"queued", "running", "failed"},
           NEW n \in 1..MaxAttempts, Row(t, status, n)
    PROVE  /\ rows' \in RowsType
           /\ \A u \in Tasks \ {t} : rows'[u] = rows[u]
           /\ rows[t].status = "none" => rows'[t] = rows[t]
           /\ rows[t].status # "none" => rows'[t].status = status /\ rows'[t].attempts = n
BY ConstantsAre DEF Row, TypeOK, RowsType

LEMMA HurtDoes ==
    ASSUME TypeOK, NEW t \in Tasks, NEW kind \in Harms, Hurt(t, kind)
    PROVE  /\ hurt' \in [Tasks -> SUBSET Harms]
           /\ \A u \in Tasks \ {t} : hurt'[u] = hurt[u]
           /\ hurt'[t] = hurt[t] \union {kind}
BY DEF Hurt, TypeOK

\* What the steps of an object do to the row, the result and the harms of its task.
Changes(t) ==
    /\ rows' \in RowsType
    /\ \A u \in Tasks \ {t} : rows'[u] = rows[u] /\ result'[u] = result[u] /\ hurt'[u] = hurt[u]
    /\ hurt[t] \subseteq hurt'[t]
    /\ result[t] = "done" => result'[t] = "done"
    /\ rows[t].status = "none" => rows'[t].status = "none"
    /\ rows[t].status # "none" =>
          \/ rows'[t].status # "none" /\ rows'[t].attempts > 0
          \/ rows'[t] = rows[t]
          \/ result[t] = "done" /\ rows'[t].status = "none"

LEMMA WorksChange ==
    ASSUME TypeOK, ItemInv, NEW i \in Items, Works(i), NEW t \in Tasks, t = items[i].task
    PROVE  /\ Changes(t) /\ result' \in [Tasks -> {"none", "done", "failed"}]
           /\ hurt' \in [Tasks -> SUBSET Harms]
           /\ scheduled' \in BOOLEAN /\ healthy' \in BOOLEAN /\ faults' \in Nat
<1>1. ScalarsOK /\ items[i].attempt \in 1..MaxAttempts /\ {"fault", "untracked"} \subseteq Harms
  BY ScalarsAre, ItemsAre DEF Harms
<1>2. /\ faults \in Nat /\ healthy \in BOOLEAN /\ scheduled \in BOOLEAN /\ rows \in RowsType
      /\ result \in [Tasks -> {"none", "done", "failed"}] /\ hurt \in [Tasks -> SUBSET Harms]
  BY <1>1 DEF ScalarsOK
<1>3. Unavailable => faults' \in Nat /\ healthy' \in BOOLEAN
  <2>1. Unavailable => faults' \in Nat /\ healthy' = FALSE
    BY <1>2 DEF Unavailable
  <2>2. FALSE \in BOOLEAN
    OBVIOUS
  <2> QED
    BY <2>1, <2>2, Zenon
\* A harm, or none.
<1>4. ASSUME \/ UNCHANGED hurt
             \/ \E kind \in {"fault", "untracked"} : Hurt(t, kind)
      PROVE  /\ hurt' \in [Tasks -> SUBSET Harms] /\ hurt[t] \subseteq hurt'[t]
             /\ \A u \in Tasks \ {t} : hurt'[u] = hurt[u]
  <2>1. CASE UNCHANGED hurt
    BY <1>2, <2>1
  <2>2. ASSUME NEW kind \in {"fault", "untracked"}, Hurt(t, kind)
        PROVE  /\ hurt' \in [Tasks -> SUBSET Harms] /\ hurt[t] \subseteq hurt'[t]
               /\ \A u \in Tasks \ {t} : hurt'[u] = hurt[u]
    BY <1>1, <2>2, HurtDoes
  <2> QED
    BY <1>4, <2>1, <2>2
\* An update of the row, or none.
<1>5. ASSUME \/ UNCHANGED rows
             \/ \E p \in {"queued", "running", "failed"} : Row(t, p, items[i].attempt)
      PROVE  /\ rows' \in RowsType /\ \A u \in Tasks \ {t} : rows'[u] = rows[u]
             /\ rows[t].status = "none" => rows'[t].status = "none"
             /\ rows[t].status # "none" =>
                   \/ rows'[t].status # "none" /\ rows'[t].attempts > 0
                   \/ rows'[t] = rows[t]
  <2>1. CASE UNCHANGED rows
    BY <1>2, <2>1
  <2>2. ASSUME NEW p \in {"queued", "running", "failed"}, Row(t, p, items[i].attempt)
        PROVE  /\ rows' \in RowsType /\ \A u \in Tasks \ {t} : rows'[u] = rows[u]
               /\ rows[t].status = "none" => rows'[t].status = "none"
               /\ rows[t].status # "none" => rows'[t].status # "none" /\ rows'[t].attempts > 0
    BY <1>1, <2>2, RowDoes
  <2> QED
    BY <1>5, <2>1, <2>2
<1>6. CASE MarkRunning(i)
  BY <1>2, <1>3, <1>4, <1>5, <1>6 DEF MarkRunning, Changes
<1>7. CASE Succeed(i)
  <2>1. /\ result' \in [Tasks -> {"none", "done", "failed"}] /\ result'[t] = "done"
        /\ \A u \in Tasks \ {t} : result'[u] = result[u]
    BY <1>2, <1>7 DEF Succeed
  <2>2. /\ UNCHANGED <<rows, healthy, faults>> /\ scheduled' \in BOOLEAN
        /\ UNCHANGED hurt \/ Hurt(t, "untracked")
    BY <1>2, <1>7 DEF Succeed
  <2> QED
    BY <1>2, <1>4, <1>5, <2>1, <2>2 DEF Changes
<1>8. CASE MarkSucceeded(i)
  <2>1. UNCHANGED result /\ scheduled' \in BOOLEAN /\ result[t] = "done"
    BY <1>8 DEF MarkSucceeded, ItemInv, ItemOK
  <2>2. CASE rows' = [rows EXCEPT ![t] = NoRow] /\ UNCHANGED <<healthy, hurt, faults>>
    <3>1. /\ rows' \in RowsType /\ \A u \in Tasks \ {t} : rows'[u] = rows[u]
          /\ rows'[t].status = "none"
      BY <1>2, <2>2, ConstantsAre DEF RowsType, NoRow
    <3> QED
      BY <1>2, <2>1, <2>2, <3>1 DEF Changes
  <2>3. CASE Unavailable /\ Hurt(t, "fault") /\ UNCHANGED rows
    BY <1>2, <1>3, <1>4, <1>5, <2>1, <2>3 DEF Changes
  <2> QED
    BY <1>8, <2>2, <2>3 DEF MarkSucceeded
<1>9. CASE Fail(i)
  <2>1. /\ result' \in [Tasks -> {"none", "done", "failed"}]
        /\ result[t] = "done" => result'[t] = "done"
        /\ \A u \in Tasks \ {t} : result'[u] = result[u]
    BY <1>2, <1>9 DEF Fail
  <2>2. /\ UNCHANGED <<rows, healthy, faults>> /\ scheduled' \in BOOLEAN
        /\ UNCHANGED hurt \/ Hurt(t, "untracked")
    BY <1>2, <1>9 DEF Fail
  <2> QED
    BY <1>2, <1>4, <1>5, <2>1, <2>2 DEF Changes
<1>10. CASE MarkFailedOrRetry(i)
  <2>1. UNCHANGED <<scheduled, result>>
    BY <1>10 DEF MarkFailedOrRetry
  <2>2. CASE Unavailable /\ Hurt(t, "fault") /\ UNCHANGED rows
    BY <1>2, <1>3, <1>4, <1>5, <2>1, <2>2 DEF Changes
  <2>3. CASE /\ \E p \in {"queued", "failed"} : Row(t, p, items[i].attempt)
             /\ UNCHANGED <<healthy, hurt, faults>>
    BY <1>2, <1>4, <1>5, <2>1, <2>3 DEF Changes
  <2> QED
    BY <1>10, <2>2, <2>3 DEF MarkFailedOrRetry
<1>11. CASE Retry(i)
  BY <1>2, <1>4, <1>5, <1>11 DEF Retry, Changes
<1> QED
  BY <1>6, <1>7, <1>8, <1>9, <1>10, <1>11 DEF Works

\* What every step keeps of a task.
Steady(t) ==
    /\ hurt[t] \subseteq hurt'[t]
    /\ result[t] = "done" => result'[t] = "done"
    /\ insert[t] \notin {"none", "dropped"} => insert'[t] \notin {"none", "dropped"}
    /\ insert[t] \in {"stored", "settled"} => insert'[t] \in {"stored", "settled"}

Inserts == {"none", "dropped", "sent", "stored", "settled"}

LEMMA EnqueueDoes ==
    ASSUME TypeOK, NEW t \in Tasks, Enqueue(t)
    PROVE  /\ ScalarsOK' /\ \A u \in Tasks : Steady(u)
           /\ UNCHANGED <<rows, result>> /\ \A u \in Tasks \ {t} : UNCHANGED insert[u]
           /\ insert[t] = "none" /\ insert'[t] \in {"dropped", "sent", "settled"}
           /\ ~(Len(queue) >= QueueMaxSize) => insert'[t] \in {"sent", "settled"}
           /\ insert'[t] = "settled" => "fault" \in hurt'[t]
<1>1. ScalarsOK /\ "fault" \in Harms
  BY ScalarsAre DEF Harms
<1>2. /\ insert[t] = "none" /\ UNCHANGED <<recovery, healthy, rows, result, faults>>
      /\ UNCHANGED scheduled \/ scheduled' = TRUE
  BY DEF Enqueue
<1>3. \E p \in {"dropped", "sent", "settled"} :
         /\ insert' = [insert EXCEPT ![t] = p]
         /\ ~(Len(queue) >= QueueMaxSize) => p # "dropped"
         /\ p # "settled" => UNCHANGED hurt
         /\ p = "settled" => Hurt(t, "fault")
  BY DEF Enqueue
<1>4. PICK p \in {"dropped", "sent", "settled"} :
         /\ insert' = [insert EXCEPT ![t] = p]
         /\ ~(Len(queue) >= QueueMaxSize) => p # "dropped"
         /\ p # "settled" => UNCHANGED hurt
         /\ p = "settled" => Hurt(t, "fault")
  BY <1>3
<1>5. /\ insert' \in [Tasks -> Inserts] /\ insert'[t] = p
      /\ \A u \in Tasks \ {t} : insert'[u] = insert[u]
  BY <1>1, <1>4 DEF ScalarsOK, Inserts
<1>6. /\ hurt' \in [Tasks -> SUBSET Harms] /\ \A u \in Tasks : hurt[u] \subseteq hurt'[u]
      /\ p = "settled" => "fault" \in hurt'[t]
  <2>1. CASE p = "settled"
    BY <1>1, <1>4, <2>1, HurtDoes
  <2>2. CASE p # "settled"
    BY <1>1, <1>4, <2>2 DEF ScalarsOK
  <2> QED
    BY <2>1, <2>2
<1>7. ScalarsOK'
  BY <1>1, <1>2, <1>5, <1>6 DEF ScalarsOK, Inserts
<1>8. \A u \in Tasks : Steady(u)
  BY <1>2, <1>5, <1>6 DEF Steady
<1> QED
  BY <1>2, <1>4, <1>5, <1>6, <1>7, <1>8

LEMMA InsertDoes ==
    ASSUME TypeOK, NEW t \in Tasks, Insert(t)
    PROVE  /\ ScalarsOK' /\ \A u \in Tasks : Steady(u)
           /\ UNCHANGED <<memory, result, hurt>>
           /\ \A u \in Tasks \ {t} : UNCHANGED rows[u] /\ UNCHANGED insert[u]
           /\ insert[t] = "sent" /\ insert'[t] = "stored"
           /\ rows'[t].status = "queued" /\ rows'[t].attempts = 1
<1>1. ScalarsOK
  BY ScalarsAre
<1>2. /\ insert[t] = "sent" /\ UNCHANGED <<memory, result, hurt, faults>>
      /\ insert' = [insert EXCEPT ![t] = "stored"]
      /\ rows' = [rows EXCEPT ![t] = NewRow]
  BY DEF Insert
<1>3. /\ insert' \in [Tasks -> Inserts] /\ insert'[t] = "stored"
      /\ \A u \in Tasks \ {t} : insert'[u] = insert[u]
  BY <1>1, <1>2 DEF ScalarsOK, Inserts
<1>4. /\ rows' \in RowsType /\ \A u \in Tasks \ {t} : rows'[u] = rows[u]
      /\ rows'[t].status = "queued" /\ rows'[t].attempts = 1
  BY <1>1, <1>2, ConstantsAre DEF ScalarsOK, RowsType, NewRow
<1>5. ScalarsOK'
  BY <1>1, <1>2, <1>3, <1>4 DEF ScalarsOK, Inserts, memory
<1>6. \A u \in Tasks : Steady(u)
  BY <1>2, <1>3 DEF Steady
<1> QED
  BY <1>2, <1>3, <1>4, <1>5, <1>6

LEMMA InsertFailsDoes ==
    ASSUME TypeOK, NEW t \in Tasks, InsertFails(t)
    PROVE  /\ ScalarsOK' /\ \A u \in Tasks : Steady(u)
           /\ UNCHANGED <<items, queue, rows, result>>
           /\ \A u \in Tasks \ {t} : UNCHANGED insert[u]
           /\ insert[t] = "sent" /\ "fault" \in hurt'[t]
<1>1. ScalarsOK /\ "fault" \in Harms
  BY ScalarsAre DEF Harms
<1>2. /\ insert[t] = "sent" /\ UNCHANGED <<items, queue, scheduled, recovery, rows, result>>
      /\ insert' = [insert EXCEPT ![t] = "settled"] /\ Hurt(t, "fault")
      /\ faults' = faults + 1 /\ healthy' = FALSE
  BY DEF InsertFails, Unavailable
<1>3. /\ insert' \in [Tasks -> Inserts] /\ insert'[t] = "settled"
      /\ \A u \in Tasks \ {t} : insert'[u] = insert[u]
  BY <1>1, <1>2 DEF ScalarsOK, Inserts
<1>4. /\ hurt' \in [Tasks -> SUBSET Harms] /\ \A u \in Tasks : hurt[u] \subseteq hurt'[u]
      /\ "fault" \in hurt'[t]
  BY <1>1, <1>2, HurtDoes
<1>5. faults' \in Nat
  BY <1>1, <1>2 DEF ScalarsOK
<1>6. ScalarsOK'
  BY <1>1, <1>2, <1>3, <1>4, <1>5 DEF ScalarsOK, Inserts
<1>7. \A u \in Tasks : Steady(u)
  BY <1>2, <1>3, <1>4 DEF Steady
<1> QED
  BY <1>2, <1>3, <1>4, <1>6, <1>7

LEMMA LearnScalars ==
    ASSUME TypeOK, NEW t \in Tasks, Learn(t)
    PROVE  /\ ScalarsOK' /\ \A u \in Tasks : Steady(u)
           /\ UNCHANGED <<queue, rows, result, hurt>>
           /\ \A u \in Tasks \ {t} : UNCHANGED insert[u]
           /\ insert[t] = "stored" /\ insert'[t] = "settled"
<1>1. ScalarsOK
  BY ScalarsAre
<1>2. /\ insert[t] = "stored" /\ insert' = [insert EXCEPT ![t] = "settled"]
      /\ UNCHANGED <<queue, scheduled, recovery, healthy, rows, result, hurt, faults>>
  BY DEF Learn
<1>3. /\ insert' \in [Tasks -> Inserts] /\ insert'[t] = "settled"
      /\ \A u \in Tasks \ {t} : insert'[u] = insert[u]
  BY <1>1, <1>2 DEF ScalarsOK, Inserts
<1>4. ScalarsOK'
  BY <1>1, <1>2, <1>3 DEF ScalarsOK, Inserts
<1>5. \A u \in Tasks : Steady(u)
  BY <1>2, <1>3 DEF Steady
<1> QED
  BY <1>2, <1>3, <1>4, <1>5

LEMMA WorksSteady ==
    ASSUME TypeOK, ItemInv, NEW i \in Items, Works(i)
    PROVE  ScalarsOK' /\ \A u \in Tasks : Steady(u)
<1>1. PICK t \in Tasks : t = items[i].task
  BY WorksBecome
<1>2. /\ Changes(t) /\ result' \in [Tasks -> {"none", "done", "failed"}]
      /\ hurt' \in [Tasks -> SUBSET Harms]
      /\ scheduled' \in BOOLEAN /\ healthy' \in BOOLEAN /\ faults' \in Nat
      /\ UNCHANGED <<insert, recovery>>
  BY <1>1, WorksChange, WorksBecome
<1>3. ScalarsOK'
  BY <1>2, ScalarsAre DEF ScalarsOK, Changes
<1>4. \A u \in Tasks : Steady(u)
  BY <1>2 DEF Changes, Steady
<1> QED
  BY <1>3, <1>4

\* Rows that are requeued, or ripen, keep what matters.
Keeps(u) ==
    /\ rows'[u].attempts = rows[u].attempts
    /\ rows'[u].status = "none" <=> rows[u].status = "none"
    /\ rows[u].status = "failed" => rows'[u].status = "failed"

LEMMA RipenDoes ==
    ASSUME TypeOK, NEW t \in Tasks, Ripen(t)
    PROVE  /\ ScalarsOK' /\ \A u \in Tasks : Steady(u) /\ Keeps(u)
           /\ UNCHANGED <<memory, insert, result, hurt, faults>>
<1>1. ScalarsOK
  BY ScalarsAre
<1>2. /\ rows' = [rows EXCEPT ![t].ripe = TRUE]
      /\ UNCHANGED <<memory, insert, result, hurt, faults>>
  BY DEF Ripen
<1>3. PICK x : x = [rows[t] EXCEPT !.ripe = TRUE]
  OBVIOUS
<1>4. x = [status |-> rows[t].status, attempts |-> rows[t].attempts, ripe |-> TRUE]
  <2>1. PICK y : y = rows[t] /\ x = [y EXCEPT !.ripe = TRUE]
    BY <1>3
  <2>2. y \in [status : {"none", "queued", "running", "failed"}, attempts : 0..MaxAttempts,
               ripe : BOOLEAN]
    BY <1>1, <2>1 DEF ScalarsOK, RowsType
  <2> QED
    BY <2>1, <2>2
<1>5. rows' = [rows EXCEPT ![t] = x]
  BY <1>2, <1>3
<1>6. rows' \in RowsType /\ \A u \in Tasks : Keeps(u)
  BY <1>1, <1>4, <1>5 DEF ScalarsOK, RowsType, Keeps
<1>7. ScalarsOK'
  BY <1>1, <1>2, <1>6 DEF ScalarsOK, memory
<1>8. \A u \in Tasks : Steady(u)
  BY <1>2 DEF Steady
<1> QED
  BY <1>2, <1>6, <1>7, <1>8

LEMMA ResetDoes ==
    ASSUME TypeOK, Reset
    PROVE  /\ ScalarsOK' /\ \A u \in Tasks : Steady(u) /\ Keeps(u)
           /\ UNCHANGED <<items, queue, insert, result, hurt>>
<1>1. ScalarsOK
  BY ScalarsAre
<1>2. /\ recovery' = "selecting" /\ UNCHANGED <<items, queue, scheduled, healthy, insert, result, hurt>>
      /\ faults' \in Nat
  BY <1>1 DEF Reset, ScalarsOK
<1>3. rows' \in RowsType /\ \A u \in Tasks : Keeps(u)
  <2>1. CASE UNCHANGED rows
    BY <1>1, <2>1 DEF ScalarsOK, Keeps
  <2>2. CASE rows' = [t \in Tasks |-> IF rows[t].status = "running" /\ rows[t].ripe
                                      THEN [rows[t] EXCEPT !.status = "queued"]
                                      ELSE rows[t]]
    <3>1. ASSUME NEW t \in Tasks
          PROVE  /\ rows'[t] \in [status : {"none", "queued", "running", "failed"},
                                  attempts : 0..MaxAttempts, ripe : BOOLEAN]
                 /\ Keeps(t)
      <4>1. PICK y : y = rows[t] /\ rows'[t] = IF y.status = "running" /\ y.ripe
                                               THEN [y EXCEPT !.status = "queued"] ELSE y
        BY <2>2
      <4>2. y \in [status : {"none", "queued", "running", "failed"}, attempts : 0..MaxAttempts,
                   ripe : BOOLEAN]
        BY <1>1, <4>1 DEF ScalarsOK, RowsType
      <4> QED
        BY <4>1, <4>2 DEF Keeps
    <3> QED
      BY <2>2, <3>1 DEF RowsType
  <2> QED
    BY <2>1, <2>2 DEF Reset
<1>4. ScalarsOK'
  BY <1>1, <1>2, <1>3 DEF ScalarsOK
<1>5. \A u \in Tasks : Steady(u)
  BY <1>2 DEF Steady
<1> QED
  BY <1>2, <1>3, <1>4, <1>5

\* A task that is recovered, and is in memory or may still learn its id, is a duplicate.
LEMMA SelectDoes ==
    ASSUME TypeOK, Select
    PROVE  /\ ScalarsOK' /\ \A u \in Tasks : Steady(u)
           /\ UNCHANGED <<insert, rows, result>>
<1>1. ScalarsOK /\ "duplicated" \in Harms
  BY ScalarsAre DEF Harms
<1>2. PICK batch : SelectBatch(batch) /\ scheduled' = (scheduled \/ batch # <<>>)
  BY DEF Select, SelectBatch
<1>3. recovery' \in {"again", "done"} /\ UNCHANGED <<healthy, insert, rows, result, faults>>
  BY DEF Select
<1>4. hurt' \in [Tasks -> SUBSET Harms] /\ \A u \in Tasks : hurt[u] \subseteq hurt'[u]
  BY <1>1, <1>2 DEF ScalarsOK, SelectBatch
<1>5. scheduled' \in BOOLEAN
  BY <1>2, Zenon
<1>6. ScalarsOK'
  BY <1>1, <1>3, <1>4, <1>5 DEF ScalarsOK
<1>7. \A u \in Tasks : Steady(u)
  BY <1>3, <1>4 DEF Steady
<1> QED
  BY <1>3, <1>6, <1>7

LEMMA RestartDoes ==
    ASSUME TypeOK, Restart
    PROVE  /\ ScalarsOK' /\ \A u \in Tasks : Steady(u)
           /\ UNCHANGED result /\ items' = <<>> /\ queue' = <<>>
           /\ \A u \in Tasks : /\ Alive(u) => "crash" \in hurt'[u]
                               /\ \/ /\ rows'[u] = rows[u]
                                     /\ insert[u] = "sent" => "unsaved" \in hurt'[u]
                                  \/ /\ insert[u] = "sent" /\ insert'[u] = "settled"
                                     /\ rows'[u].status = "queued" /\ rows'[u].attempts = 1
                               /\ insert[u] \notin {"sent", "stored"} => UNCHANGED insert[u]
<1>1. ScalarsOK /\ {"crash", "unsaved"} \subseteq Harms
  BY ScalarsAre DEF Harms
<1>2. /\ items' = <<>> /\ queue' = <<>> /\ scheduled' = FALSE /\ healthy' = TRUE
      /\ recovery' = "resetting" /\ UNCHANGED result /\ faults' \in Nat
  BY <1>1 DEF Restart, ScalarsOK
<1>3. PICK landed \in SUBSET {t \in Tasks : insert[t] = "sent"} :
         /\ rows' = [t \in Tasks |-> IF t \in landed THEN NewRow ELSE rows[t]]
         /\ hurt' = [t \in Tasks |-> hurt[t]
               \union (IF Alive(t) THEN {"crash"} ELSE {})
               \union (IF insert[t] = "sent" /\ t \notin landed THEN {"unsaved"} ELSE {})]
  BY DEF Restart
<1>4. /\ hurt' \in [Tasks -> SUBSET Harms] /\ \A u \in Tasks : hurt[u] \subseteq hurt'[u]
      /\ \A u \in Tasks : /\ Alive(u) => "crash" \in hurt'[u]
                          /\ insert[u] = "sent" /\ u \notin landed => "unsaved" \in hurt'[u]
  BY <1>3, <1>1 DEF ScalarsOK
<1>5. /\ rows' \in RowsType
      /\ \A u \in Tasks : IF u \in landed
                          THEN rows'[u].status = "queued" /\ rows'[u].attempts = 1
                          ELSE rows'[u] = rows[u]
  BY <1>3, <1>1, ConstantsAre DEF ScalarsOK, RowsType, NewRow
<1>6. /\ insert' \in [Tasks -> Inserts]
      /\ \A u \in Tasks : insert'[u] = IF insert[u] \in {"sent", "stored"} THEN "settled" ELSE insert[u]
  BY <1>1 DEF Restart, ScalarsOK, Inserts
<1>7. ScalarsOK'
  BY <1>1, <1>2, <1>4, <1>6, <1>5 DEF ScalarsOK, Inserts
<1>8. \A u \in Tasks : Steady(u)
  BY <1>2, <1>4, <1>6 DEF Steady
<1> QED
  BY <1>3, <1>2, <1>4, <1>6, <1>7, <1>8, <1>5

\* Drain, and the rest of the recovery, touch neither rows nor results.
LEMMA OthersDo ==
    ASSUME TypeOK, Drain \/ RecoverAgain \/ RecoveryFails
    PROVE  /\ ScalarsOK' /\ \A u \in Tasks : Steady(u)
           /\ UNCHANGED <<insert, rows, result, hurt>>
           /\ RecoverAgain \/ RecoveryFails => UNCHANGED <<items, queue>>
<1>1. ScalarsOK
  BY ScalarsAre
<1>2. CASE Drain
  BY <1>1, <1>2 DEF Drain, ScalarsOK, Steady, RecoverAgain, RecoveryFails
<1>3. CASE RecoverAgain
  BY <1>1, <1>3 DEF RecoverAgain, ScalarsOK, Steady
<1>4. CASE RecoveryFails
  <2>1. faults' \in Nat /\ healthy' = FALSE
    BY <1>1, <1>4 DEF RecoveryFails, Unavailable, ScalarsOK
  <2> QED
    BY <1>1, <1>4, <2>1 DEF RecoveryFails, ScalarsOK, Steady
<1> QED
  BY <1>2, <1>3, <1>4

LEMMA StillQueued ==
    ASSUME TypeOK, QueueInv, UNCHANGED <<items, queue>>
    PROVE  ObjectsOK'
BY TypeParts DEF ObjectsOK, QueueAgrees, InFlight, Items

LEMMA RestartObjects ==
    ASSUME TypeOK, Restart
    PROVE  ObjectsOK'
<1>1. items' = <<>> /\ queue' = <<>>
  BY RestartDoes
<1>2. /\ items' \in Seq(ItemType) /\ queue' \in Seq(Nat) /\ Items' = {} /\ DOMAIN queue' = {}
  BY <1>1 DEF Items
<1>3. QueueAgrees'
  BY <1>2 DEF QueueAgrees, IsInjective, Range
<1>4. InFlight' = {}
  BY <1>2 DEF InFlight
<1>5. Cardinality(InFlight') <= Concurrency
  BY <1>4, FS_EmptySet, ConstantsAre
<1> QED
  BY <1>2, <1>3, <1>5 DEF ObjectsOK

\* Every step keeps the types, and what it must keep of the tasks.
LEMMA NextTypes ==
    ASSUME TypeOK, QueueInv, ItemInv, RowInv, Next
    PROVE  TypeOK' /\ QueueInv' /\ \A u \in Tasks : Steady(u)
<1>1. ASSUME ObjectsOK', ScalarsOK', \A u \in Tasks : Steady(u)
      PROVE  TypeOK' /\ QueueInv' /\ \A u \in Tasks : Steady(u)
  <2>1. (TypeOK /\ QueueInv <=> ObjectsOK /\ ScalarsOK)'
    BY TypeParts, PTL
  <2> QED
    BY <1>1, <2>1
<1>2. ASSUME NEW t \in Tasks, Enqueue(t)
      PROVE  TypeOK' /\ QueueInv' /\ \A u \in Tasks : Steady(u)
  BY <1>1, <1>2, EnqueueObjects, EnqueueDoes
<1>3. ASSUME NEW t \in Tasks, Insert(t)
      PROVE  TypeOK' /\ QueueInv' /\ \A u \in Tasks : Steady(u)
  BY <1>1, <1>3, StillQueued, InsertDoes DEF memory
<1>4. ASSUME NEW t \in Tasks, InsertFails(t)
      PROVE  TypeOK' /\ QueueInv' /\ \A u \in Tasks : Steady(u)
  BY <1>1, <1>4, StillQueued, InsertFailsDoes
<1>5. ASSUME NEW t \in Tasks, Learn(t)
      PROVE  TypeOK' /\ QueueInv' /\ \A u \in Tasks : Steady(u)
  BY <1>1, <1>5, LearnObjects, LearnScalars
<1>6. ASSUME NEW t \in Tasks, Ripen(t)
      PROVE  TypeOK' /\ QueueInv' /\ \A u \in Tasks : Steady(u)
  BY <1>1, <1>6, StillQueued, RipenDoes DEF memory
<1>7. ASSUME NEW i \in Items, Works(i)
      PROVE  TypeOK' /\ QueueInv' /\ \A u \in Tasks : Steady(u)
  BY <1>1, <1>7, WorksObjects, WorksSteady
<1>8. CASE Drain
  BY <1>1, <1>8, DrainObjects, OthersDo
<1>9. CASE Reset
  BY <1>1, <1>9, StillQueued, ResetDoes
<1>10. CASE Select
  BY <1>1, <1>10, SelectObjects, SelectDoes
<1>11. CASE RecoverAgain \/ RecoveryFails
  BY <1>1, <1>11, StillQueued, OthersDo
<1>12. CASE Restart
  BY <1>1, <1>12, RestartObjects, RestartDoes
<1> QED
  BY <1>2, <1>3, <1>4, <1>5, <1>6, <1>7, <1>8, <1>9, <1>10, <1>11, <1>12 DEF Next

-----------------------------------------------------------------------------
(* What an object knows of its row.                                        *)

\* An object that a step leaves alone.
LEMMA ItemStays ==
    ASSUME TypeOK, TypeOK', ItemInv, \A u \in Tasks : Steady(u),
           NEW i \in Items, items'[i] = items[i]
    PROVE  ItemOK(i)'
BY ItemsAre DEF ItemInv, ItemOK, Steady

\* An object that is put behind the others.
LEMMA ItemIsNew ==
    ASSUME NEW n, NEW t \in Tasks, NEW a, NEW k \in BOOLEAN, items'[n] = Object(t, a, k, "queued"),
           insert'[t] \notin {"none", "dropped"}, k => insert'[t] \in {"stored", "settled"}
    PROVE  ItemOK(n)'
<1>1. /\ items'[n].task = t /\ items'[n].at = "queued" /\ items'[n].known = k
  <2>1. ASSUME NEW o, o = Object(t, a, k, "queued")
        PROVE  o.task = t /\ o.known = k /\ o.at = "queued"
    BY <2>1 DEF Object
  <2> QED
    BY <2>1
<1> QED
  BY <1>1, ConstantsAre DEF ItemOK

\* An object of which a step changes the rest.
LEMMA ItemMoves ==
    ASSUME TypeOK, ItemInv, \A u \in Tasks : Steady(u), NEW i \in Items,
           items[i].task \in Tasks, NEW a \in Nat, NEW k \in BOOLEAN, NEW p,
           items'[i] = Object(items[i].task, a, k, p),
           k => items[i].known \/ insert'[items[i].task] \in {"stored", "settled"},
           p \in {"closing", "updating", "waiting"} => k,
           p = "closing" => result'[items[i].task] = "done",
           p = "waiting" => a < MaxAttempts
    PROVE  ItemOK(i)'
<1>1. PICK t \in Tasks : t = items[i].task
  OBVIOUS
<1>2. /\ items'[i].task = t /\ items'[i].attempt = a
      /\ items'[i].known = k /\ items'[i].at = p
  <2>1. ASSUME NEW o, o = Object(t, a, k, p)
        PROVE  o.task = t /\ o.attempt = a /\ o.known = k /\ o.at = p
    BY <2>1 DEF Object
  <2> QED
    BY <1>1, <2>1
<1>3. /\ insert'[t] \notin {"none", "dropped"}
      /\ k => insert'[t] \in {"stored", "settled"}
  BY <1>1, ConstantsAre DEF Steady, ItemInv, ItemOK
<1> QED
  BY <1>1, <1>2, <1>3, ConstantsAre DEF ItemOK

LEMMA NextItemInv ==
    ASSUME TypeOK, QueueInv, ItemInv, RowInv, Next
    PROVE  ItemInv'
<1>1. TypeOK' /\ \A u \in Tasks : Steady(u)
  BY NextTypes
<1>2. ASSUME UNCHANGED items
      PROVE  ItemInv'
  BY <1>1, <1>2, ItemStays DEF ItemInv, Items
<1>3. ASSUME NEW t \in Tasks, Enqueue(t)
      PROVE  ItemInv'
  <2>1. CASE Len(queue) >= QueueMaxSize
    BY <1>2, <1>3, <2>1 DEF Enqueue
  <2>2. CASE ~(Len(queue) >= QueueMaxSize)
    <3>1. PICK n : n = Len(items) + 1
      OBVIOUS
    <3>2. /\ Grows(1) /\ items'[n] = Object(t, 1, FALSE, "queued")
          /\ insert'[t] \in {"sent", "settled"}
      BY <1>3, <2>2, <3>1, EnqueueGrows, EnqueueDoes
    <3>3. Items' = Items \union {n}
      BY <3>1, <3>2, ItemsAre DEF Grows
    <3>4. ItemOK(n)'
      BY <3>2, ItemIsNew
    <3> QED
      BY <1>1, <3>2, <3>3, <3>4, ItemStays DEF ItemInv, Grows
  <2> QED
    BY <2>1, <2>2
<1>4. ASSUME NEW t \in Tasks, Insert(t) \/ InsertFails(t) \/ Ripen(t)
      PROVE  ItemInv'
  BY <1>2, <1>4, InsertDoes, InsertFailsDoes, RipenDoes DEF memory
<1>5. ASSUME NEW t \in Tasks, Learn(t)
      PROVE  ItemInv'
  <2>1. Items' = Items /\ insert'[t] = "settled" /\ t # 0
    BY <1>5, LearnDoes, LearnScalars, ConstantsAre
  <2>2. ASSUME NEW i \in Items
        PROVE  ItemOK(i)'
    <3>1. CASE items[i].task # t
      BY <1>1, <1>5, <3>1, LearnDoes, ItemStays
    <3>2. CASE items[i].task = t
      <4>1. items'[i] = Object(items[i].task, items[i].attempt, TRUE, items[i].at)
        BY <1>5, <3>2, LearnDoes
      <4>2. /\ items[i].at = "closing" => result'[items[i].task] = "done"
            /\ items[i].at = "waiting" => items[i].attempt < MaxAttempts
        BY <1>1, <3>2 DEF ItemInv, ItemOK, Steady
      <4>3. items[i].attempt \in Nat
        BY ItemsAre
      <4> QED
        BY <1>1, <2>1, <3>2, <4>1, <4>2, <4>3, ItemMoves
    <3> QED
      BY <3>1, <3>2
  <2> QED
    BY <2>1, <2>2 DEF ItemInv
<1>6. ASSUME NEW i \in Items, Works(i)
      PROVE  ItemInv'
  <2>1. /\ items[i].task \in Tasks /\ items[i].attempt \in Nat /\ items[i].known \in BOOLEAN
    <3>1. items[i].task \in Tasks
      BY <1>6, WorksBecome
    <3>2. items[i].attempt \in Nat
      BY ItemsAre, ConstantsAre
    <3> QED
      BY <3>1, <3>2, ItemsAre
  <2>2. ASSUME NEW o, Becomes(i, o), ItemOK(i)'
        PROVE  ItemInv'
    BY <1>1, <2>2, ItemStays DEF ItemInv, Becomes
  <2>3. CASE Becomes(i, Object(0, 1, TRUE, "gone"))
    <3>1. ItemOK(i)'
      <4>1. ASSUME NEW o, o = Object(0, 1, TRUE, "gone")
            PROVE  o.task = 0 /\ o.at = "gone"
        BY <4>1 DEF Object
      <4>2. items'[i].task = 0 /\ items'[i].at = "gone"
        BY <2>3, <4>1 DEF Becomes
      <4> QED
        BY <4>2 DEF ItemOK
    <3> QED
      BY <2>2, <2>3, <3>1
  <2>4. ASSUME NEW p \in {"handling", "closing", "updating", "waiting"},
               Becomes(i, Object(items[i].task, items[i].attempt, items[i].known, p)),
               p \in {"closing", "updating"} => items[i].known,
               p = "closing" => result'[items[i].task] = "done",
               p = "waiting" => items[i].known /\ items[i].attempt < MaxAttempts
        PROVE  ItemInv'
    <3>1. items'[i] = Object(items[i].task, items[i].attempt, items[i].known, p)
      BY <2>4 DEF Becomes
    <3>2. ItemOK(i)'
      BY <1>1, <2>1, <2>4, <3>1, ItemMoves
    <3> QED
      BY <2>2, <2>4, <3>2
  <2>5. CASE Becomes(i, Object(items[i].task, items[i].attempt + 1, items[i].known, "queued"))
    <3>1. PICK a \in Nat : items'[i] = Object(items[i].task, a, items[i].known, "queued")
      BY <2>1, <2>5 DEF Becomes
    <3>2. ItemOK(i)'
      BY <1>1, <2>1, <3>1, ItemMoves
    <3> QED
      BY <2>2, <2>5, <3>2
  <2> QED
    BY <1>6, <2>3, <2>4, <2>5, WorksBecome
<1>7. CASE Drain
  <2>1. Items' = Items
    BY <1>7, DrainDoes
  <2>2. ASSUME NEW i \in Items
        PROVE  ItemOK(i)'
    <3>1. CASE i \notin Taken
      BY <1>1, <1>7, <3>1, DrainDoes, ItemStays
    <3>2. CASE i \in Taken
      <4>1. PICK p \in {"marking", "handling"} :
               items'[i] = Object(items[i].task, items[i].attempt, items[i].known, p)
        BY <1>7, <3>2, DrainDoes
      <4>2. items[i].at = "queued"
        BY <1>7, <3>2, DrainTakes DEF TypeOK
      <4>3. items[i].task \in Tasks /\ items[i].attempt \in Nat /\ items[i].known \in BOOLEAN
        BY <4>2, ItemsAre DEF ItemInv, ItemOK
      <4> QED
        BY <1>1, <4>1, <4>3, ItemMoves
    <3> QED
      BY <3>1, <3>2
  <2> QED
    BY <2>1, <2>2 DEF ItemInv
<1>8. CASE Reset \/ RecoverAgain \/ RecoveryFails
  BY <1>2, <1>8, ResetDoes, OthersDo
<1>9. CASE Select
  <2>1. PICK l \in Nat : \E batch \in [1..l -> Recoverable] : Recovers(l, batch)
    BY <1>9, SelectFinds
  <2>2. PICK batch \in [1..l -> Recoverable] : Recovers(l, batch)
    BY <2>1
  <2>3. Grows(l) /\ Len(items) \in Nat
    BY <2>2, ItemsAre DEF Recovers
  <2>4. ASSUME NEW n \in 1..l, NEW m, m = Len(items) + n
        PROVE  ItemOK(m)'
    <3>1. batch[n] \in Recoverable /\ items'[m] = Object(batch[n], rows[batch[n]].attempts, TRUE, "queued")
      BY <2>2, <2>4 DEF Recovers
    <3>2. batch[n] \in Tasks /\ insert'[batch[n]] \in {"stored", "settled"}
      BY <1>1, <3>1 DEF Recoverable, RowInv, Steady
    <3> QED
      BY <3>1, <3>2, ItemIsNew
  <2>5. ASSUME NEW m \in Items'
        PROVE  ItemOK(m)'
    <3>1. CASE m \in Items
      BY <1>1, <2>3, <3>1, ItemStays DEF Grows
    <3>2. CASE m \notin Items
      <4>1. PICK n : n = m - Len(items)
        OBVIOUS
      <4>2. n \in 1..l /\ m = Len(items) + n
        BY <2>3, <3>2, <4>1, ItemsAre DEF Grows
      <4> QED
        BY <2>4, <4>2
    <3> QED
      BY <3>1, <3>2
  <2> QED
    BY <2>5 DEF ItemInv
<1>10. CASE Restart
  BY <1>10, RestartDoes DEF ItemInv, Items
<1> QED
  BY <1>3, <1>4, <1>5, <1>6, <1>7, <1>8, <1>9, <1>10 DEF Next

-----------------------------------------------------------------------------
(* Rows and their inserts.                                                 *)

LEMMA NextRowInv ==
    ASSUME TypeOK, QueueInv, ItemInv, RowInv, Next
    PROVE  RowInv'
<1>1. \A u \in Tasks : Steady(u)
  BY NextTypes
<1>2. ASSUME \A u \in Tasks : rows[u].status = "none" => rows'[u].status = "none",
             \A u \in Tasks : rows[u].status # "none" =>
                rows'[u].status = "none" \/ rows'[u].attempts > 0
      PROVE  RowInv'
  BY <1>1, <1>2 DEF RowInv, Steady
<1>3. ASSUME UNCHANGED rows
      PROVE  RowInv'
  BY <1>2, <1>3 DEF RowInv
<1>4. ASSUME \A u \in Tasks : Keeps(u)
      PROVE  RowInv'
  BY <1>2, <1>4 DEF RowInv, Keeps
<1>5. ASSUME NEW t \in Tasks, Insert(t)
      PROVE  RowInv'
  BY <1>1, <1>5, InsertDoes DEF RowInv, Steady
<1>6. ASSUME NEW t \in Tasks, Enqueue(t) \/ InsertFails(t) \/ Learn(t)
      PROVE  RowInv'
  BY <1>3, <1>6, EnqueueDoes, InsertFailsDoes, LearnScalars
<1>7. ASSUME NEW t \in Tasks, Ripen(t)
      PROVE  RowInv'
  BY <1>4, <1>7, RipenDoes
<1>8. ASSUME NEW i \in Items, Works(i)
      PROVE  RowInv'
  <2>1. PICK t \in Tasks : t = items[i].task /\ Changes(t)
    BY <1>8, WorksBecome, WorksChange
  <2>2. \A u \in Tasks : rows[u].status # "none" => rows[u].attempts > 0
    BY DEF RowInv
  <2> QED
    BY <1>2, <2>1, <2>2 DEF Changes
<1>9. CASE Drain \/ Select \/ RecoverAgain \/ RecoveryFails
  BY <1>3, <1>9, OthersDo, SelectDoes
<1>11. CASE Restart
  <2>1. ASSUME NEW u \in Tasks, rows'[u].status # "none"
        PROVE  rows'[u].attempts > 0 /\ insert'[u] \in {"stored", "settled"}
    <3>1. CASE rows'[u] = rows[u]
      BY <1>11, <2>1, <3>1, RestartDoes DEF RowInv, Steady
    <3> QED
      BY <1>11, <2>1, <3>1, RestartDoes
  <2> QED
    BY <2>1 DEF RowInv
<1>10. CASE Reset
  BY <1>4, <1>10, ResetDoes
<1> QED
  BY <1>5, <1>6, <1>7, <1>8, <1>9, <1>10, <1>11 DEF Next

\* A row is deleted when its task has succeeded, and at no other time.
LEMMA NextStoredInv ==
    ASSUME TypeOK, QueueInv, ItemInv, RowInv, StoredInv, Next
    PROVE  StoredInv'
<1>1. \A u \in Tasks : Steady(u)
  BY NextTypes
<1> SUFFICES ASSUME NEW u \in Tasks, insert'[u] \in {"stored", "settled"}, result'[u] # "done",
                    Covered(u)'
             PROVE  rows'[u].status # "none"
  BY DEF StoredInv
<1>2. /\ result[u] # "done" /\ Covered(u) /\ "fault" \notin hurt'[u] /\ "unsaved" \notin hurt'[u]
      /\ insert[u] \in {"stored", "settled"} => rows[u].status # "none"
  BY <1>1 DEF Steady, Covered, StoredInv
<1>3. ASSUME NEW t \in Tasks, Enqueue(t)
      PROVE  rows'[u].status # "none"
  BY <1>2, <1>3, EnqueueDoes
<1>4. ASSUME NEW t \in Tasks, Insert(t)
      PROVE  rows'[u].status # "none"
  BY <1>2, <1>4, InsertDoes
<1>5. ASSUME NEW t \in Tasks, InsertFails(t)
      PROVE  rows'[u].status # "none"
  BY <1>2, <1>5, InsertFailsDoes
<1>6. ASSUME NEW t \in Tasks, Learn(t)
      PROVE  rows'[u].status # "none"
  BY <1>2, <1>6, LearnScalars
<1>7. ASSUME NEW t \in Tasks, Ripen(t)
      PROVE  rows'[u].status # "none"
  BY <1>2, <1>7, RipenDoes DEF Keeps
<1>8. ASSUME NEW i \in Items, Works(i)
      PROVE  rows'[u].status # "none"
  <2>1. PICK t \in Tasks : t = items[i].task /\ Changes(t) /\ UNCHANGED insert
    BY <1>8, WorksBecome, WorksChange
  <2> QED
    BY <1>2, <2>1 DEF Changes
<1>9. CASE Drain \/ RecoverAgain \/ RecoveryFails \/ Select
  BY <1>2, <1>9, OthersDo, SelectDoes
<1>10. CASE Reset
  BY <1>2, <1>10, ResetDoes DEF Keeps
<1>11. CASE Restart
  <2>1. insert[u] \in {"none", "dropped", "sent", "stored", "settled"}
    BY DEF TypeOK
  <2> QED
    BY <1>2, <1>11, <2>1, RestartDoes
<1> QED
  BY <1>3, <1>4, <1>5, <1>6, <1>7, <1>8, <1>9, <1>10, <1>11 DEF Next

-----------------------------------------------------------------------------
(* Failures are kept.                                                      *)

\* A task stays in memory, unless an object of it has gone.
LEMMA StaysAlive ==
    ASSUME NEW t, Alive(t), \A i \in Items : items[i].task = t => i \in Items' /\ items'[i].task = t
    PROVE  Alive(t)'
BY DEF Alive

LEMMA NextKeepsFailures ==
    ASSUME TypeOK, QueueInv, ItemInv, RowInv, StoredInv, TrackedFailuresAreKept, Next
    PROVE  TrackedFailuresAreKept'
<1>1. \A u \in Tasks : Steady(u)
  BY NextTypes
<1> SUFFICES ASSUME NEW u \in Tasks, hurt'[u] \subseteq {"duplicated"}, result'[u] = "failed"
             PROVE  Alive(u)' \/ rows'[u].status = "failed"
  BY DEF TrackedFailuresAreKept
<1>2. /\ hurt[u] \subseteq {"duplicated"} /\ result[u] # "done" /\ Covered(u)
      /\ result[u] = "failed" => Alive(u) \/ rows[u].status = "failed"
  BY <1>1 DEF Steady, TrackedFailuresAreKept, Covered
<1>3. ASSUME UNCHANGED result, rows[u].status = "failed" => rows'[u].status = "failed",
             \A i \in Items : items[i].task = u => i \in Items' /\ items'[i].task = u
      PROVE  Alive(u)' \/ rows'[u].status = "failed"
  BY <1>2, <1>3, StaysAlive
<1>4. ASSUME NEW t \in Tasks, Enqueue(t)
      PROVE  Alive(u)' \/ rows'[u].status = "failed"
  <2>1. UNCHANGED <<rows, result>>
    BY <1>4, EnqueueDoes
  <2>2. CASE Len(queue) >= QueueMaxSize
    <3>1. UNCHANGED items
      BY <1>4, <2>2 DEF Enqueue
    <3> QED
      BY <1>3, <2>1, <3>1 DEF Items
  <2>3. CASE ~(Len(queue) >= QueueMaxSize)
    <3>1. Grows(1)
      BY <1>4, <2>3, EnqueueGrows
    <3>2. \A i \in Items : i \in Items' /\ items'[i] = items[i]
      BY <3>1, ItemsAre DEF Grows
    <3> QED
      BY <1>3, <2>1, <3>2
  <2> QED
    BY <2>2, <2>3
<1>5. ASSUME NEW t \in Tasks, Insert(t)
      PROVE  Alive(u)' \/ rows'[u].status = "failed"
  <2>1. UNCHANGED <<items, result>> /\ (u # t => UNCHANGED rows[u]) /\ insert[t] = "sent"
    BY <1>5, InsertDoes DEF memory
  <2>2. rows[t].status = "none"
    BY <1>5, <2>1 DEF RowInv
  <2> QED
    BY <1>3, <2>1, <2>2 DEF Items
<1>6. ASSUME NEW t \in Tasks, InsertFails(t)
      PROVE  Alive(u)' \/ rows'[u].status = "failed"
  BY <1>3, <1>6, InsertFailsDoes DEF Items
<1>7. ASSUME NEW t \in Tasks, Learn(t)
      PROVE  Alive(u)' \/ rows'[u].status = "failed"
  <2>1. Items' = Items /\ UNCHANGED <<rows, result>>
    BY <1>7, LearnDoes, LearnScalars
  <2>2. ASSUME NEW i \in Items
        PROVE  items'[i].task = items[i].task
    <3>1. ASSUME NEW o, o = Object(items[i].task, items[i].attempt, TRUE, items[i].at)
          PROVE  o.task = items[i].task
      BY <3>1 DEF Object
    <3> QED
      BY <1>7, <3>1, LearnDoes
  <2> QED
    BY <1>3, <2>1, <2>2
<1>8. ASSUME NEW t \in Tasks, Ripen(t)
      PROVE  Alive(u)' \/ rows'[u].status = "failed"
  BY <1>3, <1>8, RipenDoes DEF Keeps, memory, Items
<1>9. CASE Drain
  <2>1. Items' = Items /\ UNCHANGED <<rows, result>>
    BY <1>9, DrainDoes, OthersDo
  <2>2. ASSUME NEW i \in Items
        PROVE  items'[i].task = items[i].task
    <3>1. CASE i \notin Taken
      BY <1>9, <3>1, DrainDoes
    <3>2. CASE i \in Taken
      <4>1. PICK p : items'[i] = Object(items[i].task, items[i].attempt, items[i].known, p)
        BY <1>9, <3>2, DrainDoes
      <4> QED
        BY <4>1 DEF Object
    <3> QED
      BY <3>1, <3>2
  <2> QED
    BY <1>3, <2>1, <2>2
<1>10. CASE Reset
  BY <1>3, <1>10, ResetDoes DEF Keeps, Items
<1>11. CASE Select
  <2>1. PICK l \in Nat : Grows(l)
    BY <1>11, SelectFinds DEF Recovers
  <2>2. \A i \in Items : i \in Items' /\ items'[i] = items[i]
    BY <2>1, ItemsAre DEF Grows
  <2> QED
    BY <1>3, <1>11, <2>2, SelectDoes
<1>12. CASE RecoverAgain \/ RecoveryFails
  BY <1>3, <1>12, OthersDo DEF Items
<1>13. CASE Restart
  <2>1. UNCHANGED result /\ ~Alive(u)
    BY <1>1, <1>13, RestartDoes
  <2>2. rows[u].status = "failed" => rows'[u] = rows[u]
    BY <1>13, RestartDoes DEF RowInv
  <2> QED
    BY <1>1, <1>2, <2>1, <2>2
<1>14. ASSUME NEW i \in Items, Works(i)
       PROVE  Alive(u)' \/ rows'[u].status = "failed"
  <2>1. PICK t \in Tasks : t = items[i].task
    BY <1>14, WorksBecome
  <2>2. Changes(t) /\ UNCHANGED insert
    BY <1>14, <2>1, WorksChange, WorksBecome
  \* Of another task.
  <2>3. CASE u # t
    <3>1. rows'[u] = rows[u] /\ result'[u] = result[u]
      BY <2>2, <2>3 DEF Changes
    <3>2. PICK o : Becomes(i, o)
      BY <1>14, WorksBecome
    <3>3. \A j \in Items : items[j].task = u => j \in Items' /\ items'[j].task = u
      BY <2>1, <2>3, <3>2 DEF Becomes
    <3> QED
      BY <1>2, <3>1, <3>3, StaysAlive
  \* Of this one: unless the object goes, the task is in memory.
  <2>4. ASSUME u = t, NEW n, NEW k, NEW p, Becomes(i, Object(t, n, k, p))
        PROVE  Alive(u)'
    <3>1. Object(t, n, k, p).task = t
      BY DEF Object
    <3> QED
      BY <2>4, <3>1 DEF Becomes, Alive
  <2>5. CASE u = t /\ Gone(i)
    <3>1. CASE MarkRunning(i) \/ Retry(i)
      <4>1. PICK n, k, p : Becomes(i, Object(t, n, k, p))
        BY <2>1, <3>1, AtBecomes, RetryBecomes DEF MarkRunning, Places
      <4> QED
        BY <2>4, <2>5, <4>1
    <3>2. CASE Succeed(i)
      BY <2>1, <2>5, <3>2 DEF Succeed, TypeOK
    <3>3. CASE MarkSucceeded(i)
      BY <1>2, <2>1, <2>5, <3>3 DEF MarkSucceeded, ItemInv, ItemOK
    <3>4. CASE Fail(i)
      <4>1. CASE Hurt(t, "untracked")
        BY <2>5, <4>1, HurtDoes DEF Harms
      <4>2. CASE At(i, "updating")
        BY <2>1, <2>4, <2>5, <4>2, AtBecomes DEF Places
      <4> QED
        BY <2>1, <3>4, <4>1, <4>2 DEF Fail
    <3>5. CASE MarkFailedOrRetry(i)
      <4>1. CASE Row(t, "failed", items[i].attempt)
        <5>1. items[i].known /\ insert[t] \in {"stored", "settled"} /\ items[i].attempt \in 1..MaxAttempts
          BY <2>1, <3>5, ItemsAre, ConstantsAre DEF MarkFailedOrRetry, ItemInv, ItemOK
        <5>2. rows[t].status # "none"
          BY <1>2, <2>5, <5>1 DEF StoredInv
        <5> QED
          BY <2>5, <4>1, <5>1, <5>2, RowDoes
      <4>2. CASE At(i, "waiting")
        BY <2>1, <2>4, <2>5, <4>2, AtBecomes DEF Places
      <4>3. CASE Hurt(t, "fault")
        BY <2>5, <4>3, HurtDoes DEF Harms
      <4> QED
        BY <2>1, <3>5, <4>1, <4>2, <4>3 DEF MarkFailedOrRetry
    <3> QED
      BY <1>14, <3>1, <3>2, <3>3, <3>4, <3>5 DEF Works
  <2>6. CASE u = t /\ ~Gone(i)
    <3>1. \/ \E p \in Places : At(i, p)
          \/ Retry(i)
      BY <1>14, <2>6 DEF Works, MarkRunning, Succeed, MarkSucceeded, Fail, MarkFailedOrRetry, Places
    <3> QED
      BY <2>1, <2>4, <2>6, <3>1, AtBecomes, RetryBecomes
  <2> QED
    BY <2>3, <2>5, <2>6
<1> QED
  BY <1>4, <1>5, <1>6, <1>7, <1>8, <1>9, <1>10, <1>11, <1>12, <1>13, <1>14 DEF Next

-----------------------------------------------------------------------------
(* Tasks that met no harm.                                                 *)

\* A task of which no object, no result and no row has changed.
LEMMA OnceStays ==
    ASSUME NEW t, Items' = Items, OnceOK(t),
           \A i \in Items : items'[i].task = items[i].task
               /\ (items[i].at = "closing" => items'[i].at = "closing"),
           UNCHANGED result[t], rows[t].status = "none" => rows'[t].status = "none",
           insert[t] \in {"stored", "settled"} => insert'[t] \in {"stored", "settled"}
    PROVE  OnceOK(t)'
<1>1. Alive(t) => Alive(t)'
  BY DEF Alive
<1> QED
  BY <1>1 DEF OnceOK

\* Behind the objects a new one is put of a task that had none, and has not succeeded.
LEMMA OnceGrows ==
    ASSUME TypeOK, NEW u, OnceOK(u), NEW l \in Nat, Grows(l), NEW S,
           \A m, n \in Items' : m \notin Items /\ n \notin Items
               /\ items'[m].task = u /\ items'[n].task = u => m = n,
           \A m \in Items' : m \notin Items => items'[m].task \in S,
           u \in S => ~Alive(u) /\ result[u] # "done",
           UNCHANGED <<result, rows>>, UNCHANGED insert[u] \/ result[u] # "done"
    PROVE  OnceOK(u)'
<1>1. Items \subseteq Items' /\ \A i \in Items : items'[i] = items[i]
  BY ItemsAre DEF Grows
<1>2. ASSUME NEW m \in Items', NEW n \in Items', items'[m].task = u, items'[n].task = u
      PROVE  m = n
  <2>1. CASE m \in Items /\ n \in Items
    BY <1>1, <1>2, <2>1 DEF OnceOK
  <2>2. CASE m \notin Items /\ n \notin Items
    BY <1>2, <2>2
  <2>3. CASE m \in Items /\ n \notin Items
    BY <1>1, <1>2, <2>3 DEF Alive
  <2>4. CASE m \notin Items /\ n \in Items
    BY <1>1, <1>2, <2>4 DEF Alive
  <2> QED
    BY <2>1, <2>2, <2>3, <2>4
<1>3. CASE result'[u] = "done"
  <2>1. \A m \in Items' : items'[m].task = u => m \in Items
    BY <1>3
  <2>2. Alive(u) => Alive(u)'
    BY <1>1 DEF Alive
  <2> QED
    BY <1>1, <1>2, <1>3, <2>1, <2>2 DEF OnceOK
<1> QED
  BY <1>2, <1>3 DEF OnceOK

\* The rows of a pass are those of different tasks.
LEMMA BatchIsInjective ==
    ASSUME NEW l \in Nat, NEW batch \in [1..l -> Recoverable], FirstRows(batch),
           NEW m \in 1..l, NEW n \in 1..l, batch[m] = batch[n]
    PROVE  m = n
<1>1. batch[m] \in Nat /\ DOMAIN batch = 1..l
  BY ConstantsAre DEF Recoverable
<1>2. ~(m < n) /\ ~(n < m)
  BY <1>1 DEF FirstRows
<1> QED
  BY <1>2

LEMMA NextOnceInv ==
    ASSUME TypeOK, QueueInv, ItemInv, RowInv, OnceInv, Next
    PROVE  OnceInv'
<1>1. \A u \in Tasks : Steady(u)
  BY NextTypes
<1> SUFFICES ASSUME NEW u \in Tasks, hurt'[u] = {}
             PROVE  OnceOK(u)'
  BY DEF OnceInv
<1>2. hurt[u] = {} /\ OnceOK(u) /\ (insert[u] \in {"stored", "settled"} => insert'[u] \in {"stored", "settled"})
  BY <1>1 DEF Steady, OnceInv
<1>3. ASSUME UNCHANGED <<items, result>>, rows[u].status = "none" => rows'[u].status = "none"
      PROVE  OnceOK(u)'
  BY <1>2, <1>3, OnceStays DEF Items
<1>4. ASSUME NEW t \in Tasks, Enqueue(t)
      PROVE  OnceOK(u)'
  <2>1. /\ UNCHANGED <<rows, result>> /\ insert[t] = "none"
        /\ \A w \in Tasks \ {t} : UNCHANGED insert[w]
    BY <1>4, EnqueueDoes
  <2>2. CASE Len(queue) >= QueueMaxSize
    <3>1. UNCHANGED items
      BY <1>4, <2>2 DEF Enqueue
    <3> QED
      BY <1>3, <2>1, <3>1
  <2>3. CASE ~(Len(queue) >= QueueMaxSize)
    <3>1. PICK k : k = Len(items) + 1
      OBVIOUS
    <3>2. Grows(1) /\ items'[k] = Object(t, 1, FALSE, "queued")
      BY <1>4, <2>3, <3>1, EnqueueGrows
    <3>3. Items' = Items \union {k} /\ items'[k].task = t
      BY <3>1, <3>2, ItemsAre DEF Grows, Object
    <3>4. u = t => ~Alive(u) /\ result[u] # "done"
      BY <1>2, <2>1, ConstantsAre DEF Alive, ItemInv, ItemOK, OnceOK
    <3>5. PICK S : S = {t}
      OBVIOUS
    <3>6. /\ \A m, n \in Items' : m \notin Items /\ n \notin Items => m = n
          /\ \A m \in Items' : m \notin Items => items'[m].task \in S
          /\ u \in S => ~Alive(u) /\ result[u] # "done"
          /\ UNCHANGED insert[u] \/ result[u] # "done"
      BY <2>1, <3>3, <3>4, <3>5
    <3> QED
      BY <1>2, <2>1, <3>2, <3>6, OnceGrows
  <2> QED
    BY <2>2, <2>3
<1>5. ASSUME NEW t \in Tasks, Insert(t)
      PROVE  OnceOK(u)'
  <2>1. /\ UNCHANGED <<items, result>> /\ (u # t => UNCHANGED rows[u])
        /\ insert[t] = "sent" /\ insert'[t] = "stored"
    BY <1>5, InsertDoes DEF memory
  <2>2. CASE u # t
    BY <1>3, <2>1, <2>2
  <2>3. CASE u = t
    BY <1>2, <2>1, <2>3 DEF OnceOK, Items
  <2> QED
    BY <2>2, <2>3
<1>6. ASSUME NEW t \in Tasks, InsertFails(t)
      PROVE  OnceOK(u)'
  BY <1>3, <1>6, InsertFailsDoes
<1>7. ASSUME NEW t \in Tasks, Ripen(t)
      PROVE  OnceOK(u)'
  BY <1>3, <1>7, RipenDoes DEF Keeps, memory
<1>8. ASSUME NEW t \in Tasks, Learn(t)
      PROVE  OnceOK(u)'
  <2>1. Items' = Items /\ UNCHANGED <<rows, result>>
    BY <1>8, LearnDoes, LearnScalars
  <2>2. ASSUME NEW i \in Items
        PROVE  items'[i].task = items[i].task /\ items'[i].at = items[i].at
    <3>1. ASSUME NEW o, o = Object(items[i].task, items[i].attempt, TRUE, items[i].at)
          PROVE  o.task = items[i].task /\ o.at = items[i].at
      BY <3>1 DEF Object
    <3> QED
      BY <1>8, <3>1, LearnDoes
  <2> QED
    BY <1>2, <2>1, <2>2, OnceStays
<1>9. CASE Drain
  <2>1. Items' = Items /\ UNCHANGED <<rows, result>>
    BY <1>9, DrainDoes, OthersDo
  <2>2. ASSUME NEW i \in Items
        PROVE  /\ items'[i].task = items[i].task
               /\ items[i].at = "closing" => items'[i].at = "closing"
    <3>1. CASE i \notin Taken
      BY <1>9, <3>1, DrainDoes
    <3>2. CASE i \in Taken
      <4>1. PICK p : items'[i] = Object(items[i].task, items[i].attempt, items[i].known, p)
        BY <1>9, <3>2, DrainDoes
      <4>2. items[i].at = "queued"
        BY <1>9, <3>2, DrainTakes DEF TypeOK
      <4> QED
        BY <4>1, <4>2 DEF Object
    <3> QED
      BY <3>1, <3>2
  <2> QED
    BY <1>2, <2>1, <2>2, OnceStays
<1>10. CASE Reset
  BY <1>3, <1>10, ResetDoes DEF Keeps
<1>11. CASE RecoverAgain \/ RecoveryFails
  BY <1>3, <1>11, OthersDo
<1>12. CASE Select
  <2>1. PICK l \in Nat : \E batch \in [1..l -> Recoverable] : Recovers(l, batch)
    BY <1>12, SelectFinds
  <2>2. PICK batch \in [1..l -> Recoverable] : Recovers(l, batch)
    BY <2>1
  <2>3. /\ Grows(l) /\ FirstRows(batch) /\ Len(items) \in Nat /\ DOMAIN batch = 1..l
        /\ UNCHANGED <<insert, rows, result>>
    BY <1>12, <2>2, ItemsAre, SelectDoes DEF Recovers, SelectBatch
  <2>4. ASSUME NEW m \in Items', m \notin Items
        PROVE  \E n \in 1..l : m = Len(items) + n /\ items'[m].task = batch[n]
    <3>1. PICK n : n = m - Len(items)
      OBVIOUS
    <3>2. n \in 1..l /\ m = Len(items) + n
      BY <2>3, <2>4, <3>1, ItemsAre DEF Grows
    <3>3. items'[m] = Object(batch[n], rows[batch[n]].attempts, TRUE, "queued")
      BY <2>2, <3>2 DEF Recovers
    <3> QED
      BY <3>2, <3>3 DEF Object
  <2>5. ASSUME NEW m \in Items', NEW n \in Items', m \notin Items, n \notin Items,
               items'[m].task = u, items'[n].task = u
        PROVE  m = n
    <3>1. PICK a \in 1..l : m = Len(items) + a /\ items'[m].task = batch[a]
      BY <2>4, <2>5
    <3>2. PICK b \in 1..l : n = Len(items) + b /\ items'[n].task = batch[b]
      BY <2>4, <2>5
    <3>3. a = b
      BY <2>3, <2>5, <3>1, <3>2, BatchIsInjective
    <3> QED
      BY <3>1, <3>2, <3>3
  <2>6. \A m \in Items' : m \notin Items => items'[m].task \in Range(batch)
    BY <2>3, <2>4 DEF Range
  <2>7. ASSUME u \in Range(batch)
        PROVE  ~Alive(u) /\ result[u] # "done"
    <3>1. u \in Recoverable
      BY <2>3, <2>7 DEF Range
    <3>2. ~Alive(u)
      BY <2>2, <2>7 DEF Recovers, SelectBatch
    <3> QED
      BY <1>2, <3>1, <3>2 DEF OnceOK, Recoverable
  <2> QED
    BY <1>2, <2>3, <2>5, <2>6, <2>7, OnceGrows
<1>13. CASE Restart
  <2>1. /\ UNCHANGED result /\ items' = <<>> /\ ~Alive(u)
        /\ insert[u] # "sent" => rows'[u] = rows[u]
    BY <1>13, RestartDoes
  <2>2. Items' = {}
    BY <2>1 DEF Items
  <2> QED
    BY <1>2, <2>1, <2>2 DEF OnceOK
<1>14. ASSUME NEW i \in Items, Works(i)
       PROVE  OnceOK(u)'
  <2>1. PICK t \in Tasks : t = items[i].task
    BY <1>14, WorksBecome
  <2>2. Changes(t) /\ UNCHANGED insert
    BY <1>14, <2>1, WorksChange, WorksBecome
  <2>3. PICK o : Becomes(i, o) /\ (o.task = t \/ o.task = 0)
    <3>1. PICK v, n, k, p : Becomes(i, Object(v, n, k, p)) /\ (v = t \/ v = 0)
      BY <1>14, <2>1, WorksBecome
    <3>2. Object(v, n, k, p).task = v
      BY DEF Object
    <3> QED
      BY <3>1, <3>2
  \* Of another task.
  <2>4. CASE u # t
    <3>1. rows'[u] = rows[u] /\ result'[u] = result[u]
      BY <2>2, <2>4 DEF Changes
    <3>2. u # 0 /\ Items' = Items /\ items'[i].task # u
      BY <2>3, <2>4, ConstantsAre DEF Becomes
    <3>3. Alive(u) => Alive(u)'
      BY <2>1, <2>3, <2>4 DEF Alive, Becomes
    <3> QED
      BY <1>2, <2>1, <2>2, <2>3, <2>4, <3>1, <3>2, <3>3 DEF OnceOK, Becomes
  \* Of this one: the object is its only one.
  <2>5. CASE u = t
    <3>1. \A j \in Items : items[j].task = u => j = i
      BY <1>2, <2>1, <2>5 DEF OnceOK
    <3>2. Items' = Items /\ \A j \in Items : items'[j].task = u => j = i
      BY <2>3, <3>1 DEF Becomes
    <3>3. CASE result'[u] # "done"
      BY <3>2, <3>3 DEF OnceOK
    <3>4. CASE result'[u] = "done"
      <4>1. CASE result[u] = "done"
        <5>1. items[i].at = "closing"
          BY <1>2, <2>1, <2>5, <4>1 DEF OnceOK
        <5>2. MarkSucceeded(i)
          BY <1>14, <5>1 DEF Works, MarkRunning, Succeed, Fail, MarkFailedOrRetry, Retry
        <5>3. rows' = [rows EXCEPT ![t] = NoRow]
          BY <2>1, <2>5, <5>2, HurtDoes DEF MarkSucceeded, Harms
        <5>4. rows'[t].status = "none"
          BY <5>3, ScalarsAre DEF ScalarsOK, RowsType, NoRow
        <5>5. items'[i].task = 0
          BY <5>2, GoneBecomes DEF MarkSucceeded, Becomes, Object
        <5>6. \A j \in Items : items'[j].task # u
          BY <3>2, <5>5, ConstantsAre
        <5> QED
          BY <1>2, <2>2, <2>5, <3>2, <4>1, <5>4, <5>6 DEF OnceOK
      <4>2. CASE result[u] # "done"
        <5>1. Succeed(i)
          BY <1>14, <2>1, <2>5, <3>4, <4>2
             DEF Works, MarkRunning, MarkSucceeded, Fail, MarkFailedOrRetry, Retry, TypeOK
        <5>2. Tracked(i) /\ At(i, "closing")
          BY <2>1, <2>5, <5>1, HurtDoes DEF Succeed, Harms
        <5>3. insert[u] \in {"stored", "settled"}
          BY <2>1, <2>5, <5>2, ConstantsAre DEF Tracked, ItemInv, ItemOK
        <5>4. items'[i].task = u /\ items'[i].at = "closing"
          <6>1. items'[i] = Object(items[i].task, items[i].attempt, items[i].known, "closing")
            BY <5>2, AtBecomes DEF Becomes, Places
          <6> QED
            BY <2>1, <2>5, <6>1 DEF Object
        <5> QED
          BY <2>2, <3>2, <3>4, <5>3, <5>4 DEF OnceOK, Alive
      <4> QED
        BY <4>1, <4>2
    <3> QED
      BY <3>3, <3>4
  <2> QED
    BY <2>4, <2>5
<1> QED
  BY <1>4, <1>5, <1>6, <1>7, <1>8, <1>9, <1>10, <1>11, <1>12, <1>13, <1>14 DEF Next

-----------------------------------------------------------------------------
(* Wake-ups.                                                               *)

LEMMA NextWakeUpInv ==
    ASSUME TypeOK, QueueInv, ItemInv, RowInv, WakeUpInv, Next
    PROVE  WakeUpInv'
<1>1. ASSUME UNCHANGED <<items, scheduled>>
      PROVE  WakeUpInv'
  BY <1>1 DEF WakeUpInv, Waiting, InFlight, Items
<1>2. ASSUME scheduled' = TRUE
      PROVE  WakeUpInv'
  BY <1>2 DEF WakeUpInv
<1>3. ASSUME UNCHANGED scheduled, Waiting' \subseteq Waiting, InFlight \subseteq InFlight'
      PROVE  WakeUpInv'
  BY <1>3 DEF WakeUpInv
<1>4. ASSUME NEW t \in Tasks, Enqueue(t)
      PROVE  WakeUpInv'
  BY <1>1, <1>2, <1>4 DEF Enqueue
<1>5. ASSUME NEW t \in Tasks, Insert(t) \/ InsertFails(t) \/ Ripen(t)
      PROVE  WakeUpInv'
  BY <1>1, <1>5 DEF Insert, InsertFails, Ripen, memory
<1>6. ASSUME NEW t \in Tasks, Learn(t)
      PROVE  WakeUpInv'
  <2>1. Items' = Items /\ UNCHANGED scheduled
    BY <1>6, LearnDoes DEF Learn
  <2>2. ASSUME NEW i \in Items
        PROVE  items'[i].at = items[i].at
    <3>1. ASSUME NEW o, o = Object(items[i].task, items[i].attempt, TRUE, items[i].at)
          PROVE  o.at = items[i].at
      BY <3>1 DEF Object
    <3> QED
      BY <1>6, <3>1, LearnDoes
  <2> QED
    BY <1>3, <2>1, <2>2 DEF Waiting, InFlight
<1>7. CASE Drain
  \* What stays in the queue stays because the handlers are at their limit.
  <2>1. /\ Items' = Items /\ \A i \in InFlight : i \in InFlight'
        /\ \A i \in Taken : i \in InFlight'
    <3>1. /\ Items' = Items /\ \A i \in Items \ Taken : items'[i] = items[i]
          /\ \A i \in Items : i \in Taken => \E p \in {"marking", "handling"} :
                items'[i] = Object(items[i].task, items[i].attempt, items[i].known, p)
      BY <1>7, DrainDoes
    <3>2. \A i \in Taken : i \in Items /\ items[i].at = "queued"
      BY <1>7, DrainTakes DEF TypeOK
    <3>3. ASSUME NEW i \in Taken
          PROVE  i \in InFlight'
      <4>1. PICK p \in {"marking", "handling"} :
               items'[i] = Object(items[i].task, items[i].attempt, items[i].known, p)
        BY <3>1, <3>2
      <4>2. items'[i].at = p
        BY <4>1 DEF Object
      <4> QED
        BY <3>1, <3>2, <4>2 DEF InFlight
    <3>4. ASSUME NEW i \in InFlight
          PROVE  i \in InFlight'
      BY <3>1, <3>2 DEF InFlight
    <3> QED
      BY <3>1, <3>3, <3>4
  <2>2. CASE InFlight # {}
    BY <2>1, <2>2 DEF WakeUpInv
  <2>3. CASE InFlight = {}
    <3>1. Room = Concurrency /\ Len(queue) \in Nat
      BY <2>3, FS_EmptySet, ConstantsAre, LenProperties DEF Room, QueueInv
    <3>2. CASE Len(queue) = 0
      <4>1. Range(queue) = {} /\ Waiting = {}
        BY <3>2, LenProperties DEF Range, QueueInv, TypeOK, Waiting
      <4>2. Waiting' \subseteq Waiting
        <5>1. QueueAgrees'
          BY <1>7, DrainObjects DEF ObjectsOK
        <5>2. Range(queue') \subseteq Range(queue)
          BY <1>7, DrainTakes
        <5> QED
          BY <5>1, <5>2 DEF QueueAgrees, Waiting, TypeOK
      <4> QED
        BY <4>1, <4>2 DEF WakeUpInv
    <3>3. CASE Len(queue) # 0
      <4>1. PICK n : n = Min({Room, Len(queue)})
        OBVIOUS
      <4>2. n \in {Room, Len(queue)}
        <5>1. \E x \in {Room, Len(queue)} : \A y \in {Room, Len(queue)} : x =< y
          BY <3>1, ConstantsAre
        <5> QED
          BY <4>1, <5>1 DEF Min
      <4>3. n \in 1..Len(queue)
        <5>1. n \in 0..Len(queue)
          BY <3>1, <4>1, ConstantsAre, MinOfTwo
        <5> QED
          BY <3>1, <3>3, <4>2, <5>1, ConstantsAre
      <4>4. queue[1] \in Taken
        <5>1. /\ SubSeq(queue, 1, n) \in Seq(Nat) /\ Len(SubSeq(queue, 1, n)) = n
              /\ SubSeq(queue, 1, n)[1] = queue[1]
          <6>1. \A x \in 1..n : queue[x] \in Nat
            BY <3>1, <4>3, ElementOfSeq DEF QueueInv
          <6> QED
            BY <3>1, <4>3, <6>1, SubSeqProperties
        <5>2. PICK first \in Seq(Nat) : /\ first = SubSeq(queue, 1, n) /\ Len(first) = n
                                        /\ first[1] = queue[1]
          BY <5>1
        <5>3. Taken = Range(first)
          BY <4>1, <5>2 DEF Taken
        <5>4. DOMAIN first = 1..n /\ 1 \in 1..n
          BY <3>1, <4>3, <5>2, LenProperties
        <5> QED
          BY <5>2, <5>3, <5>4 DEF Range
      <4> QED
        BY <2>1, <4>4 DEF WakeUpInv
    <3> QED
      BY <3>2, <3>3
  <2> QED
    BY <2>2, <2>3
<1>8. CASE Select
  <2>1. PICK batch : scheduled' = (scheduled \/ batch # <<>>) /\ SelectBatch(batch)
    BY <1>8 DEF Select, SelectBatch
  <2>2. CASE batch # <<>>
    BY <1>2, <2>1, <2>2
  <2>3. CASE batch = <<>>
    <3>1. items' = items
      <4>1. PICK f : f = [n \in DOMAIN batch |->
                    [task |-> batch[n], attempt |-> rows[batch[n]].attempts,
                     known |-> TRUE, at |-> "queued"]]
        OBVIOUS
      <4>2. f = <<>>
        BY <2>3, <4>1
      <4>3. items' = items \o f
        BY <2>1, <4>1 DEF SelectBatch
      <4> QED
        BY <4>2, <4>3, ItemsAre
    <3>2. scheduled' = scheduled
      <4>1. scheduled \in BOOLEAN
        BY DEF TypeOK
      <4> QED
        BY <2>1, <2>3, <4>1, Zenon
    <3> QED
      BY <1>1, <3>1, <3>2
  <2> QED
    BY <2>2, <2>3
<1>9. CASE Reset \/ RecoverAgain \/ RecoveryFails
  BY <1>1, <1>9 DEF Reset, RecoverAgain, RecoveryFails
<1>10. CASE Restart
  BY <1>10, RestartDoes DEF WakeUpInv, Waiting, Items
<1>11. ASSUME NEW i \in Items, Works(i)
       PROVE  WakeUpInv'
  <2>1. items[i].at # "queued"
    BY <1>11, WorksBecome
  <2>2. ASSUME NEW n, NEW k, NEW p, Becomes(i, Object(items[i].task, n, k, p)), p # "queued",
               i \in InFlight => p \in {"handling", "closing"}, UNCHANGED scheduled
        PROVE  WakeUpInv'
    <3>1. items'[i].at = p
      BY <2>2 DEF Becomes, Object
    <3> QED
      BY <1>3, <2>1, <2>2, <3>1 DEF Waiting, InFlight, Becomes
  <2>3. CASE MarkRunning(i)
    BY <1>11, <2>2, <2>3, AtBecomes DEF MarkRunning, Places
  <2>4. CASE Succeed(i)
    BY <1>2, <2>2, <2>4, AtBecomes DEF Succeed, Places
  <2>5. CASE MarkSucceeded(i) \/ Fail(i) \/ Retry(i)
    BY <1>2, <2>5 DEF MarkSucceeded, Fail, Retry
  <2>6. CASE MarkFailedOrRetry(i)
    <3>1. i \notin InFlight /\ UNCHANGED scheduled /\ (At(i, "waiting") \/ Gone(i))
      BY <2>6 DEF MarkFailedOrRetry, InFlight
    <3>2. CASE At(i, "waiting")
      BY <2>2, <3>1, <3>2, AtBecomes DEF Places
    <3>3. CASE Gone(i)
      <4>1. items'[i].at = "gone" /\ Becomes(i, Object(0, 1, TRUE, "gone"))
        BY <3>3, GoneBecomes DEF Becomes, Object
      <4> QED
        BY <1>3, <3>1, <4>1 DEF Waiting, InFlight, Becomes
    <3> QED
      BY <3>1, <3>2, <3>3
  <2> QED
    BY <1>11, <2>3, <2>4, <2>5, <2>6 DEF Works
<1> QED
  BY <1>4, <1>5, <1>6, <1>7, <1>8, <1>9, <1>10, <1>11 DEF Next

-----------------------------------------------------------------------------
(* The theorems.                                                           *)

LEMMA InitSafe == Init => QueueSafe
<1> SUFFICES ASSUME Init PROVE QueueSafe
  OBVIOUS
<1>1. /\ items \in Seq(ItemType) /\ queue \in Seq(Nat) /\ Items = {} /\ DOMAIN queue = {}
  BY DEF Init, Items
<1>2. ObjectsOK
  <2>1. InFlight = {}
    BY <1>1 DEF InFlight
  <2> QED
    BY <1>1, <2>1, FS_EmptySet, ConstantsAre DEF ObjectsOK, QueueAgrees, IsInjective, Range
<1>3. ScalarsOK
  <2>1. rows \in RowsType
    <3>1. NoRow \in [status : {"none", "queued", "running", "failed"},
                    attempts : 0..MaxAttempts, ripe : BOOLEAN]
      BY ConstantsAre DEF NoRow
    <3> QED
      BY <3>1 DEF Init, RowsType
  <2>2. hurt \in [Tasks -> SUBSET Harms]
    BY DEF Init
  <2>3. scheduled \in BOOLEAN /\ healthy \in BOOLEAN
    BY DEF Init
  <2> QED
    BY <2>1, <2>2, <2>3 DEF Init, ScalarsOK
<1>4. ItemInv /\ RowInv /\ StoredInv /\ OnceInv /\ TrackedFailuresAreKept /\ WakeUpInv
  BY <1>1 DEF Init, NoRow, ItemInv, RowInv, StoredInv, OnceInv, OnceOK, TrackedFailuresAreKept,
         WakeUpInv, Waiting
<1> QED
  BY <1>2, <1>3, <1>4, TypeParts DEF QueueSafe

LEMMA NextSafe == QueueSafe /\ [Next]_vars => QueueSafe'
<1> SUFFICES ASSUME QueueSafe, [Next]_vars PROVE QueueSafe'
  OBVIOUS
<1> USE DEF QueueSafe
<1>1. CASE Next
  BY <1>1, NextTypes, NextItemInv, NextRowInv, NextStoredInv, NextOnceInv, NextKeepsFailures,
     NextWakeUpInv
<1>2. CASE UNCHANGED vars
  <2>1. UNCHANGED <<items, queue, scheduled, recovery, healthy, insert, rows, result, hurt, faults>>
    BY <1>2 DEF vars, memory
  <2>2. (TypeOK /\ QueueInv)'
    BY <2>1 DEF TypeOK, QueueInv, InFlight, Items
  <2>3. (ItemInv /\ RowInv /\ StoredInv)'
    BY <2>1 DEF ItemInv, ItemOK, RowInv, StoredInv, Covered, Items
  <2>4. (OnceInv /\ TrackedFailuresAreKept /\ WakeUpInv)'
    BY <2>1 DEF OnceInv, OnceOK, TrackedFailuresAreKept, WakeUpInv, Alive, Items, Waiting, InFlight
  <2> QED
    BY <2>2, <2>3, <2>4
<1> QED
  BY <1>1, <1>2

LEMMA AlwaysSafe == Spec => []QueueSafe
BY InitSafe, NextSafe, PTL DEF Spec

\* Objects and rows keep their types, a queued object is queued once, and no more
\* handlers run than QUEUE_CONCURRENCY allows, however many tasks and rows there are.
THEOREM TypeCorrect == Spec => []TypeOK
<1>1. QueueSafe => TypeOK
  BY DEF QueueSafe
<1> QED
  BY <1>1, AlwaysSafe, PTL

\* markDurableFailedOrRetry keeps its promise to a task that met no harm but a
\* duplicate: while it fails it is in memory, and after the last attempt its row
\* is there, as failed.
THEOREM FailuresAreKept == Spec => []TrackedFailuresAreKept
<1>1. QueueSafe => TrackedFailuresAreKept
  BY DEF QueueSafe
<1> QED
  BY <1>1, AlwaysSafe, PTL

\* A task that enqueueTelemetryTask accepted is in memory, on its way to the table,
\* or in it until it has succeeded, unless its insert failed or was cut short.
THEOREM AcceptedTasksAreKept == Spec => []NothingIsLost
<1>1. QueueSafe => NothingIsLost
  <2> SUFFICES ASSUME QueueSafe, NEW t \in Tasks, insert[t] \notin {"none", "dropped"},
                      result[t] # "done", hurt[t] \intersect {"fault", "unsaved"} = {}
               PROVE  insert[t] = "sent" \/ rows[t].status # "none"
    BY DEF NothingIsLost
  <2>1. insert[t] = "sent" \/ insert[t] \in {"stored", "settled"}
    BY DEF QueueSafe, TypeOK
  <2> QED
    BY <2>1 DEF QueueSafe, StoredInv, Covered
<1> QED
  BY <1>1, AlwaysSafe, PTL

\* scheduleDrain never begins a task again that has succeeded and met no harm:
\* what is left of it in memory is the object that deletes its row.
THEOREM NotBegunAgain == Spec => DoneOnce
<1>1. QueueSafe => \A t \in Tasks : result[t] = "done" /\ hurt[t] = {} =>
                      ~\E i \in Items : items[i].task = t /\ Begun(i)
  BY DEF QueueSafe, OnceInv, OnceOK, Begun
<1>2. QueueSafe /\ [Next]_vars =>
         [\A t \in Tasks : result[t] = "done" /\ hurt[t] = {} =>
             ~\E i \in Items : items[i].task = t /\ Begun(i)]_vars
  BY <1>1
<1> QED
  BY <1>2, AlwaysSafe, PTL DEF Spec, DoneOnce

\* The drain loses no wake-up: while a task waits in the queue, scheduleDrain is due,
\* or a handler runs, and its end, however it ends, schedules the drain.
THEOREM DrainIsWoken == Spec => []WakeUpInv
<1>1. QueueSafe => WakeUpInv
  BY DEF QueueSafe
<1> QED
  BY <1>1, AlwaysSafe, PTL
=============================================================================
