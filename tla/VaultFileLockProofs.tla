------------------------- MODULE VaultFileLockProofs -------------------------
(***************************************************************************)
(* Theorems about VaultFileLock, for any number of callers.                *)
(***************************************************************************)
EXTENDS VaultFileLock, TLAPS

USE CallersAssumption

\* The states are those the type invariant names.
THEOREM TypeCorrect == Spec => []TypeOK
<1>1. Init => TypeOK
  <2> SUFFICES ASSUME Init PROVE TypeOK
    OBVIOUS
  <2>1. file \in [by : Callers \union {Absent}, stale : BOOLEAN]
    BY DEF Init, NoFile
  <2>2. pc \in [Callers -> {"idle"} \union Waiting \union Holding \union Ended]
    BY DEF Init
  <2>3. sealed \in BOOLEAN /\ harm \subseteq {"overstayed", "stolen"} /\ late \subseteq Callers
    BY DEF Init
  <2> QED BY <2>1, <2>2, <2>3 DEF Init, TypeOK
<1>2. TypeOK /\ [Next]_vars => TypeOK'
  <2> SUFFICES ASSUME TypeOK, [Next]_vars PROVE TypeOK'
    OBVIOUS
  <2> USE DEF TypeOK, Goes, NoFile, Remove, Waiting, Holding, Ended
  <2>1. ASSUME NEW c \in Callers, Call(c) PROVE TypeOK'
    BY <2>1 DEF Call
  <2>2. ASSUME NEW c \in Callers, Open(c) PROVE TypeOK'
    <3>1. late' = late /\ sealed' = sealed /\ harm' = harm
      BY <2>2 DEF Open
    <3>2. CASE Goes(c, "looking") /\ UNCHANGED file
      BY <3>1, <3>2
    <3>3. CASE Goes(c, "writing") /\ file' = [by |-> c, stale |-> FALSE]
      BY <3>1, <3>3
    <3>4. CASE Goes(c, "failed") /\ UNCHANGED file
      BY <3>1, <3>4
    <3> HIDE DEF TypeOK, Goes
    <3> QED BY <2>2, <3>2, <3>3, <3>4, Zenon DEF Open
  <2>3. ASSUME NEW c \in Callers, Write(c) PROVE TypeOK'
    BY <2>3 DEF Write
  <2>4. ASSUME NEW c \in Callers, Look(c) PROVE TypeOK'
    BY <2>4 DEF Look
  <2>5. ASSUME NEW c \in Callers, Clear(c) PROVE TypeOK'
    BY <2>5 DEF Clear
  <2>6. ASSUME NEW c \in Callers, Pause(c) PROVE TypeOK'
    BY <2>6 DEF Pause
  <2>7. ASSUME NEW c \in Callers, Work(c) PROVE TypeOK'
    BY <2>7 DEF Work
  <2>8. ASSUME NEW c \in Callers, Release(c) PROVE TypeOK'
    BY <2>8 DEF Release
  <2>9. ASSUME NEW c \in Callers, TimeOut(c) PROVE TypeOK'
    BY <2>9 DEF TimeOut
  <2>10. ASSUME NEW c \in Callers, Kill(c) PROVE TypeOK'
    BY <2>10 DEF Kill
  <2>11. CASE Age
    BY <2>11 DEF Age
  <2>12. CASE Seal
    BY <2>12 DEF Seal
  <2>13. CASE UNCHANGED vars
    BY <2>13 DEF vars
  <2> QED
    BY <2>1, <2>2, <2>3, <2>4, <2>5, <2>6, <2>7, <2>8, <2>9, <2>10, <2>11, <2>12, <2>13
    DEF Next, Runs
<1> QED BY <1>1, <1>2, PTL DEF Spec

-----------------------------------------------------------------------------

\* What makes OneHolder inductive: the lock file exists, is the holder's own and
\* is young for as long as a call holds the lock.
OwnFile == harm = {} => \A c \in Callers : pc[c] \in Holding => file.by = c /\ ~file.stale

\* No call takes, clears or releases the lock of another.
LEMMA OwnFileStep ==
    ASSUME TypeOK, OwnFile, [Next]_vars
    PROVE  OwnFile'
<1> USE DEF TypeOK, OwnFile, Goes, NoFile, Remove, Waiting, Holding, Ended
<1>1. ASSUME NEW c \in Callers, Call(c) PROVE OwnFile'
  BY <1>1 DEF Call
<1>2. ASSUME NEW c \in Callers, Open(c) PROVE OwnFile'
  \* It creates the file only if there is none, and then nobody holds the lock.
  <2>1. late' = late /\ sealed' = sealed /\ harm' = harm
    BY <1>2 DEF Open
  <2>2. CASE Goes(c, "looking") /\ UNCHANGED file
    BY <2>1, <2>2
  <2>3. CASE file.by = Absent /\ Goes(c, "writing") /\ file' = [by |-> c, stale |-> FALSE]
    BY <2>1, <2>3
  <2>4. CASE Goes(c, "failed") /\ UNCHANGED file
    BY <2>1, <2>4
  <2> HIDE DEF OwnFile, Goes
  <2> QED BY <1>2, <2>2, <2>3, <2>4, Zenon DEF Open
<1>3. ASSUME NEW c \in Callers, Write(c) PROVE OwnFile'
  BY <1>3 DEF Write
<1>4. ASSUME NEW c \in Callers, Look(c) PROVE OwnFile'
  BY <1>4 DEF Look
<1>5. ASSUME NEW c \in Callers, Clear(c) PROVE OwnFile'
  \* What it clears has been judged stale, or somebody is robbed and harm says so.
  <2> SUFFICES ASSUME harm' = {}, NEW d \in Callers, pc'[d] \in Holding
               PROVE file'.by = d /\ ~file'.stale
    OBVIOUS
  <2>1. harm = {} /\ d # c /\ pc[d] \in Holding
    BY <1>5 DEF Clear
  <2>2. file.by = d /\ ~file.stale
    BY <2>1
  <2>3. sealed
    BY <1>5, <2>2 DEF Clear
  <2> QED BY <1>5, <2>2, <2>3 DEF Clear
<1>6. ASSUME NEW c \in Callers, Pause(c) PROVE OwnFile'
  BY <1>6 DEF Pause
<1>7. ASSUME NEW c \in Callers, Work(c) PROVE OwnFile'
  BY <1>7 DEF Work
<1>8. ASSUME NEW c \in Callers, Release(c) PROVE OwnFile'
  BY <1>8 DEF Release
<1>9. ASSUME NEW c \in Callers, TimeOut(c) PROVE OwnFile'
  BY <1>9 DEF TimeOut
<1>10. ASSUME NEW c \in Callers, Kill(c) PROVE OwnFile'
  BY <1>10 DEF Kill
<1>11. CASE Age
  BY <1>11 DEF Age
<1>12. CASE Seal
  BY <1>12 DEF Seal
<1>13. CASE UNCHANGED vars
  BY <1>13 DEF vars
<1> QED
  BY <1>1, <1>2, <1>3, <1>4, <1>5, <1>6, <1>7, <1>8, <1>9, <1>10, <1>11, <1>12, <1>13
  DEF Next, Runs

\* One call at a time has the lock, as long as no task takes longer than staleMs
\* and no two waiters clear the same dead lock.
THEOREM LockIsExclusive == Spec => []OneHolder
<1>1. Init => OwnFile
  BY DEF Init, OwnFile, Holding
<1>2. TypeOK /\ OwnFile /\ [Next]_vars => OwnFile'
  BY OwnFileStep
<1>3. OwnFile => OneHolder
  BY DEF OwnFile, OneHolder
<1> QED BY <1>1, <1>2, <1>3, TypeCorrect, PTL DEF Spec
=============================================================================
