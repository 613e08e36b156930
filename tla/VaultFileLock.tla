---------------------------- MODULE VaultFileLock ----------------------------
(***************************************************************************)
(* The lock files of the Obsidian vault (src/utils/obsidianFileLock.ts):   *)
(* calls of withObsidianFileLock for one key, of any processes that share  *)
(* the vault.  A step is one call of the file system, between two of which *)
(* any other caller may act.  The file's mtime is reduced to whether it is *)
(* older than staleMs.                                                     *)
(***************************************************************************)
EXTENDS FiniteSets

CONSTANTS
    Callers, \* calls of withObsidianFileLock, each made once
    Absent   \* there is no lock file

ASSUME CallersAssumption == Absent \notin Callers

VARIABLES
    pc,     \* where each call is
    late,   \* the calls whose timeoutMs has passed
    file,   \* who created the lock file, and whether it is older than staleMs
    sealed, \* the directory no longer allows to create or remove files
    harm    \* the races that happened

vars == <<pc, late, file, sealed, harm>>

Ended == {"returned", "timed out", "failed", "killed"}
Waiting == {"opening", "looking", "clearing", "pausing"}
Holding == {"writing", "working", "releasing"}

NoFile == [by |-> Absent, stale |-> FALSE]

\* Calls and the lock file keep their types: what does not exist has no age.
TypeOK ==
    /\ pc \in [Callers -> {"idle"} \union Waiting \union Holding \union Ended]
    /\ late \subseteq Callers
    /\ file \in [by : Callers \union {Absent}, stale : BOOLEAN]
    /\ file.by = Absent => file = NoFile
    /\ sealed \in BOOLEAN
    /\ harm \subseteq {"overstayed", "stolen"}

Init ==
    /\ pc = [c \in Callers |-> "idle"]
    /\ late = {}
    /\ file = NoFile
    /\ sealed = FALSE
    /\ harm = {}

Goes(c, where) == pc' = [pc EXCEPT ![c] = where]

-----------------------------------------------------------------------------
(* withObsidianFileLock.                                                   *)

\* The directory is created, startedAt is taken.
Call(c) ==
    /\ pc[c] = "idle"
    /\ Goes(c, "opening")
    /\ UNCHANGED <<late, file, sealed, harm>>

\* Variant of Open (OneHolder): open without the flag that refuses an existing file.
OpenShared(c) ==
    /\ pc[c] = "opening"
    /\ file' = [by |-> c, stale |-> FALSE] /\ Goes(c, "writing")
    /\ UNCHANGED <<late, sealed, harm>>

\* open(lockPath, 'wx'), which creates the file or fails with EEXIST; any other
\* error is thrown.
Open(c) ==
    /\ pc[c] = "opening"
    /\ \/ file.by # Absent /\ Goes(c, "looking") /\ UNCHANGED file
       \/ file.by = Absent /\ ~sealed /\ Goes(c, "writing")
          /\ file' = [by |-> c, stale |-> FALSE]
       \/ file.by = Absent /\ sealed /\ Goes(c, "failed") /\ UNCHANGED file
    /\ UNCHANGED <<late, sealed, harm>>

\* writeFile and close, by the handle: another file may have taken the name.
\* Its error is thrown and leaves the lock file behind.
Write(c) ==
    /\ pc[c] = "writing"
    /\ \/ /\ Goes(c, "working")
          /\ file' = IF file.by = c THEN [file EXCEPT !.stale = FALSE] ELSE file
       \/ Goes(c, "failed") /\ UNCHANGED file
    /\ UNCHANGED <<late, sealed, harm>>

\* Variant of Look (CallsEnd): a stale lock is only waited for.
LookPatiently(c) ==
    /\ pc[c] = "looking"
    /\ Goes(c, "opening")
    /\ UNCHANGED <<late, file, sealed, harm>>

\* stat, which also fails when the file has gone.
Look(c) ==
    /\ pc[c] = "looking"
    /\ Goes(c, IF file.stale THEN "clearing" ELSE "pausing")
    /\ UNCHANGED <<late, file, sealed, harm>>

\* releaseLock: rm of the name, whoever created the file that has it now.
Remove == file' = IF sealed THEN file ELSE NoFile

\* The stale lock is removed and the loop goes on, without a look at timeoutMs.
Clear(c) ==
    /\ pc[c] = "clearing"
    /\ Remove /\ Goes(c, "opening")
    /\ harm' = IF sealed \/ file.by = Absent \/ file.stale THEN harm
               ELSE harm \union {"stolen"}
    /\ UNCHANGED <<late, sealed>>

\* timeoutMs is looked at; otherwise retryMs is awaited.
Pause(c) ==
    /\ pc[c] = "pausing"
    /\ Goes(c, IF c \in late THEN "timed out" ELSE "opening")
    /\ UNCHANGED <<late, file, sealed, harm>>

\* The task ends, or throws.
Work(c) ==
    /\ pc[c] = "working"
    /\ Goes(c, "releasing")
    /\ UNCHANGED <<late, file, sealed, harm>>

\* The finally clause.
Release(c) ==
    /\ pc[c] = "releasing"
    /\ Remove /\ Goes(c, "returned")
    /\ UNCHANGED <<late, sealed, harm>>

-----------------------------------------------------------------------------
(* Time and faults.                                                        *)

TimeOut(c) ==
    /\ pc[c] \in Waiting /\ c \notin late
    /\ late' = late \union {c}
    /\ UNCHANGED <<pc, file, sealed, harm>>

\* staleMs pass since the file was written.
Age ==
    /\ file.by # Absent /\ ~file.stale
    /\ file' = [file EXCEPT !.stale = TRUE]
    /\ harm' = IF pc[file.by] \in Holding THEN harm \union {"overstayed"} ELSE harm
    /\ UNCHANGED <<pc, late, sealed>>

Kill(c) ==
    /\ pc[c] \in Waiting \union Holding
    /\ Goes(c, "killed")
    /\ UNCHANGED <<late, file, sealed, harm>>

Seal ==
    /\ ~sealed /\ sealed' = TRUE
    /\ UNCHANGED <<pc, late, file, harm>>

Runs(c) ==
    Call(c) \/ Open(c) \/ Write(c) \/ Look(c) \/ Clear(c) \/ Pause(c) \/ Work(c) \/ Release(c)

Next == (\E c \in Callers : Runs(c) \/ TimeOut(c) \/ Kill(c)) \/ Age \/ Seal

Spec == Init /\ [][Next]_vars

\* A call that was made goes on, tasks end, and the clock advances.
FairSpec ==
    Spec /\ WF_vars(Age) /\ \A c \in Callers :
        WF_vars(pc[c] # "idle" /\ Runs(c)) /\ WF_vars(TimeOut(c))

-----------------------------------------------------------------------------
(* Properties.                                                             *)

\* From the creation of its lock file to the removal a call has the lock, and
\* no other call has: unless the task took longer than staleMs, or a waiter that
\* had looked at a dead lock removed the one another waiter put in its place.
\* (withObsidianFileLock has no other way to tell locks apart than their age.)
OneHolder ==
    harm = {} => \A c, d \in Callers :
                     pc[c] \in Holding /\ pc[d] \in Holding => c = d

\* However locks are left behind, every call runs its task, gives up or fails,
\* unless the directory is sealed under a stale lock: Clear then never removes
\* it and never looks at timeoutMs.
CallsEnd ==
    \A c \in Callers :
        pc[c] = "opening" ~> (pc[c] \in Ended \/ (sealed /\ file.stale))
=============================================================================
