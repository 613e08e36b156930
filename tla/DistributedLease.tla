-------------------------- MODULE DistributedLease --------------------------
(***************************************************************************)
(* A lease of src/services/infra/distributedLockService.ts: one row of     *)
(* distributed_locks, acquired by an atomic statement (the procedure       *)
(* acquire_distributed_lease, or the update of the fallback; its insert    *)
(* only creates the row), released by its owner, never renewed, and free   *)
(* for anybody when it has expired.  The owner is a token of a process, so *)
(* each call of one process finds the lease its own.                       *)
(***************************************************************************)
CONSTANT Free \* no owner

VARIABLE lease

Unowned == [owner |-> Free, expired |-> FALSE]

LeaseInit == lease = Unowned

\* Variant of CanAcquire (SingleLeader): the comparison with now is turned round.
CanAcquireFresh(owner) == lease.owner \in {Free, owner} \/ ~lease.expired

CanAcquire(owner) == lease.owner \in {Free, owner} \/ lease.expired

Acquire(owner) == CanAcquire(owner) /\ lease' = [owner |-> owner, expired |-> FALSE]

Release(owner) == lease' = IF lease.owner = owner THEN Unowned ELSE lease

\* expires_at passes.
Expire ==
    /\ lease.owner # Free /\ ~lease.expired
    /\ lease' = [lease EXCEPT !.expired = TRUE]

\* Its owner's process ends; the next one has another token.
Abandon(owner, orphan) ==
    lease' = IF lease.owner = owner THEN [lease EXCEPT !.owner = orphan] ELSE lease
=============================================================================
