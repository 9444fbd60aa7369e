-------------------------- MODULE IdempotencyStore --------------------------
(***************************************************************************)
(* The processing lock and the completion marker of each event             *)
(* (internal/buffer/idempotency.go).  A key is the number of ticks it has  *)
(* left, 0 when absent.  The lock carries no owner and is never renewed.   *)
(*                                                                         *)
(* Backend "redis" is RedisIdempotencyStore; "memory" is                   *)
(* MemoryIdempotencyStore, which ignores TTLs (its keys never expire) and  *)
(* whose MarkDone also removes the lock.                                   *)
(***************************************************************************)
EXTENDS Naturals, RawEvents

CONSTANTS LockTTL, DoneTTL, Backend

ASSUME StoreAssumption ==
    /\ LockTTL \in Nat \ {0}
    /\ DoneTTL \in Nat \ {0}
    /\ Backend \in {"redis", "memory"}

VARIABLES lock, done

storeVars == <<lock, done>>

StoreTypeOK ==
    /\ lock \in [Event -> 0..LockTTL]
    /\ done \in [Event -> 0..DoneTTL]

StoreInit ==
    /\ lock = [e \in Event |-> 0]
    /\ done = [e \in Event |-> 0]

IsDone(e) == done[e] > 0

Locked(e) == lock[e] > 0

(* Faulty variant: SET without NX. *)
TryClaimProcessingNoNX(e) ==
    /\ lock' = [lock EXCEPT ![e] = LockTTL]
    /\ UNCHANGED done

(* A TryClaimProcessing that answers true. *)
TryClaimProcessing(e) ==
    /\ ~Locked(e)
    /\ lock' = [lock EXCEPT ![e] = LockTTL]
    /\ UNCHANGED done

ReleaseProcessing(e) ==
    /\ lock' = [lock EXCEPT ![e] = 0]
    /\ UNCHANGED done

(* Faulty variant: the Redis store releases the lock as the memory one does. *)
MarkDoneUnlocks(e) ==
    /\ done' = [done EXCEPT ![e] = DoneTTL]
    /\ lock' = [lock EXCEPT ![e] = 0]

MarkDone(e) ==
    /\ done' = [done EXCEPT ![e] = DoneTTL]
    /\ lock' = IF Backend = "memory" THEN [lock EXCEPT ![e] = 0] ELSE lock

Expired(n) == IF Backend = "redis" /\ n > 0 THEN n - 1 ELSE n

StoreTick ==
    /\ lock' = [e \in Event |-> Expired(lock[e])]
    /\ done' = [e \in Event |-> Expired(done[e])]
=============================================================================
