---------------------------- MODULE WorkerConfig ----------------------------
(***************************************************************************)
(* From environment variables to the fields of a Worker: cmd/worker/main   *)
(* and NewWorker.  The value of an integer variable is {n}, or {} when it  *)
(* is unset or not a number: strconv.ParseInt's error is ignored and its   *)
(* result is 0.  Durations stay in the unit of their variable; settings    *)
(* that overflow an int64 of nanoseconds (292 years) are not considered.   *)
(***************************************************************************)
EXTENDS Integers

ParseInt(value) == IF value = {} THEN 0 ELSE CHOOSE n \in value : TRUE

(* The Config main passes on: RAW_EVENT_CLAIM_IDLE_MS, IDEMPOTENCY_LOCK_   *)
(* TTL_S, IDEMPOTENCY_DONE_TTL_S, WORKER_BATCH_SIZE, WORKER_CONCURRENCY.   *)
MainConfig(env) ==
    [ClaimIdleMs    |-> IF ParseInt(env.claimIdleMs) = 0 THEN 60000 ELSE ParseInt(env.claimIdleMs),
     LockTTLSeconds |-> ParseInt(env.lockTTL),
     DoneTTLSeconds |-> ParseInt(env.doneTTL),
     BatchSize      |-> ParseInt(env.batchSize),
     Concurrency    |-> ParseInt(env.concurrency)]

Positive(n, default) == IF n <= 0 THEN default ELSE n

(* NewWorker.  claimIdleTime = 0: no crash recovery. *)
NewWorker(cfg) ==
    [claimIdleTime |-> IF cfg.ClaimIdleMs > 0 THEN cfg.ClaimIdleMs ELSE 0,
     lockTTL       |-> Positive(cfg.LockTTLSeconds, 120),
     doneTTL       |-> Positive(cfg.DoneTTLSeconds, 86400),
     batchSize     |-> Positive(cfg.BatchSize, 10),
     concurrency   |-> Positive(cfg.Concurrency, 4)]
=============================================================================
