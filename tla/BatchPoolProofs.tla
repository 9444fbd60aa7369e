-------------------------- MODULE BatchPoolProofs --------------------------
(***************************************************************************)
(* The bounds on the goroutines of a worker's pool, for every environment  *)
(* the worker may be started in.                                           *)
(***************************************************************************)
EXTENDS BatchPool, TLAPS

(* Whatever the environment says, NewWorker makes a pool that can work: at *)
(* least one goroutine and batches of at least one message.                *)
LEMMA PositivePool ==
    ASSUME env \in Settings
    PROVE  Concurrency \in Nat \ {0} /\ MaxBatch \in Nat \ {0}
<1>1. \A value : IntVar(value) => ParseInt(value) \in Int
  <2> SUFFICES ASSUME NEW value, IntVar(value) PROVE ParseInt(value) \in Int
    OBVIOUS
  <2>1. CASE value = {}
    BY <2>1 DEF ParseInt
  <2>2. CASE value # {}
    BY <2>2 DEF ParseInt, IntVar
  <2>3. QED
    BY <2>1, <2>2
<1>2. ParseInt(env.batchSize) \in Int /\ ParseInt(env.concurrency) \in Int
  BY <1>1, PoolAssumption
<1>3. QED
  BY <1>2 DEF Concurrency, MaxBatch, worker, NewWorker, MainConfig, Positive

(* The inductive invariant of the pool: a goroutine without a token exists *)
(* only after cancellation and only while the loop is on its way to        *)
(* wg.Wait(), the range loop never overruns its batch, and the sequential  *)
(* path spawns nothing.                                                    *)
PoolInv ==
    /\ TypeOK
    /\ TokenPerGoroutine
    /\ bare > 0 => cancelled /\ lp \in {"iter", "wait"}
    /\ lp \in {"select", "inline"} => remaining > 0
    /\ Concurrency = 1 => lp \notin {"select", "wait"} /\ active = 0 /\ exiting = 0

(* The pool starts with no goroutine and no token. *)
LEMMA InitPoolInv == Init => PoolInv
<1> SUFFICES ASSUME Init PROVE PoolInv
  OBVIOUS
<1>1. cancelled \in BOOLEAN /\ claimed \in BOOLEAN
  BY DEF Init
<1>2. Concurrency \in Nat \ {0} /\ MaxBatch \in Nat \ {0}
  BY PositivePool DEF Init
<1>3. QED
  BY <1>1, <1>2 DEF Init, PoolInv, TypeOK, LoopSteps, TokenPerGoroutine

(* Every step of the loop and of the goroutines keeps the token account. *)
LEMMA NextPoolInv == PoolInv /\ [Next]_vars => PoolInv'
<1> SUFFICES ASSUME PoolInv, [Next]_vars PROVE PoolInv'
  OBVIOUS
<1>a. env' = env /\ env \in Settings
  BY DEF PoolInv, TypeOK, Next, Loop, Cancel, Head, Claim, Read, Iter, SelectToken, SelectDone,
         Finish, GiveBack, Wait, Inline, vars
<1>b. Concurrency \in Nat \ {0} /\ MaxBatch \in Nat \ {0}
  BY <1>a, PositivePool
<1>c. Concurrency' = Concurrency /\ MaxBatch' = MaxBatch
  BY <1>a DEF Concurrency, MaxBatch, worker
<1>d. cancelled' \in BOOLEAN /\ claimed' \in BOOLEAN
  BY DEF PoolInv, TypeOK, Next, Loop, Cancel, Head, Claim, Read, Iter, SelectToken, SelectDone,
         Finish, GiveBack, Wait, Inline, vars
<1> USE <1>a, <1>b, <1>c, <1>d DEF PoolInv, TypeOK, LoopSteps, TokenPerGoroutine, poolVars
<1>1. CASE Cancel
  BY <1>1 DEF Cancel
<1>2. CASE Head
  BY <1>2 DEF Head
<1>3. CASE Claim
  BY <1>3 DEF Claim, ProcessMessages
<1>4. CASE Read
  BY <1>4 DEF Read, ProcessMessages
<1>5. CASE Iter
  BY <1>5 DEF Iter
<1>6. CASE SelectToken
  BY <1>6 DEF SelectToken
<1>7. CASE SelectDone
  BY <1>7 DEF SelectDone
<1>8. CASE Wait
  BY <1>8 DEF Wait
<1>9. CASE Inline
  BY <1>9 DEF Inline
<1>10. CASE Finish
  BY <1>10 DEF Finish
<1>11. CASE GiveBack
  BY <1>11 DEF GiveBack
<1>12. CASE UNCHANGED vars
  BY <1>12 DEF vars
<1>13. QED
  BY <1>1, <1>2, <1>3, <1>4, <1>5, <1>6, <1>7, <1>8, <1>9, <1>10, <1>11, <1>12 DEF Next, Loop

(* A worker's loop, batch and semaphore are in range: in particular the    *)
(* channel never holds more tokens than its capacity, for any setting.     *)
THEOREM PoolTypeCorrect == Spec => []TypeOK
<1>1. PoolInv => TypeOK
  BY DEF PoolInv
<1>2. QED
  BY InitPoolInv, NextPoolInv, <1>1, PTL DEF Spec

(* processMessages keeps exactly one semaphore token per goroutine in      *)
(* flight, except for at most one goroutine spawned after cancellation.    *)
THEOREM PoolTokens == Spec => []TokenPerGoroutine
<1>1. PoolInv => TokenPerGoroutine
  BY DEF PoolInv
<1>2. QED
  BY InitPoolInv, NextPoolInv, <1>1, PTL DEF Spec

(* A worker has at most concurrency messages in progress while its context *)
(* is alive, and at most one more after cancellation.                      *)
THEOREM PoolIsBounded == Spec => []PoolBound
<1>1. PoolInv => PoolBound
  BY PositivePool DEF PoolInv, TypeOK, TokenPerGoroutine, PoolBound
<1>2. QED
  BY InitPoolInv, NextPoolInv, <1>1, PTL DEF Spec

(* A worker's loop and its goroutines block one another only after         *)
(* cancellation, and only over the goroutine that has no token: shutting   *)
(* down is the one moment at which processMessages can hang.               *)
THEOREM PoolDeadlock == Spec => []OnlyLateSpawnDeadlocks
<1>1. PoolInv => OnlyLateSpawnDeadlocks
  <2> SUFFICES ASSUME PoolInv, LoopWaits, GoroutinesWait
               PROVE  /\ cancelled /\ lp = "wait"
                      /\ bare = 1 /\ exiting = 1 /\ sem = 0
                      /\ Concurrency > 1
    BY DEF OnlyLateSpawnDeadlocks
  <2>1. Concurrency \in Nat \ {0}
    BY PositivePool DEF PoolInv, TypeOK
  <2>2. /\ sem + bare = exiting /\ active = 0
        /\ sem \in Nat /\ bare \in Nat /\ exiting \in Nat /\ bare <= 1
    BY <2>1 DEF PoolInv, TypeOK, TokenPerGoroutine, GoroutinesWait
  <2>3. lp = "wait" /\ exiting > 0 /\ sem = 0
    BY <2>1, <2>2 DEF LoopWaits, GoroutinesWait
  <2>4. bare = 1 /\ exiting = 1
    BY <2>2, <2>3
  <2>5. cancelled /\ Concurrency > 1
    BY <2>1, <2>3, <2>4 DEF PoolInv
  <2>6. QED
    BY <2>3, <2>4, <2>5
<1>2. QED
  BY InitPoolInv, NextPoolInv, <1>1, PTL DEF Spec
=============================================================================
