----------------------------- MODULE BatchPool -----------------------------
(***************************************************************************)
(* Start's loop and processMessages (internal/worker/worker.go) as one     *)
(* worker runs them: the loop goroutine, the goroutines it spawns for the  *)
(* messages of a batch, the semaphore channel `sem' that bounds them and   *)
(* the WaitGroup.  Goroutines are interchangeable, so they are counted.    *)
(* What a goroutine does with its message is module Worker's business;     *)
(* here it only takes time.                                                *)
(***************************************************************************)
EXTENDS WorkerConfig

CONSTANT Settings   \* the environments a worker may be started in

IntVar(value) == value \subseteq Int /\ \A m, n \in value : m = n

ASSUME PoolAssumption ==
    \A e \in Settings :
        /\ IntVar(e.claimIdleMs)
        /\ IntVar(e.lockTTL)
        /\ IntVar(e.doneTTL)
        /\ IntVar(e.batchSize)
        /\ IntVar(e.concurrency)

VARIABLES
    env,        \* the worker's environment, which never changes
    cancelled,  \* has SIGTERM cancelled the context?
    lp,         \* where the loop goroutine is
    back,       \* where processMessages returns to
    remaining,  \* messages of the batch the range loop has not passed yet
    sem,        \* tokens in the channel
    active,     \* goroutines in processSingleMessageIdempotent
    exiting,    \* goroutines in their deferred function, before <-sem
    bare,       \* goroutines spawned without a token (history)
    claimed     \* has ClaimPending ever been called? (history)

vars == <<env, cancelled, lp, back, remaining, sem, active, exiting, bare, claimed>>

poolVars == <<sem, active, exiting, bare>>

worker == NewWorker(MainConfig(env))

\* Worker.concurrency, the capacity of sem, and Worker.batchSize, the most
\* messages ClaimPending or ReadGroup returns.
Concurrency == worker.concurrency
MaxBatch == worker.batchSize

\* "head": Start's select; "claim": ClaimPending; "read": ReadGroup; "iter":
\* top of processMessages' range loop; "select": its select; "wait":
\* wg.Wait(); "inline": the task of the sequential path; "returned": Start
\* has returned.
LoopSteps == {"head", "claim", "read", "iter", "select", "wait", "inline", "returned"}

TypeOK ==
    /\ env \in Settings
    /\ cancelled \in BOOLEAN
    /\ lp \in LoopSteps
    /\ back \in {"read", "head"}
    /\ remaining \in 0..MaxBatch
    /\ sem \in 0..Concurrency
    /\ active \in Nat
    /\ exiting \in Nat
    /\ bare \in Nat
    /\ claimed \in BOOLEAN

Init ==
    /\ env \in Settings
    /\ cancelled = FALSE
    /\ lp = "head"
    /\ back = "head"
    /\ remaining = 0
    /\ sem = 0
    /\ active = 0
    /\ exiting = 0
    /\ bare = 0
    /\ claimed = FALSE

-----------------------------------------------------------------------------
Cancel ==
    /\ ~cancelled
    /\ cancelled' = TRUE
    /\ UNCHANGED <<env, lp, back, remaining, poolVars, claimed>>

(* Faulty variant: the loop does not look at the context. *)
HeadIgnoresCancel ==
    /\ lp = "head"
    /\ lp' = "read"
    /\ UNCHANGED <<env, cancelled, back, remaining, poolVars, claimed>>

(* The select, and whether the next check for pending messages is due. *)
Head ==
    /\ lp = "head"
    /\ \/ cancelled /\ lp' = "returned"
       \/ ~cancelled /\ worker.claimIdleTime > 0 /\ lp' = "claim"
       \/ ~cancelled /\ lp' = "read"
    /\ UNCHANGED <<env, cancelled, back, remaining, poolVars, claimed>>

ProcessMessages(returnTo) ==
    /\ \E n \in 1..MaxBatch : remaining' = n
    /\ lp' = "iter"
    /\ back' = returnTo

(* ClaimPending: a batch, or nothing to reclaim or an error. *)
Claim ==
    /\ lp = "claim"
    /\ claimed' = TRUE
    /\ \/ ProcessMessages("read")
       \/ lp' = "read" /\ UNCHANGED <<back, remaining>>
    /\ UNCHANGED <<env, cancelled, poolVars>>

(* ReadGroup: a batch, or none and round again; with a cancelled context   *)
(* it fails and Start returns.                                             *)
Read ==
    /\ lp = "read"
    /\ \/ ProcessMessages("head")
       \/ lp' = (IF cancelled THEN "returned" ELSE "head") /\ UNCHANGED <<back, remaining>>
    /\ UNCHANGED <<env, cancelled, poolVars, claimed>>

(* Faulty variant: no ctx.Err() check at the top of an iteration. *)
IterIgnoresCancel ==
    /\ lp = "iter"
    /\ lp' = IF remaining = 0 THEN "wait" ELSE "select"
    /\ UNCHANGED <<env, cancelled, back, remaining, poolVars, claimed>>

(* The ctx.Err() check at the top of an iteration, and the end of the      *)
(* range.  The sequential path (concurrency <= 1) returns where the pool   *)
(* goes to wg.Wait().                                                      *)
Iter ==
    /\ lp = "iter"
    /\ \/ /\ remaining = 0 \/ cancelled
          /\ lp' = IF Concurrency > 1 THEN "wait" ELSE back
          /\ remaining' = 0
       \/ /\ remaining > 0 /\ ~cancelled
          /\ lp' = IF Concurrency > 1 THEN "select" ELSE "inline"
          /\ UNCHANGED remaining
    /\ UNCHANGED <<env, cancelled, back, poolVars, claimed>>

(* Faulty variant: the channel holds one token too many. *)
SelectTokenOneMore ==
    /\ lp = "select"
    /\ sem <= Concurrency
    /\ sem' = sem + 1
    /\ active' = active + 1
    /\ remaining' = remaining - 1
    /\ lp' = "iter"
    /\ UNCHANGED <<env, cancelled, back, exiting, bare, claimed>>

(* sem <- struct{}{}, then wg.Add(1) and go. *)
SelectToken ==
    /\ lp = "select"
    /\ sem < Concurrency
    /\ sem' = sem + 1
    /\ active' = active + 1
    /\ remaining' = remaining - 1
    /\ lp' = "iter"
    /\ UNCHANGED <<env, cancelled, back, exiting, bare, claimed>>

(* <-ctx.Done(): break leaves the select, not the loop, and the goroutine  *)
(* is spawned all the same.                                                *)
SelectDone ==
    /\ lp = "select"
    /\ cancelled
    /\ active' = active + 1
    /\ bare' = bare + 1
    /\ remaining' = remaining - 1
    /\ lp' = "iter"
    /\ UNCHANGED <<env, cancelled, back, sem, exiting, claimed>>

(* A goroutine's processSingleMessageIdempotent returns. *)
Finish ==
    /\ active > 0
    /\ active' = active - 1
    /\ exiting' = exiting + 1
    /\ UNCHANGED <<env, cancelled, lp, back, remaining, sem, bare, claimed>>

(* Faulty variant: the deferred function forgets <-sem. *)
GiveBackKeepsToken ==
    /\ exiting > 0
    /\ exiting' = exiting - 1
    /\ UNCHANGED <<env, cancelled, lp, back, remaining, sem, active, bare, claimed>>

(* <-sem, wg.Done(). *)
GiveBack ==
    /\ exiting > 0
    /\ sem > 0
    /\ sem' = sem - 1
    /\ exiting' = exiting - 1
    /\ UNCHANGED <<env, cancelled, lp, back, remaining, active, bare, claimed>>

Wait ==
    /\ lp = "wait"
    /\ active = 0 /\ exiting = 0
    /\ lp' = back
    /\ UNCHANGED <<env, cancelled, back, remaining, poolVars, claimed>>

(* The sequential path runs the message on the loop goroutine. *)
Inline ==
    /\ lp = "inline"
    /\ remaining' = remaining - 1
    /\ lp' = "iter"
    /\ UNCHANGED <<env, cancelled, back, poolVars, claimed>>

-----------------------------------------------------------------------------
Loop == Head \/ Claim \/ Read \/ Iter \/ SelectToken \/ SelectDone \/ Wait \/ Inline

Next == Cancel \/ Loop \/ Finish \/ GiveBack

(* Runnable goroutines run.  Nobody has to send SIGTERM. *)
Fairness == WF_vars(Loop) /\ WF_vars(Finish) /\ WF_vars(GiveBack)

Spec == Init /\ [][Next]_vars

FairSpec == Spec /\ Fairness

-----------------------------------------------------------------------------
(* Every goroutine in flight has a token in sem, but for those spawned     *)
(* after <-ctx.Done(); there is at most one of those per batch.            *)
TokenPerGoroutine ==
    /\ sem + bare = active + exiting
    /\ bare <= 1

(* The pool processes at most concurrency messages at a time until the     *)
(* context is cancelled, and never more than one above that.               *)
PoolBound ==
    /\ ~cancelled => active + exiting <= Concurrency
    /\ active + exiting <= Concurrency + 1

(* The loop waits: for room in the channel, or for the WaitGroup. *)
LoopWaits ==
    \/ lp = "select" /\ sem = Concurrency /\ ~cancelled
    \/ lp = "wait" /\ active + exiting > 0

(* No goroutine can move: none is working, none finds a token. *)
GoroutinesWait == active = 0 /\ (exiting = 0 \/ sem = 0)

(* The loop and the goroutines wait for one another in one way only: the   *)
(* context is cancelled, and the one goroutine that is left looks for a    *)
(* token because another was spawned without one after <-ctx.Done().  No   *)
(* timing of tokens, WaitGroup and range loop makes a pool stick before.   *)
OnlyLateSpawnDeadlocks ==
    LoopWaits /\ GoroutinesWait =>
        /\ cancelled /\ lp = "wait"
        /\ bare = 1 /\ exiting = 1 /\ sem = 0
        /\ Concurrency > 1

(* As long as the context is alive every batch is worked off and the loop  *)
(* comes back for the next one: the pool does not deadlock on itself.      *)
BatchCompletes == lp = "iter" ~> (lp = back \/ cancelled)

(* "Start runs the continuous worker consumer loop until context           *)
(* cancellation": once the context is cancelled, Start returns.            *)
StartReturns == cancelled ~> lp = "returned"

(* A sequential worker (WORKER_CONCURRENCY=1) does return once cancelled,  *)
(* from whichever call or message the signal finds it in.                  *)
SequentialStartReturns == cancelled /\ Concurrency = 1 ~> lp = "returned"

(* "Set to 0 to disable crash recovery" (cmd/worker/main.go, on            *)
(* RAW_EVENT_CLAIM_IDLE_MS): such a worker never reclaims a message.       *)
ZeroDisablesRecovery == env.claimIdleMs = {0} => ~claimed
=============================================================================
