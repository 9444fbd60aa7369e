------------------------------- MODULE Worker -------------------------------
(***************************************************************************)
(* The processing workers (internal/worker/worker.go, cmd/worker/main.go): *)
(* every worker process runs Start's loop, which reclaims orphaned         *)
(* messages, reads new ones and hands each message of a batch to a task    *)
(* running processSingleMessageIdempotent.  Tasks of all workers           *)
(* interleave; every call to Redis or MinIO is a step of its own.          *)
(*                                                                         *)
(* Faults selects what may go wrong:                                       *)
(*   "crash"   a worker process dies between any two steps                 *)
(*   "cancel"  SIGTERM cancels a worker's context: its later calls fail    *)
(*   "redis"   a Redis call fails, before or after taking effect           *)
(*   "xadd"    XADD took effect, its reply was lost and the client retried *)
(*   "minio"   PutObject fails                                             *)
(*   "nostore" MinIO is down when a worker starts                          *)
(***************************************************************************)
EXTENDS RawBuffer, IdempotencyStore

CONSTANTS
    Consumer,       \* the worker processes
    Concurrency,    \* Worker.concurrency
    Faults,
    MaxCrashes,     \* bound on the number of crashes
    Pace,           \* "any": a task may take any time; "timely": MaxGap and MaxRun
                    \* hold; "prompt": and workers take no other time at all
    MaxGap,         \* ticks from IsDone to TryClaimProcessing
    MaxRun          \* ticks from TryClaimProcessing to MarkDone or ReleaseProcessing

ASSUME WorkerAssumption ==
    /\ Concurrency \in Nat \ {0}
    /\ Faults \subseteq {"crash", "cancel", "redis", "xadd", "minio", "nostore"}
    /\ MaxCrashes \in Nat
    /\ Pace \in {"any", "timely", "prompt"}
    /\ MaxGap \in Nat
    /\ MaxRun \in Nat

VARIABLES
    phase,      \* where a worker is in Start's loop
    nextClaim,  \* ticks until nextClaimAt
    pc,         \* pc[c][m]: where worker c's task for message m is
    age,        \* ticks a task has spent in its gap or in its run
    rawStore,   \* the raw store a worker chose when it started
    archived,   \* the events in the MinIO bucket
    processed,  \* the events whose pipeline has completed (history)
    crashes     \* the crashes so far

vars == <<bufferVars, storeVars, phase, nextClaim, pc, age, rawStore,
          archived, processed, crashes>>

loopVars == <<phase, nextClaim, rawStore, crashes>>

\* "queued": in the batch, not yet started.  The other steps are named for
\* the call the task is about to make.
Steps == {"none", "queued", "isdone", "claim", "store", "parse", "release",
          "markdone", "ack"}

\* The steps a task takes between its claim and its MarkDone or release.
Holding == {"store", "parse", "release", "markdone"}

Running == Steps \ {"none", "queued"}

ClaimEvery == ClaimIdle \div 2

\* The event a message carries.
EventOf(m) == stream[m]

NoTasks(c) == \A m \in Msgs : pc[c][m] = "none"

RunningTasks(c) == {m \in Msgs : pc[c][m] \in Running}

TypeOK ==
    /\ BufferTypeOK
    /\ StoreTypeOK
    /\ phase \in [Consumer -> {"down", "head", "read", "stop"}]
    /\ nextClaim \in [Consumer -> 0..ClaimEvery]
    /\ pc \in [Consumer -> [Msgs -> Steps]]
    /\ age \in [Consumer -> [Msgs -> Nat]]
    /\ rawStore \in [Consumer -> {"minio", "memory"}]
    /\ archived \subseteq Event
    /\ processed \subseteq Event
    /\ crashes \in Nat

Init ==
    /\ BufferInit
    /\ StoreInit
    /\ phase = [c \in Consumer |-> "down"]
    /\ nextClaim = [c \in Consumer |-> ClaimEvery]
    /\ pc = [c \in Consumer |-> [m \in Msgs |-> "none"]]
    /\ age = [c \in Consumer |-> [m \in Msgs |-> 0]]
    /\ rawStore = [c \in Consumer |-> "minio"]
    /\ archived = {}
    /\ processed = {}
    /\ crashes = 0

-----------------------------------------------------------------------------
(* Outcomes of a call to Redis by worker c.  A call made with a cancelled  *)
(* context fails before it is sent.                                        *)
Answered(c) == phase[c] # "stop"

NotSent(c) == phase[c] = "stop" \/ "redis" \in Faults

ReplyLost(c) == phase[c] # "stop" /\ "redis" \in Faults

Goto(c, m, step) ==
    /\ pc' = [pc EXCEPT ![c][m] = step]
    /\ age' = [age EXCEPT ![c][m] = IF {pc[c][m], step} \subseteq Holding THEN age[c][m] ELSE 0]

\* The tasks of a batch: processMessages gets them in ID order.
Enqueue(c, batch) ==
    pc' = [pc EXCEPT ![c] = [m \in Msgs |-> IF m \in batch THEN "queued" ELSE "none"]]

-----------------------------------------------------------------------------
(* The ingestion service buffers an event: once, unless a reply is lost.   *)
Publish(e) ==
    /\ (\E i \in 1..Len(stream) : stream[i] = e) => "xadd" \in Faults
    /\ PublishRaw(e)
    /\ UNCHANGED <<storeVars, loopVars, pc, age, archived, processed>>

(* NewMinIORawStore fails when MinIO does not answer while it looks for its *)
(* bucket or creates it; main then takes a MemoryRawStore.                  *)
NewRawStore == {"minio"} \cup (IF "nostore" \in Faults THEN {"memory"} ELSE {})

(* main and the head of Start: choose the raw store, ensure the group.  A  *)
(* worker whose EnsureGroup fails exits and is started again.              *)
StartWorker(c) ==
    /\ phase[c] = "down"
    /\ EnsureGroup
    /\ \/ /\ phase' = [phase EXCEPT ![c] = "head"]
          /\ \E s \in NewRawStore : rawStore' = [rawStore EXCEPT ![c] = s]
          /\ nextClaim' = [nextClaim EXCEPT ![c] = ClaimEvery]
       \/ /\ "redis" \in Faults
          /\ UNCHANGED <<phase, rawStore, nextClaim>>
    /\ UNCHANGED <<storeVars, pc, age, archived, processed, crashes>>

(* Faulty variant: the reclaimed messages are not processed. *)
ClaimStepForgets(c) ==
    /\ phase[c] = "head"
    /\ NoTasks(c)
    /\ ClaimIdle > 0
    /\ nextClaim[c] = 0
    /\ phase' = [phase EXCEPT ![c] = "read"]
    /\ nextClaim' = [nextClaim EXCEPT ![c] = ClaimEvery]
    /\ ClaimPending
    /\ UNCHANGED <<storeVars, pc, age, rawStore, archived, processed, crashes>>

(* The recovery half of an iteration of Start's loop. *)
ClaimStep(c) ==
    /\ phase[c] = "head"
    /\ NoTasks(c)
    /\ ClaimIdle > 0
    /\ nextClaim[c] = 0
    /\ phase' = [phase EXCEPT ![c] = "read"]
    /\ nextClaim' = [nextClaim EXCEPT ![c] = ClaimEvery]
    /\ \/ /\ Answered(c)
          /\ ClaimPending
          /\ Enqueue(c, Reclaimed)
       \/ /\ ReplyLost(c)
          /\ ClaimPending
          /\ UNCHANGED pc
       \/ /\ NotSent(c)
          /\ UNCHANGED <<bufferVars, pc>>
    /\ UNCHANGED <<storeVars, age, rawStore, archived, processed, crashes>>

SkipClaim(c) ==
    /\ phase[c] = "head"
    /\ NoTasks(c)
    /\ ClaimIdle = 0 \/ nextClaim[c] > 0
    /\ phase' = [phase EXCEPT ![c] = "read"]
    /\ UNCHANGED <<bufferVars, storeVars, nextClaim, pc, age, rawStore,
                   archived, processed, crashes>>

(* The consumption half; it waits for the tasks of the reclaimed batch. *)
ReadStep(c) ==
    /\ phase[c] = "read"
    /\ NoTasks(c)
    /\ phase' = [phase EXCEPT ![c] = "head"]
    /\ \/ /\ Answered(c)
          /\ ReadGroup
          /\ Enqueue(c, NextBatch)
       \/ /\ ReplyLost(c)
          /\ ReadGroup
          /\ UNCHANGED pc
       \/ /\ NotSent(c)
          /\ UNCHANGED <<bufferVars, pc>>
    /\ UNCHANGED <<storeVars, nextClaim, age, rawStore, archived, processed, crashes>>

(* processMessages starts the next message's task when the pool has room.  *)
StartTask(c, m) ==
    /\ pc[c][m] = "queued"
    /\ \A k \in Msgs : pc[c][k] = "queued" => k >= m
    /\ Cardinality(RunningTasks(c)) < Concurrency
    /\ Goto(c, m, "isdone")
    /\ UNCHANGED <<bufferVars, storeVars, loopVars, archived, processed>>

-----------------------------------------------------------------------------
(* The steps of processSingleMessageIdempotent. *)

(* Faulty variant: the marker is not looked at. *)
CheckDoneSkipped(c, m) ==
    /\ pc[c][m] = "isdone"
    /\ Goto(c, m, "claim")
    /\ UNCHANGED <<bufferVars, storeVars, loopVars, archived, processed>>

CheckDone(c, m) ==
    /\ pc[c][m] = "isdone"
    /\ \/ Answered(c) /\ IsDone(EventOf(m)) /\ Goto(c, m, "ack")
       \/ Answered(c) /\ ~IsDone(EventOf(m)) /\ Goto(c, m, "claim")
       \/ NotSent(c) /\ Goto(c, m, "claim")
    /\ UNCHANGED <<bufferVars, storeVars, loopVars, archived, processed>>

(* Faulty variant: a message whose event is locked is acknowledged. *)
TryClaimAcksLocked(c, m) ==
    /\ pc[c][m] = "claim"
    /\ \/ /\ Answered(c)
          /\ TryClaimProcessing(EventOf(m))
          /\ Goto(c, m, "store")
       \/ /\ Answered(c)
          /\ Locked(EventOf(m))
          /\ Goto(c, m, "ack")
          /\ UNCHANGED storeVars
    /\ UNCHANGED <<bufferVars, loopVars, archived, processed>>

(* Faulty variant: the release is deferred before the claim is looked at,  *)
(* so that a refused task releases a lock that it does not hold.           *)
TryClaimReleasesRefused(c, m) ==
    /\ pc[c][m] = "claim"
    /\ \/ /\ Answered(c)
          /\ TryClaimProcessing(EventOf(m))
          /\ Goto(c, m, "store")
       \/ /\ Answered(c)
          /\ Locked(EventOf(m))
          /\ Goto(c, m, "none")
          /\ ReleaseProcessing(EventOf(m))
    /\ UNCHANGED <<bufferVars, loopVars, archived, processed>>

(* After an error the task proceeds as if it had the lock.  When the reply *)
(* to a successful SET NX is lost, the client's retry may find the task's  *)
(* own lock and answer that it is taken.                                   *)
TryClaim(c, m) ==
    /\ pc[c][m] = "claim"
    /\ \/ /\ Answered(c)
          /\ TryClaimProcessing(EventOf(m))
          /\ Goto(c, m, "store")
       \/ /\ Answered(c)
          /\ Locked(EventOf(m))
          /\ Goto(c, m, "none")
          /\ UNCHANGED storeVars
       \/ /\ ReplyLost(c)
          /\ TryClaimProcessing(EventOf(m))
          /\ \E step \in {"store", "none"} : Goto(c, m, step)
       \/ /\ NotSent(c)
          /\ Goto(c, m, "store")
          /\ UNCHANGED storeVars
    /\ UNCHANGED <<bufferVars, loopVars, archived, processed>>

(* Put of worker c's raw store.  A copy in a worker's memory is no archive. *)
Put(c, e) ==
    \/ /\ rawStore[c] = "minio"
       /\ phase[c] # "stop"
       /\ archived' = archived \cup {e}
    \/ /\ rawStore[c] = "memory" \/ phase[c] = "stop" \/ "minio" \in Faults
       /\ UNCHANGED archived

(* ProcessSingleEvent 1: the raw copy.  An error is logged and ignored. *)
StoreRaw(c, m) ==
    /\ pc[c][m] = "store"
    /\ Goto(c, m, "parse")
    /\ Put(c, EventOf(m))
    /\ UNCHANGED <<bufferVars, storeVars, loopVars, processed>>

(* ProcessSingleEvent 2-6: detection, drift, parsing, normalisation and    *)
(* validation.  Only the drift analysis looks at the context; its error is *)
(* logged and changes nothing here.                                        *)
RunPipeline(c, m) ==
    /\ pc[c][m] = "parse"
    /\ \/ /\ EventOf(m) \in Poison
          /\ Goto(c, m, "release")
          /\ UNCHANGED processed
       \/ /\ EventOf(m) \notin Poison
          /\ Goto(c, m, "markdone")
          /\ processed' = processed \cup {EventOf(m)}
    /\ UNCHANGED <<bufferVars, storeVars, loopVars, archived>>

Release(c, m) ==
    /\ pc[c][m] = "release"
    /\ Goto(c, m, "none")
    /\ \/ (Answered(c) \/ ReplyLost(c)) /\ ReleaseProcessing(EventOf(m))
       \/ NotSent(c) /\ UNCHANGED storeVars
    /\ UNCHANGED <<bufferVars, loopVars, archived, processed>>

Mark(c, m) ==
    /\ pc[c][m] = "markdone"
    /\ Goto(c, m, "ack")
    /\ \/ (Answered(c) \/ ReplyLost(c)) /\ MarkDone(EventOf(m))
       \/ NotSent(c) /\ UNCHANGED storeVars
    /\ UNCHANGED <<bufferVars, loopVars, archived, processed>>

(* Faulty variant: the acknowledgement does not use the task's context. *)
AckMsgDetached(c, m) ==
    /\ pc[c][m] = "ack"
    /\ Goto(c, m, "none")
    /\ Ack(m)
    /\ UNCHANGED <<storeVars, loopVars, archived, processed>>

AckMsg(c, m) ==
    /\ pc[c][m] = "ack"
    /\ Goto(c, m, "none")
    /\ \/ (Answered(c) \/ ReplyLost(c)) /\ Ack(m)
       \/ NotSent(c) /\ UNCHANGED bufferVars
    /\ UNCHANGED <<storeVars, loopVars, archived, processed>>

-----------------------------------------------------------------------------
(* SIGTERM.  The loop over the batch stops; with concurrency > 1 its       *)
(* select may still let one more message through.                          *)
Cancel(c) ==
    /\ "cancel" \in Faults
    /\ phase[c] \in {"head", "read"}
    /\ phase' = [phase EXCEPT ![c] = "stop"]
    /\ \E more \in SUBSET {m \in Msgs : /\ pc[c][m] = "queued"
                                        /\ \A k \in Msgs : pc[c][k] = "queued" => k >= m
                                        /\ Concurrency > 1} :
         pc' = [pc EXCEPT ![c] = [m \in Msgs |->
                    IF pc[c][m] # "queued" THEN pc[c][m]
                    ELSE IF m \in more THEN "isdone" ELSE "none"]]
    /\ UNCHANGED <<bufferVars, storeVars, nextClaim, age, rawStore, archived,
                   processed, crashes>>

(* The process of a cancelled worker ends once its tasks have. *)
Exit(c) ==
    /\ phase[c] = "stop"
    /\ NoTasks(c)
    /\ phase' = [phase EXCEPT ![c] = "down"]
    /\ UNCHANGED <<bufferVars, storeVars, nextClaim, pc, age, rawStore, archived,
                   processed, crashes>>

(* The process dies: its tasks are gone, Redis and MinIO keep their state. *)
Crash(c) ==
    /\ "crash" \in Faults
    /\ crashes < MaxCrashes
    /\ phase[c] # "down"
    /\ crashes' = crashes + 1
    /\ phase' = [phase EXCEPT ![c] = "down"]
    /\ pc' = [pc EXCEPT ![c] = [m \in Msgs |-> "none"]]
    /\ age' = [age EXCEPT ![c] = [m \in Msgs |-> 0]]
    /\ UNCHANGED <<bufferVars, storeVars, nextClaim, rawStore, archived, processed>>

(* Time passes.  Timely: no task is late; Prompt: nobody dawdles. *)
Timely ==
    \A c \in Consumer, m \in Msgs :
        /\ pc[c][m] = "claim" => age[c][m] < MaxGap
        /\ pc[c][m] \in Holding => age[c][m] < MaxRun

Prompt ==
    \A c \in Consumer :
        /\ \A m \in Msgs : pc[c][m] \notin {"isdone", "ack"}
        /\ Cardinality(RunningTasks(c)) < Concurrency => \A m \in Msgs : pc[c][m] # "queued"
        /\ phase[c] \in {"head", "read"} /\ NoTasks(c) => nextClaim[c] > 0

Tick ==
    /\ Pace \in {"timely", "prompt"} => Timely
    /\ Pace = "prompt" => Prompt
    /\ BufferTick
    /\ StoreTick
    /\ nextClaim' = [c \in Consumer |-> IF phase[c] \in {"head", "read"} /\ nextClaim[c] > 0
                                         THEN nextClaim[c] - 1 ELSE nextClaim[c]]
    /\ age' = [c \in Consumer |-> [m \in Msgs |->
                  IF Pace # "any" /\ pc[c][m] \in Holding \cup {"claim"}
                  THEN age[c][m] + 1 ELSE age[c][m]]]
    /\ UNCHANGED <<phase, pc, rawStore, archived, processed, crashes>>

-----------------------------------------------------------------------------
TaskStep(c, m) ==
    \/ StartTask(c, m)
    \/ CheckDone(c, m)
    \/ TryClaim(c, m)
    \/ StoreRaw(c, m)
    \/ RunPipeline(c, m)
    \/ Release(c, m)
    \/ Mark(c, m)
    \/ AckMsg(c, m)

LoopStep(c) == ClaimStep(c) \/ SkipClaim(c) \/ ReadStep(c)

\* What the workers and the clock do.
WorkerStep ==
    \/ \E c \in Consumer :
          \/ StartWorker(c)
          \/ LoopStep(c)
          \/ \E m \in Msgs : TaskStep(c, m)
          \/ Cancel(c)
          \/ Exit(c)
          \/ Crash(c)
    \/ Tick

Next == (\E e \in Event : Publish(e)) \/ WorkerStep

Spec == Init /\ [][Next]_vars

(* Goroutines and the loop are scheduled, a worker that is down is started *)
(* again by the container runtime, time passes.  Nothing has to be         *)
(* published, cancelled or crash.                                          *)
Fairness ==
    /\ \A c \in Consumer :
          /\ WF_vars(StartWorker(c))
          /\ WF_vars(LoopStep(c))
          /\ \A m \in Msgs : WF_vars(TaskStep(c, m))
    /\ WF_vars(Tick)

FairSpec == Spec /\ Fairness

-----------------------------------------------------------------------------
(* Properties *)

(* At most one task at a time is between its claim and its MarkDone or     *)
(* release for any event, whichever worker it belongs to and whichever     *)
(* stream entry carries the event: "only one worker may proceed past this  *)
(* point for a given eventID" (worker.go).                                 *)
ExclusivePipeline ==
    \A c, d \in Consumer : \A m, n \in Msgs :
        /\ pc[c][m] \in Holding
        /\ pc[d][n] \in Holding
        /\ EventOf(m) = EventOf(n)
        => c = d /\ m = n

(* While an event's completion marker is alive no task works on the event: *)
(* a task that saw no marker before its claim is stopped by the lock when  *)
(* the marker was set in between ("Events processed within this window     *)
(* won't be reprocessed", worker.go).                                      *)
NotReprocessedWithinWindow ==
    \A c \in Consumer, m \in Msgs :
        pc[c][m] \in Holding => ~IsDone(EventOf(m))

(* A message delivered to the group leaves the pending list only when its  *)
(* event has been through the pipeline, however workers crash, are         *)
(* cancelled, lose replies or race, or when MAXLEN has removed it; and     *)
(* MAXLEN removes nothing but what at least MaxLen newer entries follow.   *)
Accounted ==
    /\ \A m \in Msgs :
          groupFrom < m /\ m <= lastDelivered =>
              m \in pel \/ EventOf(m) \in processed \/ m <= trimmed
    /\ trimmed > 0 => MaxLen > 0 /\ trimmed + MaxLen <= Len(stream)

(* A message leaves the pending list only when its raw event is in the     *)
(* MinIO archive or MAXLEN has removed it ("Every event received is        *)
(* immediately copied to MinIO/S3", README.md).  ProcessSingleEvent goes   *)
(* on when Put fails.  After SIGTERM that is harmless, because MarkDone    *)
(* and XACK fail as well; when PutObject itself fails it is not.           *)
AckedIsArchived ==
    \A m \in Msgs :
        groupFrom < m /\ m <= lastDelivered =>
            m \in pel \/ EventOf(m) \in archived \/ m <= trimmed

(* The lock a task has claimed is there for as long as the task works, up  *)
(* to its TTL: until then TryClaimProcessing answers "(false, nil) when    *)
(* another caller holds it" (idempotency.go).  ReleaseProcessing does not  *)
(* ask whose lock it deletes; that a task only calls it in time, and only  *)
(* after a claim of its own, is what keeps the others' locks in place.     *)
LockLasts ==
    \A c \in Consumer, m \in Msgs :
        pc[c][m] \in Holding /\ age[c][m] < LockTTL => Locked(EventOf(m))

(* Every message the group gets that the pipeline can handle is settled in *)
(* the end, whether or not the worker it was delivered to survives.        *)
EventuallySettled ==
    \A m \in Msgs :
        (/\ group /\ groupFrom < m /\ m <= Len(stream)
         /\ EventOf(m) \notin Poison)
        ~> (m <= lastDelivered /\ m \notin pel)

(* Every event that PublishRaw has buffered and that the pipeline can      *)
(* handle is processed in the end.                                         *)
BufferedIsProcessed ==
    \A m \in Msgs :
        (m <= Len(stream) /\ EventOf(m) \notin Poison)
        ~> (m <= Len(stream) /\ EventOf(m) \in processed)

(* The workers, the stream and the idempotency store together implement    *)
(* the abstract at-least-once queue: group creation, delivery, processing  *)
(* and acknowledgement happen in the order that specification allows, and  *)
(* every other step of the workers is invisible to it.                     *)
Queue == INSTANCE AtLeastOnce WITH
    buffered <- stream, dropped <- trimmed, open <- group, from <- groupFrom,
    upto <- lastDelivered, pending <- pel, processed <- processed

AtLeastOnceDelivery == Queue!Spec

(* How far the passes of an event through the pipeline have come.  A task  *)
(* shows before a marker does, so a pass that begins while the marker is   *)
(* alive, or while another pass is under way, does not go unseen.          *)
PassAt(e, steps) ==
    \E c \in Consumer, m \in Msgs : pc[c][m] \in steps /\ EventOf(m) = e

PassOf(e) ==
    IF PassAt(e, {"markdone"}) THEN "ran"
    ELSE IF PassAt(e, Holding) THEN "busy"
    ELSE IF IsDone(e) THEN "done"
    ELSE "free"

(* Lock and marker make the workers implement the abstract idempotency     *)
(* contract: passes of an event exclude one another, complete the pipeline *)
(* once at most, and none begins in the window that a completed one opens  *)
(* ("Events processed within this window won't be reprocessed",            *)
(* worker.go), whichever messages carry the event.                         *)
Window == INSTANCE OncePerWindow WITH
    state <- [e \in Event |-> PassOf(e)], processed <- processed

ProcessedOncePerWindow == Window!Spec
=============================================================================
