-------------------------- MODULE WorkerRefinement --------------------------
(***************************************************************************)
(* The workers implement the abstract at-least-once queue, and what they   *)
(* acknowledge is archived.  Both build on the delivery invariant.         *)
(***************************************************************************)
EXTENDS WorkerProofs

(* The stream is empty and there is no group. *)
LEMMA InitRefines == Init => Queue!Init
BY DEF Init, BufferInit, Queue!Init

(* Every step of the workers is a step of the queue or invisible to it. *)
LEMMA NextRefines == DeliveryInv /\ [Next]_vars => [Queue!Next]_Queue!vars
<1> SUFFICES ASSUME DeliveryInv, [Next]_vars PROVE [Queue!Next]_Queue!vars
  OBVIOUS
<1> USE DeliveryFacts
<1>1. ASSUME NEW e \in Event, Publish(e) PROVE Queue!Next
  <2>1. Queue!Buffer(e, trimmed') /\ trimmed' \in trimmed..(Len(stream) + 1)
    BY <1>1 DEF Publish, PublishRaw, Queue!Buffer
  <2>2. QED
    BY <2>1 DEF Queue!Next
<1>2. ASSUME NEW c \in Consumer, StartWorker(c) PROVE Queue!Next \/ UNCHANGED Queue!vars
  <2>1. EnsureGroup /\ processed' = processed
    BY <1>2 DEF StartWorker
  <2>2. CASE group
    <3>1. group \in BOOLEAN
      BY DEF BufferTypeOK
    <3>2. group' = group
      BY <2>1, <2>2, <3>1 DEF EnsureGroup
    <3>3. UNCHANGED <<stream, trimmed, groupFrom, lastDelivered, pel, processed>>
      BY <2>1, <2>2 DEF EnsureGroup
    <3>4. QED
      BY <3>2, <3>3 DEF Queue!vars
  <2>3. CASE ~group
    <3>1. Queue!Open
      BY <2>1, <2>3 DEF EnsureGroup, Queue!Open
    <3>2. QED
      BY <3>1 DEF Queue!Next
  <2>4. QED
    BY <2>2, <2>3
<1>3. ASSUME NEW c \in Consumer, ClaimStep(c) \/ SkipClaim(c)
      PROVE  Queue!Next \/ UNCHANGED Queue!vars
  <2>1. processed' = processed
    BY <1>3 DEF ClaimStep, SkipClaim
  <2>2. CASE ClaimPending
    <3>1. {m \in AutoClaimed : m <= trimmed} \in SUBSET {m \in pel : m <= trimmed}
      BY DEF AutoClaimed, Scanned
    <3>2. Queue!Forget({m \in AutoClaimed : m <= trimmed})
      BY <2>1, <2>2 DEF ClaimPending, Queue!Forget
    <3>3. QED
      BY <3>1, <3>2 DEF Queue!Next
  <2>3. CASE UNCHANGED bufferVars
    BY <2>1, <2>3 DEF bufferVars, Queue!vars
  <2>4. QED
    BY <1>3, <2>2, <2>3 DEF ClaimStep, SkipClaim
<1>4. ASSUME NEW c \in Consumer, ReadStep(c) PROVE Queue!Next \/ UNCHANGED Queue!vars
  <2>1. processed' = processed /\ phase[c] = "read"
    BY <1>4 DEF ReadStep
  <2>2. group
    BY <2>1 DEF DeliveryInv, GroupIsOpen
  <2>3. CASE UNCHANGED bufferVars
    BY <2>1, <2>3 DEF bufferVars, Queue!vars
  <2>4. CASE ReadGroup /\ NextBatch = {}
    BY <2>1, <2>4 DEF ReadGroup, Queue!vars
  <2>5. CASE ReadGroup /\ NextBatch # {}
    <3>1. NextBatch = {m \in (lastDelivered + 1)..ReadTo : m > trimmed}
      BY NextBatchFacts DEF ReadFrom, NextBatch
    <3>2. ReadTo \in (lastDelivered + 1)..Len(stream)
      BY <2>5, <3>1, NextBatchFacts
    <3>3. Queue!Deliver(ReadTo)
      BY <2>1, <2>2, <2>5, <3>1 DEF ReadGroup, Queue!Deliver
    <3>4. QED
      BY <3>2, <3>3 DEF Queue!Next
  <2>6. QED
    BY <1>4, <2>3, <2>4, <2>5 DEF ReadStep
<1>5. ASSUME NEW c \in Consumer, NEW m \in Msgs, TaskStep(c, m)
      PROVE  Queue!Next \/ UNCHANGED Queue!vars
  <2>1. CASE RunPipeline(c, m)
    <3>1. /\ UNCHANGED <<stream, trimmed, group, groupFrom, lastDelivered, pel>>
          /\ m \in (groupFrom + 1)..lastDelivered
      BY <2>1 DEF RunPipeline, bufferVars
    <3>2. processed' = processed \/ processed' = processed \cup {stream[m]}
      BY <2>1 DEF RunPipeline, EventOf
    <3>3. CASE m \in pel \/ m <= trimmed
      BY <3>1, <3>2, <3>3 DEF Queue!Next, Queue!Process, Queue!vars
    <3>4. CASE ~(m \in pel \/ m <= trimmed)
      <4>1. stream[m] \in processed
        BY <2>1, <3>4 DEF RunPipeline, DeliveryInv, Accounted, EventOf
      <4>2. processed' = processed
        BY <3>2, <4>1
      <4>3. QED
        BY <3>1, <4>2 DEF Queue!vars
    <3>5. QED
      BY <3>3, <3>4
  <2>2. CASE AckMsg(c, m)
    <3>1. stream[m] \in processed
      BY <2>2 DEF AckMsg, DeliveryInv, AckIsJustified, EventOf
    <3>2. /\ UNCHANGED <<stream, trimmed, group, groupFrom, lastDelivered, processed>>
          /\ pel' = pel \/ pel' = pel \ {m}
          /\ m \in (groupFrom + 1)..lastDelivered
      BY <2>2 DEF AckMsg, Ack, bufferVars
    <3>3. CASE m \in pel
      BY <3>1, <3>2, <3>3 DEF Queue!Next, Queue!Settle, Queue!vars
    <3>4. CASE m \notin pel
      BY <3>2, <3>4 DEF Queue!vars
    <3>5. QED
      BY <3>3, <3>4
  <2>3. CASE \/ StartTask(c, m) \/ CheckDone(c, m) \/ TryClaim(c, m)
             \/ StoreRaw(c, m) \/ Release(c, m) \/ Mark(c, m)
    BY <2>3 DEF StartTask, CheckDone, TryClaim, StoreRaw, Release, Mark, bufferVars, Queue!vars
  <2>4. QED
    BY <1>5, <2>1, <2>2, <2>3 DEF TaskStep
<1>6. ASSUME NEW c \in Consumer, Cancel(c) \/ Exit(c) \/ Crash(c) PROVE UNCHANGED Queue!vars
  BY <1>6 DEF Cancel, Exit, Crash, bufferVars, Queue!vars
<1>7. CASE Tick
  BY <1>7 DEF Tick, BufferTick, Queue!vars
<1>8. CASE UNCHANGED vars
  BY <1>8 DEF vars, bufferVars, Queue!vars
<1>9. QED
  BY <1>1, <1>2, <1>3, <1>4, <1>5, <1>6, <1>7, <1>8 DEF Next, WorkerStep, LoopStep

(* Workers, stream and idempotency store together implement the abstract   *)
(* at-least-once queue, under all faults.                                  *)
THEOREM ImplementsAtLeastOnce == Spec => AtLeastOnceDelivery
BY InitRefines, NextRefines, InitDeliveryInv, NextDeliveryInv, PTL
   DEF Spec, AtLeastOnceDelivery, Queue!Spec
-----------------------------------------------------------------------------
(* The archive.  ProcessSingleEvent ignores a failing Put, so a cancelled  *)
(* worker does process events that are not archived; but from then on its  *)
(* MarkDone and its acknowledgement fail as well.                          *)
ArchiveInv ==
    /\ \A c \in Consumer : rawStore[c] = "minio"
    /\ \A e \in Event : IsDone(e) => e \in archived
    /\ \A c \in Consumer, m \in Msgs :
          pc[c][m] \in {"parse", "markdone", "ack"} /\ phase[c] # "stop" => EventOf(m) \in archived
    /\ AckedIsArchived

(* Nothing is marked, running or delivered initially. *)
LEMMA InitArchiveInv == Init => ArchiveInv
<1> SUFFICES ASSUME Init PROVE ArchiveInv
  OBVIOUS
<1>1. AckedIsArchived
  BY DEF Init, BufferInit, AckedIsArchived, Msgs
<1>2. QED
  BY <1>1 DEF Init, StoreInit, ArchiveInv, IsDone

(* Every step keeps the archive invariant when MinIO does not fail, which  *)
(* it may at a PutObject or when a worker starts.                          *)
LEMMA NextArchiveInv ==
    ASSUME "minio" \notin Faults, "nostore" \notin Faults
    PROVE  DeliveryInv /\ ArchiveInv /\ [Next]_vars => ArchiveInv'
<1> SUFFICES ASSUME DeliveryInv, ArchiveInv, [Next]_vars PROVE ArchiveInv'
  OBVIOUS
<1> USE DeliveryFacts
<1>1. ASSUME NEW e \in Event, Publish(e) PROVE ArchiveInv'
  <2>1. /\ UNCHANGED <<groupFrom, lastDelivered, pel, pc, phase, rawStore, archived, done>>
        /\ trimmed' \in Nat /\ trimmed <= trimmed'
        /\ \A m \in 1..Len(stream) : EventOf(m)' = EventOf(m)
    BY <1>1 DEF Publish, PublishRaw, storeVars, loopVars, EventOf, BufferTypeOK
  <2>2. AckedIsArchived'
    <3> SUFFICES ASSUME NEW m \in Msgs, groupFrom < m, m <= lastDelivered
                 PROVE  m \in pel \/ EventOf(m)' \in archived \/ m <= trimmed'
      BY <2>1 DEF AckedIsArchived
    <3>1. m \in 1..Len(stream)
      OBVIOUS
    <3>2. QED
      BY <2>1, <3>1 DEF ArchiveInv, AckedIsArchived
  <2>3. QED
    BY <2>1, <2>2 DEF ArchiveInv, IsDone
<1>2. ASSUME NEW c \in Consumer, StartWorker(c) PROVE ArchiveInv'
  <2>1. /\ UNCHANGED <<stream, trimmed, pel, pc, archived, done>>
        /\ group => UNCHANGED <<groupFrom, lastDelivered>>
        /\ ~group => groupFrom' = lastDelivered' /\ lastDelivered' = Len(stream)
        /\ phase[c] = "down"
        /\ \A d \in Consumer : d # c => phase'[d] = phase[d]
    BY <1>2 DEF StartWorker, EnsureGroup, storeVars, TypeOK
  <2>2. \A d \in Consumer : rawStore'[d] = "minio"
    <3>1. \/ rawStore' = rawStore
          \/ rawStore' = [rawStore EXCEPT ![c] = "minio"]
      BY <1>2, "nostore" \notin Faults DEF StartWorker, NewRawStore
    <3>2. QED
      BY <3>1 DEF ArchiveInv, TypeOK
  <2>3. AckedIsArchived'
    <3>1. CASE group
      BY <2>1, <3>1 DEF ArchiveInv, AckedIsArchived, EventOf
    <3>2. CASE ~group
      BY <2>1, <3>2 DEF AckedIsArchived
    <3>3. QED
      BY <3>1, <3>2
  <2>4. \A d \in Consumer, m \in Msgs :
           pc[d][m] \in {"parse", "markdone", "ack"} /\ phase'[d] # "stop" => EventOf(m) \in archived
    BY <2>1 DEF ArchiveInv
  <2>5. QED
    BY <2>1, <2>2, <2>3, <2>4 DEF ArchiveInv, IsDone, EventOf
<1>3. ASSUME NEW c \in Consumer, LoopStep(c) PROVE ArchiveInv'
  <2>1. /\ UNCHANGED <<stream, trimmed, groupFrom, rawStore, archived, done>>
        /\ phase[c] # "stop"
        /\ \A d \in Consumer : d # c => phase'[d] = phase[d]
    BY <1>3 DEF LoopStep, ClaimStep, SkipClaim, ReadStep, ClaimPending, ReadGroup, bufferVars,
                storeVars, TypeOK
  <2>2. \A d \in Consumer, m \in Msgs :
           pc'[d][m] = pc[d][m] \/ pc'[d][m] \in {"queued", "none"}
    <3>1. pc' = pc \/ \E batch : Enqueue(c, batch)
      BY <1>3 DEF LoopStep, ClaimStep, SkipClaim, ReadStep
    <3>2. pc \in [Consumer -> [Msgs -> Steps]]
      BY DEF TypeOK
    <3>3. QED
      BY <3>1, <3>2, EnqueueFacts
  <2>3. AckedIsArchived'
    <3>1. CASE UNCHANGED <<pel, lastDelivered>>
      BY <2>1, <3>1 DEF ArchiveInv, AckedIsArchived, EventOf
    <3>2. CASE ReadGroup
      <4> SUFFICES ASSUME NEW m \in Msgs, groupFrom < m, m <= lastDelivered'
                   PROVE  m \in pel' \/ EventOf(m) \in archived \/ m <= trimmed
        BY <2>1 DEF AckedIsArchived, EventOf
      <4>1. /\ ReadFrom \in Nat /\ lastDelivered <= ReadFrom
            /\ lastDelivered < ReadFrom => ReadFrom = trimmed
            /\ NextBatch = (ReadFrom + 1)..ReadTo
            /\ ReadTo \in Nat
        BY NextBatchFacts DEF ReadFrom, NextBatch
      <4>2. CASE m <= lastDelivered
        BY <3>2, <4>2 DEF ReadGroup, ArchiveInv, AckedIsArchived
      <4>3. CASE lastDelivered < m
        BY <3>2, <4>1, <4>3 DEF ReadGroup
      <4>4. QED
        BY <4>2, <4>3
    <3>3. CASE ClaimPending
      <4>1. lastDelivered' = lastDelivered /\ \A m \in pel : m \in pel' \/ m <= trimmed
        BY <3>3 DEF ClaimPending
      <4>2. QED
        BY <2>1, <4>1 DEF ArchiveInv, AckedIsArchived, EventOf
    <3>4. QED
      BY <1>3, <3>1, <3>2, <3>3 DEF LoopStep, ClaimStep, SkipClaim, ReadStep, bufferVars
  <2>4. QED
    BY <2>1, <2>2, <2>3 DEF ArchiveInv, IsDone, EventOf
<1>4. ASSUME NEW c \in Consumer, NEW m \in Msgs, TaskStep(c, m) PROVE ArchiveInv'
  <2>1. /\ UNCHANGED <<stream, trimmed, groupFrom, lastDelivered, phase, rawStore>>
        /\ pc[c][m] # "none"
        /\ \E step \in Steps : pc' = [pc EXCEPT ![c][m] = step]
        /\ archived \subseteq archived'
    BY <1>4 DEF TaskStep, StartTask, CheckDone, TryClaim, StoreRaw, Put, RunPipeline, Release, Mark,
                AckMsg, Goto, Steps, bufferVars, loopVars, Ack
  <2>2. EventOf(m) \in Event
    BY <2>1
  <2>3. pel' = pel \/ (pc[c][m] = "ack" /\ phase[c] # "stop" /\ pel' = pel \ {m})
    BY <1>4 DEF TaskStep, StartTask, CheckDone, TryClaim, StoreRaw, Put, RunPipeline, Release, Mark,
                AckMsg, bufferVars, Ack, Answered, ReplyLost
  <2>4. \/ done' = done
        \/ /\ pc[c][m] = "markdone" /\ phase[c] # "stop"
           /\ done' = [done EXCEPT ![EventOf(m)] = DoneTTL]
    BY <1>4 DEF TaskStep, StartTask, CheckDone, TryClaim, StoreRaw, Put, RunPipeline, Release, Mark,
                AckMsg, storeVars, TryClaimProcessing, ReleaseProcessing, MarkDone, Answered,
                ReplyLost
  <2>5. \A e \in Event : done'[e] > 0 => e \in archived'
    BY <2>1, <2>2, <2>4 DEF ArchiveInv, IsDone, StoreTypeOK
  <2>6. pc'[c][m] \in {"parse", "markdone", "ack"} /\ phase[c] # "stop" => EventOf(m) \in archived'
    <3>1. CASE CheckDone(c, m)
      BY <2>1, <2>2, <3>1 DEF CheckDone, Goto, ArchiveInv, TypeOK
    <3>2. CASE StoreRaw(c, m)
      BY <3>2, "minio" \notin Faults DEF StoreRaw, Put, ArchiveInv
    <3>3. CASE RunPipeline(c, m) \/ Mark(c, m)
      BY <2>1, <3>3 DEF RunPipeline, Mark, ArchiveInv
    <3>4. CASE StartTask(c, m) \/ TryClaim(c, m) \/ Release(c, m) \/ AckMsg(c, m)
      BY <3>4 DEF StartTask, TryClaim, Release, AckMsg, Goto, TypeOK
    <3>5. QED
      BY <1>4, <3>1, <3>2, <3>3, <3>4 DEF TaskStep
  <2>7. \A d \in Consumer, n \in Msgs : d # c \/ n # m => pc'[d][n] = pc[d][n]
    BY <2>1 DEF TypeOK
  <2>8. AckedIsArchived'
    BY <2>1, <2>3 DEF ArchiveInv, AckedIsArchived, EventOf
  <2>9. QED
    BY <2>1, <2>5, <2>6, <2>7, <2>8 DEF ArchiveInv, IsDone, EventOf
<1>5. ASSUME NEW c \in Consumer, Cancel(c) \/ Exit(c) \/ Crash(c) PROVE ArchiveInv'
  <2>1. UNCHANGED <<stream, trimmed, groupFrom, lastDelivered, pel, rawStore, archived, done>>
    BY <1>5 DEF Cancel, Exit, Crash, bufferVars, storeVars
  <2>2. \A d \in Consumer, m \in Msgs :
           pc'[d][m] \in {"parse", "markdone", "ack"} /\ phase'[d] # "stop"
           => pc'[d][m] = pc[d][m] /\ phase[d] # "stop"
    <3>1. CASE Cancel(c)
      BY <3>1 DEF Cancel, TypeOK
    <3>2. CASE Exit(c)
      BY <3>2 DEF Exit, NoTasks, TypeOK
    <3>3. CASE Crash(c)
      BY <3>3 DEF Crash, TypeOK
    <3>4. QED
      BY <1>5, <3>1, <3>2, <3>3
  <2>3. QED
    BY <2>1, <2>2 DEF ArchiveInv, AckedIsArchived, IsDone, EventOf
<1>6. CASE Tick
  <2>1. UNCHANGED <<stream, trimmed, groupFrom, lastDelivered, pel, pc, phase, rawStore, archived>>
    BY <1>6 DEF Tick, BufferTick
  <2>2. \A e \in Event : done'[e] > 0 => done[e] > 0
    BY <1>6, StoreAssumption DEF Tick, StoreTick, Expired, StoreTypeOK
  <2>3. QED
    BY <2>1, <2>2 DEF ArchiveInv, AckedIsArchived, IsDone, EventOf
<1>7. CASE UNCHANGED vars
  BY <1>7 DEF vars, bufferVars, storeVars, ArchiveInv, AckedIsArchived, IsDone, EventOf
<1>8. QED
  BY <1>1, <1>2, <1>3, <1>4, <1>5, <1>6, <1>7 DEF Next, WorkerStep

(* While MinIO does not fail, nothing is acknowledged that is not in the   *)
(* archive: a worker cancelled in the middle of an event cannot lose the   *)
(* raw copy, whatever Redis does.                                          *)
THEOREM AcknowledgedIsArchived ==
    ASSUME "minio" \notin Faults, "nostore" \notin Faults
    PROVE  Spec => []AckedIsArchived
<1>1. ArchiveInv => AckedIsArchived
  BY DEF ArchiveInv
<1>2. QED
  BY InitDeliveryInv, NextDeliveryInv, InitArchiveInv, NextArchiveInv, <1>1, PTL DEF Spec
-----------------------------------------------------------------------------
(* Once per window.  Under the timing assumption of the lease, the tasks   *)
(* that hold an event and its marker are what the abstract specification   *)
(* calls the event's state.                                                *)

(* With one holder at a time, the holder tells how far the pass is.        *)
LEMMA PassOfHolder ==
    ExclusivePipeline =>
        \A c \in Consumer, m \in Msgs :
            pc[c][m] \in Holding =>
                PassOf(EventOf(m)) = IF pc[c][m] = "markdone" THEN "ran" ELSE "busy"
<1> SUFFICES ASSUME ExclusivePipeline, NEW c \in Consumer, NEW m \in Msgs, pc[c][m] \in Holding
             PROVE  PassOf(EventOf(m)) = IF pc[c][m] = "markdone" THEN "ran" ELSE "busy"
  OBVIOUS
<1>1. "markdone" \in Holding
  BY DEF Holding
<1>2. PassAt(EventOf(m), Holding)
  BY DEF PassAt
<1>3. PassAt(EventOf(m), {"markdone"}) <=> pc[c][m] = "markdone"
  BY <1>1 DEF PassAt, ExclusivePipeline
<1>4. QED
  BY <1>2, <1>3 DEF PassOf

LEMMA PassOfHolderNext ==
    ExclusivePipeline' =>
        \A c \in Consumer, m \in Msgs :
            pc'[c][m] \in Holding =>
                PassOf(EventOf(m))' = IF pc'[c][m] = "markdone" THEN "ran" ELSE "busy"
<1> SUFFICES ASSUME ExclusivePipeline', NEW c \in Consumer, NEW m \in Msgs, pc'[c][m] \in Holding
             PROVE  PassOf(EventOf(m))' = IF pc'[c][m] = "markdone" THEN "ran" ELSE "busy"
  OBVIOUS
<1>1. "markdone" \in Holding
  BY DEF Holding
<1>2. PassAt(EventOf(m), Holding)'
  BY DEF PassAt
<1>3. PassAt(EventOf(m), {"markdone"})' <=> pc'[c][m] = "markdone"
  BY <1>1 DEF PassAt, ExclusivePipeline
<1>4. QED
  BY <1>2, <1>3 DEF PassOf

(* Without a holder, the marker does. *)
LEMMA PassOfRest ==
    ASSUME NEW e, \A c \in Consumer, m \in Msgs : pc[c][m] \in Holding => EventOf(m) # e
    PROVE  PassOf(e) = IF IsDone(e) THEN "done" ELSE "free"
BY DEF PassOf, PassAt, Holding

LEMMA PassOfRestNext ==
    ASSUME NEW e, \A c \in Consumer, m \in Msgs : pc'[c][m] \in Holding => EventOf(m)' # e
    PROVE  PassOf(e)' = IF done'[e] > 0 THEN "done" ELSE "free"
BY DEF PassOf, PassAt, Holding, IsDone

(* The abstract state changes at one event, or not at all. *)
LEMMA PassFrame ==
    ASSUME NEW e, IsDone(e)' <=> IsDone(e),
           \A c \in Consumer, m \in Msgs :
              /\ pc'[c][m] \in Holding /\ EventOf(m)' = e <=> pc[c][m] \in Holding /\ EventOf(m) = e
              /\ pc'[c][m] = "markdone" /\ EventOf(m)' = e <=> pc[c][m] = "markdone" /\ EventOf(m) = e
    PROVE  PassOf(e)' = PassOf(e)
<1>1. PassAt(e, Holding)' <=> PassAt(e, Holding)
  BY DEF PassAt
<1>2. PassAt(e, {"markdone"})' <=> PassAt(e, {"markdone"})
  BY DEF PassAt
<1>3. QED
  BY <1>1, <1>2 DEF PassOf

LEMMA WindowUnchanged ==
    ASSUME \A e \in Event : PassOf(e)' = PassOf(e), processed' = processed
    PROVE  UNCHANGED Window!vars
BY DEF Window!vars

LEMMA WindowUpdate ==
    ASSUME NEW e \in Event, NEW v, PassOf(e)' = v,
           \A f \in Event : f # e => PassOf(f)' = PassOf(f)
    PROVE  /\ [f \in Event |-> PassOf(f)]' = [[f \in Event |-> PassOf(f)] EXCEPT ![e] = v]
           /\ [f \in Event |-> PassOf(f)][e] = PassOf(e)
OBVIOUS

(* No task holds an event initially, and none is marked. *)
LEMMA InitWindow == Init => Window!Init
<1> SUFFICES ASSUME Init PROVE Window!Init
  OBVIOUS
<1>1. \A c \in Consumer, m \in Msgs : pc[c][m] \notin Holding
  BY DEF Init, Holding
<1>2. \A e \in Event : ~IsDone(e)
  BY DEF Init, StoreInit, IsDone
<1>3. \A e \in Event : PassOf(e) = "free"
  BY <1>1, <1>2, PassOfRest
<1>4. processed = {}
  BY DEF Init
<1>5. QED
  BY <1>3, <1>4 DEF Window!Init
(* Every step of the workers is a step of the abstract specification or    *)
(* invisible to it.                                                        *)
LEMMA NextWindow ==
    ASSUME LeaseAssumption
    PROVE  LeaseInv /\ LeaseInv' /\ [Next]_vars => [Window!Next]_Window!vars
<1> SUFFICES ASSUME LeaseInv, LeaseInv', [Next]_vars PROVE [Window!Next]_Window!vars
  OBVIOUS
<1> USE LeaseFacts
<1>0. ExclusivePipeline /\ ExclusivePipeline' /\ NotReprocessedWithinWindow
  BY DEF LeaseInv
<1>1. ASSUME NEW e \in Event, Publish(e) PROVE UNCHANGED Window!vars
  <2>1. /\ UNCHANGED <<done, pc, processed>>
        /\ \A m \in 1..Len(stream) : EventOf(m)' = EventOf(m)
    BY <1>1 DEF Publish, PublishRaw, storeVars, EventOf, BufferTypeOK
  <2>2. \A c \in Consumer, m \in Msgs : pc[c][m] \in Holding => EventOf(m)' = EventOf(m)
    BY <2>1 DEF Holding
  <2>3. ASSUME NEW f \in Event PROVE PassOf(f)' = PassOf(f)
    BY <2>1, <2>2, PassFrame DEF IsDone, Holding
  <2>4. QED
    BY <2>1, <2>3, WindowUnchanged
<1>2. ASSUME NEW c \in Consumer, StartWorker(c) \/ LoopStep(c) PROVE UNCHANGED Window!vars
  <2>1. UNCHANGED <<stream, done, processed>>
    BY <1>2 DEF StartWorker, EnsureGroup, LoopStep, ClaimStep, SkipClaim, ReadStep, ClaimPending,
                ReadGroup, bufferVars, storeVars
  <2>2. \A d \in Consumer, m \in Msgs : pc'[d][m] \in Holding \/ pc[d][m] \in Holding => pc'[d][m] = pc[d][m]
    <3>1. pc' = pc \/ (NoTasks(c) /\ \E batch : Enqueue(c, batch))
      BY <1>2 DEF StartWorker, LoopStep, ClaimStep, SkipClaim, ReadStep
    <3>2. pc \in [Consumer -> [Msgs -> Steps]]
      BY DEF TypeOK
    <3>3. QED
      BY <3>1, <3>2, EnqueueFacts DEF NoTasks, Holding
  <2>3. ASSUME NEW f \in Event PROVE PassOf(f)' = PassOf(f)
    BY <2>1, <2>2, PassFrame DEF IsDone, EventOf, Holding
  <2>4. QED
    BY <2>1, <2>3, WindowUnchanged
<1>3. ASSUME NEW c \in Consumer, NEW m \in Msgs, TaskStep(c, m)
      PROVE  Window!Next \/ UNCHANGED Window!vars
  <2>1. /\ UNCHANGED stream
        /\ pc[c][m] # "none"
        /\ \E step \in Steps : pc' = [pc EXCEPT ![c][m] = step]
    BY <1>3 DEF TaskStep, StartTask, CheckDone, TryClaim, StoreRaw, RunPipeline, Release, Mark,
                AckMsg, Goto, Steps, bufferVars, loopVars, Ack
  <2>2. PICK e : e = EventOf(m)
    OBVIOUS
  <2>3. e \in Event /\ \A n \in Msgs : EventOf(n)' = EventOf(n)
    BY <2>1, <2>2 DEF EventOf
  <2>4. \A d \in Consumer, n \in Msgs : d # c \/ n # m => pc'[d][n] = pc[d][n]
    BY <2>1 DEF TypeOK
  <2>5. Answered(c) /\ ~NotSent(c) /\ ~ReplyLost(c)
    BY LeaseAssumption DEF LeaseAssumption, LeaseInv, Answered, NotSent, ReplyLost
  <2>6. \A f \in Event : f # e => done'[f] = done[f]
    BY <1>3, <2>2, <2>3 DEF TaskStep, StartTask, CheckDone, TryClaim, StoreRaw, RunPipeline, Release,
                Mark, AckMsg, storeVars, TryClaimProcessing, ReleaseProcessing, MarkDone, StoreTypeOK
  <2>7. \A f \in Event : f # e => PassOf(f)' = PassOf(f)
    <3> SUFFICES ASSUME NEW f \in Event, f # e PROVE PassOf(f)' = PassOf(f)
      OBVIOUS
    <3>1. \A d \in Consumer, n \in Msgs :
             /\ pc'[d][n] \in Holding /\ EventOf(n)' = f <=> pc[d][n] \in Holding /\ EventOf(n) = f
             /\ pc'[d][n] = "markdone" /\ EventOf(n)' = f <=> pc[d][n] = "markdone" /\ EventOf(n) = f
      BY <2>2, <2>3, <2>4
    <3>2. QED
      BY <2>6, <3>1, PassFrame DEF IsDone
  <2>8. CASE TryClaim(c, m) /\ pc'[c][m] = "store"
    <3>1. pc[c][m] = "claim" /\ processed' = processed /\ TryClaimProcessing(e)
      BY <2>2, <2>5, <2>8 DEF TryClaim, Goto, TypeOK
    <3>2. PassOf(e)' = "busy"
      BY <1>0, <2>2, <2>3, <2>8, PassOfHolderNext DEF Holding
    <3>3. PassOf(e) = "free"
      <4>1. \A d \in Consumer, n \in Msgs : pc[d][n] \in Holding => EventOf(n) # e
        <5> SUFFICES ASSUME NEW d \in Consumer, NEW n \in Msgs, pc[d][n] \in Holding, EventOf(n) = e
                     PROVE  FALSE
          OBVIOUS
        <5>1. d # c \/ n # m
          BY <3>1 DEF Holding
        <5>2. pc'[d][n] \in Holding /\ pc'[c][m] \in Holding /\ EventOf(n)' = EventOf(m)'
          BY <2>2, <2>3, <2>4, <2>8, <5>1 DEF Holding
        <5>3. QED
          BY <1>0, <5>1, <5>2 DEF ExclusivePipeline
      <4>2. done' = done
        BY <3>1 DEF TryClaimProcessing
      <4>3. ~(done'[e] > 0)
        BY <2>2, <2>3, <2>8 DEF LeaseInv, NotReprocessedWithinWindow, IsDone, Holding
      <4>4. ~IsDone(e)
        BY <4>2, <4>3 DEF IsDone
      <4>5. QED
        BY <4>1, <4>4, PassOfRest
    <3>4. Window!Begin(e)
      BY <2>3, <2>7, <3>1, <3>2, <3>3, WindowUpdate DEF Window!Begin
    <3>5. QED
      BY <2>3, <3>4 DEF Window!Next
  <2>9. CASE RunPipeline(c, m) /\ e \notin Poison
    <3>1. /\ pc[c][m] = "parse" /\ pc'[c][m] = "markdone"
          /\ processed' = processed \cup {e}
      BY <2>2, <2>9 DEF RunPipeline, Goto, TypeOK
    <3>2. PassOf(e) = "busy" /\ PassOf(e)' = "ran"
      BY <1>0, <2>2, <2>3, <3>1, PassOfHolder, PassOfHolderNext DEF Holding
    <3>3. Window!Run(e)
      BY <2>3, <2>7, <2>9, <3>1, <3>2, WindowUpdate DEF Window!Run
    <3>4. QED
      BY <2>3, <3>3 DEF Window!Next
  <2>10. CASE Release(c, m) \/ Mark(c, m)
    <3>1. /\ pc[c][m] \in Holding /\ pc'[c][m] \notin Holding /\ processed' = processed
          /\ \/ pc[c][m] = "release" /\ e \in Poison /\ done' = done
             \/ pc[c][m] = "markdone" /\ done'[e] > 0
      BY <2>2, <2>3, <2>5, <2>10, StoreAssumption
         DEF Release, Mark, Goto, ReleaseProcessing, MarkDone, TypeOK, StoreTypeOK, Holding,
             LeaseInv, OutcomeIsPipelines
    <3>2. \A d \in Consumer, n \in Msgs : pc'[d][n] \in Holding => EventOf(n)' # e
      BY <1>0, <2>2, <2>3, <2>4, <3>1 DEF ExclusivePipeline
    <3>3. PassOf(e)' = IF done'[e] > 0 THEN "done" ELSE "free"
      BY <3>2, PassOfRestNext
    <3>4. CASE pc[c][m] = "release"
      <4>1. ~(done[e] > 0)
        BY <2>2, <3>1 DEF LeaseInv, NotReprocessedWithinWindow, IsDone
      <4>2. PassOf(e) = "busy" /\ PassOf(e)' = "free"
        BY <1>0, <2>2, <3>1, <3>3, <3>4, <4>1, PassOfHolder
      <4>3. Window!Fail(e)
        BY <2>3, <2>7, <3>1, <3>4, <4>2, WindowUpdate DEF Window!Fail
      <4>4. QED
        BY <2>3, <4>3 DEF Window!Next
    <3>5. CASE pc[c][m] = "markdone"
      <4>1. PassOf(e) = "ran" /\ PassOf(e)' = "done"
        BY <1>0, <2>2, <3>1, <3>3, <3>5, PassOfHolder
      <4>2. Window!Complete(e)
        BY <2>3, <2>7, <3>1, <4>1, WindowUpdate DEF Window!Complete
      <4>3. QED
        BY <2>3, <4>2 DEF Window!Next
    <3>6. QED
      BY <3>1, <3>4, <3>5
  <2>11. CASE StoreRaw(c, m) \/ (RunPipeline(c, m) /\ e \in Poison)
    <3>1. /\ pc[c][m] \in Holding /\ pc'[c][m] \in Holding
          /\ pc[c][m] # "markdone" /\ pc'[c][m] # "markdone"
          /\ processed' = processed
      BY <2>2, <2>11 DEF StoreRaw, RunPipeline, Goto, TypeOK, Holding
    <3>2. PassOf(e) = "busy" /\ PassOf(e)' = "busy"
      BY <1>0, <2>2, <2>3, <3>1, PassOfHolder, PassOfHolderNext
    <3>3. QED
      BY <2>7, <3>1, <3>2, WindowUnchanged
  <2>12. CASE \/ StartTask(c, m) \/ CheckDone(c, m) \/ AckMsg(c, m)
              \/ TryClaim(c, m) /\ pc'[c][m] # "store"
    <3>1. /\ pc[c][m] \notin Holding /\ pc'[c][m] \notin Holding
          /\ processed' = processed /\ done' = done
      BY <2>5, <2>12 DEF StartTask, CheckDone, AckMsg, TryClaim, Goto, TypeOK, Holding, storeVars,
                         TryClaimProcessing
    <3>2. \A d \in Consumer, n \in Msgs :
             /\ pc'[d][n] \in Holding /\ EventOf(n)' = e <=> pc[d][n] \in Holding /\ EventOf(n) = e
             /\ pc'[d][n] = "markdone" /\ EventOf(n)' = e <=> pc[d][n] = "markdone" /\ EventOf(n) = e
      BY <2>3, <2>4, <3>1 DEF Holding
    <3>3. PassOf(e)' = PassOf(e)
      BY <3>1, <3>2, PassFrame DEF IsDone
    <3>4. QED
      BY <2>7, <3>1, <3>3, WindowUnchanged
  <2>13. QED
    BY <1>3, <2>8, <2>9, <2>10, <2>11, <2>12 DEF TaskStep
<1>4. ASSUME NEW c \in Consumer, Cancel(c) \/ Exit(c) PROVE UNCHANGED Window!vars
  <2>1. UNCHANGED <<stream, done, processed, pc>>
    BY <1>4, LeaseAssumption DEF Cancel, Exit, bufferVars, storeVars, LeaseAssumption
  <2>2. ASSUME NEW f \in Event PROVE PassOf(f)' = PassOf(f)
    BY <2>1, PassFrame DEF IsDone, EventOf
  <2>3. QED
    BY <2>1, <2>2, WindowUnchanged
<1>5. ASSUME NEW c \in Consumer, Crash(c) PROVE Window!Next
  <2>1. /\ UNCHANGED <<stream, done, processed>>
        /\ \A d \in Consumer, m \in Msgs : pc'[d][m] = IF d = c THEN "none" ELSE pc[d][m]
    BY <1>5 DEF Crash, bufferVars, storeVars, TypeOK
  <2>2. PICK some : some = {e \in Event : \E m \in Msgs : pc[c][m] \in Holding /\ EventOf(m) = e}
    OBVIOUS
  <2>3. ASSUME NEW e \in some PROVE PassOf(e) \in {"busy", "ran"} /\ PassOf(e)' = "free"
    <3>1. PICK m \in Msgs : pc[c][m] \in Holding /\ EventOf(m) = e
      BY <2>2
    <3>2. PassOf(e) \in {"busy", "ran"} /\ ~IsDone(e)
      BY <1>0, <3>1, PassOfHolder DEF NotReprocessedWithinWindow
    <3>3. \A d \in Consumer, n \in Msgs : pc'[d][n] \in Holding => EventOf(n)' # e
      BY <1>0, <2>1, <3>1 DEF ExclusivePipeline, EventOf, Holding
    <3>4. PassOf(e)' = "free"
      BY <2>1, <3>2, <3>3, PassOfRestNext DEF IsDone
    <3>5. QED
      BY <3>2, <3>4
  <2>4. ASSUME NEW e \in Event, e \notin some PROVE PassOf(e)' = PassOf(e)
    <3>1. \A d \in Consumer, m \in Msgs :
             /\ pc'[d][m] \in Holding /\ EventOf(m)' = e <=> pc[d][m] \in Holding /\ EventOf(m) = e
             /\ pc'[d][m] = "markdone" /\ EventOf(m)' = e <=> pc[d][m] = "markdone" /\ EventOf(m) = e
      BY <2>1, <2>2, <2>4 DEF EventOf, Holding
    <3>2. QED
      BY <2>1, <3>1, PassFrame DEF IsDone
  <2>5. Window!Free(some)
    BY <2>1, <2>3, <2>4 DEF Window!Free
  <2>6. some \in SUBSET {e \in Event : [f \in Event |-> PassOf(f)][e] \in {"busy", "ran"}}
    BY <2>2, <2>3
  <2>7. QED
    BY <2>5, <2>6 DEF Window!Next, Window!Lose
<1>6. CASE Tick
  <2>1. UNCHANGED <<stream, pc, processed>>
    BY <1>6 DEF Tick, BufferTick
  <2>2. PICK some : some = {e \in Event : PassOf(e) = "done" /\ ~(done'[e] > 0)}
    OBVIOUS
  <2>3. ASSUME NEW e \in some PROVE PassOf(e)' = "free"
    <3>1. \A d \in Consumer, n \in Msgs : pc[d][n] \in Holding => EventOf(n) # e
      BY <2>2 DEF PassOf, PassAt
    <3>2. QED
      BY <2>1, <2>2, <3>1, PassOfRestNext DEF EventOf
  <2>4. ASSUME NEW e \in Event, e \notin some PROVE PassOf(e)' = PassOf(e)
    <3>1. PassAt(e, Holding)' <=> PassAt(e, Holding)
      BY <2>1 DEF PassAt, EventOf
    <3>2. PassAt(e, {"markdone"})' <=> PassAt(e, {"markdone"})
      BY <2>1 DEF PassAt, EventOf
    <3>3. IsDone(e)' => IsDone(e)
      BY <1>6, StoreAssumption DEF Tick, StoreTick, Expired, StoreTypeOK, IsDone
    <3>4. QED
      BY <2>2, <2>4, <3>1, <3>2, <3>3 DEF PassOf, IsDone
  <2>5. Window!Free(some)
    BY <2>1, <2>3, <2>4 DEF Window!Free
  <2>6. some \in SUBSET {e \in Event : [f \in Event |-> PassOf(f)][e] = "done"}
    BY <2>2
  <2>7. QED
    BY <2>5, <2>6 DEF Window!Next, Window!Expire
<1>7. CASE UNCHANGED vars
  <2>1. UNCHANGED <<stream, done, processed, pc>>
    BY <1>7 DEF vars, bufferVars, storeVars
  <2>2. ASSUME NEW f \in Event PROVE PassOf(f)' = PassOf(f)
    BY <2>1, PassFrame DEF IsDone, EventOf
  <2>3. QED
    BY <2>1, <2>2, WindowUnchanged
<1>8. QED
  BY <1>1, <1>2, <1>3, <1>4, <1>5, <1>6, <1>7 DEF Next, WorkerStep

(* When tasks are faster than the lock's TTL and Redis answers, the lock   *)
(* and the marker implement the idempotency contract: no two passes of an  *)
(* event overlap, and after a completed pass none begins before the marker *)
(* has expired, across workers, redeliveries, duplicates and crashes.      *)
THEOREM ImplementsOncePerWindow ==
    ASSUME LeaseAssumption
    PROVE  Spec => ProcessedOncePerWindow
BY InitWindow, NextWindow, InitLeaseInv, NextLeaseInv, PTL
   DEF Spec, ProcessedOncePerWindow, Window!Spec
=============================================================================
