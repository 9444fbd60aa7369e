---------------------------- MODULE WorkerProofs ----------------------------
(***************************************************************************)
(* What the workers guarantee for every number of workers, messages and    *)
(* events, every batch size and every timeout.                             *)
(***************************************************************************)
EXTENDS Worker, RawBufferProofs

-----------------------------------------------------------------------------
(* The operations of the idempotency store and of a worker keep types.     *)

(* Claiming, releasing, marking and the expiry of keys. *)
LEMMA StoreType ==
    ASSUME StoreTypeOK,
           \/ \E e \in Event : TryClaimProcessing(e) \/ ReleaseProcessing(e) \/ MarkDone(e)
           \/ StoreTick
           \/ UNCHANGED storeVars
    PROVE  StoreTypeOK'
<1> USE StoreAssumption DEF StoreTypeOK
<1>1. ASSUME NEW e \in Event, TryClaimProcessing(e) PROVE StoreTypeOK'
  BY <1>1 DEF TryClaimProcessing
<1>2. ASSUME NEW e \in Event, ReleaseProcessing(e) PROVE StoreTypeOK'
  BY <1>2 DEF ReleaseProcessing
<1>3. ASSUME NEW e \in Event, MarkDone(e) PROVE StoreTypeOK'
  BY <1>3 DEF MarkDone
<1>4. CASE StoreTick
  BY <1>4 DEF StoreTick, Expired
<1>5. CASE UNCHANGED storeVars
  BY <1>5 DEF storeVars
<1>6. QED
  BY <1>1, <1>2, <1>3, <1>4, <1>5

(* A task moves to its next step. *)
LEMMA GotoType ==
    ASSUME pc \in [Consumer -> [Msgs -> Steps]],
           age \in [Consumer -> [Msgs -> Nat]],
           NEW c \in Consumer, NEW m \in Msgs, NEW step \in Steps,
           Goto(c, m, step)
    PROVE  /\ pc' \in [Consumer -> [Msgs -> Steps]]
           /\ age' \in [Consumer -> [Msgs -> Nat]]
BY DEF Goto
(* A worker gets the tasks of a batch; the other workers' tasks stay. *)
LEMMA EnqueueFacts ==
    ASSUME pc \in [Consumer -> [Msgs -> Steps]],
           NEW c \in Consumer, NEW batch, Enqueue(c, batch)
    PROVE  /\ pc' \in [Consumer -> [Msgs -> Steps]]
           /\ \A d \in Consumer, m \in Msgs :
                 \/ d # c /\ pc'[d][m] = pc[d][m]
                 \/ d = c /\ m \in batch /\ pc'[d][m] = "queued"
                 \/ d = c /\ pc'[d][m] = "none"
BY DEF Enqueue, Steps

(* The event of a message that is in the stream is an event. *)
LEMMA EventOfType ==
    ASSUME BufferTypeOK, NEW m \in 1..Len(stream)
    PROVE  EventOf(m) \in Event
BY DEF BufferTypeOK, EventOf

-----------------------------------------------------------------------------
(* Type correctness.  That the event of a task is an event needs to know   *)
(* that a task's message is in the stream.                                 *)
TaskMsgInStream == \A c \in Consumer, m \in Msgs : pc[c][m] # "none" => m <= lastDelivered

TypeInv == TypeOK /\ TaskMsgInStream

(* Nothing has been delivered initially. *)
LEMMA InitTypeInv == Init => TypeInv
<1> SUFFICES ASSUME Init PROVE TypeInv
  OBVIOUS
<1> USE BufferAssumption, StoreAssumption, WorkerAssumption
<1>1. BufferTypeOK
  BY BufferInitType DEF Init
<1>2. StoreTypeOK
  BY DEF Init, StoreInit, StoreTypeOK
<1>3. ClaimEvery \in Nat
  BY DEF ClaimEvery
<1>4. QED
  BY <1>1, <1>2, <1>3 DEF Init, TypeInv, TypeOK, TaskMsgInStream, Steps

(* Every step of a worker, a task, the publisher or the clock keeps types. *)
LEMMA NextTypeInv == TypeInv /\ [Next]_vars => TypeInv'
<1> SUFFICES ASSUME TypeInv, [Next]_vars PROVE TypeInv'
  OBVIOUS
<1>0. /\ TypeOK
      /\ BufferTypeOK
      /\ StoreTypeOK
      /\ Len(stream) \in Nat
      /\ ClaimEvery \in Nat
  BY BufferAssumption DEF TypeInv, TypeOK, BufferTypeOK, ClaimEvery
<1>a. ASSUME NEW c \in Consumer, NEW m \in Msgs, pc[c][m] # "none"
      PROVE  m \in 1..Len(stream) /\ EventOf(m) \in Event
  <2>1. m \in 1..Len(stream)
    BY <1>0, <1>a, BufferAssumption DEF TypeInv, TaskMsgInStream, BufferTypeOK, Msgs
  <2>2. QED
    BY <1>0, <2>1, EventOfType
<1>1. ASSUME NEW e \in Event, Publish(e) PROVE TypeInv'
  <2>1. BufferTypeOK' /\ StoreTypeOK'
    BY <1>0, <1>1, PublishRawType, StoreType DEF Publish
  <2>2. QED
    BY <1>0, <1>1, <2>1 DEF Publish, PublishRaw, loopVars, TypeInv, TypeOK, TaskMsgInStream
<1>2. ASSUME NEW c \in Consumer, StartWorker(c) PROVE TypeInv'
  <2>1. BufferTypeOK' /\ StoreTypeOK'
    BY <1>0, <1>2, EnsureGroupType, StoreType DEF StartWorker
  <2>2. lastDelivered <= lastDelivered'
    BY <1>0, <1>2 DEF StartWorker, EnsureGroup, BufferTypeOK
  <2>3. lastDelivered \in Nat /\ lastDelivered' \in Nat /\ Msgs \subseteq Nat
    BY <1>0, <2>1 DEF BufferTypeOK, Msgs
  <2>4. TaskMsgInStream'
    <3>1. pc' = pc
      BY <1>2 DEF StartWorker
    <3>2. SUFFICES ASSUME NEW d \in Consumer, NEW m \in Msgs, pc[d][m] # "none"
                   PROVE  m <= lastDelivered'
      BY <3>1 DEF TaskMsgInStream
    <3>3. m \in Nat /\ m <= lastDelivered
      BY <2>3, <3>2 DEF TypeInv, TaskMsgInStream
    <3>4. QED
      BY <2>2, <2>3, <3>3
  <2>5. /\ phase' \in [Consumer -> {"down", "head", "read", "stop"}]
        /\ nextClaim' \in [Consumer -> 0..ClaimEvery]
        /\ rawStore' \in [Consumer -> {"minio", "memory"}]
    <3>1. CASE UNCHANGED <<phase, rawStore, nextClaim>>
      BY <1>0, <3>1 DEF TypeOK
    <3>2. CASE /\ phase' = [phase EXCEPT ![c] = "head"]
               /\ \E st \in {"minio", "memory"} : rawStore' = [rawStore EXCEPT ![c] = st]
               /\ nextClaim' = [nextClaim EXCEPT ![c] = ClaimEvery]
      BY <1>0, <3>2 DEF TypeOK
    <3>3. QED
      BY <1>2, <3>1, <3>2 DEF StartWorker, NewRawStore
  <2>6. QED
    BY <1>0, <1>2, <2>1, <2>4, <2>5 DEF StartWorker, TypeInv, TypeOK
<1>3. ASSUME NEW c \in Consumer, ClaimStep(c) PROVE TypeInv'
  <2>1. BufferTypeOK' /\ StoreTypeOK'
    BY <1>0, <1>3, ClaimPendingType, StoreType DEF ClaimStep, bufferVars, BufferTypeOK
  <2>2. lastDelivered' = lastDelivered
    BY <1>3 DEF ClaimStep, ClaimPending, bufferVars
  <2>3. \A m \in Reclaimed : m <= lastDelivered
    BY <1>0 DEF Reclaimed, AutoClaimed, Scanned, BufferTypeOK
  <2>4. /\ pc' \in [Consumer -> [Msgs -> Steps]]
        /\ \A d \in Consumer, m \in Msgs : pc'[d][m] # "none" => m <= lastDelivered
    <3>1. CASE Enqueue(c, Reclaimed)
      BY <1>0, <2>3, <3>1, EnqueueFacts DEF TypeInv, TypeOK, TaskMsgInStream
    <3>2. CASE UNCHANGED pc
      BY <1>0, <3>2 DEF TypeInv, TypeOK, TaskMsgInStream
    <3>3. QED
      BY <1>3, <3>1, <3>2 DEF ClaimStep
  <2>5. /\ phase' \in [Consumer -> {"down", "head", "read", "stop"}]
        /\ nextClaim' \in [Consumer -> 0..ClaimEvery]
    BY <1>0, <1>3 DEF ClaimStep, TypeOK
  <2>6. QED
    BY <1>0, <1>3, <2>1, <2>2, <2>4, <2>5 DEF ClaimStep, TypeOK, TypeInv, TaskMsgInStream
<1>4. ASSUME NEW c \in Consumer, SkipClaim(c) PROVE TypeInv'
  BY <1>0, <1>4 DEF SkipClaim, bufferVars, storeVars, TypeOK, BufferTypeOK, StoreTypeOK,
                    TypeInv, TaskMsgInStream
<1>5. ASSUME NEW c \in Consumer, ReadStep(c) PROVE TypeInv'
  <2>1. BufferTypeOK' /\ StoreTypeOK'
    BY <1>0, <1>5, ReadGroupType, StoreType DEF ReadStep, bufferVars, BufferTypeOK
  <2>2. /\ lastDelivered <= lastDelivered'
        /\ lastDelivered' \in Nat
        /\ ReadGroup => \A m \in NextBatch : m <= lastDelivered'
    BY <1>0, <1>5, <2>1, NextBatchFacts DEF ReadStep, ReadGroup, bufferVars, BufferTypeOK
  <2>3. /\ pc' \in [Consumer -> [Msgs -> Steps]]
        /\ \A d \in Consumer, m \in Msgs : pc'[d][m] # "none" => m <= lastDelivered'
    <3>1. Msgs \subseteq Nat /\ lastDelivered \in Nat
      BY <1>0 DEF Msgs, BufferTypeOK
    <3>2. ASSUME NEW d \in Consumer, NEW m \in Msgs, pc[d][m] # "none"
          PROVE  m <= lastDelivered'
      <4>1. m \in Nat /\ m <= lastDelivered
        BY <3>1, <3>2 DEF TypeInv, TaskMsgInStream
      <4>2. QED
        BY <2>2, <3>1, <4>1
    <3>3. CASE UNCHANGED pc
      BY <1>0, <3>2, <3>3 DEF TypeOK
    <3>4. CASE ReadGroup /\ Enqueue(c, NextBatch)
      <4>1. \A m \in NextBatch : m <= lastDelivered'
        BY <2>2, <3>4
      <4>2. QED
        BY <1>0, <3>2, <3>4, <4>1, EnqueueFacts DEF TypeOK
    <3>5. QED
      BY <1>5, <3>3, <3>4 DEF ReadStep
  <2>4. QED
    BY <1>0, <1>5, <2>1, <2>3 DEF ReadStep, TypeOK, TypeInv, TaskMsgInStream
<1>6. ASSUME NEW c \in Consumer, NEW m \in Msgs, TaskStep(c, m) PROVE TypeInv'
  <2>1. \E step \in Steps : Goto(c, m, step)
    BY <1>6 DEF TaskStep, StartTask, CheckDone, TryClaim, StoreRaw, RunPipeline, Release, Mark,
                AckMsg, Steps
  <2>2. /\ pc' \in [Consumer -> [Msgs -> Steps]]
        /\ age' \in [Consumer -> [Msgs -> Nat]]
    BY <1>0, <2>1, GotoType DEF TypeOK
  <2>3. pc[c][m] # "none" /\ EventOf(m) \in Event
    BY <1>6, <1>a DEF TaskStep, StartTask, CheckDone, TryClaim, StoreRaw, RunPipeline, Release,
                      Mark, AckMsg
  <2>4. BufferTypeOK' /\ lastDelivered' = lastDelivered
    <3>1. Ack(m) \/ UNCHANGED bufferVars
      BY <1>6 DEF TaskStep, StartTask, CheckDone, TryClaim, StoreRaw, RunPipeline, Release, Mark,
                  AckMsg
    <3>2. QED
      BY <1>0, <3>1, AckType DEF bufferVars, BufferTypeOK, Ack
  <2>5. StoreTypeOK'
    BY <1>0, <1>6, <2>3, StoreType DEF TaskStep, StartTask, CheckDone, TryClaim, StoreRaw,
                                       RunPipeline, Release, Mark, AckMsg
  <2>6. UNCHANGED loopVars
    BY <1>6 DEF TaskStep, StartTask, CheckDone, TryClaim, StoreRaw, Put, RunPipeline, Release, Mark,
                AckMsg
  <2>7. archived' \subseteq Event /\ processed' \subseteq Event
    BY <1>0, <1>6, <2>3 DEF TypeOK, TaskStep, StartTask, CheckDone, TryClaim, StoreRaw, Put,
                            RunPipeline, Release, Mark, AckMsg
  <2>8. TaskMsgInStream'
    BY <1>0, <2>1, <2>3, <2>4 DEF Goto, TypeInv, TypeOK, TaskMsgInStream
  <2>9. QED
    BY <1>0, <2>2, <2>4, <2>5, <2>6, <2>7, <2>8 DEF TypeOK, TypeInv, loopVars
<1>7. ASSUME NEW c \in Consumer, Cancel(c) PROVE TypeInv'
  BY <1>0, <1>7 DEF Cancel, bufferVars, storeVars, TypeOK, BufferTypeOK, StoreTypeOK,
                    TypeInv, TaskMsgInStream, Steps
<1>8. ASSUME NEW c \in Consumer, Exit(c) PROVE TypeInv'
  BY <1>0, <1>8 DEF Exit, bufferVars, storeVars, TypeOK, BufferTypeOK, StoreTypeOK,
                    TypeInv, TaskMsgInStream
<1>9. ASSUME NEW c \in Consumer, Crash(c) PROVE TypeInv'
  BY <1>0, <1>9 DEF Crash, bufferVars, storeVars, TypeOK, BufferTypeOK, StoreTypeOK,
                    TypeInv, TaskMsgInStream, Steps
<1>10. CASE Tick
  <2>1. BufferTypeOK' /\ StoreTypeOK'
    BY <1>0, <1>10, BufferTickType, StoreType DEF Tick
  <2>2. lastDelivered' = lastDelivered
    BY <1>10 DEF Tick, BufferTick
  <2>3. /\ nextClaim' \in [Consumer -> 0..ClaimEvery]
        /\ age' \in [Consumer -> [Msgs -> Nat]]
    BY <1>0, <1>10 DEF Tick, TypeOK
  <2>4. QED
    BY <1>0, <1>10, <2>1, <2>2, <2>3 DEF Tick, TypeOK, TypeInv, TaskMsgInStream
<1>11. CASE UNCHANGED vars
  BY <1>0, <1>11 DEF vars, bufferVars, storeVars, TypeOK, BufferTypeOK, StoreTypeOK, TypeInv,
                     TaskMsgInStream
<1>12. QED
  BY <1>1, <1>2, <1>3, <1>4, <1>5, <1>6, <1>7, <1>8, <1>9, <1>10, <1>11 DEF Next, WorkerStep, LoopStep

(* Every reachable state of the workers, the stream and the idempotency    *)
(* store is of the right type, under all faults.                           *)
THEOREM TypeCorrect == Spec => []TypeOK
<1>1. TypeInv => TypeOK
  BY DEF TypeInv
<1>2. QED
  BY InitTypeInv, NextTypeInv, <1>1, PTL DEF Spec
-----------------------------------------------------------------------------
(* No delivered message is lost.  Why a message may be acknowledged is     *)
(* local knowledge of a task (it has run the pipeline, or has seen the     *)
(* completion marker), so the invariant ties tasks and markers to the      *)
(* events that have been processed.                                        *)
MarkerIsTrue == \A e \in Event : IsDone(e) => e \in processed

AckIsJustified ==
    \A c \in Consumer, m \in Msgs :
        pc[c][m] \in {"markdone", "ack"} => EventOf(m) \in processed

GroupIsOpen ==
    /\ group \/ lastDelivered = 0
    /\ \A c \in Consumer : phase[c] # "down" => group
    /\ \A m \in pel : groupFrom < m
    /\ \A c \in Consumer, m \in Msgs : pc[c][m] # "none" => groupFrom < m

DeliveryInv ==
    /\ TypeInv
    /\ GroupIsOpen
    /\ MarkerIsTrue
    /\ AckIsJustified
    /\ Accounted

(* Initially nothing has been delivered, marked or started. *)
LEMMA InitDeliveryInv == Init => DeliveryInv
<1> SUFFICES ASSUME Init PROVE DeliveryInv
  OBVIOUS
<1>1. TypeInv
  BY InitTypeInv
<1>2. GroupIsOpen
  BY DEF Init, BufferInit, GroupIsOpen
<1>3. MarkerIsTrue /\ AckIsJustified
  BY DEF Init, StoreInit, MarkerIsTrue, AckIsJustified, IsDone
<1>4. Accounted
  BY DEF Init, BufferInit, Accounted, Msgs
<1>5. QED
  BY <1>1, <1>2, <1>3, <1>4 DEF DeliveryInv

(* Facts about one state that the steps below share. *)
LEMMA DeliveryFacts ==
    ASSUME DeliveryInv
    PROVE  /\ TypeOK /\ BufferTypeOK /\ StoreTypeOK
           /\ Len(stream) \in Nat /\ lastDelivered \in Nat /\ groupFrom \in Nat
           /\ Msgs \subseteq Nat /\ trimmed \in Nat
           /\ groupFrom <= lastDelivered /\ lastDelivered <= Len(stream)
           /\ lastDelivered <= MaxMsgs
           /\ \A c \in Consumer, m \in Msgs :
                 pc[c][m] # "none" => /\ groupFrom < m /\ m <= lastDelivered
                                      /\ m \in 1..Len(stream)
                                      /\ EventOf(m) \in Event
<1>1. TypeOK /\ BufferTypeOK /\ StoreTypeOK
  BY DEF DeliveryInv, TypeInv, TypeOK
<1>2. /\ Len(stream) \in Nat /\ lastDelivered \in Nat /\ groupFrom \in Nat
      /\ Msgs \subseteq Nat /\ trimmed \in Nat
      /\ groupFrom <= lastDelivered /\ lastDelivered <= Len(stream)
      /\ lastDelivered <= MaxMsgs
  BY <1>1, BufferAssumption DEF BufferTypeOK, Msgs
<1>3. ASSUME NEW c \in Consumer, NEW m \in Msgs, pc[c][m] # "none"
      PROVE  groupFrom < m /\ m <= lastDelivered /\ m \in 1..Len(stream) /\ EventOf(m) \in Event
  <2>1. groupFrom < m /\ m <= lastDelivered
    BY <1>3 DEF DeliveryInv, TypeInv, TaskMsgInStream, GroupIsOpen
  <2>2. m \in 1..Len(stream)
    BY <1>2, <2>1
  <2>3. QED
    BY <1>1, <2>1, <2>2, EventOfType
<1>4. QED
  BY <1>1, <1>2, <1>3

(* Every step keeps the delivery invariant. *)
LEMMA NextDeliveryInv == DeliveryInv /\ [Next]_vars => DeliveryInv'
<1> SUFFICES ASSUME DeliveryInv, [Next]_vars PROVE DeliveryInv'
  OBVIOUS
<1>0. TypeInv'
  BY NextTypeInv DEF DeliveryInv
<1>a. BufferTypeOK'
  BY <1>0 DEF TypeInv, TypeOK
<1> USE DeliveryFacts
<1>1. ASSUME NEW e \in Event, Publish(e) PROVE DeliveryInv'
  <2>1. /\ trimmed' \in Nat
        /\ trimmed <= trimmed'
        /\ trimmed' > 0 => MaxLen > 0 /\ trimmed' + MaxLen <= Len(stream')
    BY <1>1, BufferAssumption DEF Publish, PublishRaw, DeliveryInv, Accounted, BufferTypeOK
  <2>2. /\ UNCHANGED <<group, groupFrom, lastDelivered, pel, pc, phase, processed, done>>
        /\ \A m \in 1..Len(stream) : EventOf(m)' = EventOf(m)
    BY <1>1 DEF Publish, PublishRaw, storeVars, loopVars, EventOf, BufferTypeOK
  <2>3. GroupIsOpen' /\ MarkerIsTrue'
    BY <2>2 DEF DeliveryInv, GroupIsOpen, MarkerIsTrue, IsDone
  <2>4. AckIsJustified'
    BY <2>2 DEF DeliveryInv, AckIsJustified
  <2>5. Accounted'
    <3> SUFFICES ASSUME NEW m \in Msgs, groupFrom < m, m <= lastDelivered
                 PROVE  m \in pel \/ EventOf(m)' \in processed \/ m <= trimmed'
      BY <2>1, <2>2 DEF Accounted
    <3>1. m \in 1..Len(stream)
      OBVIOUS
    <3>2. QED
      BY <2>1, <2>2, <3>1 DEF DeliveryInv, Accounted
  <2>6. QED
    BY <1>0, <2>3, <2>4, <2>5 DEF DeliveryInv
<1>2. ASSUME NEW c \in Consumer, StartWorker(c) PROVE DeliveryInv'
  <2>1. /\ UNCHANGED <<stream, trimmed, pel, pc, processed, done>>
        /\ group'
        /\ group => UNCHANGED <<groupFrom, lastDelivered>>
        /\ ~group => groupFrom' = lastDelivered'
    BY <1>2 DEF StartWorker, EnsureGroup, storeVars
  <2>2. ~group => /\ lastDelivered = 0
                  /\ pel = {}
                  /\ \A d \in Consumer, m \in Msgs : pc[d][m] = "none"
    BY DEF DeliveryInv, GroupIsOpen, BufferTypeOK, Msgs
  <2>3. GroupIsOpen'
    BY <2>1, <2>2 DEF DeliveryInv, GroupIsOpen
  <2>4. MarkerIsTrue' /\ AckIsJustified'
    BY <2>1 DEF DeliveryInv, MarkerIsTrue, AckIsJustified, IsDone, EventOf
  <2>5. Accounted'
    <3>1. CASE group
      BY <2>1, <3>1 DEF DeliveryInv, Accounted, EventOf
    <3>2. CASE ~group
      BY <1>a, <2>1, <3>2 DEF DeliveryInv, Accounted, BufferTypeOK, Msgs
    <3>3. QED
      BY <3>1, <3>2
  <2>6. QED
    BY <1>0, <2>1, <2>3, <2>4, <2>5 DEF DeliveryInv
<1>3. ASSUME NEW c \in Consumer, ClaimStep(c) PROVE DeliveryInv'
  <2>1. /\ UNCHANGED <<stream, trimmed, group, groupFrom, lastDelivered, processed, done>>
        /\ phase' = [phase EXCEPT ![c] = "read"]
        /\ phase[c] = "head"
    BY <1>3 DEF ClaimStep, ClaimPending, bufferVars, storeVars
  <2>2. pel' \subseteq pel /\ \A m \in pel : m \in pel' \/ m <= trimmed
    BY <1>3 DEF ClaimStep, ClaimPending, bufferVars
  <2>3. Reclaimed \subseteq pel
    BY DEF Reclaimed, AutoClaimed, Scanned
  <2>4. \A d \in Consumer, m \in Msgs :
           pc'[d][m] # "none" => pc'[d][m] = pc[d][m] \/ (m \in pel /\ pc'[d][m] = "queued")
    <3>1. Enqueue(c, Reclaimed) \/ UNCHANGED pc
      BY <1>3 DEF ClaimStep
    <3>2. pc \in [Consumer -> [Msgs -> Steps]]
      BY DEF TypeOK
    <3>3. QED
      BY <2>3, <3>1, <3>2, EnqueueFacts
  <2>5. GroupIsOpen'
    BY <2>1, <2>2, <2>4 DEF DeliveryInv, GroupIsOpen, TypeOK
  <2>6. MarkerIsTrue' /\ Accounted'
    BY <2>1, <2>2 DEF DeliveryInv, MarkerIsTrue, Accounted, IsDone, EventOf
  <2>7. AckIsJustified'
    BY <2>1, <2>4 DEF DeliveryInv, AckIsJustified, EventOf
  <2>8. QED
    BY <1>0, <2>1, <2>5, <2>6, <2>7 DEF DeliveryInv

<1>4. ASSUME NEW c \in Consumer, SkipClaim(c) PROVE DeliveryInv'
  <2>1. /\ UNCHANGED <<stream, trimmed, group, groupFrom, lastDelivered, pel, pc, processed, done>>
        /\ phase' = [phase EXCEPT ![c] = "read"]
        /\ phase[c] = "head"
    BY <1>4 DEF SkipClaim, bufferVars, storeVars
  <2>2. GroupIsOpen'
    BY <2>1 DEF DeliveryInv, GroupIsOpen, TypeOK
  <2>3. QED
    BY <1>0, <2>1, <2>2 DEF DeliveryInv, MarkerIsTrue, AckIsJustified, Accounted, IsDone, EventOf
<1>5. ASSUME NEW c \in Consumer, ReadStep(c) PROVE DeliveryInv'
  <2>1. /\ UNCHANGED <<stream, trimmed, group, groupFrom, processed, done>>
        /\ phase' = [phase EXCEPT ![c] = "head"]
        /\ phase[c] = "read"
        /\ lastDelivered \in Nat
    BY <1>5 DEF ReadStep, ReadGroup, bufferVars, storeVars
  <2>2. /\ ReadFrom \in Nat /\ lastDelivered <= ReadFrom
        /\ lastDelivered < ReadFrom => ReadFrom = trimmed
        /\ NextBatch = (ReadFrom + 1)..ReadTo
        /\ ReadTo \in Nat
    BY NextBatchFacts DEF ReadFrom, NextBatch
  <2>3. CASE ReadGroup
    <3>1. /\ pel' = pel \cup NextBatch
          /\ lastDelivered' = IF NextBatch = {} THEN lastDelivered ELSE ReadTo
      BY <2>3 DEF ReadGroup
    <3>2. \A m \in NextBatch : groupFrom < m
      BY <2>2
    <3>3. \A d \in Consumer, m \in Msgs :
             pc'[d][m] # "none" => pc'[d][m] = pc[d][m] \/ (m \in NextBatch /\ pc'[d][m] = "queued")
      <4>1. Enqueue(c, NextBatch) \/ UNCHANGED pc
        BY <1>5 DEF ReadStep
      <4>2. CASE Enqueue(c, NextBatch)
        <5>1. pc \in [Consumer -> [Msgs -> Steps]]
          BY DEF TypeOK
        <5>2. QED
          BY <4>2, <5>1, EnqueueFacts
      <4>3. CASE UNCHANGED pc
        BY <4>3
      <4>4. QED
        BY <4>1, <4>2, <4>3
    <3>4. GroupIsOpen'
      BY <2>1, <3>1, <3>2, <3>3 DEF DeliveryInv, GroupIsOpen, TypeOK
    <3>5. MarkerIsTrue' /\ AckIsJustified'
      BY <2>1, <3>3 DEF DeliveryInv, MarkerIsTrue, AckIsJustified, IsDone, EventOf
    <3>6. Accounted'
      <4> SUFFICES ASSUME NEW m \in Msgs, groupFrom < m, m <= lastDelivered'
                   PROVE  m \in pel' \/ EventOf(m) \in processed \/ m <= trimmed
        BY <2>1 DEF DeliveryInv, Accounted, EventOf
      <4>1. CASE m <= lastDelivered
        BY <3>1, <4>1 DEF DeliveryInv, Accounted
      <4>2. CASE lastDelivered < m
        BY <2>2, <3>1, <4>2
      <4>3. QED
        BY <4>1, <4>2
    <3>7. QED
      BY <1>0, <2>1, <3>4, <3>5, <3>6 DEF DeliveryInv
  <2>4. CASE UNCHANGED <<bufferVars, pc>>
    <3>1. UNCHANGED <<lastDelivered, pel, pc>>
      BY <2>4 DEF bufferVars
    <3>2. GroupIsOpen'
      BY <2>1, <3>1 DEF DeliveryInv, GroupIsOpen, TypeOK
    <3>3. QED
      BY <1>0, <2>1, <3>1, <3>2 DEF DeliveryInv, MarkerIsTrue, AckIsJustified, Accounted, IsDone,
                                    EventOf
  <2>5. QED
    BY <1>5, <2>3, <2>4 DEF ReadStep
<1>6. ASSUME NEW c \in Consumer, NEW m \in Msgs, TaskStep(c, m) PROVE DeliveryInv'
  <2>1. /\ UNCHANGED <<stream, trimmed, group, groupFrom, lastDelivered, phase>>
        /\ pc[c][m] # "none"
        /\ \E step \in Steps : pc' = [pc EXCEPT ![c][m] = step]
    BY <1>6 DEF TaskStep, StartTask, CheckDone, TryClaim, StoreRaw, RunPipeline, Release, Mark,
                AckMsg, Goto, Steps, bufferVars, loopVars, Ack
  <2>2. EventOf(m) \in Event /\ EventOf(m)' = EventOf(m)
    BY <2>1 DEF EventOf
  <2>3. /\ processed \subseteq processed'
        /\ pel' = pel \/ (pc[c][m] = "ack" /\ pel' = pel \ {m})
    BY <1>6 DEF TaskStep, StartTask, CheckDone, TryClaim, StoreRaw, RunPipeline, Release, Mark,
                AckMsg, bufferVars, Ack
  <2>4. GroupIsOpen'
    BY <2>1, <2>3 DEF DeliveryInv, GroupIsOpen, TypeOK
  <2>5. MarkerIsTrue'
    <3>1. \/ done' = done
          \/ pc[c][m] = "markdone" /\ done' = [done EXCEPT ![EventOf(m)] = DoneTTL]
      BY <1>6 DEF TaskStep, StartTask, CheckDone, TryClaim, StoreRaw, RunPipeline, Release, Mark,
                  AckMsg, storeVars, TryClaimProcessing, ReleaseProcessing, MarkDone
    <3>2. pc[c][m] = "markdone" => EventOf(m) \in processed
      BY DEF DeliveryInv, AckIsJustified
    <3>3. QED
      BY <2>2, <2>3, <3>1, <3>2 DEF DeliveryInv, MarkerIsTrue, IsDone, StoreTypeOK
  <2>6. AckIsJustified'
    <3>1. pc'[c][m] \in {"markdone", "ack"} => EventOf(m) \in processed'
      <4>1. CASE CheckDone(c, m)
        BY <2>2, <2>3, <4>1 DEF CheckDone, Goto, DeliveryInv, MarkerIsTrue, TypeOK
      <4>2. CASE RunPipeline(c, m)
        BY <4>2 DEF RunPipeline, Goto, TypeOK
      <4>3. CASE Mark(c, m)
        BY <2>3, <4>3 DEF Mark, DeliveryInv, AckIsJustified
      <4>4. CASE StartTask(c, m) \/ TryClaim(c, m) \/ StoreRaw(c, m) \/ Release(c, m) \/ AckMsg(c, m)
        BY <4>4 DEF StartTask, TryClaim, StoreRaw, Release, AckMsg, Goto, TypeOK
      <4>5. QED
        BY <1>6, <4>1, <4>2, <4>3, <4>4 DEF TaskStep
    <3>2. ASSUME NEW d \in Consumer, NEW n \in Msgs, d # c \/ n # m
          PROVE  pc'[d][n] = pc[d][n]
      BY <2>1, <3>2 DEF TypeOK
    <3>3. QED
      BY <2>1, <2>2, <2>3, <3>1, <3>2 DEF DeliveryInv, AckIsJustified, EventOf
  <2>7. Accounted'
    BY <2>1, <2>3 DEF DeliveryInv, Accounted, AckIsJustified, EventOf
  <2>8. QED
    BY <1>0, <2>1, <2>4, <2>5, <2>6, <2>7 DEF DeliveryInv
<1>7. ASSUME NEW c \in Consumer, Cancel(c) \/ Exit(c) \/ Crash(c) PROVE DeliveryInv'
  <2>1. /\ UNCHANGED <<stream, trimmed, group, groupFrom, lastDelivered, pel, processed, done>>
        /\ phase[c] # "down"
        /\ \A d \in Consumer : phase'[d] # "down" => phase[d] # "down"
    BY <1>7 DEF Cancel, Exit, Crash, bufferVars, storeVars, TypeOK
  <2>2. \A d \in Consumer, m \in Msgs :
           /\ pc'[d][m] # "none" => pc[d][m] # "none"
           /\ pc'[d][m] \in {"markdone", "ack"} => pc'[d][m] = pc[d][m]
    <3>0. pc \in [Consumer -> [Msgs -> Steps]]
      BY DEF TypeOK
    <3>1. CASE Cancel(c)
      BY <3>0, <3>1 DEF Cancel
    <3>2. CASE Exit(c)
      BY <3>2 DEF Exit
    <3>3. CASE Crash(c)
      BY <3>0, <3>3 DEF Crash
    <3>4. QED
      BY <1>7, <3>1, <3>2, <3>3
  <2>3. GroupIsOpen'
    BY <2>1, <2>2 DEF DeliveryInv, GroupIsOpen
  <2>4. AckIsJustified'
    BY <2>1, <2>2 DEF DeliveryInv, AckIsJustified, EventOf
  <2>5. QED
    BY <1>0, <2>1, <2>3, <2>4 DEF DeliveryInv, MarkerIsTrue, Accounted, IsDone, EventOf
<1>8. CASE Tick
  <2>1. UNCHANGED <<stream, trimmed, group, groupFrom, lastDelivered, pel, pc, phase, processed>>
    BY <1>8 DEF Tick, BufferTick
  <2>2. \A e \in Event : done'[e] > 0 => done[e] > 0
    BY <1>8, StoreAssumption DEF Tick, StoreTick, Expired, StoreTypeOK
  <2>3. QED
    BY <1>0, <2>1, <2>2 DEF DeliveryInv, GroupIsOpen, MarkerIsTrue, AckIsJustified, Accounted,
                            IsDone, EventOf
<1>9. CASE UNCHANGED vars
  BY <1>0, <1>9 DEF vars, bufferVars, storeVars, DeliveryInv, GroupIsOpen, MarkerIsTrue,
                    AckIsJustified, Accounted, IsDone, EventOf
<1>10. QED
  BY <1>1, <1>2, <1>3, <1>4, <1>5, <1>6, <1>7, <1>8, <1>9 DEF Next, WorkerStep, LoopStep

(* No delivered message is lost but to MAXLEN: it is pending until its     *)
(* event has been through the pipeline, under every combination of         *)
(* crashes, cancellations, Redis errors and lost replies, and however      *)
(* slowly workers run; with MaxLen = 0 there is no exception.              *)
THEOREM NothingDeliveredIsLost == Spec => []Accounted
<1>1. DeliveryInv => Accounted
  BY DEF DeliveryInv
<1>2. QED
  BY InitDeliveryInv, NextDeliveryInv, <1>1, PTL DEF Spec
-----------------------------------------------------------------------------
(* The lock as a lease.  It has no owner and is not renewed, and a task    *)
(* looks at the completion marker before it tries the lock, so exclusion   *)
(* rests on timing: the time a task may take from IsDone to its claim and  *)
(* the time it may take from there to MarkDone, together, must be shorter  *)
(* than the lock's TTL.  Redis must answer, and nobody may be cancelled.   *)
LeaseAssumption ==
    /\ Pace \in {"timely", "prompt"}
    /\ Backend = "redis"
    /\ "redis" \notin Faults
    /\ "cancel" \notin Faults
    /\ MaxGap + MaxRun < LockTTL

(* A task between claim and MarkDone has a lease that started with it. *)
HolderHasLease ==
    \A c \in Consumer, m \in Msgs :
        pc[c][m] \in Holding => /\ age[c][m] <= MaxRun
                                /\ lock[EventOf(m)] + age[c][m] = LockTTL

(* When an event was marked after a task looked, the lock outlives the     *)
(* task's way to its claim.                                                *)
StaleCheckIsCovered ==
    \A c \in Consumer, m \in Msgs :
        pc[c][m] = "claim" =>
            /\ age[c][m] <= MaxGap
            /\ IsDone(EventOf(m)) => lock[EventOf(m)] + MaxRun + age[c][m] >= LockTTL

(* Only good events are marked, only bad ones released. *)
OutcomeIsPipelines ==
    /\ \A e \in Event : IsDone(e) => e \notin Poison
    /\ \A c \in Consumer, m \in Msgs :
          /\ pc[c][m] = "markdone" => EventOf(m) \notin Poison
          /\ pc[c][m] = "release" => EventOf(m) \in Poison

LeaseInv ==
    /\ TypeInv
    /\ \A c \in Consumer : phase[c] # "stop"
    /\ HolderHasLease
    /\ StaleCheckIsCovered
    /\ OutcomeIsPipelines
    /\ ExclusivePipeline
    /\ NotReprocessedWithinWindow

(* Nobody holds anything initially. *)
LEMMA InitLeaseInv == Init => LeaseInv
<1> SUFFICES ASSUME Init PROVE LeaseInv
  OBVIOUS
<1>1. TypeInv
  BY InitTypeInv
<1>2. \A c \in Consumer, m \in Msgs : pc[c][m] = "none"
  BY DEF Init
<1>3. OutcomeIsPipelines
  BY <1>2 DEF Init, StoreInit, OutcomeIsPipelines, IsDone
<1>4. QED
  BY <1>1, <1>2, <1>3 DEF Init, LeaseInv, HolderHasLease, StaleCheckIsCovered, ExclusivePipeline,
                          NotReprocessedWithinWindow, Holding

(* Facts about one state that the steps below share. *)
LEMMA LeaseFacts ==
    ASSUME LeaseInv
    PROVE  /\ TypeOK /\ BufferTypeOK /\ StoreTypeOK
           /\ \A c \in Consumer, m \in Msgs :
                 pc[c][m] # "none" => m \in 1..Len(stream) /\ EventOf(m) \in Event
<1>1. TypeOK /\ BufferTypeOK /\ StoreTypeOK
  BY DEF LeaseInv, TypeInv, TypeOK
<1>2. ASSUME NEW c \in Consumer, NEW m \in Msgs, pc[c][m] # "none"
      PROVE  m \in 1..Len(stream) /\ EventOf(m) \in Event
  <2>1. m \in 1..Len(stream)
    BY <1>1, <1>2 DEF LeaseInv, TypeInv, TaskMsgInStream, BufferTypeOK, Msgs
  <2>2. QED
    BY <1>1, <2>1, EventOfType
<1>3. QED
  BY <1>1, <1>2

(* A step that starts no run, ends none, and leaves the keys alone keeps   *)
(* the lease invariant.                                                    *)
LEMMA LeaseFrame ==
    ASSUME LeaseInv, TypeInv',
           lock' = lock, done' = done,
           \A c \in Consumer : phase'[c] # "stop",
           \A c \in Consumer, m \in Msgs :
              pc'[c][m] \in Holding \cup {"claim"} =>
                 /\ pc'[c][m] = pc[c][m]
                 /\ age'[c][m] = age[c][m]
                 /\ EventOf(m)' = EventOf(m)
    PROVE  LeaseInv'
<1>1. HolderHasLease' /\ StaleCheckIsCovered'
  BY DEF LeaseInv, HolderHasLease, StaleCheckIsCovered, IsDone
<1>2. OutcomeIsPipelines'
  BY DEF LeaseInv, OutcomeIsPipelines, IsDone, Holding
<1>3. ExclusivePipeline' /\ NotReprocessedWithinWindow'
  BY DEF LeaseInv, ExclusivePipeline, NotReprocessedWithinWindow, IsDone
<1>4. QED
  BY <1>1, <1>2, <1>3 DEF LeaseInv
(* Every step keeps the lease invariant, given the timing. *)
LEMMA NextLeaseInv ==
    ASSUME LeaseAssumption
    PROVE  LeaseInv /\ [Next]_vars => LeaseInv'
<1> SUFFICES ASSUME LeaseInv, [Next]_vars PROVE LeaseInv'
  OBVIOUS
<1>0. TypeInv'
  BY NextTypeInv DEF LeaseInv
<1>a. StoreTypeOK'
  BY <1>0 DEF TypeInv, TypeOK
<1> USE LeaseFacts
<1>1. ASSUME NEW e \in Event, Publish(e) PROVE LeaseInv'
  <2>1. /\ UNCHANGED <<lock, done, pc, age, phase>>
        /\ \A m \in 1..Len(stream) : EventOf(m)' = EventOf(m)
    BY <1>1 DEF Publish, PublishRaw, storeVars, loopVars, EventOf, BufferTypeOK
  <2>2. \A c \in Consumer, m \in Msgs : pc[c][m] \in Holding \cup {"claim"} => EventOf(m)' = EventOf(m)
    BY <2>1 DEF Holding
  <2>3. QED
    BY <1>0, <2>1, <2>2, LeaseFrame DEF LeaseInv
<1>2. ASSUME NEW c \in Consumer, StartWorker(c) PROVE LeaseInv'
  <2>1. /\ UNCHANGED <<stream, lock, done, pc, age>>
        /\ \A d \in Consumer : phase'[d] # "stop"
    BY <1>2 DEF StartWorker, EnsureGroup, storeVars, LeaseInv, TypeOK
  <2>2. QED
    BY <1>0, <2>1, LeaseFrame DEF EventOf
<1>3. ASSUME NEW c \in Consumer, LoopStep(c) PROVE LeaseInv'
  <2>1. /\ UNCHANGED <<stream, lock, done, age>>
        /\ \A d \in Consumer : phase'[d] # "stop"
    BY <1>3 DEF LoopStep, ClaimStep, SkipClaim, ReadStep, ClaimPending, ReadGroup, bufferVars,
                storeVars, LeaseInv, TypeOK
  <2>2. \A d \in Consumer, m \in Msgs :
           pc'[d][m] = pc[d][m] \/ pc'[d][m] \in {"queued", "none"}
    <3>1. pc' = pc \/ \E batch : Enqueue(c, batch)
      BY <1>3 DEF LoopStep, ClaimStep, SkipClaim, ReadStep
    <3>2. pc \in [Consumer -> [Msgs -> Steps]]
      BY DEF TypeOK
    <3>3. QED
      BY <3>1, <3>2, EnqueueFacts
  <2>3. QED
    BY <1>0, <2>1, <2>2, LeaseFrame DEF EventOf, Holding
<1>4. ASSUME NEW c \in Consumer, NEW m \in Msgs, TaskStep(c, m) PROVE LeaseInv'
  <2>1. /\ UNCHANGED <<stream, phase>>
        /\ pc[c][m] # "none"
        /\ \E step \in Steps : Goto(c, m, step)
    BY <1>4 DEF TaskStep, StartTask, CheckDone, TryClaim, StoreRaw, RunPipeline, Release, Mark,
                AckMsg, Steps, bufferVars, loopVars, Ack
  <2>2. EventOf(m) \in Event /\ \A n \in Msgs : EventOf(n)' = EventOf(n)
    BY <2>1 DEF EventOf
  <2>3. \A d \in Consumer, n \in Msgs :
           d # c \/ n # m => pc'[d][n] = pc[d][n] /\ age'[d][n] = age[d][n]
    BY <2>1 DEF Goto, TypeOK
  <2>4. Answered(c) /\ ~NotSent(c) /\ ~ReplyLost(c)
    BY LeaseAssumption DEF LeaseAssumption, LeaseInv, Answered, NotSent, ReplyLost
  <2>5. \A d \in Consumer : phase'[d] # "stop"
    BY <2>1 DEF LeaseInv
  <2>6. CASE StartTask(c, m) \/ AckMsg(c, m)
    <3>1. /\ UNCHANGED <<lock, done>>
          /\ pc'[c][m] \in {"isdone", "none"}
      BY <2>6 DEF StartTask, AckMsg, Goto, storeVars, TypeOK
    <3>2. QED
      BY <1>0, <2>2, <2>3, <2>5, <3>1, LeaseFrame DEF Holding
  <2>7. CASE CheckDone(c, m)
    <3>1. /\ UNCHANGED <<lock, done>>
          /\ \/ pc'[c][m] = "ack"
             \/ pc'[c][m] = "claim" /\ age'[c][m] = 0 /\ ~IsDone(EventOf(m))
      BY <2>4, <2>7 DEF CheckDone, Goto, storeVars, TypeOK, Holding
    <3>2. HolderHasLease' /\ OutcomeIsPipelines' /\ ExclusivePipeline' /\ NotReprocessedWithinWindow'
      BY <2>2, <2>3, <3>1 DEF LeaseInv, HolderHasLease, OutcomeIsPipelines, ExclusivePipeline,
                              NotReprocessedWithinWindow, IsDone, Holding
    <3>3. StaleCheckIsCovered'
      BY <2>2, <2>3, <3>1, WorkerAssumption DEF LeaseInv, StaleCheckIsCovered, IsDone
    <3>4. QED
      BY <1>0, <2>5, <3>2, <3>3 DEF LeaseInv
  <2>8. CASE TryClaim(c, m)
    <3>1. CASE Locked(EventOf(m)) /\ Goto(c, m, "none") /\ UNCHANGED storeVars
      <4>1. UNCHANGED <<lock, done>> /\ pc'[c][m] = "none"
        BY <3>1 DEF Goto, storeVars, TypeOK
      <4>2. QED
        BY <1>0, <2>2, <2>3, <2>5, <4>1, LeaseFrame DEF Holding
    <3>2. CASE TryClaimProcessing(EventOf(m)) /\ Goto(c, m, "store")
      <4>1. /\ lock[EventOf(m)] = 0
            /\ lock'[EventOf(m)] = LockTTL
            /\ \A e \in Event : e # EventOf(m) => lock'[e] = lock[e]
            /\ done' = done
            /\ pc[c][m] = "claim"
            /\ pc'[c][m] = "store" /\ age'[c][m] = 0
        BY <2>2, <2>8, <3>2 DEF TryClaim, TryClaimProcessing, Locked, Goto, TypeOK, StoreTypeOK,
                                Holding
      <4>2. ASSUME NEW d \in Consumer, NEW n \in Msgs, pc[d][n] \in Holding
            PROVE  EventOf(n) # EventOf(m)
        <5>1. age[d][n] \in Nat /\ age[d][n] <= MaxRun /\ lock[EventOf(n)] + age[d][n] = LockTTL
          BY <4>2 DEF LeaseInv, HolderHasLease, TypeOK
        <5>2. QED
          BY <4>1, <5>1, LeaseAssumption, StoreAssumption, WorkerAssumption DEF LeaseAssumption
      <4>3. ~IsDone(EventOf(m))
        <5>1. /\ age[c][m] \in Nat /\ age[c][m] <= MaxGap
              /\ IsDone(EventOf(m)) => lock[EventOf(m)] + MaxRun + age[c][m] >= LockTTL
          BY <4>1 DEF LeaseInv, StaleCheckIsCovered, TypeOK
        <5>2. QED
          BY <4>1, <5>1, LeaseAssumption, StoreAssumption, WorkerAssumption DEF LeaseAssumption
      <4>4. HolderHasLease'
        <5> SUFFICES ASSUME NEW d \in Consumer, NEW n \in Msgs, pc'[d][n] \in Holding
                     PROVE  age'[d][n] <= MaxRun /\ lock'[EventOf(n)] + age'[d][n] = LockTTL
          BY <2>2 DEF HolderHasLease
        <5>1. CASE d = c /\ n = m
          BY <4>1, <5>1, StoreAssumption, WorkerAssumption
        <5>2. CASE d # c \/ n # m
          <6>1. /\ pc[d][n] \in Holding /\ age'[d][n] = age[d][n]
                /\ EventOf(n) # EventOf(m) /\ EventOf(n) \in Event
            BY <2>3, <4>2, <5>2 DEF Holding
          <6>2. QED
            BY <4>1, <6>1 DEF LeaseInv, HolderHasLease
        <5>3. QED
          BY <5>1, <5>2
      <4>5. StaleCheckIsCovered'
        <5> SUFFICES ASSUME NEW d \in Consumer, NEW n \in Msgs, pc'[d][n] = "claim"
                     PROVE  /\ age'[d][n] <= MaxGap
                            /\ IsDone(EventOf(n)) => lock'[EventOf(n)] + MaxRun + age'[d][n] >= LockTTL
          BY <2>2, <4>1 DEF StaleCheckIsCovered, IsDone
        <5>1. pc[d][n] = "claim" /\ age'[d][n] = age[d][n] /\ EventOf(n) \in Event
          BY <2>3, <4>1
        <5>2. QED
          BY <4>1, <4>3, <5>1 DEF LeaseInv, StaleCheckIsCovered
      <4>6. OutcomeIsPipelines'
        BY <2>2, <2>3, <4>1 DEF LeaseInv, OutcomeIsPipelines, IsDone
      <4>7. ExclusivePipeline'
        BY <2>2, <2>3, <4>2 DEF LeaseInv, ExclusivePipeline
      <4>8. NotReprocessedWithinWindow'
        BY <2>2, <2>3, <4>1, <4>3 DEF LeaseInv, NotReprocessedWithinWindow, IsDone
      <4>9. QED
        BY <1>0, <2>5, <4>4, <4>5, <4>6, <4>7, <4>8 DEF LeaseInv
    <3>3. QED
      BY <2>4, <2>8, <3>1, <3>2 DEF TryClaim
  <2>9. CASE StoreRaw(c, m) \/ RunPipeline(c, m)
    <3>1. /\ UNCHANGED <<lock, done>>
          /\ pc[c][m] \in Holding /\ pc'[c][m] \in Holding
          /\ age'[c][m] = age[c][m]
          /\ pc'[c][m] = "markdone" => EventOf(m) \notin Poison
          /\ pc'[c][m] = "release" => EventOf(m) \in Poison
      BY <2>9 DEF StoreRaw, RunPipeline, Goto, storeVars, TypeOK, Holding
    <3>2. /\ \A d \in Consumer, n \in Msgs :
                /\ pc'[d][n] \in Holding <=> pc[d][n] \in Holding
                /\ pc'[d][n] = "claim" <=> pc[d][n] = "claim"
                /\ age'[d][n] = age[d][n]
      BY <2>3, <3>1 DEF Holding
    <3>3. HolderHasLease' /\ StaleCheckIsCovered'
      BY <2>2, <3>1, <3>2 DEF LeaseInv, HolderHasLease, StaleCheckIsCovered, IsDone
    <3>4. ExclusivePipeline' /\ NotReprocessedWithinWindow'
      BY <2>2, <3>1, <3>2 DEF LeaseInv, ExclusivePipeline, NotReprocessedWithinWindow, IsDone
    <3>5. OutcomeIsPipelines'
      BY <2>2, <2>3, <3>1 DEF LeaseInv, OutcomeIsPipelines, IsDone
    <3>6. QED
      BY <1>0, <2>5, <3>3, <3>4, <3>5 DEF LeaseInv
  <2>10. CASE Release(c, m) \/ Mark(c, m)
    <3>1. /\ pc[c][m] \in Holding
          /\ pc'[c][m] \in {"none", "ack"}
          /\ \A e \in Event : e # EventOf(m) => lock'[e] = lock[e] /\ done'[e] = done[e]
          /\ \/ Mark(c, m) /\ lock' = lock
             \/ Release(c, m) /\ done' = done
      BY <2>2, <2>4, <2>10, LeaseAssumption
         DEF Release, Mark, Goto, ReleaseProcessing, MarkDone, TypeOK, StoreTypeOK, Holding,
             LeaseAssumption
    <3>2. ASSUME NEW d \in Consumer, NEW n \in Msgs, pc'[d][n] \in Holding
          PROVE  /\ pc[d][n] \in Holding
                 /\ pc'[d][n] = pc[d][n] /\ age'[d][n] = age[d][n]
                 /\ EventOf(n) # EventOf(m) /\ EventOf(n) \in Event
      <4>1. d # c \/ n # m
        BY <3>1, <3>2 DEF Holding
      <4>2. pc[d][n] \in Holding /\ pc'[d][n] = pc[d][n] /\ age'[d][n] = age[d][n]
        BY <2>3, <3>2, <4>1
      <4>3. QED
        BY <3>1, <4>1, <4>2 DEF LeaseInv, ExclusivePipeline, Holding
    <3>3. HolderHasLease' /\ NotReprocessedWithinWindow' /\ ExclusivePipeline'
      BY <2>2, <3>1, <3>2 DEF LeaseInv, HolderHasLease, NotReprocessedWithinWindow,
                              ExclusivePipeline, IsDone
    <3>4. OutcomeIsPipelines'
      <4>1. Mark(c, m) => EventOf(m) \notin Poison
        BY DEF Mark, LeaseInv, OutcomeIsPipelines
      <4>2. QED
        BY <2>2, <2>3, <3>1, <3>2, <4>1 DEF LeaseInv, OutcomeIsPipelines, IsDone, Holding
    <3>5. StaleCheckIsCovered'
      <4> SUFFICES ASSUME NEW d \in Consumer, NEW n \in Msgs, pc'[d][n] = "claim"
                   PROVE  /\ age'[d][n] <= MaxGap
                          /\ done'[EventOf(n)] > 0 =>
                                lock'[EventOf(n)] + MaxRun + age'[d][n] >= LockTTL
        BY <2>2 DEF StaleCheckIsCovered, IsDone
      <4>1. /\ pc[d][n] = "claim" /\ age'[d][n] = age[d][n] /\ age[d][n] \in Nat
            /\ EventOf(n) \in Event /\ age[d][n] <= MaxGap
        BY <2>3, <3>1 DEF LeaseInv, StaleCheckIsCovered, TypeOK
      <4>2. CASE EventOf(n) # EventOf(m)
        BY <3>1, <4>1, <4>2 DEF LeaseInv, StaleCheckIsCovered, IsDone
      <4>3. CASE EventOf(n) = EventOf(m) /\ Release(c, m)
        <5>1. ~(done[EventOf(m)] > 0)
          BY <2>2, <4>3 DEF Release, LeaseInv, OutcomeIsPipelines, IsDone
        <5>2. done' = done
          BY <2>4, <4>3 DEF Release, ReleaseProcessing
        <5>3. QED
          BY <4>1, <4>3, <5>1, <5>2
      <4>4. CASE EventOf(n) = EventOf(m) /\ Mark(c, m)
        <5>1. lock' = lock
          BY <2>4, <4>4, LeaseAssumption DEF Mark, MarkDone, LeaseAssumption
        <5>2. /\ age[c][m] \in Nat /\ age[c][m] <= MaxRun
              /\ lock[EventOf(m)] + age[c][m] = LockTTL
              /\ lock[EventOf(m)] \in Nat
          BY <2>2, <3>1 DEF LeaseInv, HolderHasLease, TypeOK, StoreTypeOK
        <5>3. QED
          BY <4>1, <4>4, <5>1, <5>2, WorkerAssumption
      <4>5. QED
        BY <2>10, <4>2, <4>3, <4>4
    <3>6. QED
      BY <1>0, <2>5, <3>3, <3>4, <3>5 DEF LeaseInv
  <2>11. QED
    BY <1>4, <2>6, <2>7, <2>8, <2>9, <2>10 DEF TaskStep
<1>5. ASSUME NEW c \in Consumer, Cancel(c) \/ Exit(c) PROVE LeaseInv'
  BY <1>5, LeaseAssumption DEF Cancel, Exit, LeaseInv, LeaseAssumption
<1>6. ASSUME NEW c \in Consumer, Crash(c) PROVE LeaseInv'
  <2>1. /\ UNCHANGED <<stream, lock, done>>
        /\ \A d \in Consumer : phase'[d] # "stop"
        /\ \A d \in Consumer, m \in Msgs :
              \/ pc'[d][m] = "none"
              \/ pc'[d][m] = pc[d][m] /\ age'[d][m] = age[d][m]
    BY <1>6 DEF Crash, bufferVars, storeVars, LeaseInv, TypeOK
  <2>2. QED
    BY <1>0, <2>1, LeaseFrame DEF EventOf, Holding
<1>7. CASE Tick
  <2>1. /\ UNCHANGED <<stream, pc, phase>>
        /\ \A e \in Event : lock'[e] = Expired(lock[e]) /\ done'[e] = Expired(done[e])
        /\ Timely
    BY <1>7, LeaseAssumption DEF Tick, BufferTick, StoreTick, LeaseAssumption
  <2>2. \A c \in Consumer, m \in Msgs :
           pc[c][m] \in Holding \cup {"claim"} => age'[c][m] = age[c][m] + 1
    BY <1>7, LeaseAssumption DEF Tick, LeaseAssumption, TypeOK
  <2>3. \A e \in Event : /\ lock[e] \in Nat /\ done[e] \in Nat
                         /\ lock'[e] = IF lock[e] > 0 THEN lock[e] - 1 ELSE 0
                         /\ done'[e] > 0 => done[e] > 0
    BY <2>1, LeaseAssumption DEF Expired, LeaseAssumption, StoreTypeOK
  <2>4. \A m \in Msgs : EventOf(m)' = EventOf(m)
    BY <2>1 DEF EventOf
  <2>5. HolderHasLease'
    <3> SUFFICES ASSUME NEW c \in Consumer, NEW m \in Msgs, pc[c][m] \in Holding
                 PROVE  age'[c][m] <= MaxRun /\ lock'[EventOf(m)] + age'[c][m] = LockTTL
      BY <2>1, <2>4 DEF HolderHasLease
    <3>1. /\ age[c][m] \in Nat /\ age[c][m] < MaxRun /\ age'[c][m] = age[c][m] + 1
          /\ EventOf(m) \in Event /\ lock[EventOf(m)] + age[c][m] = LockTTL
      BY <2>1, <2>2 DEF Timely, LeaseInv, HolderHasLease, TypeOK, Holding
    <3>2. /\ lock[EventOf(m)] \in Nat
          /\ lock'[EventOf(m)] = IF lock[EventOf(m)] > 0 THEN lock[EventOf(m)] - 1 ELSE 0
      BY <2>3, <3>1
    <3>3. MaxRun \in Nat /\ LockTTL \in Nat /\ MaxRun < LockTTL
      BY LeaseAssumption, StoreAssumption, WorkerAssumption DEF LeaseAssumption
    <3>4. QED
      BY <3>1, <3>2, <3>3
  <2>6. StaleCheckIsCovered'
    <3> SUFFICES ASSUME NEW c \in Consumer, NEW m \in Msgs, pc[c][m] = "claim"
                 PROVE  /\ age'[c][m] <= MaxGap
                        /\ done'[EventOf(m)] > 0 => lock'[EventOf(m)] + MaxRun + age'[c][m] >= LockTTL
      BY <2>1, <2>4 DEF StaleCheckIsCovered, IsDone
    <3>1. /\ age[c][m] \in Nat /\ age[c][m] < MaxGap /\ age'[c][m] = age[c][m] + 1
          /\ EventOf(m) \in Event
          /\ done[EventOf(m)] > 0 => lock[EventOf(m)] + MaxRun + age[c][m] >= LockTTL
      BY <2>1, <2>2 DEF Timely, LeaseInv, StaleCheckIsCovered, TypeOK, IsDone
    <3>2. age'[c][m] <= MaxGap
      BY <3>1, WorkerAssumption
    <3>3. ASSUME done'[EventOf(m)] > 0
          PROVE  lock'[EventOf(m)] + MaxRun + age'[c][m] >= LockTTL
      <4>1. lock[EventOf(m)] + MaxRun + age[c][m] >= LockTTL
        BY <2>3, <3>1, <3>3
      <4>2. /\ lock[EventOf(m)] \in Nat
            /\ lock'[EventOf(m)] \in Nat
            /\ lock'[EventOf(m)] + 1 >= lock[EventOf(m)]
        BY <2>3, <3>1
      <4>3. age[c][m] \in Nat /\ age'[c][m] = age[c][m] + 1 /\ MaxRun \in Nat /\ LockTTL \in Nat
        BY <3>1, StoreAssumption, WorkerAssumption
      <4>4. \A a, b, g, r, t \in Nat : a + r + g >= t /\ b + 1 >= a => b + r + (g + 1) >= t
        OBVIOUS
      <4>5. QED
        BY <4>1, <4>2, <4>3, <4>4, Zenon
    <3>4. QED
      BY <3>2, <3>3
  <2>7. OutcomeIsPipelines'
    BY <2>1, <2>3, <2>4 DEF LeaseInv, OutcomeIsPipelines, IsDone
  <2>8. ExclusivePipeline' /\ NotReprocessedWithinWindow'
    BY <2>1, <2>3, <2>4 DEF LeaseInv, ExclusivePipeline, NotReprocessedWithinWindow, IsDone, Holding
  <2>9. QED
    BY <1>0, <2>1, <2>5, <2>6, <2>7, <2>8 DEF LeaseInv
<1>8. CASE UNCHANGED vars
  <2>1. UNCHANGED <<stream, lock, done, pc, age, phase>>
    BY <1>8 DEF vars, bufferVars, storeVars
  <2>2. QED
    BY <1>0, <2>1, LeaseFrame DEF EventOf, LeaseInv
<1>9. QED
  BY <1>1, <1>2, <1>3, <1>4, <1>5, <1>6, <1>7, <1>8 DEF Next, WorkerStep

(* When tasks are faster than the lock's TTL and Redis answers, at most    *)
(* one task at a time works on an event, across workers, redeliveries,     *)
(* duplicated entries and crashes.                                         *)
THEOREM LockExcludes ==
    ASSUME LeaseAssumption
    PROVE  Spec => []ExclusivePipeline
<1>1. LeaseInv => ExclusivePipeline
  BY DEF LeaseInv
<1>2. QED
  BY InitLeaseInv, NextLeaseInv, <1>1, PTL DEF Spec

(* Under the same conditions no task works on an event whose completion    *)
(* marker is alive, although tasks check the marker before they claim.     *)
THEOREM MarkerExcludes ==
    ASSUME LeaseAssumption
    PROVE  Spec => []NotReprocessedWithinWindow
<1>1. LeaseInv => NotReprocessedWithinWindow
  BY DEF LeaseInv
<1>2. QED
  BY InitLeaseInv, NextLeaseInv, <1>1, PTL DEF Spec

(* Under the same conditions a task's lock is there until the task is done *)
(* with it: no release, expiry or crash of others takes it away.           *)
THEOREM LockIsKept ==
    ASSUME LeaseAssumption
    PROVE  Spec => []LockLasts
<1>1. LeaseInv => LockLasts
  <2> SUFFICES ASSUME LeaseInv, NEW c \in Consumer, NEW m \in Msgs, pc[c][m] \in Holding
               PROVE  Locked(EventOf(m))
    BY DEF LockLasts
  <2>1. EventOf(m) \in Event
    BY LeaseFacts DEF Holding
  <2>2. lock[EventOf(m)] \in Nat /\ age[c][m] \in Nat
    BY <2>1, LeaseFacts DEF TypeOK, StoreTypeOK
  <2>3. age[c][m] <= MaxRun /\ lock[EventOf(m)] + age[c][m] = LockTTL
    BY DEF LeaseInv, HolderHasLease
  <2>4. lock[EventOf(m)] > 0
    BY <2>2, <2>3, LeaseAssumption, StoreAssumption, WorkerAssumption DEF LeaseAssumption
  <2>5. QED
    BY <2>4 DEF Locked
<1>2. QED
  BY InitLeaseInv, NextLeaseInv, <1>1, PTL DEF Spec
=============================================================================
