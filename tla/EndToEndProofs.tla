--------------------------- MODULE EndToEndProofs ---------------------------
(***************************************************************************)
(* The composed system: what is proved of the workers holds when real HTTP *)
(* requests fill the stream, and an event_id that a client was given is    *)
(* accounted for from then on.                                             *)
(***************************************************************************)
EXTENDS EndToEnd, WorkerRefinement, IngestionProofs

SystemInv == DeliveryInv /\ HttpInv

(* To the workers a step of a request is a Publish, possibly of an event   *)
(* that is in the stream already, or nothing at all.                       *)
LEMMA StepRefinesWorker ==
    ASSUME "xadd" \in Faults, HttpInv, [SystemNext]_systemVars
    PROVE  [Next]_vars
<1>1. CASE HttpStep
  <2>1. UNCHANGED workerVars
    BY <1>1 DEF HttpStep
  <2>2. (\E e \in Event : PublishRaw(e)) \/ UNCHANGED bufferVars
    <3>1. \A r \in Request : cur[r] # NoEvent => cur[r] \in Event
      BY DEF HttpInv, HttpTypes
    <3>2. QED
      BY <1>1, <3>1 DEF HttpStep, IngestionNext, Serve, HandleIngest, HandleIngestBatch, NewEvent,
                        XAddReplied, XAddReplyLost, PublishFails, PublishTimesOut, Accept, CutOff
  <2>3. ASSUME NEW e \in Event, PublishRaw(e) PROVE Next
    <3>1. Publish(e)
      BY <2>1, <2>3, "xadd" \in Faults DEF Publish, workerVars
    <3>2. QED
      BY <3>1 DEF Next
  <2>4. CASE UNCHANGED bufferVars
    BY <2>1, <2>4 DEF workerVars, loopVars, vars
  <2>5. QED
    BY <2>2, <2>3, <2>4
<1>2. CASE WorkerStep
  BY <1>2 DEF Next
<1>3. CASE UNCHANGED systemVars
  BY <1>3 DEF systemVars
<1>4. QED
  BY <1>1, <1>2, <1>3 DEF SystemNext

(* The workers change neither the stream's contents nor any request. *)
LEMMA WorkerKeepsStream == WorkerStep => stream' = stream
<1>1. ASSUME NEW c \in Consumer,
             StartWorker(c) \/ LoopStep(c) \/ Cancel(c) \/ Exit(c) \/ Crash(c)
      PROVE  stream' = stream
  BY <1>1 DEF StartWorker, LoopStep, ClaimStep, SkipClaim, ReadStep, Cancel, Exit, Crash,
              EnsureGroup, ClaimPending, ReadGroup, bufferVars
<1>2. ASSUME NEW c \in Consumer, NEW m \in Msgs, TaskStep(c, m) PROVE stream' = stream
  BY <1>2 DEF TaskStep, StartTask, CheckDone, TryClaim, StoreRaw, RunPipeline, Release, Mark,
              AckMsg, Ack, bufferVars
<1>3. Tick => stream' = stream
  BY DEF Tick, BufferTick
<1>4. QED
  BY <1>1, <1>2, <1>3 DEF WorkerStep

(* The system starts in states both invariants allow. *)
LEMMA InitSystemInv == SystemInit => SystemInv
BY InitDeliveryInv, InitHttpInv DEF SystemInit, SystemInv

(* Neither half of the system breaks the other half's invariant. *)
LEMMA NextSystemInv ==
    ASSUME "xadd" \in Faults
    PROVE  SystemInv /\ [SystemNext]_systemVars => SystemInv'
<1> SUFFICES ASSUME SystemInv, [SystemNext]_systemVars PROVE SystemInv'
  OBVIOUS
<1>1. DeliveryInv'
  <2>1. [Next]_vars
    BY StepRefinesWorker DEF SystemInv
  <2>2. QED
    BY <2>1, NextDeliveryInv DEF SystemInv
<1>2. HttpInv'
  <2>1. CASE HttpStep
    BY <2>1, NextHttpInv DEF SystemInv, HttpStep
  <2>2. CASE WorkerStep /\ UNCHANGED httpVars
    BY <2>2, WorkerKeepsStream, HttpFrame DEF SystemInv
  <2>3. CASE UNCHANGED systemVars
    BY <2>3, HttpFrame DEF SystemInv, systemVars, vars, bufferVars
  <2>4. QED
    BY <2>1, <2>2, <2>3 DEF SystemNext
<1>3. QED
  BY <1>1, <1>2 DEF SystemInv

(* The composed system is one of the systems the worker theorems are       *)
(* about, so every one of them holds for it.                               *)
THEOREM SystemRefinesWorker ==
    ASSUME "xadd" \in Faults
    PROVE  SystemSpec => Spec
<1>1. SystemInit => Init
  BY DEF SystemInit
<1>2. SystemInv /\ [SystemNext]_systemVars => [Next]_vars
  BY StepRefinesWorker DEF SystemInv
<1>3. QED
  BY InitSystemInv, NextSystemInv, <1>1, <1>2, PTL DEF SystemSpec, Spec

(* 202 is a promise the whole system keeps: whatever crashes, is resent,   *)
(* cancelled or reclaimed, the message of an accepted event is waiting,    *)
(* pending or processed, unless MAXLEN or the late creation of the         *)
(* consumer group has put it out of reach.                                 *)
THEOREM AcceptedAccounted ==
    ASSUME "xadd" \in Faults
    PROVE  SystemSpec => []AcceptedIsAccounted
<1>1. SystemInv => AcceptedIsAccounted
  <2> SUFFICES ASSUME SystemInv, NEW r \in Request, NEW i \in 1..Len(ids[r])
               PROVE  \E m \in 1..Len(stream) :
                         /\ stream[m] = ids[r][i]
                         /\ \/ lastDelivered < m
                            \/ m \in pel
                            \/ ids[r][i] \in processed
                            \/ m <= groupFrom
                            \/ m <= trimmed
    BY DEF AcceptedIsAccounted
  <2>1. PICK m \in 1..Len(stream) : stream[m] = ids[r][i]
    BY DEF SystemInv, HttpInv, IdsAreBuffered, Buffered
  <2>2. m \in Msgs /\ lastDelivered \in Nat /\ groupFrom \in Nat /\ m \in Nat
    BY DeliveryFacts, BufferAssumption DEF SystemInv, BufferTypeOK, Msgs
  <2>3. groupFrom < m /\ m <= lastDelivered => m \in pel \/ stream[m] \in processed \/ m <= trimmed
    BY <2>2 DEF SystemInv, DeliveryInv, Accounted, EventOf
  <2>4. QED
    BY <2>1, <2>2, <2>3
<1>2. QED
  BY InitSystemInv, NextSystemInv, <1>1, PTL DEF SystemSpec

-----------------------------------------------------------------------------
(* One pass per payload needs both halves: the handlers' event_ids and the *)
(* workers' lease, which rests on the timing assumption.                   *)
OneTaskInv == SystemInv /\ LeaseInv

(* Both halves start well. *)
LEMMA InitOneTaskInv == SystemInit => OneTaskInv
BY InitSystemInv, InitLeaseInv DEF SystemInit, OneTaskInv

(* The lease survives the steps of requests, which are Publish to it. *)
LEMMA NextOneTaskInv ==
    ASSUME "xadd" \in Faults, LeaseAssumption
    PROVE  OneTaskInv /\ [SystemNext]_systemVars => OneTaskInv'
<1> SUFFICES ASSUME OneTaskInv, [SystemNext]_systemVars PROVE OneTaskInv'
  OBVIOUS
<1>1. SystemInv'
  BY NextSystemInv DEF OneTaskInv
<1>2. [Next]_vars
  BY StepRefinesWorker DEF OneTaskInv, SystemInv
<1>3. LeaseInv'
  BY <1>2, NextLeaseInv DEF OneTaskInv
<1>4. QED
  BY <1>1, <1>3 DEF OneTaskInv

(* From the HTTP handler to the pipeline: a payload sent once is worked on *)
(* by one task at a time, for any number of requests, resends, workers and *)
(* crashes, when tasks are faster than the lock's TTL and Redis answers.   *)
THEOREM PayloadsExclude ==
    ASSUME "xadd" \in Faults, LeaseAssumption
    PROVE  SystemSpec => []OnePassPerPayload
<1>1. OneTaskInv => OnePassPerPayload
  <2> SUFFICES ASSUME OneTaskInv, NEW c \in Consumer, NEW d \in Consumer,
                      NEW m \in Msgs, NEW n \in Msgs,
                      pc[c][m] \in Holding, pc[d][n] \in Holding,
                      origin[EventOf(m)] = origin[EventOf(n)]
               PROVE  c = d /\ m = n
    BY DEF OnePassPerPayload
  <2>1. DeliveryInv /\ HttpInv /\ LeaseInv
    BY DEF OneTaskInv, SystemInv
  <2>2. pc[c][m] # "none" /\ pc[d][n] # "none"
    BY DEF Holding
  <2>3. m \in 1..Len(stream) /\ n \in 1..Len(stream)
    BY <2>1, <2>2, DeliveryFacts
  <2>4. EventOf(m) = EventOf(n)
    BY <2>1, <2>3, HttpInvImplies DEF OneEventIdPerPayload, EventOf
  <2>5. QED
    BY <2>1, <2>4 DEF LeaseInv, ExclusivePipeline
<1>2. QED
  BY InitOneTaskInv, NextOneTaskInv, <1>1, PTL DEF SystemSpec

(* The whole system keeps both promises its parts make: at-least-once      *)
(* delivery of what the handlers buffer, and, given the timing, one        *)
(* completed pass per event and window.                                    *)
THEOREM SystemImplementsBoth ==
    ASSUME "xadd" \in Faults, LeaseAssumption
    PROVE  SystemSpec => AtLeastOnceDelivery /\ ProcessedOncePerWindow
BY SystemRefinesWorker, ImplementsAtLeastOnce, ImplementsOncePerWindow, PTL
=============================================================================
