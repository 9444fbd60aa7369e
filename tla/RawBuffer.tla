----------------------------- MODULE RawBuffer -----------------------------
(***************************************************************************)
(* The Redis stream between the ingestion service and the workers, with    *)
(* its consumer group (internal/buffer/redis.go).  A stream entry's ID is  *)
(* its position in `stream'; the approximate MAXLEN trimming of XADD       *)
(* removes entries from the head, so the entries up to `trimmed' are gone. *)
(*                                                                         *)
(* The operators below are the effects of the RawBuffer methods on Redis;  *)
(* a worker that calls one decides what an error or a lost reply means.    *)
(***************************************************************************)
EXTENDS Naturals, Sequences, FiniteSets, RawEvents

CONSTANTS
    MaxMsgs,    \* bound on the number of entries ever added to the stream
    MaxLen,     \* RedisRawBuffer.maxLen, 0 = the stream is never trimmed
    BatchSize,  \* COUNT of XREADGROUP and of XAUTOCLAIM
    ClaimIdle   \* min-idle-time of XAUTOCLAIM, in ticks; 0 = recovery disabled

ASSUME BufferAssumption ==
    /\ MaxMsgs \in Nat \ {0}
    /\ MaxLen \in Nat
    /\ BatchSize \in Nat \ {0}
    /\ ClaimIdle \in Nat

VARIABLES
    stream,         \* the events added by XADD, oldest first
    trimmed,        \* entries 1..trimmed have been removed by MAXLEN
    group,          \* does the consumer group exist?
    groupFrom,      \* the entry after which the group starts (history)
    lastDelivered,  \* the group's last-delivered-id
    pel,            \* the group's pending entries list
    idle            \* ticks since a pending entry was last delivered, up to ClaimIdle

bufferVars == <<stream, trimmed, group, groupFrom, lastDelivered, pel, idle>>

Msgs == 1..MaxMsgs

BufferTypeOK ==
    /\ stream \in Seq(Event)
    /\ Len(stream) <= MaxMsgs
    /\ trimmed \in 0..Len(stream)
    /\ group \in BOOLEAN
    /\ lastDelivered \in 0..Len(stream)
    /\ groupFrom \in 0..lastDelivered
    /\ pel \subseteq 1..lastDelivered
    /\ idle \in [Msgs -> 0..ClaimIdle]

BufferInit ==
    /\ stream = <<>>
    /\ trimmed = 0
    /\ group = FALSE
    /\ groupFrom = 0
    /\ lastDelivered = 0
    /\ pel = {}
    /\ idle = [m \in Msgs |-> 0]

-----------------------------------------------------------------------------
(* XADD stream MAXLEN ~ maxLen: whole nodes of entries are removed from    *)
(* the head, never going below maxLen entries.                             *)
PublishRaw(e) ==
    /\ Len(stream) < MaxMsgs
    /\ stream' = Append(stream, e)
    /\ \E t \in trimmed..Len(stream) + 1 :
         /\ t > trimmed => MaxLen > 0 /\ t + MaxLen <= Len(stream) + 1
         /\ trimmed' = t
    /\ UNCHANGED <<group, groupFrom, lastDelivered, pel, idle>>

(* Faulty variant: a group that exists is destroyed and created again. *)
EnsureGroupRecreates ==
    /\ group' = TRUE
    /\ groupFrom' = Len(stream)
    /\ lastDelivered' = Len(stream)
    /\ pel' = {}
    /\ UNCHANGED <<stream, trimmed, idle>>

(* XGROUP CREATE stream group $ MKSTREAM; BUSYGROUP is not an error.  "$": *)
(* the group starts after whatever the stream already holds.               *)
EnsureGroup ==
    /\ group' = TRUE
    /\ groupFrom' = IF group THEN groupFrom ELSE Len(stream)
    /\ lastDelivered' = IF group THEN lastDelivered ELSE Len(stream)
    /\ UNCHANGED <<stream, trimmed, pel, idle>>

(* The entries XREADGROUP COUNT BatchSize STREAMS stream > delivers: the   *)
(* first ones after last-delivered-id that still exist.                    *)
ReadFrom == IF trimmed > lastDelivered THEN trimmed ELSE lastDelivered

ReadTo == IF ReadFrom + BatchSize < Len(stream) THEN ReadFrom + BatchSize ELSE Len(stream)

NextBatch == (ReadFrom + 1)..ReadTo

(* Faulty variant: last-delivered-id does not move with a delivery. *)
ReadGroupNoAdvance ==
    /\ pel' = pel \cup NextBatch
    /\ idle' = [m \in Msgs |-> IF m \in NextBatch THEN 0 ELSE idle[m]]
    /\ UNCHANGED <<stream, trimmed, group, groupFrom, lastDelivered>>

ReadGroup ==
    /\ lastDelivered' = IF NextBatch = {} THEN lastDelivered ELSE ReadTo
    /\ pel' = pel \cup NextBatch
    /\ idle' = [m \in Msgs |-> IF m \in NextBatch THEN 0 ELSE idle[m]]
    /\ UNCHANGED <<stream, trimmed, group, groupFrom>>

(* XAUTOCLAIM min-idle 0-0 COUNT BatchSize looks at the first 10 * COUNT   *)
(* pending entries in ID order and stops after COUNT hits.  A pending      *)
(* entry that MAXLEN has removed from the stream counts as a hit, is       *)
(* dropped from the pending list and is not returned.                      *)
Scanned == {m \in pel : Cardinality({k \in pel : k < m}) < 10 * BatchSize}

Hit(m) == m <= trimmed \/ idle[m] >= ClaimIdle

AutoClaimed ==
    {m \in Scanned : /\ Hit(m)
                     /\ Cardinality({k \in Scanned : k < m /\ Hit(k)}) < BatchSize}

Reclaimed == {m \in AutoClaimed : m > trimmed}

ClaimPending ==
    /\ pel' = pel \ {m \in AutoClaimed : m <= trimmed}
    /\ idle' = [m \in Msgs |-> IF m \in AutoClaimed THEN 0 ELSE idle[m]]
    /\ UNCHANGED <<stream, trimmed, group, groupFrom, lastDelivered>>

(* XACK stream group m. *)
Ack(m) ==
    /\ pel' = pel \ {m}
    /\ idle' = [idle EXCEPT ![m] = 0]
    /\ UNCHANGED <<stream, trimmed, group, groupFrom, lastDelivered>>

(* One tick of Redis' clock, as far as idle times can tell. *)
BufferTick ==
    /\ idle' = [m \in Msgs |-> IF m \in pel /\ idle[m] < ClaimIdle
                                THEN idle[m] + 1 ELSE idle[m]]
    /\ UNCHANGED <<stream, trimmed, group, groupFrom, lastDelivered, pel>>
=============================================================================
