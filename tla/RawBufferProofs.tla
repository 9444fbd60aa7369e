-------------------------- MODULE RawBufferProofs --------------------------
(***************************************************************************)
(* The operations of the stream keep its type, whoever calls them.         *)
(***************************************************************************)
EXTENDS RawBuffer, TLAPS

(* A stream that does not exist yet is empty. *)
LEMMA BufferInitType == BufferInit => BufferTypeOK
<1> SUFFICES ASSUME BufferInit PROVE BufferTypeOK
  OBVIOUS
<1>1. group \in BOOLEAN
  BY DEF BufferInit
<1>2. stream \in Seq(Event) /\ Len(stream) = 0
  BY DEF BufferInit
<1>3. QED
  BY <1>1, <1>2, BufferAssumption DEF BufferInit, BufferTypeOK

(* XADD, with or without trimming. *)
LEMMA PublishRawType ==
    ASSUME BufferTypeOK, NEW e \in Event, PublishRaw(e)
    PROVE  BufferTypeOK'
<1> USE BufferAssumption DEF BufferTypeOK, PublishRaw
<1>1. /\ stream' \in Seq(Event)
      /\ Len(stream') = Len(stream) + 1
      /\ Len(stream) \in Nat
  OBVIOUS
<1>2. trimmed' \in 0..Len(stream')
  BY <1>1
<1>3. QED
  BY <1>1, <1>2 DEF Msgs

(* XGROUP CREATE. *)
LEMMA EnsureGroupType ==
    ASSUME BufferTypeOK, EnsureGroup
    PROVE  BufferTypeOK'
<1> USE BufferAssumption DEF BufferTypeOK, EnsureGroup
<1>1. group' \in BOOLEAN
  OBVIOUS
<1>2. Len(stream) \in Nat
  OBVIOUS
<1>3. QED
  BY <1>1, <1>2 DEF Msgs

(* The entries XREADGROUP delivers are the ones after ReadFrom. *)
LEMMA NextBatchFacts ==
    ASSUME BufferTypeOK
    PROVE  /\ ReadFrom \in Nat
           /\ lastDelivered <= ReadFrom
           /\ ReadTo \in Nat
           /\ ReadTo <= Len(stream)
           /\ NextBatch \subseteq 1..Len(stream)
           /\ NextBatch # {} => ReadFrom < ReadTo
           /\ \A m \in NextBatch : ReadFrom < m /\ m <= ReadTo
<1>1. Len(stream) \in Nat
  BY DEF BufferTypeOK
<1>2. QED
  BY <1>1, BufferAssumption DEF BufferTypeOK, ReadFrom, ReadTo, NextBatch

(* XREADGROUP. *)
LEMMA ReadGroupType ==
    ASSUME BufferTypeOK, ReadGroup
    PROVE  BufferTypeOK'
<1>1. Len(stream) \in Nat
  BY DEF BufferTypeOK
<1>2. /\ lastDelivered' \in 0..Len(stream)
      /\ lastDelivered <= lastDelivered'
      /\ NextBatch \subseteq 1..lastDelivered'
  BY <1>1, NextBatchFacts DEF BufferTypeOK, ReadGroup
<1>3. pel' \subseteq 1..lastDelivered'
  BY <1>1, <1>2 DEF BufferTypeOK, ReadGroup
<1>4. idle' \in [Msgs -> 0..ClaimIdle]
  BY BufferAssumption DEF BufferTypeOK, ReadGroup
<1>5. QED
  BY <1>1, <1>2, <1>3, <1>4 DEF BufferTypeOK, ReadGroup

(* XAUTOCLAIM. *)
LEMMA ClaimPendingType ==
    ASSUME BufferTypeOK, ClaimPending
    PROVE  BufferTypeOK'
<1>1. idle' \in [Msgs -> 0..ClaimIdle]
  BY BufferAssumption DEF BufferTypeOK, ClaimPending
<1>2. pel' \subseteq pel
  BY DEF ClaimPending
<1>3. QED
  BY <1>1, <1>2 DEF BufferTypeOK, ClaimPending

(* XACK. *)
LEMMA AckType ==
    ASSUME BufferTypeOK, NEW m \in Msgs, Ack(m)
    PROVE  BufferTypeOK'
<1>1. idle' \in [Msgs -> 0..ClaimIdle]
  BY BufferAssumption DEF BufferTypeOK, Ack
<1>2. pel' \subseteq pel
  BY DEF Ack
<1>3. QED
  BY <1>1, <1>2 DEF BufferTypeOK, Ack

(* The idle times of pending entries grow up to ClaimIdle. *)
LEMMA BufferTickType ==
    ASSUME BufferTypeOK, BufferTick
    PROVE  BufferTypeOK'
<1>1. idle' \in [Msgs -> 0..ClaimIdle]
  BY BufferAssumption DEF BufferTypeOK, BufferTick
<1>2. QED
  BY <1>1 DEF BufferTypeOK, BufferTick
=============================================================================
