-------------------------- MODULE IngestionProofs --------------------------
(***************************************************************************)
(* What the ingestion service guarantees for every set of concurrent       *)
(* requests with bodies of every length, whatever is resent, fails or is   *)
(* cut off.                                                                *)
(***************************************************************************)
EXTENDS Ingestion, RawBufferProofs

(* The part of the type invariant that only the handlers disturb. *)
HttpTypes ==
    /\ stream \in Seq(Event)
    /\ status \in [Request -> {"new", "busy", "202", "400", "500", "lost", "cut"}]
    /\ ids \in [Request -> Seq(Event)]
    /\ cur \in [Request -> Event \cup {NoEvent}]
    /\ origin \in [Event -> {<<>>} \cup (Request \X (Nat \ {0}))]

(* An event_id with an XADD reply is in the stream, and in its place. *)
IdsAreBuffered ==
    \A r \in Request : \A i \in 1..Len(ids[r]) :
        origin[ids[r][i]] = <<r, i>> /\ Buffered(ids[r][i])

(* The XADD in flight is for the first payload without a reply. *)
CurIsNext ==
    \A r \in Request : cur[r] # NoEvent =>
        /\ status[r] = "busy"
        /\ origin[cur[r]] = <<r, Len(ids[r]) + 1>>
        /\ Len(ids[r]) < Len(Items(r))

(* Every event_id ever made is one with a reply, the one in flight, or the *)
(* one whose XADD was the last thing a failed request tried.               *)
OriginIsKnown ==
    \A e \in Event, r \in Request : \A k \in Nat :
        origin[e] = <<r, k>> =>
            /\ status[r] \notin {"new", "400"}
            /\ \/ k \in 1..Len(ids[r]) /\ ids[r][k] = e
               \/ k = Len(ids[r]) + 1 /\ (cur[r] = e \/ status[r] \in {"500", "lost", "cut"})

(* No two event_ids are made for the same payload. *)
OriginsDiffer ==
    \A e, f \in Event : origin[e] = origin[f] /\ origin[e] # <<>> => e = f

StreamHasOrigin == \A j \in 1..Len(stream) : origin[stream[j]] # <<>>

AcceptedIsComplete == \A r \in Request : status[r] = "202" => Len(ids[r]) = Len(Items(r))

HttpInv ==
    /\ HttpTypes
    /\ IdsAreBuffered
    /\ CurIsNext
    /\ OriginIsKnown
    /\ OriginsDiffer
    /\ StreamHasOrigin
    /\ AcceptedIsComplete
    /\ BatchPrefix

(* A pair is not the empty tuple. *)
LEMMA PairIsNotEmpty == \A a, b : <<a, b>> # <<>>
<1> SUFFICES ASSUME NEW a, NEW b, <<a, b>> = <<>> PROVE FALSE
  OBVIOUS
<1>1. Len(<<a, b>>) = 2 /\ Len(<<>>) = 0
  OBVIOUS
<1>2. QED
  BY <1>1

(* Initially no request has been looked at. *)
LEMMA InitHttpInv == IngestionInit => HttpInv
<1> SUFFICES ASSUME IngestionInit PROVE HttpInv
  OBVIOUS
<1>1. HttpTypes
  BY DEF IngestionInit, BufferInit, HttpTypes
<1>2. IdsAreBuffered /\ CurIsNext /\ AcceptedIsComplete
  BY DEF IngestionInit, IdsAreBuffered, CurIsNext, AcceptedIsComplete
<1>3. OriginIsKnown /\ OriginsDiffer
  BY DEF IngestionInit, OriginIsKnown, OriginsDiffer
<1>4. StreamHasOrigin /\ BatchPrefix
  BY DEF IngestionInit, BufferInit, StreamHasOrigin, BatchPrefix
<1>5. QED
  BY <1>1, <1>2, <1>3, <1>4 DEF HttpInv

(* The prefix property is about entries and what they were made for. *)
LEMMA BatchPrefixFrame ==
    ASSUME BatchPrefix, stream' = stream, origin' = origin
    PROVE  BatchPrefix'
BY DEF BatchPrefix

(* A step that leaves the stream's contents and the requests alone, such   *)
(* as any step of a worker.                                                *)
LEMMA HttpFrame ==
    ASSUME HttpInv, UNCHANGED <<stream, httpVars>>
    PROVE  HttpInv'
<1> USE DEF HttpInv, httpVars
<1>1. HttpTypes' /\ CurIsNext' /\ AcceptedIsComplete'
  BY DEF HttpTypes, CurIsNext, AcceptedIsComplete
<1>2. IdsAreBuffered' /\ OriginIsKnown'
  <2>1. IdsAreBuffered'
    BY DEF IdsAreBuffered, Buffered
  <2>2. OriginIsKnown'
    BY DEF OriginIsKnown
  <2>3. QED
    BY <2>1, <2>2
<1>3. OriginsDiffer' /\ StreamHasOrigin'
  BY DEF OriginsDiffer, StreamHasOrigin
<1>4. BatchPrefix'
  BY BatchPrefixFrame
<1>5. QED
  BY <1>1, <1>2, <1>3, <1>4

(* A request that gets its answer, or starts, without an XADD. *)
LEMMA AnswerKeepsHttpInv ==
    ASSUME HttpInv, NEW r \in Request,
           NEW code \in {"busy", "202", "400", "500", "lost", "cut"}, Become(r, code),
           \/ status[r] = "new" /\ code \in {"busy", "400", "lost"} /\ cur' = cur
           \/ /\ status[r] = "busy" /\ code \in {"500", "lost", "cut"}
              /\ cur' = [cur EXCEPT ![r] = NoEvent]
           \/ /\ status[r] = "busy" /\ code \in {"202", "lost"} /\ cur' = cur
              /\ Len(ids[r]) = Len(Items(r)) /\ cur[r] = NoEvent,
           UNCHANGED <<stream, ids, origin>>
    PROVE  HttpInv'
<1> USE DEF HttpInv
<1>1. HttpTypes'
  BY DEF HttpTypes, Become
<1>2. IdsAreBuffered' /\ OriginsDiffer' /\ StreamHasOrigin' /\ BatchPrefix'
  <2>1. IdsAreBuffered' /\ OriginsDiffer' /\ StreamHasOrigin'
    BY DEF IdsAreBuffered, OriginsDiffer, StreamHasOrigin, Buffered
  <2>2. BatchPrefix'
    BY BatchPrefixFrame
  <2>3. QED
    BY <2>1, <2>2
<1>3. \A q \in Request : q # r => status'[q] = status[q] /\ cur'[q] = cur[q]
  BY DEF HttpTypes, Become
<1>4. status'[r] = code
  BY DEF HttpTypes, Become
<1>5. CurIsNext'
  <2> SUFFICES ASSUME NEW q \in Request, cur'[q] # NoEvent
               PROVE  /\ status'[q] = "busy"
                      /\ origin[cur'[q]] = <<q, Len(ids[q]) + 1>>
                      /\ Len(ids[q]) < Len(Items(q))
    BY DEF CurIsNext
  <2>1. CASE q # r
    BY <1>3, <2>1 DEF CurIsNext
  <2>2. CASE q = r
    BY <1>4, <2>2 DEF CurIsNext, HttpTypes
  <2>3. QED
    BY <2>1, <2>2
<1>6. OriginIsKnown'
  <2> SUFFICES ASSUME NEW e \in Event, NEW q \in Request, NEW k \in Nat, origin[e] = <<q, k>>
               PROVE  /\ status'[q] \notin {"new", "400"}
                      /\ \/ k \in 1..Len(ids[q]) /\ ids[q][k] = e
                         \/ k = Len(ids[q]) + 1 /\ (cur'[q] = e \/ status'[q] \in {"500", "lost", "cut"})
    BY DEF OriginIsKnown
  <2>1. /\ status[q] \notin {"new", "400"}
        /\ \/ k \in 1..Len(ids[q]) /\ ids[q][k] = e
           \/ k = Len(ids[q]) + 1 /\ (cur[q] = e \/ status[q] \in {"500", "lost", "cut"})
    BY DEF OriginIsKnown
  <2>2. CASE q # r
    BY <1>3, <2>1, <2>2
  <2>3. CASE q = r
    <3>1. e # NoEvent
      BY IngestionAssumption
    <3>2. QED
      BY <1>4, <2>1, <2>3, <3>1
  <2>4. QED
    BY <2>2, <2>3
<1>7. AcceptedIsComplete'
  BY <1>3, <1>4 DEF AcceptedIsComplete
<1>8. QED
  BY <1>1, <1>2, <1>5, <1>6, <1>7

(* Ingest or a round of IngestBatch makes an event_id. *)
LEMMA NewEventKeepsHttpInv ==
    ASSUME HttpInv, NEW r \in Request, NewEvent(r)
    PROVE  HttpInv'
<1> USE DEF HttpInv
<1>1. PICK e \in Fresh : /\ cur' = [cur EXCEPT ![r] = e]
                         /\ origin' = [origin EXCEPT ![e] = <<r, Len(ids[r]) + 1>>]
  BY DEF NewEvent
<1>2. /\ status[r] = "busy" /\ cur[r] = NoEvent
      /\ UNCHANGED <<stream, status, ids>>
      /\ e \in Event /\ origin[e] = <<>> /\ e # NoEvent
      /\ Len(ids[r]) \in Nat
  <2>1. status[r] = "busy" /\ cur[r] = NoEvent /\ UNCHANGED <<stream, status, ids>>
    BY DEF NewEvent, bufferVars
  <2>2. e \in Event /\ origin[e] = <<>>
    BY DEF Fresh
  <2>3. e # NoEvent
    BY <2>2, IngestionAssumption
  <2>4. Len(ids[r]) \in Nat
    BY DEF HttpTypes
  <2>5. QED
    BY <2>1, <2>2, <2>3, <2>4
<1>3. HttpTypes'
  BY <1>1, <1>2 DEF HttpTypes
<1>4. /\ \A f \in Event : f # e => origin'[f] = origin[f]
      /\ origin'[e] = <<r, Len(ids[r]) + 1>>
      /\ \A q \in Request : q # r => cur'[q] = cur[q]
      /\ cur'[r] = e
  BY <1>1, <1>2 DEF HttpTypes
<1>5. \A f \in Event : origin[f] # <<>> => origin'[f] = origin[f]
  BY <1>2, <1>4
<1>6. IdsAreBuffered'
  <2> SUFFICES ASSUME NEW q \in Request, NEW i \in 1..Len(ids[q])
               PROVE  origin'[ids[q][i]] = <<q, i>> /\ Buffered(ids[q][i])
    BY <1>2 DEF IdsAreBuffered, Buffered
  <2>1. ids[q][i] \in Event
    BY DEF HttpTypes
  <2>2. origin[ids[q][i]] = <<q, i>> /\ Buffered(ids[q][i])
    BY DEF IdsAreBuffered
  <2>3. QED
    BY <1>5, <2>1, <2>2, PairIsNotEmpty
<1>7. CurIsNext'
  <2> SUFFICES ASSUME NEW q \in Request, cur'[q] # NoEvent
               PROVE  /\ status[q] = "busy"
                      /\ origin'[cur'[q]] = <<q, Len(ids[q]) + 1>>
                      /\ Len(ids[q]) < Len(Items(q))
    BY <1>2 DEF CurIsNext
  <2>1. CASE q = r
    BY <1>2, <1>4, <2>1 DEF NewEvent
  <2>2. CASE q # r
    <3>1. /\ cur[q] \in Event /\ origin[cur[q]] = <<q, Len(ids[q]) + 1>> /\ status[q] = "busy"
          /\ Len(ids[q]) < Len(Items(q))
      BY <1>4, <2>2 DEF CurIsNext, HttpTypes
    <3>2. QED
      BY <1>4, <1>5, <2>2, <3>1, PairIsNotEmpty
  <2>3. QED
    BY <2>1, <2>2
<1>8. OriginIsKnown'
  <2> SUFFICES ASSUME NEW f \in Event, NEW q \in Request, NEW k \in Nat, origin'[f] = <<q, k>>
               PROVE  /\ status[q] \notin {"new", "400"}
                      /\ \/ k \in 1..Len(ids[q]) /\ ids[q][k] = f
                         \/ k = Len(ids[q]) + 1 /\ (cur'[q] = f \/ status[q] \in {"500", "lost", "cut"})
    BY <1>2 DEF OriginIsKnown
  <2>1. CASE f = e
    BY <1>2, <1>4, <2>1
  <2>2. CASE f # e
    <3>1. /\ status[q] \notin {"new", "400"}
          /\ \/ k \in 1..Len(ids[q]) /\ ids[q][k] = f
             \/ k = Len(ids[q]) + 1 /\ (cur[q] = f \/ status[q] \in {"500", "lost", "cut"})
      BY <1>4, <2>2 DEF OriginIsKnown
    <3>2. f # NoEvent
      BY IngestionAssumption
    <3>3. QED
      BY <1>2, <1>4, <3>1, <3>2
  <2>3. QED
    BY <2>1, <2>2
<1>9. OriginsDiffer'
  <2>1. \A f \in Event : origin[f] # <<r, Len(ids[r]) + 1>>
    <3> SUFFICES ASSUME NEW f \in Event, origin[f] = <<r, Len(ids[r]) + 1>> PROVE FALSE
      OBVIOUS
    <3>1. cur[r] = f
      BY <1>2 DEF OriginIsKnown
    <3>2. QED
      BY <1>2, <3>1, IngestionAssumption
  <2>2. QED
    BY <1>2, <1>4, <2>1 DEF OriginsDiffer
<1>10. \A j \in 1..Len(stream) :
          stream[j] \in Event /\ origin[stream[j]] # <<>> /\ origin'[stream[j]] = origin[stream[j]]
  BY <1>5 DEF StreamHasOrigin, HttpTypes
<1>11. StreamHasOrigin'
  BY <1>2, <1>10 DEF StreamHasOrigin
<1>12. BatchPrefix'
  <2> SUFFICES ASSUME NEW j \in 1..Len(stream), NEW l \in 1..(origin'[stream[j]][2] - 1)
               PROVE  \E i \in 1..(j - 1) : origin'[stream[i]] = <<origin'[stream[j]][1], l>>
    BY <1>2 DEF BatchPrefix
  <2>1. PICK i \in 1..(j - 1) : origin[stream[i]] = <<origin[stream[j]][1], l>>
    BY <1>10 DEF BatchPrefix
  <2>2. i \in 1..Len(stream)
    BY DEF HttpTypes
  <2>3. QED
    BY <1>10, <2>1, <2>2
<1>13. AcceptedIsComplete'
  BY <1>2 DEF AcceptedIsComplete
<1>14. QED
  BY <1>3, <1>6, <1>7, <1>8, <1>9, <1>11, <1>12, <1>13

(* An XADD that takes effect, with a reply or without one. *)
LEMMA XAddKeepsHttpInv ==
    ASSUME HttpInv, NEW r \in Request, XAddReplied(r) \/ XAddReplyLost(r)
    PROVE  HttpInv'
<1> USE DEF HttpInv
<1> DEFINE e == cur[r]
<1>1. /\ status[r] = "busy" /\ e # NoEvent
      /\ UNCHANGED <<status, origin>>
      /\ stream' = Append(stream, e)
  BY DEF XAddReplied, XAddReplyLost, PublishRaw, httpVars
<1>2. e \in Event /\ origin[e] = <<r, Len(ids[r]) + 1>> /\ Len(ids[r]) < Len(Items(r))
  BY <1>1 DEF HttpTypes, CurIsNext
<1>3. stream \in Seq(Event) /\ ids \in [Request -> Seq(Event)]
  BY DEF HttpTypes
<1>4. /\ stream' \in Seq(Event)
      /\ Len(stream) \in Nat
      /\ Len(stream') = Len(stream) + 1
      /\ \A j \in 1..Len(stream) : stream'[j] = stream[j]
      /\ stream'[Len(stream) + 1] = e
  BY <1>1, <1>2, <1>3
<1>5. \/ ids' = ids /\ cur' = cur
      \/ ids' = [ids EXCEPT ![r] = Append(ids[r], e)] /\ cur' = [cur EXCEPT ![r] = NoEvent]
  BY DEF XAddReplied, XAddReplyLost, httpVars
<1>6. /\ ids' \in [Request -> Seq(Event)]
      /\ \A q \in Request : q # r => ids'[q] = ids[q] /\ cur'[q] = cur[q]
  <2>1. CASE ids' = ids /\ cur' = cur
    BY <1>3, <2>1
  <2>2. CASE ids' = [ids EXCEPT ![r] = Append(ids[r], e)] /\ cur' = [cur EXCEPT ![r] = NoEvent]
    <3>1. Append(ids[r], e) \in Seq(Event)
      BY <1>2, <1>3
    <3>2. QED
      BY <1>3, <2>2, <3>1 DEF HttpTypes
  <2>3. QED
    BY <1>5, <2>1, <2>2
<1>7. /\ Len(ids[r]) \in Nat
      /\ Len(ids'[r]) \in Nat
      /\ \A i \in 1..Len(ids[r]) : ids'[r][i] = ids[r][i]
      /\ \/ Len(ids'[r]) = Len(ids[r]) /\ cur'[r] = e
         \/ Len(ids'[r]) = Len(ids[r]) + 1 /\ ids'[r][Len(ids[r]) + 1] = e /\ cur'[r] = NoEvent
  <2>1. ids[r] \in Seq(Event) /\ Len(ids[r]) \in Nat
    BY <1>3
  <2>2. CASE ids' = ids /\ cur' = cur
    BY <2>1, <2>2
  <2>3. CASE ids' = [ids EXCEPT ![r] = Append(ids[r], e)] /\ cur' = [cur EXCEPT ![r] = NoEvent]
    <3>1. ids'[r] = Append(ids[r], e)
      BY <1>3, <2>3
    <3>2. cur'[r] = NoEvent
      BY <2>3 DEF HttpTypes
    <3>3. QED
      BY <1>2, <2>1, <3>1, <3>2
  <2>4. QED
    BY <1>5, <2>2, <2>3
<1>8. HttpTypes'
  <2>1. cur' \in [Request -> Event \cup {NoEvent}]
    BY <1>5 DEF HttpTypes
  <2>2. QED
    BY <1>1, <1>4, <1>6, <2>1 DEF HttpTypes
<1>9. IdsAreBuffered'
  <2> SUFFICES ASSUME NEW q \in Request, NEW i \in 1..Len(ids'[q])
               PROVE  /\ origin[ids'[q][i]] = <<q, i>>
                      /\ \E j \in 1..Len(stream') : stream'[j] = ids'[q][i]
    BY <1>1 DEF IdsAreBuffered, Buffered
  <2>1. CASE q # r \/ i \in 1..Len(ids[r])
    <3>1. i \in 1..Len(ids[q]) /\ ids'[q][i] = ids[q][i]
      BY <1>6, <1>7, <2>1
    <3>2. origin[ids[q][i]] = <<q, i>> /\ Buffered(ids[q][i])
      BY <3>1 DEF IdsAreBuffered
    <3>3. QED
      BY <1>4, <3>1, <3>2 DEF Buffered
  <2>2. CASE q = r /\ i \notin 1..Len(ids[r])
    <3>1. i = Len(ids[r]) + 1 /\ ids'[q][i] = e
      BY <1>7, <2>2
    <3>2. QED
      BY <1>2, <1>4, <2>2, <3>1
  <2>3. QED
    BY <2>1, <2>2
<1>10. CurIsNext'
  <2> SUFFICES ASSUME NEW q \in Request, cur'[q] # NoEvent
               PROVE  /\ status[q] = "busy"
                      /\ origin[cur'[q]] = <<q, Len(ids'[q]) + 1>>
                      /\ Len(ids'[q]) < Len(Items(q))
    BY <1>1 DEF CurIsNext
  <2>1. CASE q # r
    BY <1>6, <2>1 DEF CurIsNext
  <2>2. CASE q = r
    BY <1>1, <1>2, <1>7, <2>2
  <2>3. QED
    BY <2>1, <2>2
<1>11. OriginIsKnown'
  <2> SUFFICES ASSUME NEW f \in Event, NEW q \in Request, NEW k \in Nat, origin[f] = <<q, k>>
               PROVE  /\ status[q] \notin {"new", "400"}
                      /\ \/ k \in 1..Len(ids'[q]) /\ ids'[q][k] = f
                         \/ k = Len(ids'[q]) + 1 /\ (cur'[q] = f \/ status[q] \in {"500", "lost", "cut"})
    BY <1>1 DEF OriginIsKnown
  <2>1. /\ status[q] \notin {"new", "400"}
        /\ \/ k \in 1..Len(ids[q]) /\ ids[q][k] = f
           \/ k = Len(ids[q]) + 1 /\ (cur[q] = f \/ status[q] \in {"500", "lost", "cut"})
    BY DEF OriginIsKnown
  <2>2. CASE q # r
    BY <1>6, <2>1, <2>2
  <2>3. CASE q = r /\ k \in 1..Len(ids[r])
    BY <1>7, <2>1, <2>3
  <2>4. CASE q = r /\ k \notin 1..Len(ids[r])
    <3>1. k = Len(ids[r]) + 1 /\ f = e
      BY <1>1, <2>1, <2>4
    <3>2. QED
      BY <1>7, <2>1, <2>4, <3>1
  <2>5. QED
    BY <2>2, <2>3, <2>4
<1>12. OriginsDiffer' /\ AcceptedIsComplete'
  <2>1. OriginsDiffer'
    BY <1>1 DEF OriginsDiffer
  <2>2. AcceptedIsComplete'
    BY <1>1, <1>6 DEF AcceptedIsComplete
  <2>3. QED
    BY <2>1, <2>2
<1>13. StreamHasOrigin'
  <2> SUFFICES ASSUME NEW j \in 1..Len(stream') PROVE origin[stream'[j]] # <<>>
    BY <1>1 DEF StreamHasOrigin
  <2>1. CASE j \in 1..Len(stream)
    BY <1>4, <2>1 DEF StreamHasOrigin
  <2>2. CASE j = Len(stream) + 1
    BY <1>2, <1>4, <2>2, PairIsNotEmpty
  <2>3. QED
    BY <1>4, <2>1, <2>2
<1>14. BatchPrefix'
  <2> SUFFICES ASSUME NEW j \in 1..Len(stream'), NEW l \in 1..(origin[stream'[j]][2] - 1)
               PROVE  \E i \in 1..(j - 1) : origin[stream'[i]] = <<origin[stream'[j]][1], l>>
    BY <1>1 DEF BatchPrefix
  <2>1. CASE j \in 1..Len(stream)
    <3>1. PICK i \in 1..(j - 1) : origin[stream[i]] = <<origin[stream[j]][1], l>>
      BY <1>4, <2>1 DEF BatchPrefix
    <3>2. i \in 1..Len(stream)
      BY <1>4, <2>1
    <3>3. QED
      BY <1>4, <2>1, <3>1, <3>2
  <2>2. CASE j = Len(stream) + 1
    <3>1. origin[stream'[j]][1] = r /\ origin[stream'[j]][2] = Len(ids[r]) + 1
      BY <1>2, <1>4, <2>2
    <3>2. l \in 1..Len(ids[r])
      BY <1>7, <3>1
    <3>3. origin[ids[r][l]] = <<r, l>> /\ Buffered(ids[r][l])
      BY <3>2 DEF IdsAreBuffered
    <3>4. PICK i \in 1..Len(stream) : stream[i] = ids[r][l]
      BY <3>3 DEF Buffered
    <3>5. i \in 1..(j - 1) /\ origin[stream'[i]] = <<r, l>>
      BY <1>4, <2>2, <3>3, <3>4
    <3>6. QED
      BY <3>1, <3>5
  <2>3. QED
    BY <1>4, <2>1, <2>2
<1>15. QED
  BY <1>8, <1>9, <1>10, <1>11, <1>12, <1>13, <1>14

(* Every step of every request keeps the invariant. *)
LEMMA NextHttpInv == HttpInv /\ IngestionNext => HttpInv'
<1> SUFFICES ASSUME HttpInv, NEW r \in Request, Serve(r) \/ XAddReplyLost(r) \/ CutOff(r)
             PROVE  HttpInv'
  BY DEF IngestionNext
<1>1. CASE HandleIngest(r) \/ HandleIngestBatch(r)
  <2>1. /\ status[r] = "new" /\ cur' = cur /\ UNCHANGED <<stream, ids, origin>>
        /\ \E code \in {"busy", "400", "lost"} : Become(r, code)
    BY <1>1 DEF HandleIngest, HandleIngestBatch, Answer, bufferVars
  <2>2. QED
    BY <2>1, AnswerKeepsHttpInv
<1>2. CASE NewEvent(r)
  BY <1>2, NewEventKeepsHttpInv
<1>3. CASE XAddReplied(r) \/ XAddReplyLost(r)
  BY <1>3, XAddKeepsHttpInv
<1>4. CASE PublishFails(r) \/ PublishTimesOut(r) \/ CutOff(r)
  <2>1. /\ status[r] = "busy" /\ cur' = [cur EXCEPT ![r] = NoEvent]
        /\ UNCHANGED <<stream, ids, origin>>
        /\ \E code \in {"500", "lost", "cut"} : Become(r, code)
    BY <1>4 DEF PublishFails, PublishTimesOut, CutOff, Answer, bufferVars
  <2>2. QED
    BY <2>1, AnswerKeepsHttpInv
<1>5. CASE Accept(r)
  <2>1. /\ status[r] = "busy" /\ cur' = cur /\ UNCHANGED <<stream, ids, origin>>
        /\ \E code \in {"202", "lost"} : Become(r, code)
        /\ Len(ids[r]) = Len(Items(r))
    BY <1>5 DEF Accept, Answer, bufferVars
  <2>2. cur[r] = NoEvent
    BY <2>1 DEF HttpInv, HttpTypes, CurIsNext
  <2>3. QED
    BY <2>1, <2>2, AnswerKeepsHttpInv
<1>6. QED
  BY <1>1, <1>2, <1>3, <1>4, <1>5 DEF Serve

-----------------------------------------------------------------------------
(* The stream, too, keeps its type: requests only add entries to it. *)
IngestionInv == BufferTypeOK /\ HttpInv

(* The invariant holds initially. *)
LEMMA InitIngestionInv == IngestionInit => IngestionInv
BY InitHttpInv, BufferInitType DEF IngestionInit, IngestionInv

(* The invariant is kept by every request and by every other step. *)
LEMMA NextIngestionInv == IngestionInv /\ [IngestionNext]_ingestionVars => IngestionInv'
<1> SUFFICES ASSUME IngestionInv, [IngestionNext]_ingestionVars PROVE IngestionInv'
  OBVIOUS
<1>1. CASE IngestionNext
  <2>1. HttpInv'
    BY <1>1, NextHttpInv DEF IngestionInv
  <2>2. (\E e \in Event : PublishRaw(e)) \/ UNCHANGED bufferVars
    <3>1. \A r \in Request : cur[r] # NoEvent => cur[r] \in Event
      BY DEF IngestionInv, HttpInv, HttpTypes
    <3>2. QED
      BY <1>1, <3>1 DEF IngestionNext, Serve, HandleIngest, HandleIngestBatch, NewEvent,
                        XAddReplied, XAddReplyLost, PublishFails, PublishTimesOut, Accept, CutOff
  <2>3. BufferTypeOK'
    BY <2>2, PublishRawType DEF IngestionInv, bufferVars, BufferTypeOK
  <2>4. QED
    BY <2>1, <2>3 DEF IngestionInv
<1>2. CASE UNCHANGED ingestionVars
  <2>1. HttpInv'
    BY <1>2, HttpFrame DEF IngestionInv, ingestionVars, bufferVars
  <2>2. BufferTypeOK'
    BY <1>2 DEF IngestionInv, ingestionVars, bufferVars, BufferTypeOK
  <2>3. QED
    BY <2>1, <2>2 DEF IngestionInv
<1>3. QED
  BY <1>1, <1>2

(* What the invariant says about answers and about the stream. *)
LEMMA HttpInvImplies ==
    ASSUME HttpInv
    PROVE  AcceptedIsBuffered /\ RejectedBuffersNothing /\ OneEventIdPerPayload
<1> USE DEF HttpInv
<1>1. \A j \in 1..Len(stream) : stream[j] \in Event
  BY DEF HttpTypes
<1>2. \A j \in 1..Len(stream) :
         \E q \in Request, k \in Nat \ {0} : origin[stream[j]] = <<q, k>>
  <2> SUFFICES ASSUME NEW j \in 1..Len(stream)
               PROVE  \E q \in Request, k \in Nat \ {0} : origin[stream[j]] = <<q, k>>
    OBVIOUS
  <2>1. origin[stream[j]] \in Request \X (Nat \ {0})
    BY <1>1 DEF HttpTypes, StreamHasOrigin
  <2>2. QED
    BY <2>1
<1>3. AcceptedIsBuffered
  <2> SUFFICES ASSUME NEW r \in Request, status[r] = "202"
               PROVE  /\ Len(ids[r]) = Len(Items(r))
                      /\ \A i \in 1..Len(ids[r]) :
                            origin[ids[r][i]] = <<r, i>> /\ Buffered(ids[r][i])
                      /\ \A j \in 1..Len(stream) : origin[stream[j]][1] = r =>
                            \E i \in 1..Len(ids[r]) : ids[r][i] = stream[j]
    BY DEF AcceptedIsBuffered
  <2>1. ASSUME NEW j \in 1..Len(stream), origin[stream[j]][1] = r
        PROVE  \E i \in 1..Len(ids[r]) : ids[r][i] = stream[j]
    <3>1. PICK k \in Nat \ {0} : origin[stream[j]] = <<r, k>>
      <4>1. PICK q \in Request, k \in Nat \ {0} : origin[stream[j]] = <<q, k>>
        BY <1>2
      <4>2. q = r
        BY <2>1, <4>1
      <4>3. QED
        BY <4>1, <4>2
    <3>2. cur[r] # stream[j]
      BY <1>1, IngestionAssumption DEF CurIsNext
    <3>3. k \in 1..Len(ids[r]) /\ ids[r][k] = stream[j]
      BY <1>1, <3>1, <3>2 DEF OriginIsKnown
    <3>4. QED
      BY <3>3
  <2>2. QED
    BY <2>1 DEF AcceptedIsComplete, IdsAreBuffered
<1>4. RejectedBuffersNothing
  <2> SUFFICES ASSUME NEW r \in Request, NEW j \in 1..Len(stream), status[r] = "400",
                      origin[stream[j]][1] = r
               PROVE  FALSE
    BY DEF RejectedBuffersNothing
  <2>1. PICK k \in Nat \ {0} : origin[stream[j]] = <<r, k>>
    <3>1. PICK q \in Request, k \in Nat \ {0} : origin[stream[j]] = <<q, k>>
      BY <1>2
    <3>2. q = r
      BY <3>1
    <3>3. QED
      BY <3>1, <3>2
  <2>2. QED
    BY <1>1, <2>1 DEF OriginIsKnown
<1>5. OneEventIdPerPayload
  BY <1>1 DEF OneEventIdPerPayload, OriginsDiffer, StreamHasOrigin
<1>6. QED
  BY <1>3, <1>4, <1>5

(* The requests, their answers and the stream are always well typed. *)
THEOREM IngestionTypeCorrect == IngestionSpec => []IngestionTypeOK
<1>1. IngestionInv => IngestionTypeOK
  BY DEF IngestionInv, HttpInv, HttpTypes, IngestionTypeOK
<1>2. QED
  BY InitIngestionInv, NextIngestionInv, <1>1, PTL DEF IngestionSpec

(* 202 means: every payload is in the stream, under the event_id reported  *)
(* for it and no other, for every number of concurrent requests.           *)
THEOREM AcceptedBuffered == IngestionSpec => []AcceptedIsBuffered
<1>1. IngestionInv => AcceptedIsBuffered
  BY HttpInvImplies DEF IngestionInv
<1>2. QED
  BY InitIngestionInv, NextIngestionInv, <1>1, PTL DEF IngestionSpec

(* 400 means: nothing was buffered. *)
THEOREM RejectedNotBuffered == IngestionSpec => []RejectedBuffersNothing
<1>1. IngestionInv => RejectedBuffersNothing
  BY HttpInvImplies DEF IngestionInv
<1>2. QED
  BY InitIngestionInv, NextIngestionInv, <1>1, PTL DEF IngestionSpec

(* A payload has one event_id in the stream, however often it was sent. *)
THEOREM OneIdPerPayload == IngestionSpec => []OneEventIdPerPayload
<1>1. IngestionInv => OneEventIdPerPayload
  BY HttpInvImplies DEF IngestionInv
<1>2. QED
  BY InitIngestionInv, NextIngestionInv, <1>1, PTL DEF IngestionSpec

(* What IngestBatch has buffered when it fails or is cut off is a prefix   *)
(* of the batch, in order.                                                 *)
THEOREM BatchIsPrefix == IngestionSpec => []BatchPrefix
<1>1. IngestionInv => BatchPrefix
  BY DEF IngestionInv, HttpInv
<1>2. QED
  BY InitIngestionInv, NextIngestionInv, <1>1, PTL DEF IngestionSpec
=============================================================================
