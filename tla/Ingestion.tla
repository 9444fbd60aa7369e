----------------------------- MODULE Ingestion -----------------------------
(***************************************************************************)
(* The ingestion service (cmd/ingestion, internal/ingestion): concurrent   *)
(* HTTP requests, each with one log payload (POST /ingest) or a list of    *)
(* them (POST /ingest/batch), are checked, given event_ids and buffered in *)
(* the stream one XADD at a time.  The Redis client resends an XADD whose  *)
(* reply is lost; the handler's timeout may strike before or after an XADD *)
(* has taken effect; an answer may come too late for the connection; at    *)
(* shutdown requests in flight may be cut off.                             *)
(***************************************************************************)
EXTENDS RawBuffer

CONSTANTS
    Single,     \* requests to POST /ingest
    Batch,      \* requests to POST /ingest/batch
    Body,       \* Body[r].json: does the body decode?  Body[r].items: the
                \* payloads, each "text" or "" (exactly one for a Single)
    NoEvent     \* "no event_id"

Request == Single \cup Batch

ASSUME IngestionAssumption ==
    /\ Single \cap Batch = {}
    /\ NoEvent \notin Event
    /\ \A r \in Request : /\ Body[r].json \in BOOLEAN
                          /\ Body[r].items \in Seq({"text", ""})
    /\ \A r \in Single : Len(Body[r].items) = 1

VARIABLES
    status,     \* of a request: "new", "busy", the HTTP status, "lost" (its
                \* answer has not reached the client) or "cut" (it got none)
    ids,        \* the event_ids a request has got an XADD reply for, in order
    cur,        \* the event_id whose XADD is in flight, or NoEvent
    origin      \* origin[e]: the request and the item that e was made for

httpVars == <<status, ids, cur, origin>>
ingestionVars == <<bufferVars, httpVars>>

Items(r) == Body[r].items

\* Event_ids are UUIDs: never used before.
Fresh == {e \in Event : origin[e] = <<>>}

Buffered(e) == \E i \in 1..Len(stream) : stream[i] = e

IngestionTypeOK ==
    /\ BufferTypeOK
    /\ status \in [Request -> {"new", "busy", "202", "400", "500", "lost", "cut"}]
    /\ ids \in [Request -> Seq(Event)]
    /\ cur \in [Request -> Event \cup {NoEvent}]
    /\ origin \in [Event -> {<<>>} \cup (Request \X (Nat \ {0}))]

IngestionInit ==
    /\ BufferInit
    /\ status = [r \in Request |-> "new"]
    /\ ids = [r \in Request |-> <<>>]
    /\ cur = [r \in Request |-> NoEvent]
    /\ origin = [e \in Event |-> <<>>]

-----------------------------------------------------------------------------
Become(r, s) == status' = [status EXCEPT ![r] = s]

(* The handler writes its answer.  The client does not get it if it has    *)
(* gone, or if the server's WriteTimeout, which runs from the end of the   *)
(* request's headers, is over.                                             *)
Answer(r, code) == \E s \in {code, "lost"} : Become(r, s)

(* The checks of HandleIngest, before anything is buffered. *)
HandleIngest(r) ==
    /\ r \in Single
    /\ status[r] = "new"
    /\ \/ /\ Body[r].json /\ Items(r)[1] # ""
          /\ Become(r, "busy")
       \/ /\ ~Body[r].json \/ Items(r)[1] = ""
          /\ Answer(r, "400")
    /\ UNCHANGED <<bufferVars, ids, cur, origin>>

(* Faulty variant: payloads are checked when their turn comes. *)
HandleIngestBatchLate(r) ==
    /\ r \in Batch
    /\ \/ status[r] = "new" /\ Become(r, "busy")
       \/ /\ status[r] = "busy"
          /\ \E i \in 1..Len(Items(r)) : i = Len(ids[r]) + 1 /\ Items(r)[i] = ""
          /\ Answer(r, "400")
    /\ UNCHANGED <<bufferVars, ids, cur, origin>>

(* The checks of HandleIngestBatch, which IngestBatch repeats. *)
HandleIngestBatch(r) ==
    /\ r \in Batch
    /\ status[r] = "new"
    /\ \/ /\ Body[r].json /\ Items(r) # <<>>
          /\ \A i \in 1..Len(Items(r)) : Items(r)[i] # ""
          /\ Become(r, "busy")
       \/ /\ \/ ~Body[r].json
             \/ Items(r) = <<>>
             \/ \E i \in 1..Len(Items(r)) : Items(r)[i] = ""
          /\ Answer(r, "400")
    /\ UNCHANGED <<bufferVars, ids, cur, origin>>

(* Faulty variant: the batch is worked off from its end. *)
NewEventReversed(r) ==
    /\ status[r] = "busy"
    /\ cur[r] = NoEvent
    /\ Len(ids[r]) < Len(Items(r))
    /\ \E e \in Fresh :
         /\ cur' = [cur EXCEPT ![r] = e]
         /\ origin' = [origin EXCEPT ![e] = <<r, Len(Items(r)) - Len(ids[r])>>]
    /\ UNCHANGED <<bufferVars, status, ids>>

(* Ingest, and each round of IngestBatch's loop: a new event_id, then      *)
(* PublishRaw, whose XADD may be sent several times.                       *)
NewEvent(r) ==
    /\ status[r] = "busy"
    /\ cur[r] = NoEvent
    /\ Len(ids[r]) < Len(Items(r))
    /\ \E e \in Fresh :
         /\ cur' = [cur EXCEPT ![r] = e]
         /\ origin' = [origin EXCEPT ![e] = <<r, Len(ids[r]) + 1>>]
    /\ UNCHANGED <<bufferVars, status, ids>>

XAddReplied(r) ==
    /\ status[r] = "busy"
    /\ cur[r] # NoEvent
    /\ PublishRaw(cur[r])
    /\ ids' = [ids EXCEPT ![r] = Append(@, cur[r])]
    /\ cur' = [cur EXCEPT ![r] = NoEvent]
    /\ UNCHANGED <<status, origin>>

(* XADD took effect but its reply is lost; it will be resent or time out. *)
XAddReplyLost(r) ==
    /\ status[r] = "busy"
    /\ cur[r] # NoEvent
    /\ PublishRaw(cur[r])
    /\ UNCHANGED httpVars

(* Faulty variants: the error is ignored; it is ignored, and the event_id  *)
(* that comes with an error, "", is reported; the payload is tried again,  *)
(* as a new event.                                                         *)
PublishFailsIgnored(r) ==
    /\ status[r] = "busy"
    /\ cur[r] # NoEvent
    /\ ids' = [ids EXCEPT ![r] = Append(@, cur[r])]
    /\ cur' = [cur EXCEPT ![r] = NoEvent]
    /\ UNCHANGED <<bufferVars, status, origin>>

PublishFailsEmptyId(r) ==
    /\ status[r] = "busy"
    /\ cur[r] # NoEvent
    /\ ids' = [ids EXCEPT ![r] = Append(@, NoEvent)]
    /\ cur' = [cur EXCEPT ![r] = NoEvent]
    /\ UNCHANGED <<bufferVars, status, origin>>

PublishFailsContinues(r) ==
    /\ status[r] = "busy"
    /\ cur[r] # NoEvent
    /\ cur' = [cur EXCEPT ![r] = NoEvent]
    /\ UNCHANGED <<bufferVars, status, ids, origin>>

(* PublishRaw returns an error: Redis is unreachable, or the client's      *)
(* disconnection has cancelled the context.                                *)
PublishFails(r) ==
    /\ status[r] = "busy"
    /\ cur[r] # NoEvent
    /\ cur' = [cur EXCEPT ![r] = NoEvent]
    /\ Answer(r, "500")
    /\ UNCHANGED <<bufferVars, ids, origin>>

(* Faulty variant: the context is looked at between two payloads only. *)
PublishTimesOutBetween(r) ==
    /\ status[r] = "busy"
    /\ cur[r] = NoEvent
    /\ Len(ids[r]) < Len(Items(r))
    /\ Answer(r, "500")
    /\ UNCHANGED <<bufferVars, ids, cur, origin>>

(* PublishRaw returns because the handler's context has timed out.  A      *)
(* batch's timeout of 10 s starts when the body has been read, after the   *)
(* 10 s of WriteTimeout have: the 500 cannot be written any more.          *)
PublishTimesOut(r) ==
    /\ status[r] = "busy"
    /\ cur[r] # NoEvent
    /\ cur' = [cur EXCEPT ![r] = NoEvent]
    /\ \/ r \in Single /\ Answer(r, "500")
       \/ r \in Batch /\ Become(r, "lost")
    /\ UNCHANGED <<bufferVars, ids, origin>>

Accept(r) ==
    /\ status[r] = "busy"
    /\ Len(ids[r]) = Len(Items(r))
    /\ Answer(r, "202")
    /\ UNCHANGED <<bufferVars, ids, cur, origin>>

(* Shutdown gives requests 5 s; main then exits under those still busy. *)
CutOff(r) ==
    /\ status[r] = "busy"
    /\ cur' = [cur EXCEPT ![r] = NoEvent]
    /\ Become(r, "cut")
    /\ UNCHANGED <<bufferVars, ids, origin>>

-----------------------------------------------------------------------------
Serve(r) ==
    \/ HandleIngest(r)
    \/ HandleIngestBatch(r)
    \/ NewEvent(r)
    \/ XAddReplied(r)
    \/ PublishFails(r)
    \/ PublishTimesOut(r)
    \/ Accept(r)

IngestionNext == \E r \in Request : Serve(r) \/ XAddReplyLost(r) \/ CutOff(r)

IngestionSpec == IngestionInit /\ [][IngestionNext]_ingestionVars

(* A handler's goroutine runs, and its context times out.  Redis need not  *)
(* answer, with a reply or with an error.                                  *)
IngestionFairness ==
    \A r \in Request :
        /\ WF_ingestionVars(HandleIngest(r) \/ HandleIngestBatch(r) \/ NewEvent(r) \/ Accept(r))
        /\ WF_ingestionVars(PublishTimesOut(r))

IngestionFairSpec == IngestionSpec /\ IngestionFairness

-----------------------------------------------------------------------------
(* A client that got 202 has been told an event_id for each of its         *)
(* payloads, in order, and each is in the stream under that event_id and   *)
(* no other: the event_ids in the answer are all the client needs to find  *)
(* its events again.                                                       *)
AcceptedIsBuffered ==
    \A r \in Request : status[r] = "202" =>
        /\ Len(ids[r]) = Len(Items(r))
        /\ \A i \in 1..Len(ids[r]) : origin[ids[r][i]] = <<r, i>> /\ Buffered(ids[r][i])
        /\ \A j \in 1..Len(stream) :
              origin[stream[j]][1] = r => \E i \in 1..Len(ids[r]) : ids[r][i] = stream[j]

(* A rejected request, in particular a batch with one empty payload among  *)
(* good ones, has put nothing in the stream.                               *)
RejectedBuffersNothing ==
    \A r \in Request, i \in 1..Len(stream) :
        status[r] = "400" => origin[stream[i]][1] # r

(* However often XADD is resent and however a request ends, a payload is   *)
(* buffered under a single event_id: the copies of a resent entry are      *)
(* duplicates the workers' idempotency checks can recognise.               *)
OneEventIdPerPayload ==
    \A i, j \in 1..Len(stream) :
        origin[stream[i]] = origin[stream[j]] => stream[i] = stream[j]

(* What a failed or cut-off batch leaves behind is a prefix of the batch:  *)
(* a payload is only buffered after every payload before it.               *)
BatchPrefix ==
    \A j \in 1..Len(stream) :
        LET r == origin[stream[j]][1]
            k == origin[stream[j]][2]
        IN  \A l \in 1..(k - 1) : \E i \in 1..(j - 1) : origin[stream[i]] = <<r, l>>

(* Every handler comes to its end though Redis may never answer: no        *)
(* request keeps its goroutine for ever, and the client has its answer or  *)
(* finds its connection closed.                                            *)
EveryHandlerReturns ==
    \A r \in Request : status[r] = "new" ~> status[r] \in {"202", "400", "500", "lost", "cut"}
=============================================================================
