------------------------------ MODULE EndToEnd ------------------------------
(***************************************************************************)
(* The whole system: the ingestion service and the workers, which share    *)
(* nothing but the stream.  A worker run on its own has events published   *)
(* by an anonymous Publish; here they come from HTTP requests.             *)
(***************************************************************************)
EXTENDS Worker, Ingestion

workerVars == <<storeVars, loopVars, pc, age, archived, processed>>

systemVars == <<vars, httpVars>>

SystemInit == Init /\ IngestionInit

HttpStep == IngestionNext /\ UNCHANGED workerVars

SystemNext == HttpStep \/ (WorkerStep /\ UNCHANGED httpVars)

SystemSpec == SystemInit /\ [][SystemNext]_systemVars

(* The handlers run, the workers run, time passes. *)
SystemFairSpec == SystemSpec /\ Fairness /\ IngestionFairness

-----------------------------------------------------------------------------
(* What was promised to a client stays accounted for: an event whose       *)
(* event_id was returned with 202 has a message in the stream that has not *)
(* been delivered, is pending, or has been processed, or that nobody will  *)
(* ever get because it was there before the group or was removed by MAXLEN.*)
AcceptedIsAccounted ==
    \A r \in Request : status[r] = "202" =>
        \A i \in 1..Len(ids[r]) : \E m \in 1..Len(stream) :
            /\ stream[m] = ids[r][i]
            /\ \/ lastDelivered < m
               \/ m \in pel
               \/ ids[r][i] \in processed
               \/ m <= groupFrom
               \/ m <= trimmed

(* A payload a client has sent once goes through the pipeline in one task  *)
(* at a time, however often its XADD was resent, its message redelivered   *)
(* or its worker lost: the service puts all copies under one event_id, and *)
(* the workers' lock is on the event_id.                                   *)
OnePassPerPayload ==
    \A c, d \in Consumer : \A m, n \in Msgs :
        /\ pc[c][m] \in Holding
        /\ pc[d][n] \in Holding
        /\ origin[EventOf(m)] = origin[EventOf(n)]
        => c = d /\ m = n

(* An accepted event the pipeline can handle is processed in the end,      *)
(* whichever workers crash, if the consumer group was there when it was    *)
(* buffered.                                                               *)
AcceptedIsProcessed ==
    \A r \in Request, e \in Event \ Poison :
        (/\ status[r] = "202" /\ group
         /\ \E i \in 1..Len(ids[r]) : ids[r][i] = e
         /\ \E m \in 1..Len(stream) : stream[m] = e /\ groupFrom < m)
        ~> e \in processed
=============================================================================
