------------------------------ MODULE Delivery ------------------------------
(***************************************************************************)
(* What the workers rely on when they process a message, with no stages in *)
(* sight: whether the pipeline fails is the event's own doing, the same at *)
(* every delivery, and a message is settled only when it has not failed.   *)
(***************************************************************************)
CONSTANTS
    Event,
    Fails(_)    \* does the pipeline fail on an event?

VARIABLES
    event,      \* the message's event
    at,         \* "running", "completed", "failed" or "over"
    fate        \* of the message: "open", "pending" or "acked"

vars == <<event, at, fate>>

Init ==
    /\ event \in Event
    /\ at = "running"
    /\ fate = "open"

Complete ==
    /\ at = "running"
    /\ ~Fails(event)
    /\ at' = "completed"
    /\ UNCHANGED <<event, fate>>

Fail ==
    /\ at = "running"
    /\ Fails(event)
    /\ at' = "failed"
    /\ UNCHANGED <<event, fate>>

Settle ==
    /\ at = "completed"
    /\ at' = "over"
    /\ fate' = "acked"
    /\ UNCHANGED event

Leave ==
    /\ at \in {"completed", "failed"}
    /\ at' = "over"
    /\ fate' = "pending"
    /\ UNCHANGED event

Redeliver ==
    /\ at = "over"
    /\ fate = "pending"
    /\ at' = "running"
    /\ fate' = "open"
    /\ UNCHANGED event

Next == Complete \/ Fail \/ Settle \/ Leave \/ Redeliver

Spec == Init /\ [][Next]_vars
=============================================================================
