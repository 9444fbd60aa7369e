--------------------------- MODULE OncePerWindow ---------------------------
(***************************************************************************)
(* What the idempotency store is there for, with no locks, markers, tasks  *)
(* or workers in sight: an event goes through the pipeline in passes, one  *)
(* at a time, each of which runs the pipeline once at most; after a pass   *)
(* that was completed the event rests until its window ends.  Only a pass  *)
(* that failed or was lost is followed by another one in the same window.  *)
(***************************************************************************)
CONSTANTS
    Event,
    Poison      \* the events the pipeline fails on

VARIABLES
    state,      \* of an event: "free", "busy" (a pass has begun), "ran" (the
                \* pipeline has completed in it) or "done"
    processed   \* events the pipeline has completed for

vars == <<state, processed>>

Init ==
    /\ state = [e \in Event |-> "free"]
    /\ processed = {}

Begin(e) ==
    /\ state[e] = "free"
    /\ state' = [state EXCEPT ![e] = "busy"]
    /\ UNCHANGED processed

Run(e) ==
    /\ state[e] = "busy"
    /\ e \notin Poison
    /\ state' = [state EXCEPT ![e] = "ran"]
    /\ processed' = processed \cup {e}

Complete(e) ==
    /\ state[e] = "ran"
    /\ state' = [state EXCEPT ![e] = "done"]
    /\ UNCHANGED processed

Fail(e) ==
    /\ state[e] = "busy"
    /\ e \in Poison
    /\ state' = [state EXCEPT ![e] = "free"]
    /\ UNCHANGED processed

(* A worker dies, or windows end: some events become free. *)
Free(some) ==
    /\ state' = [e \in Event |-> IF e \in some THEN "free" ELSE state[e]]
    /\ UNCHANGED processed

Lose == \E some \in SUBSET {e \in Event : state[e] \in {"busy", "ran"}} : Free(some)

Expire == \E some \in SUBSET {e \in Event : state[e] = "done"} : Free(some)

Next ==
    \/ \E e \in Event : Begin(e) \/ Run(e) \/ Complete(e) \/ Fail(e)
    \/ Lose
    \/ Expire

Spec == Init /\ [][Next]_vars
=============================================================================
