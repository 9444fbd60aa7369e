---------------------------- MODULE AtLeastOnce ----------------------------
(***************************************************************************)
(* What the raw buffer and its workers promise together, with no workers,  *)
(* locks, timers or failures in sight: once the consumer group is open, a  *)
(* buffered message is delivered, stays pending while its event has not    *)
(* been processed, and is settled only after that.  Events are processed   *)
(* only while one of their messages is pending.  The exception is a buffer *)
(* with a limit, which may forget all but its MaxLen newest messages.      *)
(***************************************************************************)
EXTENDS Naturals, Sequences

CONSTANTS Event, MaxLen

VARIABLES
    buffered,   \* the messages, as the events they carry
    dropped,    \* how many of them the buffer has dropped, oldest first
    open,       \* is there a consumer group?
    from,       \* the last message before the group was opened
    upto,       \* the last message delivered
    pending,    \* delivered messages that are not settled
    processed   \* events that have been processed

vars == <<buffered, dropped, open, from, upto, pending, processed>>

Init ==
    /\ buffered = <<>>
    /\ dropped = 0
    /\ open = FALSE
    /\ from = 0
    /\ upto = 0
    /\ pending = {}
    /\ processed = {}

Buffer(e, drop) ==
    /\ drop > dropped => MaxLen > 0 /\ drop + MaxLen <= Len(buffered) + 1
    /\ buffered' = Append(buffered, e)
    /\ dropped' = drop
    /\ UNCHANGED <<open, from, upto, pending, processed>>

Open ==
    /\ ~open
    /\ open' = TRUE
    /\ from' = Len(buffered)
    /\ upto' = Len(buffered)
    /\ UNCHANGED <<buffered, dropped, pending, processed>>

Deliver(k) ==
    /\ open
    /\ upto' = k
    /\ pending' = pending \cup {m \in (upto + 1)..k : m > dropped}
    /\ UNCHANGED <<buffered, dropped, open, from, processed>>

Process(m) ==
    /\ m \in pending \/ m <= dropped
    /\ processed' = processed \cup {buffered[m]}
    /\ UNCHANGED <<buffered, dropped, open, from, upto, pending>>

Settle(m) ==
    /\ m \in pending
    /\ buffered[m] \in processed
    /\ pending' = pending \ {m}
    /\ UNCHANGED <<buffered, dropped, open, from, upto, processed>>

Forget(some) ==
    /\ pending' = pending \ some
    /\ UNCHANGED <<buffered, dropped, open, from, upto, processed>>

Next ==
    \/ \E e \in Event, drop \in dropped..(Len(buffered) + 1) : Buffer(e, drop)
    \/ Open
    \/ \E k \in (upto + 1)..Len(buffered) : Deliver(k)
    \/ \E m \in (from + 1)..upto : Process(m) \/ Settle(m)
    \/ \E some \in SUBSET {m \in pending : m <= dropped} : Forget(some)

Spec == Init /\ [][Next]_vars
=============================================================================
