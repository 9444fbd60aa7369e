----------------------------- MODULE RawEvents -----------------------------
(***************************************************************************)
(* The raw events of LogMorph (models.RawEvent): an event is its event_id; *)
(* its payload never changes once the ingestion service has built it.      *)
(***************************************************************************)
CONSTANTS
    Event,      \* the events the ingestion service may buffer (their event_ids)
    Poison      \* the events on which the pipeline returns an error, always:
                \* detection, parsing and normalisation are functions of the event

ASSUME PoisonAssumption == Poison \subseteq Event
=============================================================================
