------------------------------ MODULE Pipeline ------------------------------
(***************************************************************************)
(* One event on its way through ProcessSingleEvent (worker.go): detection, *)
(* drift analysis, parsing, normalisation, validation, and what            *)
(* processSingleMessageIdempotent does with the outcome.  The worker's     *)
(* context may be cancelled between any two stages.  A message that is not *)
(* acknowledged is delivered again later, to this or to another worker.    *)
(***************************************************************************)
EXTENDS Parsers

CONSTANTS
    RawEvent,       \* the models.RawEvents to look at
    MaxDeliveries   \* bound on how often the message is delivered

ASSUME PipelineAssumption ==
    /\ MaxDeliveries \in Nat \ {0}
    /\ \A e \in RawEvent : WellRead(e.text)

VARIABLES
    raw,        \* the event: event_id, format (the caller's hint), source, text
                \* (its payload); its received_at is never looked at
    cancelled,  \* is the context of the worker at hand cancelled?
    clock,      \* time.Now; a delivery is shorter than the clock's unit
    stage,      \* the next stage
    detection,  \* the results of the stages, {} before them
    drift,      \* "" before the analysis, and after an analysis that failed
    parsed,
    universal,
    verdict,    \* "none" so far, "error", "valid" or "invalid"
    fate,       \* of the message: "open", "pending" or "acked"
    past        \* the times and results of earlier deliveries (history)

vars == <<raw, cancelled, clock, stage, detection, drift, parsed, universal,
          verdict, fate, past>>

resultVars == <<detection, drift, parsed, universal, verdict>>

Stages == {"detect", "analyze", "parse", "normalize", "validate", "handle", "end"}

\* received_at, read off the clock by the ingestion service.
ReceivedAt == 1

TypeOK ==
    /\ cancelled \in BOOLEAN
    /\ clock \in (ReceivedAt + 1)..(ReceivedAt + MaxDeliveries)
    /\ stage \in Stages
    /\ \A d \in detection : d \in [format : KnownFormats \cup {FormatUnknown}, confidence : 0..100]
    /\ drift \in {"", "stable", "unknown"}
    /\ verdict \in {"none", "error", "valid", "invalid"}
    /\ fate \in {"open", "pending", "acked"}

Init ==
    /\ raw \in RawEvent
    /\ cancelled = FALSE
    /\ clock = ReceivedAt + 1
    /\ stage = "detect"
    /\ detection = {}
    /\ drift = ""
    /\ parsed = {}
    /\ universal = {}
    /\ verdict = "none"
    /\ fate = "open"
    /\ past = {}

-----------------------------------------------------------------------------
(* Faulty variant: the event carries no schema version. *)
NormalizeNoVersion(event, p, d) ==
    [event_id |-> event.event_id,
     schema_version |-> "",
     timestamp |-> p.timestamp,
     source |-> p.source,
     event |-> p.event,
     network |-> p.network,
     user |-> p.user,
     format |-> d.format,
     message |-> event.text]

(* Normalizer.Normalize.  The parsers always give a time, so received_at   *)
(* is never used.  metadata.ingested_at, the time of this call, is left    *)
(* out; so is what uuid.New makes for an event without an event_id, which  *)
(* the ingestion service never buffers: it is "generated" here.            *)
Normalize(event, p, d) ==
    [event_id |-> Latest(<<event.event_id>>, "", "generated"),
     schema_version |-> "1.0",
     timestamp |-> p.timestamp,
     source |-> p.source,
     event |-> p.event,
     network |-> p.network,
     user |-> p.user,
     format |-> Latest(<<event.format, d.format>>, "", FormatUnknown),
     message |-> event.text]

MaxPort == 65535

PortOK(port) == port \subseteq 0..MaxPort

(* Validate, with the schema in universal_event.schema.json: the fields    *)
(* that break it.  The other constraints are the types of the Go structs.  *)
SchemaErrors(u) ==
    (IF u.event_id = "" THEN {"event_id"} ELSE {})
    \cup (IF u.schema_version = "1.0" THEN {} ELSE {"schema_version"})
    \cup (IF PortOK(u.network.src.port) THEN {} ELSE {"src_port"})
    \cup (IF PortOK(u.network.dst.port) THEN {} ELSE {"dst_port"})

-----------------------------------------------------------------------------
DetectStep ==
    /\ stage = "detect"
    /\ stage' = "analyze"
    /\ detection' = {Detect(raw.text, raw.format)}
    /\ UNCHANGED <<raw, cancelled, clock, drift, parsed, universal, verdict, fate, past>>

(* An error of the analysis is logged, no more. *)
AnalyzeStep ==
    /\ stage = "analyze"
    /\ stage' = "parse"
    /\ drift' = Analyze(cancelled, The(detection))
    /\ UNCHANGED <<raw, cancelled, clock, detection, parsed, universal, verdict, fate, past>>

ParseStep ==
    /\ stage = "parse"
    /\ parsed' = EngineParse(raw, The(detection), clock)
    /\ \/ parsed' = {} /\ stage' = "handle" /\ verdict' = "error"
       \/ parsed' # {} /\ stage' = "normalize" /\ UNCHANGED verdict
    /\ UNCHANGED <<raw, cancelled, clock, detection, drift, universal, fate, past>>

(* Faulty variant: the user is trusted only if the drift status is stable, *)
(* which it is not when the analysis has failed.                           *)
NormalizeStepTrustsDrift ==
    /\ stage = "normalize"
    /\ stage' = "validate"
    /\ universal' = {[Normalize(raw, The(parsed), The(detection)) EXCEPT
                        !.user = IF drift = "stable" THEN @ ELSE {}]}
    /\ UNCHANGED <<raw, cancelled, clock, detection, drift, parsed, verdict, fate, past>>

NormalizeStep ==
    /\ stage = "normalize"
    /\ stage' = "validate"
    /\ universal' = {Normalize(raw, The(parsed), The(detection))}
    /\ UNCHANGED <<raw, cancelled, clock, detection, drift, parsed, verdict, fate, past>>

ValidateStep ==
    /\ stage = "validate"
    /\ stage' = "handle"
    /\ verdict' = IF SchemaErrors(The(universal)) = {} THEN "valid" ELSE "invalid"
    /\ UNCHANGED <<raw, cancelled, clock, detection, drift, parsed, universal, fate, past>>

(* processSingleMessageIdempotent: after an error the message stays        *)
(* pending; otherwise it is marked and acknowledged, valid or not, and the *)
(* result is dropped.  The acknowledgement may fail.                       *)
HandleStep ==
    /\ stage = "handle"
    /\ stage' = "end"
    /\ \/ verdict # "error" /\ ~cancelled /\ fate' = "acked"
       \/ fate' = "pending"
    /\ UNCHANGED <<raw, cancelled, clock, resultVars, past>>

Cancel ==
    /\ stage # "end"
    /\ ~cancelled
    /\ cancelled' = TRUE
    /\ UNCHANGED <<raw, clock, stage, resultVars, fate, past>>

(* The message is claimed again, or its marker has expired. *)
Redeliver ==
    /\ stage = "end"
    /\ fate = "pending"
    /\ clock < ReceivedAt + MaxDeliveries
    /\ clock' = clock + 1
    /\ past' = past \cup {[at |-> clock, verdict |-> verdict, universal |-> universal]}
    /\ cancelled' = FALSE
    /\ stage' = "detect"
    /\ detection' = {}
    /\ drift' = ""
    /\ parsed' = {}
    /\ universal' = {}
    /\ verdict' = "none"
    /\ fate' = "open"
    /\ UNCHANGED raw

Next ==
    \/ DetectStep
    \/ AnalyzeStep
    \/ ParseStep
    \/ NormalizeStep
    \/ ValidateStep
    \/ HandleStep
    \/ Cancel
    \/ Redeliver

Spec == Init /\ [][Next]_vars

-----------------------------------------------------------------------------
(* What the text says, by the place where a format may say it: the         *)
(* addresses and port numbers of an endpoint, and the severities.          *)

At(ip, port) == [ip |-> ip, port |-> port]

JSONEnds(d, end) ==
    LET n == d.network
        given == IF end = "src"
                 THEN {At(d.src_ip, d.src_port), At(d.source_ip, d.source_port),
                       At(n.src_ip, n.src_port), n.source}
                 ELSE {At(d.dst_ip, d.dst_port), At(d.destination_ip, d.destination_port),
                       At(n.dst_ip, n.dst_port), n.destination}
    IN  {At(e.ip, parsePort(e.port)) : e \in given}

LineEnds(kv, end) ==
    LET values(key) == {kv[i].val : i \in {k \in DOMAIN kv : Upper(kv[k].key) = key}}
    IN  {splitIPAndPort(v) : v \in values(IF end = "src" THEN "SRC" ELSE "DST")}
        \cup {At("", Atoi(v)) : v \in values(IF end = "src" THEN "SPT" ELSE "DPT")}

ColumnEnds(t, end) ==
    LET cells(name) == {Trim(t.rows[1][i]) : i \in {k \in DOMAIN t.header : Clean(t.header[k]) = name}}
    IN  {At(c, {}) : c \in cells(IF end = "src" THEN "src_ip" ELSE "dst_ip")}
        \cup {At("", Atoi(c)) : c \in cells(IF end = "src" THEN "src_port" ELSE "dst_port")}

GivenEnds(text, format, end) ==
    CASE format = FormatJSON -> UNION {JSONEnds(j.doc, end) : j \in text.json}
      [] format = FormatSyslog -> LineEnds(text.line.kv, end)
      [] format = FormatCSV -> UNION {ColumnEnds(t, end) : t \in text.csv}

GivenPorts(text, format, end) == UNION {e.port : e \in GivenEnds(text, format, end)}

GivenIPs(text, format, end) == {e.ip : e \in GivenEnds(text, format, end)} \ {""}

StatedSeverities(text, format) ==
    (CASE format = FormatJSON -> UNION {{j.doc.severity, j.doc.firewall.severity} : j \in text.json}
       [] format = FormatSyslog -> {}
       [] format = FormatCSV -> {Col(t, "severity") : t \in text.csv}) \ {""}

\* The actions a format's parser takes for a refused connection.
RefusedActions(format) == IF format = FormatJSON THEN {"deny", "block", "drop"} ELSE {"deny"}

-----------------------------------------------------------------------------
(* Properties *)

(* However often an event is delivered, and whether or not its worker is   *)
(* cancelled on the way, the pipeline comes to the same verdict and the    *)
(* same universal event: a retry repeats, it does not contradict.  What    *)
(* may differ is metadata.ingested_at, which is not modelled; a timestamp  *)
(* that the text does not give, because the parsers fall back to time.Now  *)
(* and not to received_at; and a syslog time, which has no year, between   *)
(* deliveries of two years.                                                *)
RetryAgrees ==
    \A p \in past :
        stage = "end" =>
            /\ verdict = p.verdict
            /\ \A u \in universal, v \in p.universal :
                  /\ [u EXCEPT !.timestamp = v.timestamp] = v
                  /\ u.format # FormatSyslog \/ Year(clock) = Year(p.at) =>
                        /\ u.timestamp.written <=> v.timestamp.written
                        /\ u.timestamp.written => u.timestamp = v.timestamp

(* An event that nobody gave a format for is poison only if its text bears *)
(* no format's marks, or is JSON but not a log object: detection never     *)
(* sends a CSV or syslog text to a parser that then refuses it.            *)
NoNeedlessPoison ==
    verdict = "error" /\ Clean(raw.format) \notin KnownFormats =>
        \/ \E j \in raw.text.json : j.bracketed /\ ~j.decodes
        \/ /\ ~LooksLikeJSON(raw.text)
           /\ ~LooksLikeCSV(raw.text)
           /\ raw.text.blank \/ ~LooksLikeSyslog(raw.text)

(* Through every fallback and override of the parsers, a universal event   *)
(* reports an address or a port for an endpoint only if the text gives it  *)
(* for that endpoint; and what a JSON text gives in one of its places is   *)
(* never lost because another place is empty or unreadable.                *)
EndpointsAreGiven ==
    \A u \in universal, end \in {"src", "dst"} :
        LET ips == GivenIPs(raw.text, u.format, end)
            ports == GivenPorts(raw.text, u.format, end)
        IN  /\ u.network[end].port \subseteq ports
            /\ u.network[end].ip \in ips \cup {""}
            /\ u.format = FormatJSON /\ ports # {} => u.network[end].port # {}
            /\ u.format = FormatJSON /\ ips # {} => u.network[end].ip # ""

(* Validation rejects an event only for a port number outside 0..65535     *)
(* that the text itself gives, never for something the pipeline has put    *)
(* there or left out; and it lets no such port through.  The number a text *)
(* gives is the one parsePort reads, which cuts a fraction off: 65535.5 is *)
(* a port, 65536 is not.                                                   *)
InvalidByPortOnly ==
    /\ verdict = "invalid" =>
          \E u \in universal, end \in {"src", "dst"} :
              ~PortOK(GivenPorts(raw.text, u.format, end))
    /\ verdict = "valid" =>
          \A u \in universal, end \in {"src", "dst"} : PortOK(u.network[end].port)

(* The severity is one the text states, in whichever place; if it states   *)
(* none, it follows from the action that the event reports after all       *)
(* overrides: "high" for what the format's parser takes for a refused      *)
(* connection, "info" for everything else.  The formats differ: "block"    *)
(* and "drop" are "high" in JSON alone.                                    *)
SeverityFitsAction ==
    \A u \in universal :
        LET stated == StatedSeverities(raw.text, u.format)
        IN  IF stated # {} THEN u.event.severity \in stated
            ELSE u.event.severity =
                    IF u.event.action \in RefusedActions(u.format) THEN "high" ELSE "info"

(* Is an event poison, as seen when it is received? *)
Unparsable(e) == EngineParse(e, Detect(e.text, e.format), ReceivedAt) = {}

(* How far a delivery is, for those who do not know the stages. *)
Progress ==
    IF stage = "end" THEN "over"
    ELSE IF stage # "handle" THEN "running"
    ELSE IF verdict = "error" THEN "failed" ELSE "completed"

(* The stages implement what the workers take for granted (Poison in       *)
(* module Worker): an event's parsing fails at every delivery or at none,  *)
(* in whichever year, with whatever status of its drift analysis and       *)
(* context; it is over with one outcome; and a failed delivery is never    *)
(* acknowledged ("Do NOT ACK", worker.go).                                 *)
Contract == INSTANCE Delivery WITH
    Event <- RawEvent, Fails <- Unparsable, event <- raw, fate <- fate,
    at <- Progress

KeepsContract == Contract!Spec
=============================================================================
