--------------------------- MODULE PipelineProofs ---------------------------
(***************************************************************************)
(* What the pipeline does with an event is a function of the event and the *)
(* clock, for every event, every hint and whatever the standard library    *)
(* makes of its words.                                                     *)
(***************************************************************************)
EXTENDS Pipeline, TLAPS

(* What a pointer to x points to. *)
LEMMA TheOfSingleton == \A x : The({x}) = x
BY DEF The

-----------------------------------------------------------------------------
(* The outcome of a delivery at time t. *)
det == Detect(raw.text, raw.format)

ParsedAt(t) == EngineParse(raw, det, t)

UniversalAt(t) == IF ParsedAt(t) = {} THEN {} ELSE {Normalize(raw, The(ParsedAt(t)), det)}

VerdictAt(t) ==
    IF ParsedAt(t) = {} THEN "error"
    ELSE IF SchemaErrors(The(UniversalAt(t))) = {} THEN "valid" ELSE "invalid"

(* Detection finds a known format or none. *)
LEMMA DetectType == det \in [format : KnownFormats \cup {FormatUnknown}, confidence : 0..100]
<1>1. \A f \in KnownFormats \cup {FormatUnknown}, c \in 0..100 :
         Detected(f, c) \in [format : KnownFormats \cup {FormatUnknown}, confidence : 0..100]
  BY DEF Detected
<1>2. {FormatSyslog, FormatJSON, FormatCSV, FormatUnknown} \subseteq KnownFormats \cup {FormatUnknown}
  BY DEF KnownFormats
<1>3. QED
  BY <1>1, <1>2 DEF det, Detect

(* Every stage is determined by the event and the time of the delivery;    *)
(* the state of the context only shows in the drift status.                *)
StageInv ==
    /\ raw \in RawEvent
    /\ stage \in Stages
    /\ stage # "detect" => detection = {det}
    /\ stage \in {"normalize", "validate"} => parsed = ParsedAt(clock) /\ parsed # {}
    /\ stage \in {"detect", "analyze", "parse", "normalize"} => universal = {}
    /\ stage = "validate" => universal = UniversalAt(clock)
    /\ stage \notin {"handle", "end"} => verdict = "none"
    /\ stage \in {"handle", "end"} => verdict = VerdictAt(clock) /\ universal = UniversalAt(clock)
    /\ \A p \in past : \E t : p = [at |-> t, verdict |-> VerdictAt(t), universal |-> UniversalAt(t)]

(* A fresh delivery has no results. *)
LEMMA InitStageInv == Init => StageInv
BY DEF Init, StageInv, Stages

(* Every stage computes what the functions above say. *)
LEMMA NextStageInv == StageInv /\ [Next]_vars => StageInv'
<1> SUFFICES ASSUME StageInv, [Next]_vars PROVE StageInv'
  OBVIOUS
<1>a. raw' = raw
  BY DEF Next, DetectStep, AnalyzeStep, ParseStep, NormalizeStep, ValidateStep, HandleStep, Cancel,
         Redeliver, vars
<1>b. det' = det /\ \A t : /\ ParsedAt(t)' = ParsedAt(t)
                          /\ UniversalAt(t)' = UniversalAt(t)
                          /\ VerdictAt(t)' = VerdictAt(t)
  BY <1>a DEF det, ParsedAt, UniversalAt, VerdictAt
<1>1. CASE DetectStep
  BY <1>1, <1>a, <1>b DEF DetectStep, StageInv, Stages, det
<1>2. CASE AnalyzeStep
  BY <1>2, <1>a, <1>b DEF AnalyzeStep, StageInv, Stages
<1>3. CASE ParseStep
  <2>1. parsed' = ParsedAt(clock)
    BY <1>3, TheOfSingleton DEF ParseStep, StageInv, ParsedAt
  <2>2. CASE parsed' = {}
    <3>1. VerdictAt(clock) = "error" /\ UniversalAt(clock) = {}
      BY <2>1, <2>2 DEF VerdictAt, UniversalAt
    <3>2. QED
      BY <1>3, <1>a, <1>b, <2>2, <3>1 DEF ParseStep, StageInv, Stages
  <2>3. CASE parsed' # {}
    BY <1>3, <1>a, <1>b, <2>1, <2>3 DEF ParseStep, StageInv, Stages
  <2>4. QED
    BY <2>2, <2>3
<1>4. CASE NormalizeStep
  <2>1. universal' = UniversalAt(clock)
    BY <1>4, TheOfSingleton DEF NormalizeStep, StageInv, UniversalAt
  <2>2. QED
    BY <1>4, <1>a, <1>b, <2>1 DEF NormalizeStep, StageInv, Stages
<1>5. CASE ValidateStep
  <2>1. verdict' = VerdictAt(clock)
    BY <1>5 DEF ValidateStep, StageInv, VerdictAt
  <2>2. QED
    BY <1>5, <1>a, <1>b, <2>1 DEF ValidateStep, StageInv, Stages
<1>6. CASE HandleStep
  BY <1>6, <1>a, <1>b DEF HandleStep, resultVars, StageInv, Stages
<1>7. CASE Cancel
  BY <1>7, <1>a, <1>b DEF Cancel, resultVars, StageInv
<1>8. CASE Redeliver
  <2>1. ASSUME NEW p \in past'
        PROVE  \E t : p = [at |-> t, verdict |-> VerdictAt(t)', universal |-> UniversalAt(t)']
    <3>1. CASE p \in past
      BY <1>b, <3>1 DEF StageInv
    <3>2. CASE p = [at |-> clock, verdict |-> verdict, universal |-> universal]
      <4>1. verdict = VerdictAt(clock) /\ universal = UniversalAt(clock)
        BY <1>8 DEF Redeliver, StageInv
      <4>2. PICK c : c = clock
        OBVIOUS
      <4>3. VerdictAt(c)' = VerdictAt(c) /\ UniversalAt(c)' = UniversalAt(c)
        BY <1>b
      <4>4. VerdictAt(c) = VerdictAt(clock) /\ UniversalAt(c) = UniversalAt(clock)
        BY <4>2
      <4>5. p = [at |-> c, verdict |-> VerdictAt(c)', universal |-> UniversalAt(c)']
        BY <3>2, <4>1, <4>2, <4>3, <4>4
      <4>6. QED
        BY <4>5
    <3>3. QED
      BY <1>8, <3>1, <3>2 DEF Redeliver
  <2>2. QED
    BY <1>8, <1>a, <2>1 DEF Redeliver, StageInv, Stages
<1>9. CASE UNCHANGED vars
  BY <1>9, <1>a, <1>b DEF vars, StageInv
<1>10. QED
  BY <1>1, <1>2, <1>3, <1>4, <1>5, <1>6, <1>7, <1>8, <1>9 DEF Next

(* The invariant holds throughout. *)
LEMMA SpecStageInv == Spec => []StageInv
BY InitStageInv, NextStageInv, PTL DEF Spec

-----------------------------------------------------------------------------
(* What a parser finds. *)
Fields(timestamp, source, event, network, user) ==
    [timestamp |-> timestamp, source |-> source, event |-> event, network |-> network,
     user |-> user]

(* Whether a parser succeeds, and with which fields, is a matter of the    *)
(* text; only the time of the delivery may stand in for the text's.        *)
LEMMA ParseShape ==
    ASSUME raw \in RawEvent
    PROVE  \/ \A t : ParsedAt(t) = {}
           \/ /\ Clean(det.format) = FormatSyslog
              /\ \E s, e, n, u : \A t :
                    ParsedAt(t) = {Fields(SyslogTime(raw.text.line, t), s, e, n, u)}
           \/ \E w, s, e, n, u : \A t : ParsedAt(t) = {Fields(Time(w, t), s, e, n, u)}
<1> DEFINE format == Clean(det.format)
<1>0. WellRead(raw.text)
  BY PipelineAssumption
<1>1. CASE format \notin Registry
  <2>1. \A t : ParsedAt(t) = {}
    BY <1>1 DEF ParsedAt, EngineParse, Registry
  <2>2. QED
    BY <2>1
<1>2. CASE format = FormatSyslog
  <2>1. \A t : ParsedAt(t) = SyslogParse(raw, t)
    BY <1>2 DEF ParsedAt, EngineParse, Registry, FormatSyslog, FormatJSON, FormatCSV
  <2>2. CASE raw.text.blank
    BY <2>1, <2>2 DEF SyslogParse
  <2>3. CASE ~raw.text.blank
    <3> DEFINE line == raw.text.line
               action == Latest(<<ActionWord(line.words), Lower(LatestOf(line.kv, "ACTION"))>>, "", "")
               protocol == Latest(<<ProtocolWord(line.words), Upper(LatestOf(line.kv, "PROTO"))>>, "", "")
               source == [type |-> "firewall", vendor |-> "generic", product |-> "syslog-firewall",
                          identifier |-> Latest(<<SyslogHost(line, raw.source), raw.source>>, "", "")]
               event == [category |-> "network", action |-> action,
                         severity |-> IF action = "deny" THEN "high" ELSE "info"]
               network == [protocol |-> protocol,
                           src |-> SyslogEndpoint(line.kv, "SRC", "SPT"),
                           dst |-> SyslogEndpoint(line.kv, "DST", "DPT")]
    <3>1. ASSUME NEW t
          PROVE  SyslogParse(raw, t) = {Fields(SyslogTime(raw.text.line, t), source, event, network, {})}
      BY <2>3 DEF SyslogParse, Fields
    <3> HIDE DEF line, action, protocol, source, event, network
    <3>2. QED
      BY <1>2, <2>1, <3>1
  <2>4. QED
    BY <2>2, <2>3
<1>3. CASE format = FormatJSON
  <2>1. \A t : ParsedAt(t) = JSONParse(raw, t)
    BY <1>3 DEF ParsedAt, EngineParse, Registry, FormatSyslog, FormatJSON, FormatCSV
  <2>2. CASE {k \in raw.text.json : k.decodes} = {}
    BY <2>1, <2>2 DEF JSONParse
  <2>3. CASE {k \in raw.text.json : k.decodes} # {}
    <3>1. PICK j : {k \in raw.text.json : k.decodes} = {j}
      BY <1>0, <2>3 DEF WellRead
    <3>2. \A t : JSONParse(raw, t) = {Fields(Time(j.doc.timestamp, t), JSONSource(j.doc, raw.source),
                                            JSONEvent(j.doc), JSONNetwork(j.doc), j.doc.username)}
      BY <3>1 DEF JSONParse, Fields
    <3>3. QED
      BY <2>1, <3>2
  <2>4. QED
    BY <2>2, <2>3
<1>4. CASE format = FormatCSV
  <2>1. \A t : ParsedAt(t) = CSVParse(raw, t)
    BY <1>4 DEF ParsedAt, EngineParse, Registry, FormatSyslog, FormatJSON, FormatCSV
  <2>2. CASE {u \in raw.text.csv : Len(u.rows) >= 1} = {}
    BY <2>1, <2>2 DEF CSVParse
  <2>3. CASE {u \in raw.text.csv : Len(u.rows) >= 1} # {}
    <3>1. PICK j : {u \in raw.text.csv : Len(u.rows) >= 1} = {j}
      BY <1>0, <2>3 DEF WellRead
    <3> DEFINE written == Col(j, "timestamp") # ""
               source == [type |-> "firewall", vendor |-> "generic", product |-> "csv-firewall",
                          identifier |-> Latest(<<raw.source, Col(j, "source")>>, "", "csv-source")]
               network == [protocol |-> Latest(<<Upper(Col(j, "protocol"))>>, "", "unknown"),
                           src |-> [ip |-> Col(j, "src_ip"), port |-> Atoi(Col(j, "src_port"))],
                           dst |-> [ip |-> Col(j, "dst_ip"), port |-> Atoi(Col(j, "dst_port"))]]
               user == {Col(j, "username")} \ {""}
    <3>2. ASSUME NEW t
          PROVE  CSVParse(raw, t) = {Fields(Time(written, t), source, CSVEvent(j), network, user)}
      BY <3>1 DEF CSVParse, Fields
    <3> HIDE DEF written, source, network, user
    <3>3. QED
      BY <2>1, <3>2
  <2>4. QED
    BY <2>2, <2>3
<1>5. QED
  BY <1>1, <1>2, <1>3, <1>4 DEF Registry

(* A universal event with time ts. *)
EventOf(id, o, e, n, x, f, text, ts) ==
    [event_id |-> id, schema_version |-> "1.0", timestamp |-> ts, source |-> o, event |-> e,
     network |-> n, user |-> x, format |-> f, message |-> text]

(* Giving a universal event another time changes nothing else. *)
LEMMA ReplaceTime ==
    \A id, o, e, n, x, f, text, a, b :
        LET u == EventOf(id, o, e, n, x, f, text, a)
            v == EventOf(id, o, e, n, x, f, text, b)
        IN  /\ [u EXCEPT !.timestamp = v.timestamp] = v
            /\ SchemaErrors(u) = SchemaErrors(v)
            /\ u.timestamp = a /\ u.format = f
BY DEF EventOf, SchemaErrors

(* The later of two values stands if it is one. *)
LEMMA LatestOfTwo ==
    ASSUME NEW a, NEW b, NEW none, NEW default, b # none
    PROVE  Latest(<<a, b>>, none, default) = b
<1> DEFINE set == {i \in DOMAIN <<a, b>> : <<a, b>>[i] # none}
<1>1. 2 \in set /\ set \subseteq {1, 2}
  OBVIOUS
<1>2. Last(set) = 2
  <2> HIDE DEF set
  <2>1. 2 \in set /\ \A j \in set : j <= 2
    BY <1>1
  <2>2. Last(set) \in set /\ \A j \in set : j <= Last(set)
    BY <2>1 DEF Last
  <2>3. PICK k : k = Last(set)
    OBVIOUS
  <2>4. k \in {1, 2} /\ 2 <= k
    BY <1>1, <2>1, <2>2, <2>3
  <2>5. k = 2
    BY <2>4
  <2>6. QED
    BY <2>3, <2>5
<1>3. QED
  BY <1>1, <1>2 DEF Latest

(* The universal event reports the format that was detected. *)
LEMMA FormatIsDetected == Latest(<<raw.format, det.format>>, "", FormatUnknown) = det.format
<1>1. det.format # ""
  BY DetectType DEF KnownFormats, FormatSyslog, FormatJSON, FormatCSV, FormatUnknown
<1>2. PICK a, b, none, default :
         a = raw.format /\ b = det.format /\ none = "" /\ default = FormatUnknown
  OBVIOUS
<1>3. b # none
  BY <1>1, <1>2
<1>4. Latest(<<a, b>>, none, default) = b
  BY <1>3, LatestOfTwo
<1>5. QED
  BY <1>2, <1>4

(* When two universal events from deliveries at s and t agree. *)
Agree(u, v, s, t) ==
    /\ [u EXCEPT !.timestamp = v.timestamp] = v
    /\ u.format # FormatSyslog \/ Year(s) = Year(t) =>
          /\ u.timestamp.written <=> v.timestamp.written
          /\ u.timestamp.written => u.timestamp = v.timestamp

(* Two deliveries of an event agree on all but a time the text leaves out. *)
LEMMA OutcomesAgree ==
    ASSUME raw \in RawEvent, NEW s, NEW t
    PROVE  /\ VerdictAt(s) = VerdictAt(t)
           /\ \A u \in UniversalAt(s), v \in UniversalAt(t) : Agree(u, v, s, t)
<1> DEFINE id == Latest(<<raw.event_id>>, "", "generated")
           f == Latest(<<raw.format, det.format>>, "", FormatUnknown)
           U(ts, o, e, n, x) == EventOf(id, o, e, n, x, f, raw.text, ts)
<1>1. ASSUME NEW r, NEW ts, NEW o, NEW e, NEW n, NEW x, ParsedAt(r) = {Fields(ts, o, e, n, x)}
      PROVE  /\ UniversalAt(r) = {U(ts, o, e, n, x)}
             /\ VerdictAt(r) = IF SchemaErrors(U(ts, o, e, n, x)) = {} THEN "valid" ELSE "invalid"
  <2>1. ParsedAt(r) # {} /\ The(ParsedAt(r)) = Fields(ts, o, e, n, x)
    BY <1>1, TheOfSingleton
  <2>2. Normalize(raw, Fields(ts, o, e, n, x), det) = U(ts, o, e, n, x)
    BY DEF Normalize, Fields, EventOf
  <2>3. UniversalAt(r) = {U(ts, o, e, n, x)}
    BY <2>1, <2>2 DEF UniversalAt
  <2>4. QED
    BY <2>1, <2>3, TheOfSingleton DEF VerdictAt
<1>2. Clean(det.format) = FormatSyslog => f = FormatSyslog
  <2>1. det.format \in KnownFormats \cup {FormatUnknown}
    BY DetectType
  <2>2. Clean(det.format) = det.format
    BY <2>1, FormatNamesAreClean
  <2>3. QED
    BY <2>2, FormatIsDetected
<1> HIDE DEF id, f
<1>3. ASSUME NEW a, NEW b, NEW o, NEW e, NEW n, NEW x,
             ParsedAt(s) = {Fields(a, o, e, n, x)}, ParsedAt(t) = {Fields(b, o, e, n, x)},
             f # FormatSyslog \/ Year(s) = Year(t) =>
                 /\ a.written <=> b.written
                 /\ a.written => a = b
      PROVE  /\ VerdictAt(s) = VerdictAt(t)
             /\ \A u \in UniversalAt(s), v \in UniversalAt(t) : Agree(u, v, s, t)
  <2>1. UniversalAt(s) = {U(a, o, e, n, x)} /\ UniversalAt(t) = {U(b, o, e, n, x)}
    BY <1>1, <1>3
  <2>2. VerdictAt(s) = VerdictAt(t)
    BY <1>1, <1>3, ReplaceTime
  <2>3. Agree(U(a, o, e, n, x), U(b, o, e, n, x), s, t)
    <3>1. U(a, o, e, n, x).format = f /\ U(a, o, e, n, x).timestamp = a /\ U(b, o, e, n, x).timestamp = b
      BY ReplaceTime
    <3>2. [U(a, o, e, n, x) EXCEPT !.timestamp = U(b, o, e, n, x).timestamp] = U(b, o, e, n, x)
      BY ReplaceTime
    <3> HIDE DEF U
    <3>3. QED
      BY <1>3, <3>1, <3>2 DEF Agree
  <2> HIDE DEF U
  <2>4. QED
    BY <2>1, <2>2, <2>3
<1>4. CASE \A r : ParsedAt(r) = {}
  BY <1>4 DEF VerdictAt, UniversalAt
<1>5. CASE /\ Clean(det.format) = FormatSyslog
           /\ \E o, e, n, x : \A r : ParsedAt(r) = {Fields(SyslogTime(raw.text.line, r), o, e, n, x)}
  <2>1. PICK o, e, n, x : \A r : ParsedAt(r) = {Fields(SyslogTime(raw.text.line, r), o, e, n, x)}
    BY <1>5
  <2>2. Year(s) = Year(t) =>
           LET a == SyslogTime(raw.text.line, s)
               b == SyslogTime(raw.text.line, t)
           IN  (a.written <=> b.written) /\ (a.written => a = b)
    BY DEF SyslogTime, Stamp
  <2>3. QED
    BY <1>2, <1>3, <1>5, <2>1, <2>2
<1>6. CASE \E w, o, e, n, x : \A r : ParsedAt(r) = {Fields(Time(w, r), o, e, n, x)}
  <2>1. PICK w, o, e, n, x : \A r : ParsedAt(r) = {Fields(Time(w, r), o, e, n, x)}
    BY <1>6
  <2>2. LET a == Time(w, s)
            b == Time(w, t)
        IN  (a.written <=> b.written) /\ (a.written => a = b)
    BY DEF Time, Stamp
  <2>3. QED
    BY <1>3, <2>1, <2>2
<1>7. QED
  BY <1>4, <1>5, <1>6, ParseShape

(* Retries agree, for every event, every outcome of the readers, and       *)
(* however many deliveries and cancellations: ProcessSingleEvent keeps no  *)
(* state between deliveries and lets the failed drift analysis decide      *)
(* nothing.                                                                *)
THEOREM RetriesAgree == Spec => []RetryAgrees
<1>1. StageInv => RetryAgrees
  <2> SUFFICES ASSUME StageInv, NEW p \in past, stage = "end"
               PROVE  /\ verdict = p.verdict
                      /\ \A u \in universal, v \in p.universal : Agree(u, v, clock, p.at)
    BY DEF RetryAgrees, Agree
  <2>1. PICK t : p = [at |-> t, verdict |-> VerdictAt(t), universal |-> UniversalAt(t)]
    BY DEF StageInv
  <2>2. p.at = t /\ p.verdict = VerdictAt(t) /\ p.universal = UniversalAt(t)
    BY <2>1
  <2>3. /\ raw \in RawEvent
        /\ verdict = VerdictAt(clock) /\ universal = UniversalAt(clock)
    BY DEF StageInv
  <2>4. PICK c : c = clock
    OBVIOUS
  <2>5. verdict = VerdictAt(c) /\ universal = UniversalAt(c)
    BY <2>3, <2>4
  <2>6. QED
    BY <2>2, <2>3, <2>4, <2>5, OutcomesAgree
<1>2. QED
  BY <1>1, SpecStageInv, PTL

-----------------------------------------------------------------------------
(* Nobody is poisoned needlessly: Detect recognises a CSV or a syslog text *)
(* only by marks that make CSVParser.Parse or SyslogParser.Parse succeed.  *)
THEOREM PoisonIsUnreadable == Spec => []NoNeedlessPoison
<1>1. StageInv => NoNeedlessPoison
  <2> SUFFICES ASSUME StageInv, verdict = "error", Clean(raw.format) \notin KnownFormats,
                      ~\E j \in raw.text.json : j.bracketed /\ ~j.decodes
               PROVE  /\ ~LooksLikeJSON(raw.text)
                      /\ ~LooksLikeCSV(raw.text)
                      /\ raw.text.blank \/ ~LooksLikeSyslog(raw.text)
    BY DEF NoNeedlessPoison
  <2>1. WellRead(raw.text)
    BY PipelineAssumption DEF StageInv
  <2>2. ParsedAt(clock) = {}
    BY DEF StageInv, VerdictAt
  <2>3. CASE raw.text.blank
    BY <2>1, <2>3 DEF WellRead, LooksLikeJSON, LooksLikeCSV
  <2>4. CASE ~raw.text.blank
    <3>1. ASSUME LooksLikeJSON(raw.text) PROVE FALSE
      <4>1. Clean(det.format) = FormatJSON
        BY <2>4, <3>1, FormatNamesAreClean DEF det, Detect, Detected, KnownFormats
      <4>2. ParsedAt(clock) = JSONParse(raw, clock)
        BY <4>1 DEF ParsedAt, EngineParse, Registry, FormatSyslog, FormatJSON, FormatCSV
      <4>3. \E j \in raw.text.json : j.decodes
        BY <3>1 DEF LooksLikeJSON
      <4>4. QED
        BY <2>2, <4>2, <4>3 DEF JSONParse
    <3>2. ASSUME LooksLikeCSV(raw.text) PROVE FALSE
      <4>1. Clean(det.format) = FormatCSV
        BY <2>4, <3>1, <3>2, FormatNamesAreClean DEF det, Detect, Detected, KnownFormats
      <4>2. ParsedAt(clock) = CSVParse(raw, clock)
        BY <4>1 DEF ParsedAt, EngineParse, Registry, FormatSyslog, FormatJSON, FormatCSV
      <4>3. \E t \in raw.text.csv : Len(t.rows) >= 1
        BY <3>2 DEF LooksLikeCSV
      <4>4. QED
        BY <2>2, <4>2, <4>3 DEF CSVParse
    <3>3. ASSUME LooksLikeSyslog(raw.text) PROVE FALSE
      <4>1. Clean(det.format) = FormatSyslog
        BY <2>4, <3>1, <3>2, <3>3, FormatNamesAreClean DEF det, Detect, Detected, KnownFormats
      <4>2. ParsedAt(clock) = SyslogParse(raw, clock)
        BY <4>1 DEF ParsedAt, EngineParse, Registry, FormatSyslog, FormatJSON, FormatCSV
      <4>3. QED
        BY <2>2, <2>4, <4>2 DEF SyslogParse
    <3>4. QED
      BY <3>1, <3>2, <3>3
  <2>5. QED
    BY <2>3, <2>4
<1>2. QED
  BY <1>1, SpecStageInv, PTL

-----------------------------------------------------------------------------
(* Every step keeps the types; the drift status is never one of those that *)
(* models/event.go names beside "stable" and "unknown".                    *)
THEOREM PipelineTypeCorrect == Spec => []TypeOK
<1>1. Init => TypeOK
  <2>1. Init => clock \in (ReceivedAt + 1)..(ReceivedAt + MaxDeliveries)
    <3>1. ReceivedAt + 1 \in (ReceivedAt + 1)..(ReceivedAt + MaxDeliveries)
      BY PipelineAssumption DEF ReceivedAt
    <3>2. QED
      BY <3>1 DEF Init
  <2>2. QED
    BY <2>1 DEF Init, TypeOK, Stages
<1>2. TypeOK /\ [Next]_vars => TypeOK'
  <2> SUFFICES ASSUME TypeOK, [Next]_vars PROVE TypeOK'
    OBVIOUS
  <2>1. CASE DetectStep
    BY <2>1, DetectType DEF DetectStep, TypeOK, Stages, det
  <2>2. CASE AnalyzeStep
    BY <2>2 DEF AnalyzeStep, Analyze, TypeOK, Stages
  <2>3. CASE ParseStep
    BY <2>3 DEF ParseStep, TypeOK, Stages
  <2>4. CASE NormalizeStep
    BY <2>4 DEF NormalizeStep, TypeOK, Stages
  <2>5. CASE ValidateStep
    BY <2>5 DEF ValidateStep, TypeOK, Stages
  <2>6. CASE HandleStep
    BY <2>6 DEF HandleStep, resultVars, TypeOK, Stages
  <2>7. CASE Cancel
    BY <2>7 DEF Cancel, resultVars, TypeOK
  <2>8. CASE Redeliver
    <3>1. clock' \in (ReceivedAt + 1)..(ReceivedAt + MaxDeliveries)
      <4>1. /\ clock \in (ReceivedAt + 1)..(ReceivedAt + MaxDeliveries)
            /\ clock < ReceivedAt + MaxDeliveries
            /\ clock' = clock + 1
        BY <2>8 DEF Redeliver, TypeOK
      <4>2. QED
        BY <4>1, PipelineAssumption DEF ReceivedAt
    <3>2. QED
      BY <2>8, <3>1 DEF Redeliver, TypeOK, Stages
  <2>9. CASE UNCHANGED vars
    BY <2>9 DEF vars, TypeOK
  <2>10. QED
    BY <2>1, <2>2, <2>3, <2>4, <2>5, <2>6, <2>7, <2>8, <2>9 DEF Next
<1>3. QED
  BY <1>1, <1>2, PTL DEF Spec

-----------------------------------------------------------------------------
(* The contract with the workers.  Parsing fails at the delivery at hand   *)
(* exactly if it would have failed when the event was received, because    *)
(* the parsers use the clock for a timestamp and nothing else.             *)

(* Parsing fails at all times or at none. *)
LEMMA FailureIsTimeless ==
    ASSUME raw \in RawEvent, NEW t
    PROVE  ParsedAt(t) = {} <=> Unparsable(raw)
<1>1. PICK s : s = ReceivedAt
  OBVIOUS
<1>2. Unparsable(raw) <=> ParsedAt(s) = {}
  BY <1>1 DEF Unparsable, ParsedAt, det
<1>3. CASE \A r : ParsedAt(r) = {}
  BY <1>2, <1>3
<1>4. CASE \A r : ParsedAt(r) # {}
  BY <1>2, <1>4
<1>5. (\A r : ParsedAt(r) = {}) \/ (\A r : ParsedAt(r) # {})
  <2>1. CASE \E o, e, n, x : \A r : ParsedAt(r) = {Fields(SyslogTime(raw.text.line, r), o, e, n, x)}
    BY <2>1
  <2>2. CASE \E w, o, e, n, x : \A r : ParsedAt(r) = {Fields(Time(w, r), o, e, n, x)}
    BY <2>2
  <2>3. QED
    BY <2>1, <2>2, ParseShape
<1>6. QED
  BY <1>3, <1>4, <1>5

(* Progress, stage by stage. *)
LEMMA ProgressAt ==
    /\ stage = "handle" => Progress = IF verdict = "error" THEN "failed" ELSE "completed"
    /\ stage = "end" => Progress = "over"
    /\ stage \notin {"handle", "end"} => Progress = "running"
BY DEF Progress

LEMMA ProgressAfter ==
    /\ stage' = "handle" => Progress' = IF verdict' = "error" THEN "failed" ELSE "completed"
    /\ stage' = "end" => Progress' = "over"
    /\ stage' \notin {"handle", "end"} => Progress' = "running"
BY DEF Progress

(* A fresh delivery runs. *)
LEMMA InitContract == Init => Contract!Init
<1> SUFFICES ASSUME Init PROVE Contract!Init
  OBVIOUS
<1>1. Progress = "running"
  BY ProgressAt DEF Init
<1>2. QED
  BY <1>1 DEF Init, Contract!Init

(* Every stage is a step of the contract or invisible to it. *)
LEMMA NextContract == StageInv /\ [Next]_vars => [Contract!Next]_Contract!vars
<1> SUFFICES ASSUME StageInv, [Next]_vars PROVE [Contract!Next]_Contract!vars
  OBVIOUS
<1>1. CASE DetectStep \/ AnalyzeStep \/ NormalizeStep
  <2>1. UNCHANGED <<raw, fate>> /\ Progress = "running" /\ Progress' = "running"
    BY <1>1, ProgressAt, ProgressAfter DEF DetectStep, AnalyzeStep, NormalizeStep
  <2>2. QED
    BY <2>1 DEF Contract!vars
<1>2. CASE ParseStep
  <2>1. UNCHANGED <<raw, fate>> /\ Progress = "running"
    BY <1>2, ProgressAt DEF ParseStep
  <2>2. CASE parsed' = {}
    <3>1. stage' = "handle" /\ verdict' = "error"
      BY <1>2, <2>2 DEF ParseStep
    <3>2. Progress' = "failed"
      BY <3>1, ProgressAfter
    <3>3. Unparsable(raw)
      <4>1. PICK t : t = clock
        OBVIOUS
      <4>2. ParsedAt(t) = {} /\ raw \in RawEvent
        BY <1>2, <2>2, <4>1, TheOfSingleton DEF ParseStep, StageInv, ParsedAt
      <4>3. QED
        BY <4>2, FailureIsTimeless
    <3>4. Contract!Fail
      BY <2>1, <3>2, <3>3 DEF Contract!Fail
    <3>5. QED
      BY <3>4 DEF Contract!Next
  <2>3. CASE parsed' # {}
    <3>1. Progress' = "running"
      BY <1>2, <2>3, ProgressAfter DEF ParseStep
    <3>2. QED
      BY <2>1, <3>1 DEF Contract!vars
  <2>4. QED
    BY <2>2, <2>3
<1>3. CASE ValidateStep
  <2>1. UNCHANGED <<raw, fate>> /\ Progress = "running"
    BY <1>3, ProgressAt DEF ValidateStep
  <2>2. stage' = "handle" /\ verdict' # "error"
    BY <1>3 DEF ValidateStep
  <2>3. Progress' = "completed"
    BY <2>2, ProgressAfter
  <2>4. ~Unparsable(raw)
    <3>1. PICK t : t = clock
      OBVIOUS
    <3>2. ParsedAt(t) # {} /\ raw \in RawEvent
      BY <1>3, <3>1 DEF ValidateStep, StageInv
    <3>3. QED
      BY <3>2, FailureIsTimeless
  <2>5. Contract!Complete
    BY <2>1, <2>3, <2>4 DEF Contract!Complete
  <2>6. QED
    BY <2>5 DEF Contract!Next
<1>4. CASE HandleStep
  <2>1. raw' = raw /\ Progress = IF verdict = "error" THEN "failed" ELSE "completed"
    BY <1>4, ProgressAt DEF HandleStep
  <2>2. Progress' = "over"
    BY <1>4, ProgressAfter DEF HandleStep
  <2>3. Contract!Settle \/ Contract!Leave
    BY <1>4, <2>1, <2>2 DEF HandleStep, Contract!Settle, Contract!Leave
  <2>4. QED
    BY <2>3 DEF Contract!Next
<1>5. CASE Redeliver
  <2>1. /\ raw' = raw /\ fate = "pending" /\ fate' = "open"
        /\ Progress = "over" /\ Progress' = "running"
    BY <1>5, ProgressAt, ProgressAfter DEF Redeliver
  <2>2. Contract!Redeliver
    BY <2>1 DEF Contract!Redeliver
  <2>3. QED
    BY <2>2 DEF Contract!Next
<1>6. CASE Cancel \/ UNCHANGED vars
  <2>1. UNCHANGED <<raw, stage, verdict, fate>>
    BY <1>6 DEF Cancel, resultVars, vars
  <2>2. Progress' = Progress
    BY <2>1 DEF Progress
  <2>3. QED
    BY <2>1, <2>2 DEF Contract!vars
<1>7. QED
  BY <1>1, <1>2, <1>3, <1>4, <1>5, <1>6 DEF Next

(* For every raw event, every outcome of the readers, any number of        *)
(* deliveries and every clock, the pipeline is what module Worker assumes  *)
(* of it: a set of events fails, always, and all others complete.          *)
THEOREM ImplementsDelivery == Spec => KeepsContract
BY InitContract, NextContract, InitStageInv, NextStageInv, PTL
   DEF Spec, KeepsContract, Contract!Spec
=============================================================================
