---------------------------- MODULE FieldProofs ----------------------------
(***************************************************************************)
(* What the fields of a universal event say of the text, for every text:   *)
(* endpoints, severity, and why an event is rejected.  The parsers assign  *)
(* a field several times over; the lemmas about Latest are what all proofs *)
(* on fields rest on.                                                      *)
(***************************************************************************)
EXTENDS PipelineProofs, WellFoundedInduction

-----------------------------------------------------------------------------
(* The last of several assignments. *)

(* A set of positions that is not empty has a last one. *)
LEMMA LastExists ==
    ASSUME NEW n \in Nat, NEW set, set \subseteq 1..n, set # {}
    PROVE  Last(set) \in set /\ \A j \in set : j <= Last(set)
<1> DEFINE Back == {k \in Nat : n - k \in set}
           Less == {ss \in Nat \X Nat : ss[1] < ss[2]}
<1>1. Back \subseteq Nat /\ Back # {}
  <2>1. PICK i : i \in set
    OBVIOUS
  <2>2. i \in 1..n
    BY <2>1
  <2>3. n - i \in Nat /\ n - (n - i) = i
    BY <2>2
  <2>4. QED
    BY <2>1, <2>3
<1>2. \E x \in Back : \A y \in Back : ~(<<y, x>> \in Less)
  <2>1. IsWellFoundedOn(Less, Nat)
    BY NatLessThanWellFounded, Zenon DEF OpToRel
  <2> HIDE DEF Back, Less
  <2>2. QED
    BY <1>1, <2>1, WFMin
<1>3. PICK x \in Back : \A y \in Back : ~(<<y, x>> \in Less)
  BY <1>2
<1>4. \A y \in Back : ~(y < x)
  BY <1>3
<1>5. n - x \in set
  BY <1>3
<1>6. ASSUME NEW j \in set PROVE j <= n - x
  <2>1. j \in 1..n
    OBVIOUS
  <2>2. n - j \in Back
    BY <2>1
  <2>3. ~(n - j < x) /\ x \in Nat
    BY <1>3, <1>4, <2>2
  <2>4. QED
    BY <2>1, <2>3
<1>7. \E i \in set : \A j \in set : j <= i
  BY <1>5, <1>6
<1>8. QED
  BY <1>7 DEF Last

(* An overridden field has one of the values assigned to it, if one of     *)
(* them counts, and its default otherwise.                                 *)
LEMMA LatestIsGiven ==
    ASSUME NEW n \in Nat, NEW values, DOMAIN values = 1..n, NEW none, NEW default
    PROVE  \/ /\ \A i \in 1..n : values[i] = none
              /\ Latest(values, none, default) = default
           \/ \E i \in 1..n : /\ values[i] # none
                              /\ Latest(values, none, default) = values[i]
<1> DEFINE set == {i \in DOMAIN values : values[i] # none}
<1>1. CASE set = {}
  BY <1>1 DEF Latest
<1>2. CASE set # {}
  <2>1. set \subseteq 1..n
    OBVIOUS
  <2>2. Latest(values, none, default) = values[Last(set)]
    BY <1>2 DEF Latest
  <2>3. Last(set) \in set
    <3> HIDE DEF set
    <3>1. QED
      BY <1>2, <2>1, LastExists
  <2>4. QED
    BY <2>2, <2>3
<1>3. QED
  BY <1>1, <1>2

(* A key's value is that of one of its pairs. *)
LEMMA LatestOfIsGiven ==
    ASSUME NEW kv, IsSlice(kv), NEW k
    PROVE  \/ LatestOf(kv, k) = ""
           \/ \E i \in DOMAIN kv : Upper(kv[i].key) = k /\ LatestOf(kv, k) = kv[i].val
<1> DEFINE values == [i \in DOMAIN kv |-> IF Upper(kv[i].key) = k THEN kv[i].val ELSE ""]
<1>1. Len(kv) \in Nat /\ DOMAIN values = 1..Len(kv) /\ DOMAIN kv = 1..Len(kv)
  BY DEF IsSlice
<1>2. LatestOf(kv, k) = Latest(values, "", "")
  BY DEF LatestOf
<1>3. \/ Latest(values, "", "") = ""
      \/ \E i \in 1..Len(kv) : values[i] # "" /\ Latest(values, "", "") = values[i]
  <2> HIDE DEF values
  <2>1. PICK none : none = ""
    OBVIOUS
  <2>2. \/ Latest(values, none, none) = none
        \/ \E i \in 1..Len(kv) : values[i] # none /\ Latest(values, none, none) = values[i]
    BY <1>1, LatestIsGiven
  <2>3. QED
    BY <2>1, <2>2
<1>4. QED
  BY <1>1, <1>2, <1>3

(* A column's value is that of one of the columns with its name. *)
LEMMA ColIsGiven ==
    ASSUME NEW t, IsSlice(t.header), NEW name
    PROVE  \/ Col(t, name) = ""
           \/ \E i \in DOMAIN t.header : /\ Clean(t.header[i]) = name
                                         /\ Col(t, name) = Trim(t.rows[1][i])
<1> DEFINE named == {i \in DOMAIN t.header : Clean(t.header[i]) = name}
<1>1. CASE named = {}
  BY <1>1 DEF Col
<1>2. CASE named # {}
  <2>1. Len(t.header) \in Nat /\ named \subseteq 1..Len(t.header)
    BY DEF IsSlice
  <2>2. Last(named) \in named
    <3> HIDE DEF named
    <3>1. QED
      BY <1>2, <2>1, LastExists
  <2>3. Col(t, name) = Trim(t.rows[1][Last(named)])
    BY <1>2 DEF Col
  <2>4. QED
    BY <2>2, <2>3
<1>3. QED
  BY <1>1, <1>2

(* One of the values stands, and it is empty only if all are. *)
Stands(v, values, none) == v \in values /\ (v = none => \A x \in values : x = none)

(* What stands of four assignments. *)
LEMMA LatestOfFour ==
    ASSUME NEW a, NEW b, NEW c, NEW d, NEW none
    PROVE  Stands(Latest(<<a, b, c, d>>, none, none), {a, b, c, d}, none)
<1>1. PICK values : values = <<a, b, c, d>>
  OBVIOUS
<1>2. /\ DOMAIN values = 1..4
      /\ values[1] = a /\ values[2] = b /\ values[3] = c /\ values[4] = d
  BY <1>1
<1>3. PICK v : v = Latest(values, none, none)
  OBVIOUS
<1>4. \/ (\A i \in 1..4 : values[i] = none) /\ v = none
      \/ \E i \in 1..4 : values[i] # none /\ v = values[i]
  <2>1. PICK n \in Nat : n = 4
    OBVIOUS
  <2>2. DOMAIN values = 1..n
    BY <1>2, <2>1
  <2>3. \/ (\A i \in 1..n : values[i] = none) /\ Latest(values, none, none) = none
        \/ \E i \in 1..n : values[i] # none /\ Latest(values, none, none) = values[i]
    BY <2>2, LatestIsGiven
  <2>4. QED
    BY <1>3, <2>1, <2>3
<1>5. Stands(v, {a, b, c, d}, none)
  BY <1>2, <1>4 DEF Stands
<1>6. QED
  BY <1>1, <1>3, <1>5

(* What stands of two. *)
LEMMA LatestOfPair ==
    ASSUME NEW a, NEW b, NEW none
    PROVE  Stands(Latest(<<a, b>>, none, none), {a, b}, none)
<1>1. PICK values : values = <<a, b>>
  OBVIOUS
<1>2. DOMAIN values = 1..2 /\ values[1] = a /\ values[2] = b
  BY <1>1
<1>3. PICK v : v = Latest(values, none, none)
  OBVIOUS
<1>4. \/ (\A i \in 1..2 : values[i] = none) /\ v = none
      \/ \E i \in 1..2 : values[i] # none /\ v = values[i]
  <2>1. PICK n \in Nat : n = 2
    OBVIOUS
  <2>2. DOMAIN values = 1..n
    BY <1>2, <2>1
  <2>3. \/ (\A i \in 1..n : values[i] = none) /\ Latest(values, none, none) = none
        \/ \E i \in 1..n : values[i] # none /\ Latest(values, none, none) = values[i]
    BY <2>2, LatestIsGiven
  <2>4. QED
    BY <1>3, <2>1, <2>3
<1>5. Stands(v, {a, b}, none)
  BY <1>2, <1>4 DEF Stands
<1>6. QED
  BY <1>1, <1>3, <1>5

(* A field that is assigned once. *)
LEMMA LatestOfOne ==
    ASSUME NEW a, NEW none, NEW default
    PROVE  Latest(<<a>>, none, default) = IF a = none THEN default ELSE a
<1>1. PICK values : values = <<a>>
  OBVIOUS
<1>2. DOMAIN values = 1..1 /\ values[1] = a
  BY <1>1
<1>3. PICK v : v = Latest(values, none, default)
  OBVIOUS
<1>4. \/ (\A i \in 1..1 : values[i] = none) /\ v = default
      \/ \E i \in 1..1 : values[i] # none /\ v = values[i]
  <2>1. PICK n \in Nat : n = 1
    OBVIOUS
  <2>2. DOMAIN values = 1..n
    BY <1>2, <2>1
  <2>3. \/ (\A i \in 1..n : values[i] = none) /\ Latest(values, none, default) = default
        \/ \E i \in 1..n : values[i] # none /\ Latest(values, none, default) = values[i]
    BY <2>2, LatestIsGiven
  <2>4. QED
    BY <1>3, <2>1, <2>3
<1>5. v = IF a = none THEN default ELSE a
  BY <1>2, <1>4
<1>6. QED
  BY <1>1, <1>3, <1>5

-----------------------------------------------------------------------------
(* What a universal event consists of, format by format. *)

SyslogNetwork(line) ==
    [protocol |-> Latest(<<ProtocolWord(line.words), Upper(LatestOf(line.kv, "PROTO"))>>, "", ""),
     src |-> SyslogEndpoint(line.kv, "SRC", "SPT"),
     dst |-> SyslogEndpoint(line.kv, "DST", "DPT")]

CSVNetwork(t) ==
    [protocol |-> Latest(<<Upper(Col(t, "protocol"))>>, "", "unknown"),
     src |-> [ip |-> Col(t, "src_ip"), port |-> Atoi(Col(t, "src_port"))],
     dst |-> [ip |-> Col(t, "dst_ip"), port |-> Atoi(Col(t, "dst_port"))]]

(* What the parsers put into the network and event parts of u. *)
ReadBySyslog(u) ==
    /\ u.format = FormatSyslog
    /\ u.network = SyslogNetwork(raw.text.line)
    /\ \E action : u.event = [category |-> "network", action |-> action,
                              severity |-> IF action = "deny" THEN "high" ELSE "info"]

ReadByJSON(u) ==
    /\ u.format = FormatJSON
    /\ \E j : raw.text.json = {j} /\ u.network = JSONNetwork(j.doc) /\ u.event = JSONEvent(j.doc)

ReadByCSV(u) ==
    /\ u.format = FormatCSV
    /\ \E c : raw.text.csv = {c} /\ u.network = CSVNetwork(c) /\ u.event = CSVEvent(c)

(* The parser of the detected format has read the one result its reader    *)
(* gives, and normalisation has kept what it found.                        *)
LEMMA UniversalForm ==
    ASSUME raw \in RawEvent, NEW t, NEW u \in UniversalAt(t)
    PROVE  /\ UniversalAt(t) = {u}
           /\ u.event_id # "" /\ u.schema_version = "1.0"
           /\ ReadBySyslog(u) \/ ReadByJSON(u) \/ ReadByCSV(u)
<1>1. WellRead(raw.text)
  BY PipelineAssumption
<1>2. ParsedAt(t) # {} /\ u = Normalize(raw, The(ParsedAt(t)), det) /\ UniversalAt(t) = {u}
  BY DEF UniversalAt
<1>3. PICK p : p = The(ParsedAt(t))
  OBVIOUS
<1>4. p \in ParsedAt(t)
  BY <1>2, <1>3 DEF The
<1>5. /\ u.network = p.network /\ u.event = p.event
      /\ u.schema_version = "1.0"
      /\ u.event_id = Latest(<<raw.event_id>>, "", "generated")
      /\ u.format = Latest(<<raw.format, det.format>>, "", FormatUnknown)
  BY <1>2, <1>3 DEF Normalize
<1>6. u.event_id # ""
  <2>1. PICK id, none, default : id = raw.event_id /\ none = "" /\ default = "generated"
    OBVIOUS
  <2>2. Latest(<<id>>, none, default) = IF id = none THEN default ELSE id
    BY LatestOfOne
  <2>3. Latest(<<id>>, none, default) # ""
    BY <2>1, <2>2
  <2>4. QED
    BY <1>5, <2>1, <2>3
<1>7. u.format = det.format /\ Clean(det.format) = det.format
  BY <1>5, FormatIsDetected, DetectType, FormatNamesAreClean
<1>8. CASE det.format = FormatSyslog
  <2>1. ParsedAt(t) = SyslogParse(raw, t)
    BY <1>7, <1>8 DEF ParsedAt, EngineParse, Registry, FormatSyslog, FormatJSON, FormatCSV
  <2>2. ~raw.text.blank
    BY <1>2, <2>1 DEF SyslogParse
  <2> DEFINE line == raw.text.line
             action == Latest(<<ActionWord(line.words), Lower(LatestOf(line.kv, "ACTION"))>>, "", "")
             source == [type |-> "firewall", vendor |-> "generic", product |-> "syslog-firewall",
                        identifier |-> Latest(<<SyslogHost(line, raw.source), raw.source>>, "", "")]
             event == [category |-> "network", action |-> action,
                       severity |-> IF action = "deny" THEN "high" ELSE "info"]
  <2>3. p.network = SyslogNetwork(raw.text.line) /\ p.event = event
    <3>1. SyslogParse(raw, t) = {Fields(SyslogTime(line, t), source, event, SyslogNetwork(line), {})}
      BY <2>2 DEF SyslogParse, SyslogNetwork, Fields
    <3>2. p = Fields(SyslogTime(line, t), source, event, SyslogNetwork(line), {})
      <4> HIDE DEF source, event
      <4>1. QED
        BY <1>4, <2>1, <3>1
    <3> HIDE DEF source, event
    <3>3. QED
      BY <3>2 DEF Fields
  <2>4. \E a : p.event = [category |-> "network", action |-> a,
                          severity |-> IF a = "deny" THEN "high" ELSE "info"]
    BY <2>3
  <2>5. QED
    BY <1>2, <1>5, <1>6, <1>7, <1>8, <2>3, <2>4 DEF ReadBySyslog
<1>9. CASE det.format = FormatJSON
  <2>1. ParsedAt(t) = JSONParse(raw, t)
    BY <1>7, <1>9 DEF ParsedAt, EngineParse, Registry, FormatSyslog, FormatJSON, FormatCSV
  <2>2. PICK j \in raw.text.json : p.network = JSONNetwork(j.doc) /\ p.event = JSONEvent(j.doc)
    BY <1>4, <2>1 DEF JSONParse
  <2>3. raw.text.json = {j}
    BY <1>1, <2>2 DEF WellRead
  <2>4. QED
    BY <1>2, <1>5, <1>6, <1>7, <1>9, <2>2, <2>3 DEF ReadByJSON
<1>10. CASE det.format = FormatCSV
  <2>1. ParsedAt(t) = CSVParse(raw, t)
    BY <1>7, <1>10 DEF ParsedAt, EngineParse, Registry, FormatSyslog, FormatJSON, FormatCSV
  <2> DEFINE source(c) == [type |-> "firewall", vendor |-> "generic", product |-> "csv-firewall",
                           identifier |-> Latest(<<raw.source, Col(c, "source")>>, "", "csv-source")]
             found(c) == Fields(Time(Col(c, "timestamp") # "", t), source(c), CSVEvent(c),
                                CSVNetwork(c), {Col(c, "username")} \ {""})
  <2>a. CSVParse(raw, t) = {found(c) : c \in {d \in raw.text.csv : Len(d.rows) >= 1}}
    BY DEF CSVParse, CSVNetwork, Fields
  <2>b. PICK c \in raw.text.csv : p = found(c)
    <3> HIDE DEF found
    <3>1. QED
      BY <1>4, <2>1, <2>a
  <2>2. p.network = CSVNetwork(c) /\ p.event = CSVEvent(c)
    <3> HIDE DEF source
    <3>1. QED
      BY <2>b DEF Fields
  <2>3. raw.text.csv = {c}
    BY <1>1, <2>2 DEF WellRead
  <2>4. QED
    BY <1>2, <1>5, <1>6, <1>7, <1>10, <2>2, <2>3 DEF ReadByCSV
<1>11. CASE det.format = FormatUnknown
  BY <1>2, <1>7, <1>11 DEF ParsedAt, EngineParse, Registry, FormatUnknown, FormatSyslog, FormatJSON,
                           FormatCSV
<1>12. QED
  BY <1>8, <1>9, <1>10, <1>11, DetectType DEF KnownFormats

-----------------------------------------------------------------------------
(* Endpoints. *)

PortsOf(ends) == UNION {e.port : e \in ends}

IPsOf(ends) == {e.ip : e \in ends} \ {""}

(* An endpoint that a set of mentions accounts for, and one that reports   *)
(* an address and a port if there is a mention with one.                   *)
Given(at, ends) == at.port \subseteq PortsOf(ends) /\ at.ip \in IPsOf(ends) \cup {""}

Complete(at, ends) ==
    /\ PortsOf(ends) # {} => at.port # {}
    /\ IPsOf(ends) # {} => at.ip # ""

(* JSON: four mentions, of which the last that is not empty stands,        *)
(* separately for address and port.                                        *)
LEMMA FourMentions ==
    ASSUME NEW i1, NEW i2, NEW i3, NEW i4, NEW p1, NEW p2, NEW p3, NEW p4, NEW at,
           at = [ip |-> Latest(<<i2, i1, i3, i4>>, "", ""),
                 port |-> Latest(<<p2, p1, p3, p4>>, {}, {})],
           NEW ends, ends = {At(i1, p1), At(i2, p2), At(i3, p3), At(i4, p4)}
    PROVE  Given(at, ends) /\ Complete(at, ends)
<1>1. /\ At(i1, p1).ip = i1 /\ At(i2, p2).ip = i2 /\ At(i3, p3).ip = i3 /\ At(i4, p4).ip = i4
      /\ At(i1, p1).port = p1 /\ At(i2, p2).port = p2 /\ At(i3, p3).port = p3
      /\ At(i4, p4).port = p4
  BY DEF At
<1>2. PortsOf(ends) = p1 \cup p2 \cup p3 \cup p4 /\ IPsOf(ends) = {i1, i2, i3, i4} \ {""}
  BY <1>1 DEF PortsOf, IPsOf
<1>3. PICK none, nil : none = "" /\ nil = {}
  OBVIOUS
<1>4. at.ip = Latest(<<i2, i1, i3, i4>>, none, none) /\ at.port = Latest(<<p2, p1, p3, p4>>, nil, nil)
  BY <1>3
<1>5. Stands(at.ip, {i2, i1, i3, i4}, none)
  <2>1. Stands(Latest(<<i2, i1, i3, i4>>, none, none), {i2, i1, i3, i4}, none)
    BY LatestOfFour
  <2>2. QED
    BY <1>4, <2>1
<1>6. Stands(at.port, {p2, p1, p3, p4}, nil)
  <2>1. Stands(Latest(<<p2, p1, p3, p4>>, nil, nil), {p2, p1, p3, p4}, nil)
    BY LatestOfFour
  <2>2. QED
    BY <1>4, <2>1
<1>7. Given(at, ends)
  BY <1>2, <1>5, <1>6 DEF Given, Stands
<1>8. Complete(at, ends)
  BY <1>2, <1>3, <1>5, <1>6 DEF Complete, Stands
<1>9. QED
  BY <1>7, <1>8

(* Syslog: SRC or DST gives the address and perhaps a port, SPT or DPT     *)
(* another port.                                                           *)
LEMMA SyslogEndpointGiven ==
    ASSUME NEW kv, IsSlice(kv), NEW ipKey, NEW portKey, NEW ends,
           \A i \in DOMAIN kv :
              /\ Upper(kv[i].key) = ipKey => splitIPAndPort(kv[i].val) \in ends
              /\ Upper(kv[i].key) = portKey => At("", Atoi(kv[i].val)) \in ends
    PROVE  Given(SyslogEndpoint(kv, ipKey, portKey), ends)
<1>1. PICK ip, port : ip = LatestOf(kv, ipKey) /\ port = LatestOf(kv, portKey)
  OBVIOUS
<1>2. PICK at : at = splitIPAndPort(ip)
  OBVIOUS
<1>3. \/ at.ip = "" /\ at.port = {}
      \/ at \in ends
  <2>1. CASE ip = ""
    BY <1>2, <2>1, EmptyWordAssumption DEF splitIPAndPort
  <2>2. CASE ip # ""
    BY <1>1, <1>2, <2>2, LatestOfIsGiven
  <2>3. QED
    BY <2>1, <2>2
<1>4. Atoi(port) = {} \/ At("", Atoi(port)) \in ends
  <2>1. CASE port = ""
    BY <2>1, EmptyWordAssumption
  <2>2. CASE port # ""
    BY <1>1, <2>2, LatestOfIsGiven
  <2>3. QED
    BY <2>1, <2>2
<1>5. Atoi(port) \subseteq PortsOf(ends)
  <2>1. At("", Atoi(port)).port = Atoi(port)
    BY DEF At
  <2>2. QED
    BY <1>4, <2>1 DEF PortsOf
<1>6. at.port \subseteq PortsOf(ends) /\ at.ip \in IPsOf(ends) \cup {""}
  BY <1>3 DEF PortsOf, IPsOf
<1>7. PICK nil : nil = {}
  OBVIOUS
<1>8. PICK stands : stands = Latest(<<at.port, Atoi(port)>>, nil, nil)
  OBVIOUS
<1>9. SyslogEndpoint(kv, ipKey, portKey) = [ip |-> at.ip, port |-> stands]
  BY <1>1, <1>2, <1>7, <1>8 DEF SyslogEndpoint
<1>10. stands \in {at.port, Atoi(port)}
  BY <1>8, LatestOfPair DEF Stands
<1>11. stands \subseteq PortsOf(ends)
  BY <1>5, <1>6, <1>10
<1>12. [ip |-> at.ip, port |-> stands].ip = at.ip /\ [ip |-> at.ip, port |-> stands].port = stands
  OBVIOUS
<1>13. QED
  BY <1>6, <1>9, <1>11, <1>12 DEF Given

(* CSV: one column for the address, one for the port. *)
LEMMA CSVEndpointGiven ==
    ASSUME NEW t, IsSlice(t.header), NEW ipName, NEW portName, NEW ends, NEW at,
           at = [ip |-> Col(t, ipName), port |-> Atoi(Col(t, portName))],
           \A i \in DOMAIN t.header :
              /\ Clean(t.header[i]) = ipName => At(Trim(t.rows[1][i]), {}) \in ends
              /\ Clean(t.header[i]) = portName => At("", Atoi(Trim(t.rows[1][i]))) \in ends
    PROVE  Given(at, ends)
<1>1. \A a, b : At(a, b).ip = a /\ At(a, b).port = b
  BY DEF At
<1>2. at.ip = "" \/ At(at.ip, {}) \in ends
  BY ColIsGiven
<1>3. at.ip \in IPsOf(ends) \cup {""}
  BY <1>1, <1>2 DEF IPsOf
<1>4. at.port = {} \/ At("", at.port) \in ends
  <2>1. CASE Col(t, portName) = ""
    BY <2>1, EmptyWordAssumption
  <2>2. CASE Col(t, portName) # ""
    BY <2>2, ColIsGiven
  <2>3. QED
    BY <2>1, <2>2
<1>5. at.port \subseteq PortsOf(ends)
  <2>1. At("", at.port).port = at.port
    BY DEF At
  <2>2. QED
    BY <1>4, <2>1 DEF PortsOf
<1>6. QED
  BY <1>3, <1>5 DEF Given

(* A JSON document's endpoints, by its four places for each. *)
LEMMA JSONEndpointsGiven ==
    ASSUME NEW d, NEW end \in {"src", "dst"}
    PROVE  /\ Given(JSONNetwork(d)[end], JSONEnds(d, end))
           /\ Complete(JSONNetwork(d)[end], JSONEnds(d, end))
<1>1. ASSUME NEW at, at = JSONNetwork(d).src, NEW ends, ends = JSONEnds(d, "src")
      PROVE  Given(at, ends) /\ Complete(at, ends)
  <2>1. PICK i1, i2, i3, i4 : i1 = d.src_ip /\ i2 = d.source_ip /\ i3 = d.network.src_ip /\ i4 = d.network.source.ip
    OBVIOUS
  <2>2. PICK p1, p2, p3, p4 : /\ p1 = parsePort(d.src_port) /\ p2 = parsePort(d.source_port)
                              /\ p3 = parsePort(d.network.src_port)
                              /\ p4 = parsePort(d.network.source.port)
    OBVIOUS
  <2>3. at = [ip |-> Latest(<<i2, i1, i3, i4>>, "", ""),
                              port |-> Latest(<<p2, p1, p3, p4>>, {}, {})]
    <3>1. [i \in DOMAIN <<d.source_port, d.src_port, d.network.src_port, d.network.source.port>> |->
             parsePort(<<d.source_port, d.src_port, d.network.src_port, d.network.source.port>>[i])]
          = <<p2, p1, p3, p4>>
      BY <2>2
    <3>2. QED
      BY <1>1, <2>1, <3>1 DEF JSONNetwork
  <2>4. ends = {At(i1, p1), At(i2, p2), At(i3, p3), At(i4, p4)}
    BY <1>1, <2>1, <2>2 DEF JSONEnds, At
  <2>5. QED
    BY <2>3, <2>4, FourMentions
<1>2. ASSUME NEW at, at = JSONNetwork(d).dst, NEW ends, ends = JSONEnds(d, "dst")
      PROVE  Given(at, ends) /\ Complete(at, ends)
  <2>1. PICK i1, i2, i3, i4 : i1 = d.dst_ip /\ i2 = d.destination_ip /\ i3 = d.network.dst_ip /\ i4 = d.network.destination.ip
    OBVIOUS
  <2>2. PICK p1, p2, p3, p4 : /\ p1 = parsePort(d.dst_port) /\ p2 = parsePort(d.destination_port)
                              /\ p3 = parsePort(d.network.dst_port)
                              /\ p4 = parsePort(d.network.destination.port)
    OBVIOUS
  <2>3. at = [ip |-> Latest(<<i2, i1, i3, i4>>, "", ""),
                              port |-> Latest(<<p2, p1, p3, p4>>, {}, {})]
    <3>1. [i \in DOMAIN <<d.destination_port, d.dst_port, d.network.dst_port, d.network.destination.port>> |->
             parsePort(<<d.destination_port, d.dst_port, d.network.dst_port, d.network.destination.port>>[i])]
          = <<p2, p1, p3, p4>>
      BY <2>2
    <3>2. QED
      BY <1>2, <2>1, <3>1 DEF JSONNetwork
  <2>4. ends = {At(i1, p1), At(i2, p2), At(i3, p3), At(i4, p4)}
    BY <1>2, <2>1, <2>2 DEF JSONEnds, At
  <2>5. QED
    BY <2>3, <2>4, FourMentions
<1>3. QED
  BY <1>1, <1>2

LEMMA SyslogNetworkEnds ==
    ASSUME NEW line
    PROVE  /\ SyslogNetwork(line)["src"] = SyslogEndpoint(line.kv, "SRC", "SPT")
           /\ SyslogNetwork(line)["dst"] = SyslogEndpoint(line.kv, "DST", "DPT")
<1>1. PICK a, b, c :
         /\ a = Latest(<<ProtocolWord(line.words), Upper(LatestOf(line.kv, "PROTO"))>>, "", "")
         /\ b = SyslogEndpoint(line.kv, "SRC", "SPT")
         /\ c = SyslogEndpoint(line.kv, "DST", "DPT")
  OBVIOUS
<1>2. SyslogNetwork(line) = [protocol |-> a, src |-> b, dst |-> c]
  BY <1>1 DEF SyslogNetwork
<1>3. PICK n : n = SyslogNetwork(line)
  OBVIOUS
<1>4. n.src = b /\ n.dst = c
  BY <1>2, <1>3
<1>5. n["src"] = b /\ n["dst"] = c
  BY <1>4
<1>6. QED
  BY <1>1, <1>3, <1>5

LEMMA CSVNetworkEnds ==
    ASSUME NEW t
    PROVE  /\ CSVNetwork(t)["src"] = [ip |-> Col(t, "src_ip"), port |-> Atoi(Col(t, "src_port"))]
           /\ CSVNetwork(t)["dst"] = [ip |-> Col(t, "dst_ip"), port |-> Atoi(Col(t, "dst_port"))]
<1>1. PICK a, b, c :
         /\ a = Latest(<<Upper(Col(t, "protocol"))>>, "", "unknown")
         /\ b = [ip |-> Col(t, "src_ip"), port |-> Atoi(Col(t, "src_port"))]
         /\ c = [ip |-> Col(t, "dst_ip"), port |-> Atoi(Col(t, "dst_port"))]
  OBVIOUS
<1>2. CSVNetwork(t) = [protocol |-> a, src |-> b, dst |-> c]
  BY <1>1 DEF CSVNetwork
<1>3. PICK n : n = CSVNetwork(t)
  OBVIOUS
<1>4. n.src = b /\ n.dst = c
  BY <1>2, <1>3
<1>5. n["src"] = b /\ n["dst"] = c
  BY <1>4
<1>6. QED
  BY <1>1, <1>3, <1>5

(* Both endpoints of a universal event are given by the text. *)
LEMMA EndpointsFromText ==
    ASSUME raw \in RawEvent, NEW t, NEW u \in UniversalAt(t), NEW end \in {"src", "dst"}
    PROVE  LET ends == GivenEnds(raw.text, u.format, end)
           IN  /\ Given(u.network[end], ends)
               /\ u.format = FormatJSON => Complete(u.network[end], ends)
<1>1. WellRead(raw.text)
  BY PipelineAssumption
<1>2. CASE u.format = FormatSyslog /\ u.network = SyslogNetwork(raw.text.line)
  <2>1. PICK kv : kv = raw.text.line.kv
    OBVIOUS
  <2>2. GivenEnds(raw.text, u.format, end) = LineEnds(kv, end)
    BY <1>2, <2>1 DEF GivenEnds, FormatSyslog, FormatJSON, FormatCSV
  <2>3. IsSlice(kv)
    BY <1>1, <2>1 DEF WellRead
  <2>4. CASE end = "src"
    <3>1. \A i \in DOMAIN kv :
             /\ Upper(kv[i].key) = "SRC" => splitIPAndPort(kv[i].val) \in LineEnds(kv, end)
             /\ Upper(kv[i].key) = "SPT" => At("", Atoi(kv[i].val)) \in LineEnds(kv, end)
      BY <2>4 DEF LineEnds
    <3>2. Given(SyslogEndpoint(kv, "SRC", "SPT"), LineEnds(kv, end))
      BY <2>3, <3>1, SyslogEndpointGiven
    <3>3. u.network[end] = SyslogEndpoint(kv, "SRC", "SPT")
      BY <1>2, <2>1, <2>4, SyslogNetworkEnds
    <3>4. QED
      BY <1>2, <2>2, <3>2, <3>3 DEF FormatSyslog, FormatJSON
  <2>5. CASE end = "dst"
    <3>1. \A i \in DOMAIN kv :
             /\ Upper(kv[i].key) = "DST" => splitIPAndPort(kv[i].val) \in LineEnds(kv, end)
             /\ Upper(kv[i].key) = "DPT" => At("", Atoi(kv[i].val)) \in LineEnds(kv, end)
      BY <2>5 DEF LineEnds
    <3>2. Given(SyslogEndpoint(kv, "DST", "DPT"), LineEnds(kv, end))
      BY <2>3, <3>1, SyslogEndpointGiven
    <3>3. u.network[end] = SyslogEndpoint(kv, "DST", "DPT")
      BY <1>2, <2>1, <2>5, SyslogNetworkEnds
    <3>4. QED
      BY <1>2, <2>2, <3>2, <3>3 DEF FormatSyslog, FormatJSON
  <2>6. QED
    BY <2>4, <2>5
<1>3. CASE u.format = FormatJSON /\ \E j : raw.text.json = {j} /\ u.network = JSONNetwork(j.doc)
  <2>1. PICK j : raw.text.json = {j} /\ u.network = JSONNetwork(j.doc)
    BY <1>3
  <2>2. GivenEnds(raw.text, u.format, end) = UNION {JSONEnds(k.doc, end) : k \in raw.text.json}
    BY <1>3 DEF GivenEnds, FormatSyslog, FormatJSON, FormatCSV
  <2>3. GivenEnds(raw.text, u.format, end) = JSONEnds(j.doc, end)
    BY <2>1, <2>2
  <2>4. QED
    BY <2>1, <2>3, JSONEndpointsGiven
<1>4. CASE u.format = FormatCSV /\ \E c : raw.text.csv = {c} /\ u.network = CSVNetwork(c)
  <2>1. PICK c : raw.text.csv = {c} /\ u.network = CSVNetwork(c)
    BY <1>4
  <2>2. GivenEnds(raw.text, u.format, end) = UNION {ColumnEnds(k, end) : k \in raw.text.csv}
    BY <1>4 DEF GivenEnds, FormatSyslog, FormatJSON, FormatCSV
  <2>3. GivenEnds(raw.text, u.format, end) = ColumnEnds(c, end)
    BY <2>1, <2>2
  <2>4. IsSlice(c.header)
    BY <1>1, <2>1 DEF WellRead
  <2>5. CASE end = "src"
    <3>1. \A i \in DOMAIN c.header :
             /\ Clean(c.header[i]) = "src_ip" => At(Trim(c.rows[1][i]), {}) \in ColumnEnds(c, end)
             /\ Clean(c.header[i]) = "src_port" => At("", Atoi(Trim(c.rows[1][i]))) \in ColumnEnds(c, end)
      BY <2>5 DEF ColumnEnds
    <3>2. u.network[end] = [ip |-> Col(c, "src_ip"), port |-> Atoi(Col(c, "src_port"))]
      BY <2>1, <2>5, CSVNetworkEnds
    <3>3. Given(u.network[end], ColumnEnds(c, end))
      <4>1. PICK ipName, portName : ipName = "src_ip" /\ portName = "src_port"
        OBVIOUS
      <4>2. PICK at, ends : at = u.network[end] /\ ends = ColumnEnds(c, end)
        OBVIOUS
      <4>3. at = [ip |-> Col(c, ipName), port |-> Atoi(Col(c, portName))]
        BY <3>2, <4>1, <4>2
      <4>4. \A i \in DOMAIN c.header :
               /\ Clean(c.header[i]) = ipName => At(Trim(c.rows[1][i]), {}) \in ends
               /\ Clean(c.header[i]) = portName => At("", Atoi(Trim(c.rows[1][i]))) \in ends
        BY <3>1, <4>1, <4>2
      <4>5. Given(at, ends)
        BY <2>4, <4>3, <4>4, CSVEndpointGiven
      <4>6. QED
        BY <4>2, <4>5
    <3>4. QED
      BY <1>4, <2>3, <3>3 DEF FormatCSV, FormatJSON
  <2>6. CASE end = "dst"
    <3>1. \A i \in DOMAIN c.header :
             /\ Clean(c.header[i]) = "dst_ip" => At(Trim(c.rows[1][i]), {}) \in ColumnEnds(c, end)
             /\ Clean(c.header[i]) = "dst_port" => At("", Atoi(Trim(c.rows[1][i]))) \in ColumnEnds(c, end)
      BY <2>6 DEF ColumnEnds
    <3>2. u.network[end] = [ip |-> Col(c, "dst_ip"), port |-> Atoi(Col(c, "dst_port"))]
      BY <2>1, <2>6, CSVNetworkEnds
    <3>3. Given(u.network[end], ColumnEnds(c, end))
      <4>1. PICK ipName, portName : ipName = "dst_ip" /\ portName = "dst_port"
        OBVIOUS
      <4>2. PICK at, ends : at = u.network[end] /\ ends = ColumnEnds(c, end)
        OBVIOUS
      <4>3. at = [ip |-> Col(c, ipName), port |-> Atoi(Col(c, portName))]
        BY <3>2, <4>1, <4>2
      <4>4. \A i \in DOMAIN c.header :
               /\ Clean(c.header[i]) = ipName => At(Trim(c.rows[1][i]), {}) \in ends
               /\ Clean(c.header[i]) = portName => At("", Atoi(Trim(c.rows[1][i]))) \in ends
        BY <3>1, <4>1, <4>2
      <4>5. Given(at, ends)
        BY <2>4, <4>3, <4>4, CSVEndpointGiven
      <4>6. QED
        BY <4>2, <4>5
    <3>4. QED
      BY <1>4, <2>3, <3>3 DEF FormatCSV, FormatJSON
  <2>7. QED
    BY <2>5, <2>6
<1>5. CASE ReadBySyslog(u)
  BY <1>2, <1>5 DEF ReadBySyslog
<1>6. CASE ReadByJSON(u)
  BY <1>3, <1>6 DEF ReadByJSON
<1>7. CASE ReadByCSV(u)
  BY <1>4, <1>7 DEF ReadByCSV
<1>8. QED
  BY <1>5, <1>6, <1>7, UniversalForm
-----------------------------------------------------------------------------
(* A universal event is the outcome of the delivery at hand. *)
LEMMA UniversalIsOutcome ==
    ASSUME StageInv, NEW u \in universal
    PROVE  raw \in RawEvent /\ \E t : t = clock /\ u \in UniversalAt(t) /\ universal = UniversalAt(t)
BY DEF StageInv, Stages

(* Every address and port a universal event reports is one the text gives  *)
(* for that endpoint: through the order in which SyslogParser, JSONParser  *)
(* and CSVParser let one place override another, no value is made up, and  *)
(* an empty or unreadable place of a JSON text hides no other.             *)
THEOREM EndpointsGiven == Spec => []EndpointsAreGiven
<1>1. StageInv => EndpointsAreGiven
  <2> SUFFICES ASSUME StageInv, NEW u \in universal, NEW end \in {"src", "dst"}
               PROVE  LET ips == GivenIPs(raw.text, u.format, end)
                          ports == GivenPorts(raw.text, u.format, end)
                      IN  /\ u.network[end].port \subseteq ports
                          /\ u.network[end].ip \in ips \cup {""}
                          /\ u.format = FormatJSON /\ ports # {} => u.network[end].port # {}
                          /\ u.format = FormatJSON /\ ips # {} => u.network[end].ip # ""
    BY DEF EndpointsAreGiven
  <2>1. PICK ends : ends = GivenEnds(raw.text, u.format, end)
    OBVIOUS
  <2>2. Given(u.network[end], ends) /\ (u.format = FormatJSON => Complete(u.network[end], ends))
    BY <2>1, UniversalIsOutcome, EndpointsFromText
  <2>3. /\ GivenIPs(raw.text, u.format, end) = IPsOf(ends)
        /\ GivenPorts(raw.text, u.format, end) = PortsOf(ends)
    BY <2>1 DEF GivenIPs, GivenPorts, IPsOf, PortsOf
  <2>4. QED
    BY <2>2, <2>3 DEF Given, Complete
<1>2. QED
  BY <1>1, SpecStageInv, PTL

(* Validate turns an event down only for a port that the text itself       *)
(* gives: Normalize always sets an event_id and the schema version, and    *)
(* what it puts into a port comes from the text.                           *)
THEOREM InvalidOnlyByPort == Spec => []InvalidByPortOnly
<1>1. StageInv => InvalidByPortOnly
  <2> SUFFICES ASSUME StageInv PROVE InvalidByPortOnly
    OBVIOUS
  <2>1. PICK t : t = clock
    OBVIOUS
  <2>2. ASSUME verdict \in {"valid", "invalid"}
        PROVE  /\ raw \in RawEvent /\ universal = UniversalAt(t)
               /\ \E u : /\ universal = {u}
                         /\ verdict = IF SchemaErrors(u) = {} THEN "valid" ELSE "invalid"
    <3>1. raw \in RawEvent /\ verdict = VerdictAt(t) /\ universal = UniversalAt(t)
      BY <2>1, <2>2 DEF StageInv, Stages
    <3>2. /\ ParsedAt(t) # {}
          /\ verdict = IF SchemaErrors(The(UniversalAt(t))) = {} THEN "valid" ELSE "invalid"
      BY <2>2, <3>1 DEF VerdictAt
    <3>3. PICK u : UniversalAt(t) = {u}
      BY <3>2 DEF UniversalAt
    <3>4. The(UniversalAt(t)) = u
      BY <3>3, TheOfSingleton
    <3>5. QED
      BY <3>1, <3>2, <3>3, <3>4
  <2>3. ASSUME verdict = "invalid"
        PROVE  \E u \in universal, end \in {"src", "dst"} : ~PortOK(GivenPorts(raw.text, u.format, end))
    <3>1. PICK u : universal = {u} /\ SchemaErrors(u) # {}
      BY <2>2, <2>3
    <3>2. raw \in RawEvent /\ u \in UniversalAt(t)
      BY <2>2, <2>3, <3>1
    <3>3. u.event_id # "" /\ u.schema_version = "1.0"
      BY <3>2, UniversalForm
    <3>4. PICK end \in {"src", "dst"} : ~PortOK(u.network[end].port)
      <4>1. ~PortOK(u.network.src.port) \/ ~PortOK(u.network.dst.port)
        BY <3>1, <3>3 DEF SchemaErrors
      <4>2. ~PortOK(u.network["src"].port) \/ ~PortOK(u.network["dst"].port)
        BY <4>1
      <4>3. QED
        BY <4>2
    <3>5. Given(u.network[end], GivenEnds(raw.text, u.format, end))
      BY <3>2, EndpointsFromText
    <3>6. u.network[end].port \subseteq GivenPorts(raw.text, u.format, end)
      BY <3>5 DEF Given, GivenPorts, PortsOf
    <3>7. ~PortOK(GivenPorts(raw.text, u.format, end))
      <4>1. PICK legal : legal = 0..MaxPort
        OBVIOUS
      <4>2. ~(u.network[end].port \subseteq legal)
        BY <3>4, <4>1 DEF PortOK
      <4>3. ~(GivenPorts(raw.text, u.format, end) \subseteq legal)
        BY <3>6, <4>2
      <4>4. QED
        BY <4>1, <4>3 DEF PortOK
    <3>8. QED
      BY <3>1, <3>7
  <2>4. ASSUME verdict = "valid", NEW v \in universal, NEW end \in {"src", "dst"}
        PROVE  PortOK(v.network[end].port)
    <3>1. SchemaErrors(v) = {}
      BY <2>2, <2>4
    <3>2. PortOK(v.network.src.port) /\ PortOK(v.network.dst.port)
      BY <3>1 DEF SchemaErrors
    <3>3. QED
      BY <3>2
  <2>5. QED
    BY <2>3, <2>4 DEF InvalidByPortOnly
<1>2. QED
  BY <1>1, SpecStageInv, PTL

-----------------------------------------------------------------------------
(* Severities. *)

(* What SeverityFitsAction asks of an event, given the severities a text   *)
(* states and the actions that count as refused.                           *)
Fits(event, stated, refused) ==
    IF stated # {} THEN event.severity \in stated
    ELSE event.severity = IF event.action \in refused THEN "high" ELSE "info"

LEMMA JSONSeverity ==
    ASSUME NEW d
    PROVE  Fits(JSONEvent(d), {d.severity, d.firewall.severity} \ {""}, {"deny", "block", "drop"})
<1>1. PICK action, sev, none :
         /\ none = ""
         /\ action = Latest(<<Lower(d.firewall.action), Lower(d.action)>>, "", "unknown")
         /\ sev = Latest(<<d.firewall.severity, d.severity>>, none, none)
  OBVIOUS
<1>2. Stands(sev, {d.firewall.severity, d.severity}, none)
  BY <1>1, LatestOfPair
<1>3. PICK event : event = JSONEvent(d)
  OBVIOUS
<1>4. PICK category : category = Latest(<<d.firewall.category, d.category>>, "", "network")
  OBVIOUS
<1>5. event = [category |-> category, action |-> action,
               severity |-> IF sev # "" THEN sev
                            ELSE IF action \in {"deny", "block", "drop"} THEN "high" ELSE "info"]
  BY <1>1, <1>3, <1>4 DEF JSONEvent
<1>6. /\ event.action = action
      /\ event.severity = IF sev # "" THEN sev
                          ELSE IF action \in {"deny", "block", "drop"} THEN "high" ELSE "info"
  BY <1>5
<1>7. Fits(event, {d.severity, d.firewall.severity} \ {""}, {"deny", "block", "drop"})
  BY <1>1, <1>2, <1>6 DEF Fits, Stands
<1>8. QED
  BY <1>3, <1>7

LEMMA CSVSeverity ==
    ASSUME NEW t
    PROVE  Fits(CSVEvent(t), {Col(t, "severity")} \ {""}, {"deny"})
<1>1. PICK action, category, sev, none, default :
         /\ none = ""
         /\ action = Latest(<<Lower(Col(t, "action"))>>, "", "unknown")
         /\ category = Latest(<<Col(t, "category")>>, "", "network")
         /\ sev = Col(t, "severity")
         /\ default = IF action = "deny" THEN "high" ELSE "info"
  OBVIOUS
<1>2. PICK event : event = CSVEvent(t)
  OBVIOUS
<1>3. event = [category |-> category, action |-> action, severity |-> Latest(<<sev>>, none, default)]
  BY <1>1, <1>2 DEF CSVEvent
<1>4. Latest(<<sev>>, none, default) = IF sev = none THEN default ELSE sev
  BY LatestOfOne
<1>5. event.action = action /\ event.severity = IF sev = none THEN default ELSE sev
  BY <1>3, <1>4
<1>6. Fits(event, {sev} \ {""}, {"deny"})
  BY <1>1, <1>5 DEF Fits
<1>7. QED
  BY <1>1, <1>2, <1>6

(* For every text, the severity of a universal event is one that the text  *)
(* states, and if it states none it is decided by the action the event     *)
(* reports in the end: "high" for deny, block and drop in JSON (json.go),  *)
(* for deny alone in CSV and syslog (csv.go, syslog.go), else "info".      *)
THEOREM SeverityFits == Spec => []SeverityFitsAction
<1>1. StageInv => SeverityFitsAction
  <2> SUFFICES ASSUME StageInv, NEW u \in universal
               PROVE  Fits(u.event, StatedSeverities(raw.text, u.format), RefusedActions(u.format))
    BY DEF SeverityFitsAction, Fits
  <2>1. CASE ReadBySyslog(u)
    <3>1. StatedSeverities(raw.text, u.format) = {}
      BY <2>1 DEF ReadBySyslog, StatedSeverities, FormatSyslog, FormatJSON, FormatCSV
    <3>2. PICK action : u.event = [category |-> "network", action |-> action,
                                   severity |-> IF action = "deny" THEN "high" ELSE "info"]
      BY <2>1 DEF ReadBySyslog
    <3>3. u.event.action = action /\ u.event.severity = IF action = "deny" THEN "high" ELSE "info"
      BY <3>2
    <3>4. RefusedActions(u.format) = {"deny"}
      BY <2>1 DEF ReadBySyslog, RefusedActions, FormatSyslog, FormatJSON
    <3>5. QED
      BY <3>1, <3>3, <3>4 DEF Fits
  <2>2. CASE ReadByJSON(u)
    <3>1. PICK j : raw.text.json = {j} /\ u.event = JSONEvent(j.doc)
      BY <2>2 DEF ReadByJSON
    <3>2. StatedSeverities(raw.text, u.format)
          = (UNION {{k.doc.severity, k.doc.firewall.severity} : k \in raw.text.json}) \ {""}
      BY <2>2 DEF ReadByJSON, StatedSeverities, FormatSyslog, FormatJSON, FormatCSV
    <3>3. StatedSeverities(raw.text, u.format) = {j.doc.severity, j.doc.firewall.severity} \ {""}
      BY <3>1, <3>2
    <3>4. RefusedActions(u.format) = {"deny", "block", "drop"}
      BY <2>2 DEF ReadByJSON, RefusedActions
    <3>5. QED
      BY <3>1, <3>3, <3>4, JSONSeverity
  <2>3. CASE ReadByCSV(u)
    <3>1. PICK c : raw.text.csv = {c} /\ u.event = CSVEvent(c)
      BY <2>3 DEF ReadByCSV
    <3>2. StatedSeverities(raw.text, u.format) = {Col(k, "severity") : k \in raw.text.csv} \ {""}
      BY <2>3 DEF ReadByCSV, StatedSeverities, FormatSyslog, FormatJSON, FormatCSV
    <3>3. StatedSeverities(raw.text, u.format) = {Col(c, "severity")} \ {""}
      BY <3>1, <3>2
    <3>4. RefusedActions(u.format) = {"deny"}
      BY <2>3 DEF ReadByCSV, RefusedActions, FormatCSV, FormatJSON
    <3>5. QED
      BY <3>1, <3>3, <3>4, CSVSeverity
  <2>4. QED
    BY <2>1, <2>2, <2>3, UniversalIsOutcome, UniversalForm
<1>2. QED
  BY <1>1, SpecStageInv, PTL
=============================================================================
