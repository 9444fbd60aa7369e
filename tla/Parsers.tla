------------------------------ MODULE Parsers ------------------------------
(***************************************************************************)
(* The parser engine, its registry and the three parsers                   *)
(* (internal/parsing).  A parser returns {} for an error and {event} for   *)
(* the fields it has found; `now' is the reading of time.Now.  A timestamp *)
(* is a clock reading, or the time written in the text: with its own year, *)
(* 0, or with the year it is given.                                        *)
(***************************************************************************)
EXTENDS Detection

Stamp(written, at) == [written |-> written, at |-> at]

Time(isWritten, now) == IF isWritten THEN Stamp(TRUE, 0) ELSE Stamp(FALSE, now)

-----------------------------------------------------------------------------
(* Syslog. *)

DenyWords == {"DENY", "DROP", "BLOCK"}
AllowWords == {"ALLOW", "ACCEPT", "PERMIT"}
ProtocolWords == {"TCP", "UDP", "ICMP"}

(* The last word of the body that says so decides. *)
ActionWord(words) ==
    Latest([i \in DOMAIN words |-> IF Upper(words[i]) \in DenyWords THEN "deny"
                                   ELSE IF Upper(words[i]) \in AllowWords THEN "allow"
                                   ELSE ""], "", "unknown")

ProtocolWord(words) ==
    Latest([i \in DOMAIN words |-> IF Upper(words[i]) \in ProtocolWords
                                   THEN Upper(words[i]) ELSE ""], "", "unknown")

(* SRC and SPT, or DST and DPT: a port of its own overrides ip:port. *)
SyslogEndpoint(kv, ipKey, portKey) ==
    LET at == splitIPAndPort(LatestOf(kv, ipKey))
    IN  [ip |-> at.ip,
         port |-> Latest(<<at.port, Atoi(LatestOf(kv, portKey))>>, {}, {})]

(* Only a BSD time with host and body is read, as a time of the current    *)
(* year; an ISO time is not, and a time that does not parse becomes the    *)
(* current time.                                                           *)
SyslogTime(line, now) ==
    IF line.host # "" /\ line.stamp = "bsd" /\ Year(now) \in line.years
    THEN Stamp(TRUE, Year(now)) ELSE Stamp(FALSE, now)

SyslogHost(line, source) ==
    IF line.host # "" THEN line.host ELSE Latest(<<source>>, "", "unknown-host")

(* Faulty variant: a line whose time is no time of this year is refused. *)
SyslogParseStrict(raw, now) ==
    IF raw.text.blank \/ (raw.text.line.stamp = "bsd" /\ Year(now) \notin raw.text.line.years) THEN {}
    ELSE {[timestamp |-> SyslogTime(raw.text.line, now),
           source |-> [type |-> "firewall", vendor |-> "generic", product |-> "syslog-firewall",
                       identifier |-> SyslogHost(raw.text.line, raw.source)],
           event |-> [category |-> "network", action |-> "unknown", severity |-> "info"],
           network |-> [protocol |-> "unknown", src |-> [ip |-> "", port |-> {}],
                        dst |-> [ip |-> "", port |-> {}]],
           user |-> {}]}

SyslogParse(raw, now) ==
    LET line == raw.text.line
        action == Latest(<<ActionWord(line.words), Lower(LatestOf(line.kv, "ACTION"))>>, "", "")
        protocol == Latest(<<ProtocolWord(line.words), Upper(LatestOf(line.kv, "PROTO"))>>, "", "")
    IN  IF raw.text.blank THEN {}
        ELSE {[timestamp |-> SyslogTime(line, now),
               source |-> [type |-> "firewall", vendor |-> "generic",
                           product |-> "syslog-firewall",
                           identifier |-> Latest(<<SyslogHost(line, raw.source), raw.source>>, "", "")],
               event |-> [category |-> "network", action |-> action,
                          severity |-> IF action = "deny" THEN "high" ELSE "info"],
               network |-> [protocol |-> protocol,
                            src |-> SyslogEndpoint(line.kv, "SRC", "SPT"),
                            dst |-> SyslogEndpoint(line.kv, "DST", "DPT")],
               user |-> {}]}

-----------------------------------------------------------------------------
(* JSON.  Flat fields override the firewall object, the network object     *)
(* overrides both, and its source and destination objects override it.     *)

(* Faulty variant: a refused connection is "high" whatever the text says. *)
JSONEventAlwaysHigh(d) ==
    LET action == Latest(<<Lower(d.firewall.action), Lower(d.action)>>, "", "unknown")
    IN  [category |-> Latest(<<d.firewall.category, d.category>>, "", "network"),
         action |-> action,
         severity |-> IF action \in {"deny", "block", "drop"} THEN "high"
                      ELSE Latest(<<d.firewall.severity, d.severity>>, "", "info")]

JSONEvent(d) ==
    LET action == Latest(<<Lower(d.firewall.action), Lower(d.action)>>, "", "unknown")
        stated == Latest(<<d.firewall.severity, d.severity>>, "", "")
    IN  [category |-> Latest(<<d.firewall.category, d.category>>, "", "network"),
         action |-> action,
         severity |-> IF stated # "" THEN stated
                      ELSE IF action \in {"deny", "block", "drop"} THEN "high" ELSE "info"]

JSONSource(d, source) ==
    [type |-> Latest(<<d.source.type>>, "", "firewall"),
     vendor |-> Latest(<<d.source.vendor>>, "", "generic"),
     product |-> Latest(<<d.source.product>>, "", "json-firewall"),
     identifier |-> Latest(<<source, d.source.identifier>>, "", "json-source")]

(* Faulty variant: the network object's destination fills the source. *)
JSONNetworkSwapped(d) ==
    LET n == d.network
        port(values) == Latest([i \in DOMAIN values |-> parsePort(values[i])], {}, {})
    IN  [protocol |-> "unknown",
         src |-> [ip |-> n.source.ip, port |-> port(<<d.src_port, n.destination.port>>)],
         dst |-> [ip |-> n.destination.ip, port |-> port(<<d.dst_port, n.destination.port>>)]]

JSONNetwork(d) ==
    LET n == d.network
        ip(values) == Latest(values, "", "")
        port(values) == Latest([i \in DOMAIN values |-> parsePort(values[i])], {}, {})
    IN  [protocol |-> Latest(<<Upper(d.firewall.protocol), Upper(d.protocol), Upper(n.protocol)>>,
                             "", "unknown"),
         src |-> [ip |-> ip(<<d.source_ip, d.src_ip, n.src_ip, n.source.ip>>),
                  port |-> port(<<d.source_port, d.src_port, n.src_port, n.source.port>>)],
         dst |-> [ip |-> ip(<<d.destination_ip, d.dst_ip, n.dst_ip, n.destination.ip>>),
                  port |-> port(<<d.destination_port, d.dst_port, n.dst_port, n.destination.port>>)]]

JSONParse(raw, now) ==
    {[timestamp |-> Time(j.doc.timestamp, now),
      source |-> JSONSource(j.doc, raw.source),
      event |-> JSONEvent(j.doc),
      network |-> JSONNetwork(j.doc),
      user |-> j.doc.username] : j \in {k \in raw.text.json : k.decodes}}

-----------------------------------------------------------------------------
(* CSV: the header and the first row; further rows are not looked at. *)

(* A column's value; of two columns with the same name the later one, even *)
(* if it is empty.                                                         *)
Col(t, name) ==
    LET named == {i \in DOMAIN t.header : Clean(t.header[i]) = name}
    IN  IF named = {} THEN "" ELSE Trim(t.rows[1][Last(named)])

CSVEvent(t) ==
    LET action == Latest(<<Lower(Col(t, "action"))>>, "", "unknown")
    IN  [category |-> Latest(<<Col(t, "category")>>, "", "network"),
         action |-> action,
         severity |-> Latest(<<Col(t, "severity")>>, "", IF action = "deny" THEN "high" ELSE "info")]

CSVParse(raw, now) ==
    {[timestamp |-> Time(Col(t, "timestamp") # "", now),
      source |-> [type |-> "firewall", vendor |-> "generic", product |-> "csv-firewall",
                  identifier |-> Latest(<<raw.source, Col(t, "source")>>, "", "csv-source")],
      event |-> CSVEvent(t),
      network |-> [protocol |-> Latest(<<Upper(Col(t, "protocol"))>>, "", "unknown"),
                   src |-> [ip |-> Col(t, "src_ip"), port |-> Atoi(Col(t, "src_port"))],
                   dst |-> [ip |-> Col(t, "dst_ip"), port |-> Atoi(Col(t, "dst_port"))]],
      user |-> {Col(t, "username")} \ {""}] : t \in {u \in raw.text.csv : Len(u.rows) >= 1}}

-----------------------------------------------------------------------------
(* The parsers main has registered, under their normalised format names,   *)
(* and Engine.Parse: no parser for the format, or the parser's error.      *)
Registry == {FormatSyslog, FormatJSON, FormatCSV}

EngineParse(raw, detection, now) ==
    LET format == Clean(detection.format)
    IN  CASE format \notin Registry -> {}
          [] format = FormatSyslog -> SyslogParse(raw, now)
          [] format = FormatJSON -> JSONParse(raw, now)
          [] format = FormatCSV -> CSVParse(raw, now)
=============================================================================
