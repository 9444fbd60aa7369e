----------------------------- MODULE MCPipeline -----------------------------
(***************************************************************************)
(* Raw events for Pipeline: every hint with a text of each kind, and, for  *)
(* each group of fields that the parsers decide together, every            *)
(* combination of values for that group.                                   *)
(***************************************************************************)
EXTENDS Pipeline, TLC

Table(t, s) == IF s \in DOMAIN t THEN t[s] ELSE s

MCLower(s) == Table([DENY |-> "deny", Drop |-> "drop", JSON |-> "json", Action |-> "action"], s)
MCUpper(s) == Table([deny |-> "DENY", Drop |-> "DROP", allow |-> "ALLOW", tcp |-> "TCP",
                     src |-> "SRC"], s)
MCTrim(s) == Table((" JSON " :> "JSON") @@ (" Action " :> "Action") @@ (" 443 " :> "443"), s)

Numerals == ("443" :> 443) @@ ("80" :> 80) @@ ("-1" :> -1) @@ ("65536" :> 65536)
MCAtoi(s) == IF s \in DOMAIN Numerals THEN {Numerals[s]} ELSE {}
MCHostPort(s) ==
    CASE s = "10.0.0.1:80" -> {[ip |-> "10.0.0.1", port |-> {80}]}
      [] s = "10.0.0.1:65536" -> {[ip |-> "10.0.0.1", port |-> {65536}]}
      [] OTHER -> {}

\* New Year comes between the second and the third delivery.
MCYear(t) == IF t <= 3 THEN 2024 ELSE 2025
Years == {2024, 2025}

-----------------------------------------------------------------------------
NoLine == [stamp |-> "none", years |-> {}, host |-> "", kv |-> <<>>, words |-> <<>>, bare |-> FALSE]
Plain == [blank |-> FALSE, json |-> {}, csv |-> {}, line |-> NoLine]

\* Syslog lines, with and without a comma: also the header row of a CSV text.
LineOf(line, header) == [Plain EXCEPT !.line = line, !.csv = {[header |-> header, rows |-> <<>>]}]
Line(line) == LineOf(line, <<"line">>)

KV(k, v) == [key |-> k, val |-> v]
KVs(S) == {<<>>} \cup {<<x>> : x \in S} \cup {<<x, y>> : x, y \in S}

Stamps == [stamp : {"none", "iso"}, years : {{}}, host : {""}]
          \cup [stamp : {"bsd"}, years : {Years, {2024}, {}}, host : {"", "fw1"}]

Lines ==
    {LineOf([NoLine EXCEPT !.stamp = "bsd", !.years = Years, !.host = "fw1"], <<"line", "action">>),
     Line([NoLine EXCEPT !.bare = TRUE])}
    \cup {Line([NoLine EXCEPT !.stamp = s.stamp, !.years = s.years, !.host = s.host, !.words = w]) :
        s \in Stamps, w \in {<<>>, <<"Drop">>, <<"allow", "deny">>, <<"deny", "allow", "tcp">>}}
    \cup {Line([NoLine EXCEPT !.kv = kv, !.words = w]) :
        kv \in KVs({KV("ACTION", "DENY"), KV("ACTION", "Drop"), KV("PROTO", "tcp")}),
        w \in {<<>>, <<"deny">>}}
    \cup {Line([NoLine EXCEPT !.kv = kv]) :
        kv \in KVs({KV("src", "10.0.0.1:80"), KV("SRC", "10.0.0.1:65536"), KV("SRC", "fe80::1"),
                    KV("SPT", "443"), KV("SPT", "x"), KV("DPT", "65536"), KV("DPT", "-1"),
                    KV("DST", "10.0.0.1:80")})}

-----------------------------------------------------------------------------
NoEnd == [ip |-> "", port |-> Null]
NoDoc == [timestamp |-> FALSE, action |-> "", protocol |-> "", category |-> "", severity |-> "",
          src_ip |-> "", source_ip |-> "", dst_ip |-> "", destination_ip |-> "",
          src_port |-> Null, source_port |-> Null, dst_port |-> Null, destination_port |-> Null,
          source |-> [type |-> "", vendor |-> "", product |-> "", identifier |-> ""],
          firewall |-> [action |-> "", protocol |-> "", category |-> "", severity |-> ""],
          network |-> [protocol |-> "", src_ip |-> "", src_port |-> Null, dst_ip |-> "",
                       dst_port |-> Null, source |-> NoEnd, destination |-> NoEnd],
          username |-> {}]

JSON(bracketed, decodes, doc) ==
    [Plain EXCEPT !.json = {[bracketed |-> bracketed, decodes |-> decodes, doc |-> doc]}]

Docs ==
    {[NoDoc EXCEPT !.timestamp = t, !.firewall.action = a, !.action = b,
                   !.firewall.severity = s, !.severity = r] :
        t \in BOOLEAN, a \in {"", "DENY", "allow"}, b \in {"", "deny", "Drop", "allow"},
        s \in {"", "low"}, r \in {"", "critical"}}
    \cup {[NoDoc EXCEPT !.src_port = a, !.source_port = b, !.network.src_port = c,
                        !.network.source.port = d] :
        a \in {Null, Str("x"), Num(160)}, b \in {Null, Num(-1), Str("-1")},
        c \in {Null, Str(" 443 ")}, d \in {Null, Num(131071), Num(131072)}}
    \cup {[NoDoc EXCEPT !.dst_port = a, !.network.dst_port = b, !.network.destination.port = c,
                        !.network.source.port = d] :
        a \in {Null, Num(160)}, b \in {Null, Str("x"), Num(886)},
        c \in {Null, Str("65536"), Str("80")}, d \in {Null, Num(886)}}
    \cup {[NoDoc EXCEPT !.src_ip = a, !.source_ip = b, !.network.src_ip = c, !.network.source.ip = d,
                        !.dst_ip = c, !.destination_ip = d, !.network.dst_ip = a,
                        !.network.destination.ip = b] :
        a \in {"", "ip1"}, b \in {"", "ip2"}, c \in {"", "ip3"}, d \in {"", "ip4"}}
    \cup {[NoDoc EXCEPT !.protocol = a, !.network.protocol = b, !.category = c,
                        !.source.identifier = d, !.username = u] :
        a \in {"", "tcp"}, b \in {"", "udp"}, c \in {"", "dns"}, d \in {"", "id"}, u \in {{}, {"bob"}}}

JSONs == {JSON(TRUE, TRUE, d) : d \in Docs}
         \cup {JSON(TRUE, FALSE, NoDoc), JSON(FALSE, TRUE, NoDoc),
               [JSON(TRUE, TRUE, NoDoc) EXCEPT !.line.kv = <<KV("ACTION", "DENY")>>]}

-----------------------------------------------------------------------------
CSV(header, rows) == [Plain EXCEPT !.csv = {[header |-> header, rows |-> rows]}]

CSVs ==
    {CSV(<<h, g>>, rows) :
        h \in {" Action ", "severity", "host"}, g \in {"Action", "timestamp", "name"},
        rows \in {<<>>} \cup {<<<<x, y>>>> : x, y \in {"", "DENY", "Drop"}}}
    \cup {CSV(<<h, g>>, <<<<x, y>>, <<"80", "80">>>>) :
        h \in {"src_port", "dst_port"}, g \in {"src_port", "dst_port"},
        x \in {"", "x", "443", "65536"}, y \in {"", " 443 ", "-1"}}
    \cup {CSV(<<"src_ip", h, "dst_ip">>, <<<<"ip1", x, "ip2">>>>) :
        h \in {"src_ip", "dst_ip", "source", "username", "protocol"}, x \in {"", "ip3"}}

Blank == [Plain EXCEPT !.blank = TRUE]

Raw(text, hint, source) == [event_id |-> "e1", format |-> hint, source |-> source, text |-> text]

MCRawEvent ==
    {Raw(text, "", s) : text \in Lines \cup JSONs \cup CSVs, s \in {"", "edge"}}
    \cup {Raw(text, h, "") :
        h \in {"json", " JSON ", "csv", "syslog", "cef"},
        text \in {Blank, Plain, JSON(TRUE, TRUE, NoDoc), JSON(TRUE, FALSE, NoDoc), JSON(FALSE, TRUE, NoDoc)}
                 \cup {CSV(<<"Action">>, <<>>), CSV(<<"Action">>, <<<<"DENY">>>>)}
                 \cup {Line([NoLine EXCEPT !.stamp = "iso"])}}
=============================================================================
