----------------------------- MODULE Detection -----------------------------
(***************************************************************************)
(* Format detection and drift analysis (internal/detection).  Confidences  *)
(* are in hundredths; source type, reasons and messages are left out.      *)
(***************************************************************************)
EXTENDS LogText

FormatSyslog == "syslog"
FormatJSON == "json"
FormatCSV == "csv"
FormatUnknown == "unknown"

KnownFormats == {FormatSyslog, FormatJSON, FormatCSV}

\* The names are lower case and have no blanks around them.
ASSUME FormatNamesAreClean == \A f \in KnownFormats \cup {FormatUnknown} : Clean(f) = f

Detected(format, confidence) == [format |-> format, confidence |-> confidence]

LooksLikeJSON(text) == \E j \in text.json : j.bracketed

HeaderSignals == {"timestamp", "time", "action", "act", "protocol", "proto", "src_ip",
                  "dst_ip", "src_port", "dst_port", "source", "severity", "ip"}

(* Two columns imply the comma the code also asks for. *)
LooksLikeCSV(text) ==
    \E t \in text.csv :
        /\ Len(t.header) >= 2
        /\ Len(t.rows) >= 1
        /\ \E i \in DOMAIN t.header : Clean(t.header[i]) \in HeaderSignals

SyslogKeys == {"SRC", "DST", "SPT", "DPT", "PROTO", "ACTION"}

LooksLikeSyslog(text) ==
    \/ text.line.stamp # "none"
    \/ text.line.bare
    \/ \E i \in DOMAIN text.line.kv : Upper(text.line.kv[i].key) \in SyslogKeys

(* Faulty variant: a header row alone makes a CSV text. *)
DetectHeaderOnly(text, hint) ==
    IF Clean(hint) \in KnownFormats THEN Detected(Clean(hint), 100)
    ELSE IF LooksLikeJSON(text) THEN Detected(FormatJSON, 95)
    ELSE IF \E t \in text.csv : Len(t.header) >= 2 THEN Detected(FormatCSV, 90)
    ELSE IF LooksLikeSyslog(text) THEN Detected(FormatSyslog, 85)
    ELSE Detected(FormatUnknown, 0)

(* The caller's hint first, then JSON, CSV, syslog. *)
Detect(text, hint) ==
    IF Clean(hint) \in KnownFormats THEN Detected(Clean(hint), 100)
    ELSE IF text.blank THEN Detected(FormatUnknown, 0)
    ELSE IF LooksLikeJSON(text) THEN Detected(FormatJSON, 95)
    ELSE IF LooksLikeCSV(text) THEN Detected(FormatCSV, 90)
    ELSE IF LooksLikeSyslog(text) THEN Detected(FormatSyslog, 85)
    ELSE Detected(FormatUnknown, 0)

(* Faulty variant: a text that no format fits counts as drifted. *)
AnalyzeDrifted(ctxCancelled, detection) ==
    IF Clean(detection.format) \notin KnownFormats THEN "major_drift" ELSE "stable"

(* The drift status; with a cancelled context an error and no status. *)
Analyze(ctxCancelled, detection) ==
    IF ctxCancelled THEN ""
    ELSE IF Clean(detection.format) \notin KnownFormats \/ detection.confidence < 50
         THEN "unknown"
         ELSE "stable"
=============================================================================
