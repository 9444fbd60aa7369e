------------------------------ MODULE LogText ------------------------------
(***************************************************************************)
(* The text of a log payload, as far as detection and the parsers can tell *)
(* texts apart, and the functions of Go's standard library they apply to   *)
(* its words.  A text is what each reader makes of it:                     *)
(*   blank  nothing is left after TrimSpace                                *)
(*   json   {} if the text is not JSON, else {j}:                          *)
(*            j.bracketed  it is an object or an array                     *)
(*            j.decodes    it decodes into the jsonLogSchema struct        *)
(*            j.doc        the fields; an absent object or field reads     *)
(*                         like one that is empty                          *)
(*   csv    {} if csv.Reader fails, else {t} with t.header and t.rows; the *)
(*          reader only succeeds when all records have the same length     *)
(*   line   the text as a syslog line:                                     *)
(*            line.stamp  "none", "iso" or "bsd", a time without a year    *)
(*            line.years  the years in which a BSD time is a time: none if *)
(*                        it does not parse (a one-digit day), leap years  *)
(*                        for 29 February                                  *)
(*            line.host   "" unless a BSD time, a host and a body follow   *)
(*                        each other                                       *)
(*            line.kv     the KEY=value pairs, line.words the other words  *)
(*            line.bare   a firewall key with nothing after its "="        *)
(* Go's pointers are sets of at most one element, nil being {}.            *)
(***************************************************************************)
EXTENDS Integers, Sequences

CONSTANTS
    Lower(_),       \* strings.ToLower
    Upper(_),       \* strings.ToUpper
    Trim(_),        \* strings.TrimSpace
    Atoi(_),        \* strconv.Atoi: {} for an error
    HostPort(_),    \* net.SplitHostPort and Atoi of its port: {} for an error
    Year(_)         \* Time.Year of a clock reading

\* An empty word is neither a number nor a host with a port.
ASSUME EmptyWordAssumption == Atoi("") = {} /\ HostPort("") = {}

Clean(s) == Lower(Trim(s))

IsSlice(s) == Len(s) \in Nat /\ DOMAIN s = 1..Len(s)

\* The readers give one result at most, and find nothing in a blank text.
\* Pairs and columns come as slices.
WellRead(text) ==
    /\ IsSlice(text.line.kv)
    /\ \A t \in text.csv : IsSlice(t.header)
    /\ \A j, k \in text.json : j = k
    /\ \A t, u \in text.csv : t = u
    /\ text.blank => text.json = {} /\ ~\E t \in text.csv : Len(t.header) >= 2

\* What a pointer points to.
The(p) == CHOOSE x \in p : TRUE

Last(indices) == CHOOSE i \in indices : \A j \in indices : j <= i

\* Assignments in the order of the code: the last value that is not `none'
\* stands, and `default' if there is none.
Latest(values, none, default) ==
    LET set == {i \in DOMAIN values : values[i] # none}
    IN  IF set = {} THEN default ELSE values[Last(set)]

\* A key's value in a map that is filled from the pairs in kv; "" if absent.
LatestOf(kv, k) ==
    Latest([i \in DOMAIN kv |-> IF Upper(kv[i].key) = k THEN kv[i].val ELSE ""], "", "")

-----------------------------------------------------------------------------
(* A value of type interface{} that encoding/json decodes: a string, a     *)
(* number (in halves, to have some that are not integers), or null, which  *)
(* stands for every other value too.                                       *)
Str(s) == [type |-> "string", chars |-> s]
Num(h) == [type |-> "number", halves |-> h]
Null == [type |-> "null"]

(* int(v) of a float64 drops the fraction. *)
Truncate(h) == IF h >= 0 THEN h \div 2 ELSE -((-h) \div 2)

parsePort(v) ==
    CASE v.type = "null" -> {}
      [] v.type = "number" -> {Truncate(v.halves)}
      [] v.type = "string" -> Atoi(Trim(v.chars))

(* "host:port" is taken apart only when both halves make sense. *)
splitIPAndPort(v) ==
    IF HostPort(v) = {} THEN [ip |-> v, port |-> {}] ELSE The(HostPort(v))
=============================================================================
