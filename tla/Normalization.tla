---- MODULE Normalization ----
(***************************************************************************)
(* The parser boundary (normalization.py, parsers/*.py): a line of a sensor*)
(* file is loaded as a JSON object, its fields go through coercions in the *)
(* order of the parser, and the result through the strict model of its kind*)
(* (models.py).  The first field that does not fit makes a ParseError.     *)
(*                                                                         *)
(* A JSON value is a record: its type, its number (of a list or object: how*)
(* many items) and the length of its text.  Strings come in the types that *)
(* the coercions tell apart.  A document gives each field its candidates:  *)
(* the values under the keys, direct or nested, at which the parser looks. *)
(***************************************************************************)
EXTENDS Integers, SequencesExt

\* Stands for every integer that no float holds, and for "no upper bound".
Huge == 1000000

\* "-", "(empty)", "", a decimal integer, another number, an infinity or NaN, a date with
\* an offset, one without, one whose UTC value is out of range, an address, the word that
\* the parser looks for, a name that ends in a dot, a text that a change of case makes twice
\* as long, one with half a surrogate pair, and any other text.
StringType == {"dash", "(empty)", "blank", "digits", "decimal", "nonfinite", "iso", "naive",
               "edge", "address", "keyword", "dotted", "expanding", "surrogate", "text"}

ValueType == StringType \cup {"absent", "null", "bool", "int", "float", "nan", "list", "object"}

JsonValue(type, number, length) == [type |-> type, number |-> number, length |-> length]

\* Only what is not there, and what nothing is left of, has no length.
Json ==
    {v \in [type : ValueType, number : Int, length : Nat] :
        v.length = 0 => v.type \in {"absent", "blank"}}

Null == JsonValue("null", 0, 4)

\* A field of a parser: the coercion, and the bounds of its number or length.
Row(field, by, lo, hi) == [field |-> field, by |-> by, lo |-> lo, hi |-> hi, default |-> Null]

Ip(field) == Row(field, "ip", 0, 0)
OptionalInt(field, hi) == Row(field, "optional_int", 0, hi)
RequiredText(field, hi) == Row(field, "require_text", 1, hi)
OptionalText(field, hi) == Row(field, "optional_text", 0, hi)

-----------------------------------------------------------------------------
\* What a coercion is given: the first candidate that exists (nested_get); of the two keys
\* for the stream, the second unless the first is true (a Python "or").
NestedGet(candidates) ==
    LET found == {i \in DOMAIN candidates : candidates[i].type # "absent"}
    IN  IF found = {} THEN JsonValue("absent", 0, 0)
        ELSE candidates[CHOOSE i \in found : \A j \in found : i <= j]

Falsy(v) ==
    \/ v.type \in {"absent", "null", "blank"}
    \/ v.type \in {"bool", "int", "float", "list", "object"} /\ v.number = 0

Got(row, candidates) ==
    LET v == IF row.by # "stream" THEN NestedGet(candidates)
             ELSE IF Falsy(candidates[1]) THEN candidates[2] ELSE candidates[1]
    IN  IF v.type = "absent" THEN row.default ELSE v

IsMissing(v) == v.type \in {"null", "dash", "(empty)"}

\* Mutation of Bounded: the upper bound is not looked at.
BoundedBelow(n, row) == row.lo <= n

Bounded(n, row) == row.lo <= n /\ n <= row.hi

ParsesAsInt(v, row) == v.type \in {"int", "digits"} /\ Bounded(v.number, row)

ParsesAsFloat(v, row) ==
    /\ v.type \in {"int", "float", "digits", "decimal"}
    /\ v.number # Huge
    /\ Bounded(v.number, row)

ParsesAsTimestamp(v) ==
    v.type = "iso" \/ (v.type \in {"int", "float", "digits", "decimal"} /\ v.number # Huge)

ParsesAsBool(v) ==
    v.type \in {"bool", "keyword"} \/ (v.type \in {"int", "digits"} /\ v.number \in {0, 1})

ParsesAsText(v, row) ==
    v.type \in StringType \ {"dash", "blank"} /\ Bounded(v.length, row)

\* None for optional_text: missing, or nothing left of it.
NoText(v) == IsMissing(v) \/ v.type = "blank"

\* Is the value accepted by the coercion of its field?
Accepted(row, candidates) ==
    LET v == Got(row, candidates) IN
    CASE row.by = "keyword" -> v.type = "keyword"
      [] row.by = "stream" -> v.type \in {"null", "keyword"}
      [] row.by = "object" -> v.type = "object"
      [] row.by = "optional_object" -> v.type \in {"null", "object"}
      [] row.by = "optional_list" -> v.type \in {"null", "dash", "list"}
      [] row.by = "timestamp" -> ParsesAsTimestamp(v)
      [] row.by = "ip" -> v.type = "address"
      [] row.by = "optional_ip" -> IsMissing(v) \/ v.type = "address"
      [] row.by = "first_ip" -> IsMissing(v) \/ v.type \in {"address", "list"}
      [] row.by = "int" -> ParsesAsInt(v, row)
      [] row.by = "optional_int" -> IsMissing(v) \/ ParsesAsInt(v, row)
      [] row.by = "optional_float" -> IsMissing(v) \/ ParsesAsFloat(v, row)
      [] row.by = "optional_bool" -> IsMissing(v) \/ ParsesAsBool(v)
      [] row.by = "require_text" -> ParsesAsText(v, row)
      [] row.by = "query" -> ParsesAsText(v, row) /\ ~ (v.type = "dotted" /\ v.length = 1)
      [] row.by = "qtype" ->
            \/ ~ NoText(Got(row, <<candidates[1]>>))
            \/ Got(row, <<candidates[2]>>).type \in {"null", "dash"}
            \/ ParsesAsInt(candidates[2], [row EXCEPT !.hi = Huge])
      [] OTHER -> TRUE

\* Two conversions raise what their except clauses do not catch: float of an integer out
\* of range, and astimezone at the ends of the calendar.
Uncaught(row, candidates) ==
    LET v == Got(row, candidates) IN
    \/ row.by = "optional_float" /\ v.type = "int" /\ v.number = Huge
    \/ row.by = "timestamp" /\ v.type = "edge"

\* The fields whose text is put in lower or in upper case.
Recased == {"proto", "query", "qtype"}

\* The length of a text that comes out, cut to the maximum of its field, in the case of its
\* field; half a surrogate pair makes a text that no model takes, whatever its length.
Written(v, row) ==
    LET n == IF v.length > row.hi THEN row.hi ELSE v.length IN
    IF v.type = "surrogate" THEN -1
    ELSE IF v.type = "expanding" /\ row.field \in Recased THEN 2 * n
    ELSE n

\* The number that comes out of an accepted field, or the length of the text, if one does:
\* optional_text cuts, query drops the final dot, qtype falls back on TYPE and a number.
Out(row, candidates) ==
    LET v == Got(row, candidates) IN
    CASE row.by \in {"int", "optional_int", "optional_float"} ->
            IF IsMissing(v) THEN {} ELSE {v.number}
      [] row.by = "require_text" -> {Written(v, row)}
      [] row.by = "optional_text" -> IF NoText(v) THEN {} ELSE {Written(v, row)}
      [] row.by = "query" -> {IF v.type = "dotted" THEN v.length - 1 ELSE Written(v, row)}
      [] row.by = "qtype" ->
            LET name == Got(row, <<candidates[1]>>) IN
            IF ~ NoText(name) THEN {Written(name, row)}
            ELSE IF Got(row, <<candidates[2]>>).type \in {"null", "dash"} THEN {}
            ELSE {4 + candidates[2].length}
      [] OTHER -> {}

-----------------------------------------------------------------------------
\* The parsers, as the fields they convert, in order.

Sensor == {"suricata", "zeek-conn", "zeek-dns", "endpoint-auth"}

ZeekHead ==
    <<Row("_path", "stream", 0, 0), Row("ts", "timestamp", 0, 0), RequiredText("uid", 128),
      Ip("id.orig_h"), Ip("id.resp_h")>>

ZeekPorts == <<OptionalInt("id.orig_p", 65535), OptionalInt("id.resp_p", 65535)>>

ParseSuricata ==
    <<Row("event_type", "keyword", 0, 0), Row("alert", "object", 0, 0),
      Row("timestamp", "timestamp", 0, 0), Ip("src_ip"), Ip("dest_ip"),
      Row("alert.signature_id", "int", 0, Huge), OptionalText("flow_id", 64),
      RequiredText("proto", 16), Row("alert.metadata", "optional_object", 0, 0),
      OptionalText("in_iface", 128), OptionalInt("src_port", 65535),
      OptionalInt("dest_port", 65535), OptionalText("community_id", 128),
      OptionalText("app_proto", 64), OptionalText("alert.action", 64),
      OptionalInt("alert.rev", Huge), RequiredText("alert.signature", 1024),
      [RequiredText("alert.category", 256) EXCEPT !.default = JsonValue("text", 0, 15)],
      [Row("alert.severity", "int", 1, 255) EXCEPT !.default = JsonValue("int", 3, 1)]>>

ParseZeekConn ==
    ZeekHead \o ZeekPorts \o
    <<RequiredText("proto", 16), OptionalText("interface", 128),
      OptionalText("community_id", 128), OptionalText("service", 64),
      Row("duration", "optional_float", 0, Huge), OptionalInt("orig_bytes", Huge),
      OptionalInt("resp_bytes", Huge), OptionalInt("orig_pkts", Huge),
      OptionalInt("resp_pkts", Huge), OptionalText("conn_state", 16),
      OptionalText("history", 256), OptionalInt("missed_bytes", Huge)>>

ParseZeekDns ==
    ZeekHead \o
    <<Row("query", "query", 1, 254), Row("answers", "optional_list", 0, 0),
      Row("qtype", "qtype", 0, 32), OptionalText("interface", 128)>> \o ZeekPorts \o
    <<OptionalText("proto", 16), OptionalText("community_id", 128),
      OptionalText("rcode_name", 32), Row("rejected", "optional_bool", 0, 1),
      OptionalInt("trans_id", Huge)>>

ParseEndpointAuth ==
    <<Row("@timestamp", "timestamp", 0, 0), RequiredText("host.name", 255),
      RequiredText("user.name", 512), RequiredText("event.action", 128),
      OptionalText("event.provider", 128), Row("host.ip", "first_ip", 0, 0),
      Row("source.ip", "optional_ip", 0, 0), OptionalText("event.id", 128),
      OptionalText("logon.type", 128)>>

Parser ==
    [sensor \in Sensor |->
        CASE sensor = "suricata" -> ParseSuricata
          [] sensor = "zeek-conn" -> ParseZeekConn
          [] sensor = "zeek-dns" -> ParseZeekDns
          [] sensor = "endpoint-auth" -> ParseEndpointAuth]

-----------------------------------------------------------------------------
\* The strict models: the fields with a limit to their number, or the length of their text.

Limit(field, lo, hi) == [field |-> field, lo |-> lo, hi |-> hi]

Port(field) == Limit(field, 0, 65535)
NonNegativeInt(field) == Limit(field, 0, Huge)

NetworkTelemetryEvent ==
    {Limit("proto", 1, 16), Limit("community_id", 0, 128), Port("src_port"), Port("dest_port"),
     Port("id.orig_p"), Port("id.resp_p"), Limit("in_iface", 0, 128), Limit("interface", 0, 128)}

SuricataAlert ==
    NetworkTelemetryEvent \cup
    {Limit("flow_id", 0, 64), Limit("app_proto", 0, 64), NonNegativeInt("alert.signature_id"),
     NonNegativeInt("alert.rev"), Limit("alert.action", 1, 64),
     Limit("alert.signature", 1, 1024), Limit("alert.category", 1, 256),
     Limit("alert.severity", 1, 255)}

ZeekConnection ==
    NetworkTelemetryEvent \cup
    {Limit("uid", 1, 128), Limit("service", 0, 64), NonNegativeInt("duration"),
     NonNegativeInt("orig_bytes"), NonNegativeInt("resp_bytes"), NonNegativeInt("orig_pkts"),
     NonNegativeInt("resp_pkts"), NonNegativeInt("missed_bytes"),
     Limit("conn_state", 1, 16), Limit("history", 0, 256)}

ZeekDnsQuery ==
    NetworkTelemetryEvent \cup
    {Limit("uid", 1, 128), Limit("query", 1, 253), Limit("qtype", 1, 32),
     Limit("rcode_name", 0, 32), NonNegativeInt("trans_id")}

\* The identifier of the endpoint's own event becomes the event_id.
EndpointAuthEvent ==
    {Limit("event.action", 1, 128), Limit("event.provider", 1, 128),
     Limit("host.name", 1, 255), Limit("user.name", 1, 512), Limit("logon.type", 0, 128),
     Limit("event.id", 8, 128)}

Model ==
    [sensor \in Sensor |->
        CASE sensor = "suricata" -> SuricataAlert
          [] sensor = "zeek-conn" -> ZeekConnection
          [] sensor = "zeek-dns" -> ZeekDnsQuery
          [] sensor = "endpoint-auth" -> EndpointAuthEvent]

\* Does the model refuse what comes out of the field?
Refuses(sensor, row, candidates) ==
    \E limit \in Model[sensor], n \in Out(row, candidates) :
        limit.field = row.field /\ ~ (limit.lo <= n /\ n <= limit.hi)

Refused(sensor, document) ==
    {row.field : row \in
        {x \in ToSet(Parser[sensor]) : Refuses(sensor, x, document[x.field])}}

\* A model of its own, made before the fields that follow are converted.
SensorIdentity == {"in_iface", "interface"}

\* What a parser makes of a document: "event"; "ParseError", with the field at fault or
\* "schema" when a model refused; or "raised", when another exception comes out.
Parse(sensor, document) ==
    LET rows == Parser[sensor]
        rejected(row) == ~ Accepted(row, document[row.field])
        raised(row) == Uncaught(row, document[row.field])
        faults == {i \in DOMAIN rows :
                    \/ rejected(rows[i]) \/ raised(rows[i])
                    \/ /\ rows[i].field \in SensorIdentity
                       /\ Refuses(sensor, rows[i], document[rows[i].field])}
        first == rows[CHOOSE i \in faults : \A j \in faults : i <= j]
    IN  IF faults # {} /\ raised(first) THEN [result |-> "raised", field |-> first.field]
        ELSE IF faults # {} /\ rejected(first)
        THEN [result |-> "ParseError", field |-> first.field]
        ELSE IF faults # {} \/ Refused(sensor, document) # {}
        THEN [result |-> "ParseError", field |-> "schema"]
        ELSE [result |-> "event", field |-> ""]
====
