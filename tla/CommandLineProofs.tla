---- MODULE CommandLineProofs ----
(***************************************************************************)
(* What is proved of the command line: the settings that options and       *)
(* variables make up, the output that a replay deletes, what validate      *)
(* counts and returns; and of the parsers, that their coercions agree with *)
(* the strict models.                                                      *)
(***************************************************************************)
EXTENDS MCCommandLine, SequenceLemmas, FiniteSetTheorems, TLAPS

-----------------------------------------------------------------------------
\* The settings and the output.

\* The settings are made up before anything else happens, of valid options and variables;
\* the output is deleted on the way from there to the daemon, and by a replay.
SettingsInv ==
    /\ command \in {"run", "replay", "validate"}
    /\ given \subseteq Argument(command)
    /\ environment \subseteq Option
    /\ pc \in {"settings", "checking_rate", "unlinking", "running", "validating", "over"}
    /\ pc \in {"checking_rate", "unlinking"} => command = "replay"
    /\ (command = "validate") => pc \in {"validating", "over"}
    /\ pc = "validating" => command = "validate"
    /\ pc # "over" => exit = "none"
    /\ pc \in {"checking_rate", "unlinking", "running"} =>
            settings = [o \in Option |-> SettingsOrigin(o)] /\ SettingsValid

OutputInv ==
    /\ output_file \in {"absent", "present", "locked", "deleted"}
    /\ output_file # "absent" => "output" \in given
    /\ output_file = "deleted" =>
            command = "replay" /\ pc \in {"running", "over"} /\ exit \in {"none", "0", "1", "130"}
    /\ command = "replay" /\ pc = "running" => output_file \in {"absent", "deleted"}

CommandInv == SettingsInv /\ OutputInv

\* Where a setting comes from does not change after the command line is read.
LEMMA SettingsInvInit ==
    ASSUME CommandInit
    PROVE  CommandInv
<1>1. SettingsInv
  BY DEF CommandInit, SettingsInv, Argument, Option, SourceOption
<1>2. OutputInv
  BY DEF CommandInit, OutputInv
<1> QED BY <1>1, <1>2 DEF CommandInv

\* Every step keeps what is known of the settings and of the output.
LEMMA SettingsInvStep ==
    ASSUME CommandInv, [CommandNext]_commandVars
    PROVE  CommandInv'
<1> USE DEF CommandInv, SettingsInv, OutputInv
<1>1. ASSUME UNCHANGED argumentVars
      PROVE  /\ SettingsValid' <=> SettingsValid
             /\ \A o \in Option : SettingsOrigin(o)' = SettingsOrigin(o)
             /\ Argument(command)' = Argument(command)
  BY <1>1 DEF argumentVars, SettingsValid, SettingsOrigin, SourceOrigin, FromEnvironment,
        GivenOrElse, Argument
<1>2. CASE MakeSettings
  BY <1>1, <1>2 DEF MakeSettings, argumentVars, fileVars
<1>3. CASE RejectSettings
  BY <1>1, <1>3 DEF RejectSettings, Leave, argumentVars, settingsVars, fileVars
<1>4. CASE AcceptRate
  BY <1>1, <1>4 DEF AcceptRate, argumentVars, settingsVars, fileVars
<1>5. CASE Unlink
  BY <1>1, <1>5 DEF Unlink, Leave, argumentVars, fileVars
<1>6. CASE RunDaemon
  BY <1>1, <1>6 DEF RunDaemon, Leave, argumentVars, settingsVars, fileVars
<1>7. CASE ReadLine \/ CountLine \/ EndOfFile \/ ReadFails
  <2>1. /\ pc = "validating" /\ ((pc' = pc /\ exit' = exit) \/ pc' = "over")
        /\ UNCHANGED <<argumentVars, settingsVars>>
    BY <1>7 DEF ReadLine, CountLine, EndOfFile, ReadFails, Leave
  <2> QED BY <1>1, <2>1 DEF argumentVars, settingsVars
<1>8. CASE UNCHANGED commandVars
  BY <1>1, <1>8 DEF commandVars, argumentVars, settingsVars
<1> QED BY <1>2, <1>3, <1>4, <1>5, <1>6, <1>7, <1>8 DEF CommandNext

\* CommandInv holds throughout main.
THEOREM CommandInvariant == CommandSpec => []CommandInv
<1> QED BY SettingsInvInit, SettingsInvStep, PTL DEF CommandSpec

\* In every combination of options and variables, what the command line says holds, and
\* what the variables say of the rest.
THEOREM OptionsAreHonoured == CommandSpec => []OptionsHonoured
<1>1. CommandInv => OptionsHonoured
  <2> SUFFICES ASSUME CommandInv, pc = "running" PROVE OptionsHonoured
    BY DEF OptionsHonoured
  <2>1. /\ command \in {"run", "replay"} /\ given \subseteq Argument(command)
        /\ environment \subseteq Option /\ SettingsValid
        /\ settings = [o \in Option |-> SettingsOrigin(o)]
    BY DEF CommandInv, SettingsInv
  <2>2. \A o \in Option : settings[o] = SettingsOrigin(o)
    BY <2>1
  <2>3. \A o \in given :
            settings[o] = "given" \/ (o = "from_beginning" /\ "paths" \notin given)
    BY <2>1, <2>2 DEF Argument, Option, SourceOption, SettingsOrigin, SourceOrigin, GivenOrElse
  <2>4. ASSUME NEW o \in environment \ given
        PROVE  \/ settings[o] = "environment"
               \/ o \in SourceOption /\ "paths" \in given
               \/ o \in {"follow", "from_beginning", "metrics"} /\ command = "replay"
    BY <2>1, <2>2 DEF Option, SourceOption, SettingsOrigin, SourceOrigin, GivenOrElse,
        FromEnvironment
  <2>5. command = "replay" =>
            \A o \in {"follow", "from_beginning", "metrics"} : settings[o] = "forced"
    BY <2>2 DEF Option, SourceOption, SettingsOrigin, SourceOrigin
  <2>6. settings["paths"] # "default"
    BY <2>1, <2>2 DEF Option, SourceOption, SettingsOrigin, SourceOrigin, SettingsValid,
        FromEnvironment
  <2> QED BY <2>3, <2>4, <2>5, <2>6 DEF OptionsHonoured
<1> QED BY <1>1, CommandInvariant, PTL

\* The output of an earlier replay is deleted only by a replay whose settings are all
\* valid, and before the daemon runs.
THEOREM OutputIsKept == CommandSpec => []OutputKept
<1>1. CommandInv => OutputKept
  BY DEF CommandInv, SettingsInv, OutputInv, OutputKept
<1> QED BY <1>1, CommandInvariant, PTL

-----------------------------------------------------------------------------
\* The parsers.

\* Of the fields of all parsers, only the duration is a float, and neither it nor a
\* timestamp has a value when it is missing.
SafeRow(row) ==
    /\ row.by = "optional_float" => row.field = "duration"
    /\ row.by \in {"optional_float", "timestamp"} => row.default = Null

SafeRows(rows) == \E S : rows \in Seq(S) /\ \A row \in S : SafeRow(row)

\* What the shorthands for rows make are safe rows.
LEMMA RowIsSafe ==
    /\ \A field, by, lo, hi : by # "optional_float" => SafeRow(Row(field, by, lo, hi))
    /\ \A field, hi : /\ SafeRow(Ip(field))
                      /\ SafeRow(OptionalInt(field, hi))
                      /\ SafeRow(RequiredText(field, hi))
                      /\ SafeRow(OptionalText(field, hi))
BY SMT DEF SafeRow, Row, Ip, OptionalInt, RequiredText, OptionalText

\* A sequence whose members are safe.
LEMMA MembersAreSafe ==
    ASSUME NEW rows, rows \in Seq(ToSet(rows)), \A i \in DOMAIN rows : SafeRow(rows[i])
    PROVE  SafeRows(rows)
<1>1. \A row \in ToSet(rows) : SafeRow(row)
  BY DEF ToSet
<1> QED BY <1>1 DEF SafeRows

\* Two sequences of safe rows, one after the other.
LEMMA SafeConcat ==
    ASSUME NEW s, NEW t, SafeRows(s), SafeRows(t)
    PROVE  SafeRows(s \o t)
<1>1. PICK S : s \in Seq(S) /\ \A row \in S : SafeRow(row)
  BY DEF SafeRows
<1>2. PICK T : t \in Seq(T) /\ \A row \in T : SafeRow(row)
  BY DEF SafeRows
<1>3. s \in Seq(S \cup T) /\ t \in Seq(S \cup T)
  BY <1>1, <1>2
<1>4. s \o t \in Seq(S \cup T)
  BY <1>3
<1> QED BY <1>1, <1>2, <1>4 DEF SafeRows

\* The parsers are made of safe rows.
LEMMA ParserIsSafe == ASSUME NEW s \in Sensor PROVE SafeRows(Parser[s])
<1>1. SafeRows(ZeekHead) /\ SafeRows(ZeekPorts)
  <2>1. ZeekHead \in Seq(ToSet(ZeekHead)) /\ ZeekPorts \in Seq(ToSet(ZeekPorts))
    BY SMT DEF ZeekHead, ZeekPorts, ToSet
  <2>2. /\ \A i \in DOMAIN ZeekHead : SafeRow(ZeekHead[i])
        /\ \A i \in DOMAIN ZeekPorts : SafeRow(ZeekPorts[i])
    BY RowIsSafe, SMT DEF ZeekHead, ZeekPorts
  <2> QED BY <2>1, <2>2, MembersAreSafe
<1>2. SafeRows(ParseSuricata)
  <2>1. SafeRow([RequiredText("alert.category", 256)
                    EXCEPT !.default = JsonValue("text", 0, 15)])
    BY DEF RequiredText, Row, SafeRow
  <2>2. SafeRow([Row("alert.severity", "int", 1, 255)
                    EXCEPT !.default = JsonValue("int", 3, 1)])
    BY DEF Row, SafeRow
  <2>3. \A i \in DOMAIN ParseSuricata : SafeRow(ParseSuricata[i])
    BY <2>1, <2>2, RowIsSafe, SMT DEF ParseSuricata
  <2>4. ParseSuricata \in Seq(ToSet(ParseSuricata))
    BY SMT DEF ParseSuricata, ToSet
  <2> QED BY <2>3, <2>4, MembersAreSafe
<1>3. SafeRows(ParseZeekConn)
  <2> DEFINE rest ==
        <<RequiredText("proto", 16), OptionalText("interface", 128),
          OptionalText("community_id", 128), OptionalText("service", 64),
          Row("duration", "optional_float", 0, Huge), OptionalInt("orig_bytes", Huge),
          OptionalInt("resp_bytes", Huge), OptionalInt("orig_pkts", Huge),
          OptionalInt("resp_pkts", Huge), OptionalText("conn_state", 16),
          OptionalText("history", 256), OptionalInt("missed_bytes", Huge)>>
  <2>1. SafeRow(Row("duration", "optional_float", 0, Huge))
    BY DEF Row, SafeRow
  <2>2. \A i \in DOMAIN rest : SafeRow(rest[i])
    BY <2>1, RowIsSafe, SMT
  <2>3. rest \in Seq(ToSet(rest))
    BY SMT DEF ToSet
  <2>4. SafeRows(rest)
    BY <2>2, <2>3, MembersAreSafe
  <2>5. ParseZeekConn = (ZeekHead \o ZeekPorts) \o rest
    BY DEF ParseZeekConn
  <2> HIDE DEF rest
  <2> QED BY <1>1, <2>4, <2>5, SafeConcat
<1>4. SafeRows(ParseZeekDns)
  <2> DEFINE middle ==
        <<Row("query", "query", 1, 254), Row("answers", "optional_list", 0, 0),
          Row("qtype", "qtype", 0, 32), OptionalText("interface", 128)>>
             rest ==
        <<OptionalText("proto", 16), OptionalText("community_id", 128),
          OptionalText("rcode_name", 32), Row("rejected", "optional_bool", 0, 1),
          OptionalInt("trans_id", Huge)>>
  <2>1. /\ \A i \in DOMAIN middle : SafeRow(middle[i])
        /\ \A i \in DOMAIN rest : SafeRow(rest[i])
    BY RowIsSafe, SMT
  <2>2. middle \in Seq(ToSet(middle)) /\ rest \in Seq(ToSet(rest))
    BY SMT DEF ToSet
  <2>3. SafeRows(middle) /\ SafeRows(rest)
    BY <2>1, <2>2, MembersAreSafe
  <2>4. ParseZeekDns = ((ZeekHead \o middle) \o ZeekPorts) \o rest
    BY DEF ParseZeekDns
  <2> HIDE DEF middle, rest
  <2> QED BY <1>1, <2>3, <2>4, SafeConcat
<1>5. SafeRows(ParseEndpointAuth)
  <2>1. \A i \in DOMAIN ParseEndpointAuth : SafeRow(ParseEndpointAuth[i])
    BY RowIsSafe, SMT DEF ParseEndpointAuth
  <2>2. ParseEndpointAuth \in Seq(ToSet(ParseEndpointAuth))
    BY SMT DEF ParseEndpointAuth, ToSet
  <2> QED BY <2>1, <2>2, MembersAreSafe
<1> QED BY <1>2, <1>3, <1>4, <1>5 DEF Parser, Sensor

\* What a parser is given of a field is one of its candidates, or the default.
LEMMA GotCandidate ==
    ASSUME NEW candidates \in Seq(Json), NEW row, row.by # "stream"
    PROVE  \/ Got(row, candidates) = row.default
           \/ Got(row, candidates) \in ToSet(candidates) /\ Got(row, candidates).type # "absent"
<1> DEFINE found == {i \in DOMAIN candidates : candidates[i].type # "absent"}
<1>1. CASE found = {}
  BY <1>1 DEF Got, NestedGet, JsonValue
<1>2. CASE found # {}
  <2>1. found \in SUBSET Nat
    BY LenProperties
  <2>2. PICK i \in found : \A j \in found : i <= j
    BY <1>2, <2>1, LeastNatural
  <2>3. (CHOOSE x \in found : \A j \in found : x <= j) \in found
    BY <2>2
  <2>4. NestedGet(candidates) \in ToSet(candidates)
    BY <1>2, <2>3 DEF NestedGet, ToSet
  <2> QED BY <2>4 DEF Got
<1> QED BY <1>1, <1>2

\* An exception other than ParseError comes out of a parser for two causes alone.
LEMMA RaisedCause ==
    ASSUME CommandLineAssumption, NEW s \in Sensor, NEW d \in Document(s),
           Parse(s, d).result = "raised"
    PROVE  \E f \in DOMAIN d : \E v \in ToSet(d[f]) :
                v.type = "edge" \/ (f = "duration" /\ v.type = "int" /\ v.number = Huge)
<1> DEFINE rows == Parser[s]
           faults == {i \in DOMAIN rows :
                        \/ ~ Accepted(rows[i], d[rows[i].field])
                        \/ Uncaught(rows[i], d[rows[i].field])
                        \/ /\ rows[i].field \in SensorIdentity
                           /\ Refuses(s, rows[i], d[rows[i].field])}
           n == CHOOSE i \in faults : \A j \in faults : i <= j
<1>1. faults # {} /\ Uncaught(rows[n], d[rows[n].field])
  BY DEF Parse
<1>2. PICK S : rows \in Seq(S) /\ \A row \in S : SafeRow(row)
  BY ParserIsSafe DEF SafeRows
<1>3. n \in DOMAIN rows
  <2>1. faults \in SUBSET Nat
    BY <1>2, LenProperties
  <2>2. \E i \in faults : \A j \in faults : i <= j
    <3> HIDE DEF faults
    <3> QED BY <1>1, <2>1, LeastNatural
  <2>3. n \in faults
    BY <2>2
  <2> QED BY <2>3
<1> DEFINE row == rows[n]
<1>4. SafeRow(row) /\ row \in ToSet(rows)
  BY <1>2, <1>3, ElementOfSeq, LenProperties DEF ToSet
<1> HIDE DEF n, rows
<1>5. row.field \in DOMAIN d /\ d[row.field] \in Seq(Json)
  BY <1>4 DEF CommandLineAssumption, rows
<1> DEFINE v == Got(row, d[row.field])
<1>6. /\ row.by \in {"optional_float", "timestamp"}
      /\ \/ row.by = "optional_float" /\ v.type = "int" /\ v.number = Huge
         \/ v.type = "edge"
  BY <1>1 DEF Uncaught
<1>7. v \in ToSet(d[row.field]) \cup {Null}
  BY <1>4, <1>5, <1>6, GotCandidate DEF SafeRow
<1> HIDE DEF v
<1>8. v # Null
  BY <1>6 DEF Null, JsonValue
<1>9. row.by = "optional_float" => row.field = "duration"
  BY <1>4 DEF SafeRow
<1> QED BY <1>5, <1>6, <1>7, <1>8, <1>9

-----------------------------------------------------------------------------
\* The parsers and the models.

\* The limits of a model to the field, if it has any, leave room for lo to hi.
Fits(model, field, lo, hi) ==
    \A limit \in model :
        limit.field = field => limit.lo \in Int /\ limit.lo <= lo /\ limit.hi \in Int /\ hi <= limit.hi

NumberBy == {"int", "optional_int", "optional_float"}

TextBy == {"require_text", "optional_text"}

\* A row whose bounds fit the model, but for the query, of which 254 characters may be left,
\* and for the identifier of the endpoint's own, which has no lower bound.
RowFits(model, row) ==
    /\ row.lo \in Int /\ row.hi \in Int
    /\ row.field # "schema"
    /\ row.default \in Json /\ row.default.type \notin {"absent", "surrogate", "expanding"}
    /\ row.by \in NumberBy => Fits(model, row.field, row.lo, row.hi)
    /\ row.by \in TextBy =>
        /\ 1 <= row.hi
        /\ \/ Fits(model, row.field, 1, row.hi)
           \/ row.field = "event.id" /\ 8 <= row.hi /\ Fits(model, row.field, 8, row.hi)
    /\ row.by = "query" =>
        row.field = "query" /\ row.lo = 1 /\ row.hi = 254 /\ Fits(model, "query", 1, 253)
    /\ row.by = "qtype" => row.field = "qtype" /\ row.hi = 32 /\ Fits(model, "qtype", 1, 32)

\* The default of most rows, and Huge.
LEMMA RowConstants ==
    /\ Null \in Json /\ Null.type \notin {"absent", "surrogate", "expanding"}
    /\ Huge \in Int
BY DEF Null, Json, JsonValue, ValueType, Huge

\* The optional integers: a row fits where its bounds do.
LEMMA OptionalIntFits ==
    \A model, field : \A hi \in Int :
        field # "schema" /\ Fits(model, field, 0, hi) => RowFits(model, OptionalInt(field, hi))
BY RowConstants DEF RowFits, OptionalInt, Row, NumberBy, TextBy

\* The texts, required and optional, have one character at least.
LEMMA TextFits ==
    \A model, field : \A hi \in Int :
        field # "schema" /\ 1 <= hi /\ Fits(model, field, 1, hi) =>
            RowFits(model, RequiredText(field, hi)) /\ RowFits(model, OptionalText(field, hi))
BY RowConstants DEF RowFits, RequiredText, OptionalText, Row, NumberBy, TextBy

\* The coercions that leave neither a number nor the length of a text.
LEMMA OtherFits ==
    \A model, field, by : \A hi \in Int :
        field # "schema" /\ by \notin NumberBy \cup TextBy \cup {"query", "qtype"} =>
            RowFits(model, Row(field, by, 0, hi))
BY RowConstants DEF RowFits, Row, NumberBy, TextBy

\* An address has no limit in any model.
LEMMA IpFits == \A model, field : field # "schema" => RowFits(model, Ip(field))
BY RowConstants DEF RowFits, Ip, Row, NumberBy, TextBy

\* The rows of two sequences of rows.
LEMMA RowsConcat ==
    ASSUME NEW s, NEW t, s \in Seq(ToSet(s)), t \in Seq(ToSet(t))
    PROVE  s \o t \in Seq(ToSet(s \o t)) /\ ToSet(s \o t) = ToSet(s) \cup ToSet(t)
<1>1. s \in Seq(ToSet(s) \cup ToSet(t)) /\ t \in Seq(ToSet(s) \cup ToSet(t))
  OBVIOUS
<1>2. ToSet(s \o t) = ToSet(s) \cup ToSet(t)
  BY <1>1, ToSetConcat
<1>3. s \o t \in Seq(ToSet(s) \cup ToSet(t))
  BY <1>1
<1> QED BY <1>2, <1>3

\* The rows of ParseSuricata fit its model.
LEMMA SuricataFits == \A row \in ToSet(ParseSuricata) : RowFits(SuricataAlert, row)
<1>1. /\ Fits(SuricataAlert, "src_port", 0, 65535) /\ Fits(SuricataAlert, "dest_port", 0, 65535)
      /\ Fits(SuricataAlert, "alert.signature_id", 0, Huge)
      /\ Fits(SuricataAlert, "alert.rev", 0, Huge) /\ Fits(SuricataAlert, "alert.severity", 1, 255)
      /\ Fits(SuricataAlert, "flow_id", 1, 64) /\ Fits(SuricataAlert, "proto", 1, 16)
      /\ Fits(SuricataAlert, "in_iface", 1, 128) /\ Fits(SuricataAlert, "community_id", 1, 128)
      /\ Fits(SuricataAlert, "app_proto", 1, 64) /\ Fits(SuricataAlert, "alert.action", 1, 64)
      /\ Fits(SuricataAlert, "alert.signature", 1, 1024)
      /\ Fits(SuricataAlert, "alert.category", 1, 256)
  BY DEF Fits, SuricataAlert, NetworkTelemetryEvent, Limit, Port, NonNegativeInt, Huge
<1>2. RowFits(SuricataAlert, [RequiredText("alert.category", 256)
                                EXCEPT !.default = JsonValue("text", 0, 15)])
  <2>1. JsonValue("text", 0, 15) \in Json
    BY DEF Json, JsonValue, ValueType, StringType
  <2> QED BY <1>1, <2>1 DEF RowFits, RequiredText, Row, NumberBy, TextBy, JsonValue
<1>3. RowFits(SuricataAlert, [Row("alert.severity", "int", 1, 255)
                                EXCEPT !.default = JsonValue("int", 3, 1)])
  <2>1. JsonValue("int", 3, 1) \in Json
    BY DEF Json, JsonValue, ValueType
  <2> QED BY <1>1, <2>1 DEF RowFits, Row, NumberBy, TextBy, JsonValue
<1>4. RowFits(SuricataAlert, Row("alert.signature_id", "int", 0, Huge))
  BY <1>1 DEF RowFits, Row, NumberBy, TextBy, Null, JsonValue, Json, ValueType, Huge
<1>5. /\ RowFits(SuricataAlert, Row("event_type", "keyword", 0, 0))
      /\ RowFits(SuricataAlert, Row("alert", "object", 0, 0))
      /\ RowFits(SuricataAlert, Row("timestamp", "timestamp", 0, 0))
      /\ RowFits(SuricataAlert, Row("alert.metadata", "optional_object", 0, 0))
      /\ RowFits(SuricataAlert, Ip("src_ip")) /\ RowFits(SuricataAlert, Ip("dest_ip"))
  BY OtherFits, IpFits DEF NumberBy, TextBy
<1>6. /\ RowFits(SuricataAlert, OptionalInt("src_port", 65535))
      /\ RowFits(SuricataAlert, OptionalInt("dest_port", 65535))
      /\ RowFits(SuricataAlert, OptionalInt("alert.rev", Huge))
  BY <1>1, RowConstants, OptionalIntFits
<1>7. /\ RowFits(SuricataAlert, RequiredText("proto", 16))
      /\ RowFits(SuricataAlert, RequiredText("alert.signature", 1024))
      /\ RowFits(SuricataAlert, OptionalText("flow_id", 64))
      /\ RowFits(SuricataAlert, OptionalText("in_iface", 128))
      /\ RowFits(SuricataAlert, OptionalText("community_id", 128))
      /\ RowFits(SuricataAlert, OptionalText("app_proto", 64))
      /\ RowFits(SuricataAlert, OptionalText("alert.action", 64))
  BY <1>1, TextFits
<1>8. \A i \in DOMAIN ParseSuricata : RowFits(SuricataAlert, ParseSuricata[i])
  BY <1>2, <1>3, <1>4, <1>5, <1>6, <1>7 DEF ParseSuricata
<1> QED BY <1>8 DEF ToSet

\* The rows that both Zeek parsers have fit a model that leaves room for them.
LEMMA ZeekFits ==
    ASSUME NEW model, Fits(model, "uid", 1, 128),
           Fits(model, "id.orig_p", 0, 65535), Fits(model, "id.resp_p", 0, 65535)
    PROVE  /\ \A i \in DOMAIN ZeekHead : RowFits(model, ZeekHead[i])
           /\ \A i \in DOMAIN ZeekPorts : RowFits(model, ZeekPorts[i])
<1>1. /\ RowFits(model, Row("_path", "stream", 0, 0)) /\ RowFits(model, Row("ts", "timestamp", 0, 0))
      /\ RowFits(model, Ip("id.orig_h")) /\ RowFits(model, Ip("id.resp_h"))
  BY OtherFits, IpFits DEF NumberBy, TextBy
<1>2. /\ RowFits(model, RequiredText("uid", 128))
      /\ RowFits(model, OptionalInt("id.orig_p", 65535))
      /\ RowFits(model, OptionalInt("id.resp_p", 65535))
  BY OptionalIntFits, TextFits
<1> QED BY <1>1, <1>2 DEF ZeekHead, ZeekPorts

\* The rows of ParseZeekConn fit its model.
LEMMA ZeekConnFits == \A row \in ToSet(ParseZeekConn) : RowFits(ZeekConnection, row)
<1> DEFINE rest ==
        <<RequiredText("proto", 16), OptionalText("interface", 128),
          OptionalText("community_id", 128), OptionalText("service", 64),
          Row("duration", "optional_float", 0, Huge), OptionalInt("orig_bytes", Huge),
          OptionalInt("resp_bytes", Huge), OptionalInt("orig_pkts", Huge),
          OptionalInt("resp_pkts", Huge), OptionalText("conn_state", 16),
          OptionalText("history", 256), OptionalInt("missed_bytes", Huge)>>
<1>1. /\ Fits(ZeekConnection, "uid", 1, 128) /\ Fits(ZeekConnection, "id.orig_p", 0, 65535)
      /\ Fits(ZeekConnection, "id.resp_p", 0, 65535) /\ Fits(ZeekConnection, "duration", 0, Huge)
      /\ Fits(ZeekConnection, "orig_bytes", 0, Huge) /\ Fits(ZeekConnection, "resp_bytes", 0, Huge)
      /\ Fits(ZeekConnection, "orig_pkts", 0, Huge) /\ Fits(ZeekConnection, "resp_pkts", 0, Huge)
      /\ Fits(ZeekConnection, "missed_bytes", 0, Huge) /\ Fits(ZeekConnection, "proto", 1, 16)
      /\ Fits(ZeekConnection, "interface", 1, 128) /\ Fits(ZeekConnection, "community_id", 1, 128)
      /\ Fits(ZeekConnection, "service", 1, 64) /\ Fits(ZeekConnection, "conn_state", 1, 16)
      /\ Fits(ZeekConnection, "history", 1, 256)
  BY DEF Fits, ZeekConnection, NetworkTelemetryEvent, Limit, Port, NonNegativeInt, Huge
<1>2. /\ RowFits(ZeekConnection, RequiredText("proto", 16))
      /\ RowFits(ZeekConnection, OptionalText("interface", 128))
      /\ RowFits(ZeekConnection, OptionalText("community_id", 128))
      /\ RowFits(ZeekConnection, OptionalText("service", 64))
      /\ RowFits(ZeekConnection, OptionalText("conn_state", 16))
      /\ RowFits(ZeekConnection, OptionalText("history", 256))
  BY <1>1, TextFits
<1>3. RowFits(ZeekConnection, Row("duration", "optional_float", 0, Huge))
  BY <1>1 DEF RowFits, Row, NumberBy, TextBy, Null, JsonValue, Json, ValueType, Huge
<1>4. /\ RowFits(ZeekConnection, OptionalInt("orig_bytes", Huge))
      /\ RowFits(ZeekConnection, OptionalInt("resp_bytes", Huge))
      /\ RowFits(ZeekConnection, OptionalInt("orig_pkts", Huge))
      /\ RowFits(ZeekConnection, OptionalInt("resp_pkts", Huge))
      /\ RowFits(ZeekConnection, OptionalInt("missed_bytes", Huge))
  BY <1>1, RowConstants, OptionalIntFits
<1>5. \A i \in DOMAIN rest : RowFits(ZeekConnection, rest[i])
  BY <1>2, <1>3, <1>4
<1>6. /\ \A i \in DOMAIN ZeekHead : RowFits(ZeekConnection, ZeekHead[i])
      /\ \A i \in DOMAIN ZeekPorts : RowFits(ZeekConnection, ZeekPorts[i])
  BY <1>1, ZeekFits
<1>7. /\ ZeekHead \in Seq(ToSet(ZeekHead)) /\ ZeekPorts \in Seq(ToSet(ZeekPorts))
      /\ rest \in Seq(ToSet(rest))
  BY SMT DEF ZeekHead, ZeekPorts, ToSet
<1>8. ParseZeekConn = (ZeekHead \o ZeekPorts) \o rest
  BY DEF ParseZeekConn
<1> HIDE DEF rest
<1>9. ToSet(ParseZeekConn) = (ToSet(ZeekHead) \cup ToSet(ZeekPorts)) \cup ToSet(rest)
  <2> DEFINE start == ZeekHead \o ZeekPorts
  <2>1. start \in Seq(ToSet(start)) /\ ToSet(start) = ToSet(ZeekHead) \cup ToSet(ZeekPorts)
    BY <1>7, RowsConcat
  <2>2. ParseZeekConn = start \o rest
    BY <1>8
  <2> HIDE DEF start
  <2>3. ToSet(start \o rest) = ToSet(start) \cup ToSet(rest)
    BY <1>7, <2>1, RowsConcat
  <2> QED BY <2>1, <2>2, <2>3
<1> QED BY <1>5, <1>6, <1>9 DEF ToSet

\* The rows of ParseZeekDns fit its model, but for the query.
LEMMA ZeekDnsFits == \A row \in ToSet(ParseZeekDns) : RowFits(ZeekDnsQuery, row)
<1> DEFINE middle ==
        <<Row("query", "query", 1, 254), Row("answers", "optional_list", 0, 0),
          Row("qtype", "qtype", 0, 32), OptionalText("interface", 128)>>
           rest ==
        <<OptionalText("proto", 16), OptionalText("community_id", 128),
          OptionalText("rcode_name", 32), Row("rejected", "optional_bool", 0, 1),
          OptionalInt("trans_id", Huge)>>
<1>1. /\ Fits(ZeekDnsQuery, "uid", 1, 128) /\ Fits(ZeekDnsQuery, "id.orig_p", 0, 65535)
      /\ Fits(ZeekDnsQuery, "id.resp_p", 0, 65535) /\ Fits(ZeekDnsQuery, "query", 1, 253)
      /\ Fits(ZeekDnsQuery, "qtype", 1, 32) /\ Fits(ZeekDnsQuery, "trans_id", 0, Huge)
      /\ Fits(ZeekDnsQuery, "interface", 1, 128) /\ Fits(ZeekDnsQuery, "proto", 1, 16)
      /\ Fits(ZeekDnsQuery, "community_id", 1, 128) /\ Fits(ZeekDnsQuery, "rcode_name", 1, 32)
  BY DEF Fits, ZeekDnsQuery, NetworkTelemetryEvent, Limit, Port, NonNegativeInt, Huge
<1>2. /\ RowFits(ZeekDnsQuery, Row("query", "query", 1, 254))
      /\ RowFits(ZeekDnsQuery, Row("qtype", "qtype", 0, 32))
  BY <1>1 DEF RowFits, Row, NumberBy, TextBy, Null, JsonValue, Json, ValueType
<1>3. /\ RowFits(ZeekDnsQuery, Row("answers", "optional_list", 0, 0))
      /\ RowFits(ZeekDnsQuery, Row("rejected", "optional_bool", 0, 1))
  BY OtherFits, IpFits DEF NumberBy, TextBy
<1>4. /\ RowFits(ZeekDnsQuery, OptionalText("interface", 128))
      /\ RowFits(ZeekDnsQuery, OptionalText("proto", 16))
      /\ RowFits(ZeekDnsQuery, OptionalText("community_id", 128))
      /\ RowFits(ZeekDnsQuery, OptionalText("rcode_name", 32))
  BY <1>1, TextFits
<1>5. RowFits(ZeekDnsQuery, OptionalInt("trans_id", Huge))
  BY <1>1, RowConstants, OptionalIntFits
<1>6. /\ \A i \in DOMAIN middle : RowFits(ZeekDnsQuery, middle[i])
      /\ \A i \in DOMAIN rest : RowFits(ZeekDnsQuery, rest[i])
  BY <1>2, <1>3, <1>4, <1>5
<1>7. /\ \A i \in DOMAIN ZeekHead : RowFits(ZeekDnsQuery, ZeekHead[i])
      /\ \A i \in DOMAIN ZeekPorts : RowFits(ZeekDnsQuery, ZeekPorts[i])
  BY <1>1, ZeekFits
<1>8. /\ ZeekHead \in Seq(ToSet(ZeekHead)) /\ ZeekPorts \in Seq(ToSet(ZeekPorts))
      /\ middle \in Seq(ToSet(middle)) /\ rest \in Seq(ToSet(rest))
  BY SMT DEF ZeekHead, ZeekPorts, ToSet
<1>9. ParseZeekDns = ((ZeekHead \o middle) \o ZeekPorts) \o rest
  BY DEF ParseZeekDns
<1> HIDE DEF middle, rest
<1>10. ToSet(ParseZeekDns)
            = ((ToSet(ZeekHead) \cup ToSet(middle)) \cup ToSet(ZeekPorts)) \cup ToSet(rest)
  <2> DEFINE start == ZeekHead \o middle
             most == start \o ZeekPorts
  <2>1. start \in Seq(ToSet(start)) /\ ToSet(start) = ToSet(ZeekHead) \cup ToSet(middle)
    BY <1>8, RowsConcat
  <2>2. ParseZeekDns = most \o rest
    BY <1>9
  <2> HIDE DEF start
  <2>3. most \in Seq(ToSet(most)) /\ ToSet(most) = ToSet(start) \cup ToSet(ZeekPorts)
    BY <1>8, <2>1, RowsConcat
  <2> HIDE DEF most
  <2>4. ToSet(most \o rest) = ToSet(most) \cup ToSet(rest)
    BY <1>8, <2>3, RowsConcat
  <2> QED BY <2>1, <2>2, <2>3, <2>4
<1> QED BY <1>6, <1>7, <1>10 DEF ToSet

\* The rows of ParseEndpointAuth fit its model, but for the identifier.
LEMMA EndpointAuthFits == \A row \in ToSet(ParseEndpointAuth) : RowFits(EndpointAuthEvent, row)
<1>1. /\ Fits(EndpointAuthEvent, "host.name", 1, 255) /\ Fits(EndpointAuthEvent, "user.name", 1, 512)
      /\ Fits(EndpointAuthEvent, "event.action", 1, 128)
      /\ Fits(EndpointAuthEvent, "event.provider", 1, 128)
      /\ Fits(EndpointAuthEvent, "event.id", 8, 128) /\ Fits(EndpointAuthEvent, "logon.type", 1, 128)
  BY DEF Fits, EndpointAuthEvent, Limit
<1>2. /\ RowFits(EndpointAuthEvent, Row("@timestamp", "timestamp", 0, 0))
      /\ RowFits(EndpointAuthEvent, Row("host.ip", "first_ip", 0, 0))
      /\ RowFits(EndpointAuthEvent, Row("source.ip", "optional_ip", 0, 0))
  BY OtherFits, IpFits DEF NumberBy, TextBy
<1>3. /\ RowFits(EndpointAuthEvent, RequiredText("host.name", 255))
      /\ RowFits(EndpointAuthEvent, RequiredText("user.name", 512))
      /\ RowFits(EndpointAuthEvent, RequiredText("event.action", 128))
      /\ RowFits(EndpointAuthEvent, OptionalText("event.provider", 128))
      /\ RowFits(EndpointAuthEvent, OptionalText("logon.type", 128))
  BY <1>1, TextFits
<1>4. RowFits(EndpointAuthEvent, OptionalText("event.id", 128))
  BY <1>1 DEF RowFits, OptionalText, Row, NumberBy, TextBy, Null, JsonValue, Json, ValueType
<1>5. \A i \in DOMAIN ParseEndpointAuth : RowFits(EndpointAuthEvent, ParseEndpointAuth[i])
  BY <1>2, <1>3, <1>4 DEF ParseEndpointAuth
<1> QED BY <1>5 DEF ToSet

\* The rows of every parser fit its model.
LEMMA ParserFits == \A s \in Sensor : \A row \in ToSet(Parser[s]) : RowFits(Model[s], row)
<1>1. /\ Parser["suricata"] = ParseSuricata /\ Model["suricata"] = SuricataAlert
      /\ Parser["zeek-conn"] = ParseZeekConn /\ Model["zeek-conn"] = ZeekConnection
      /\ Parser["zeek-dns"] = ParseZeekDns /\ Model["zeek-dns"] = ZeekDnsQuery
      /\ Parser["endpoint-auth"] = ParseEndpointAuth
      /\ Model["endpoint-auth"] = EndpointAuthEvent
  BY DEF Parser, Model, Sensor
<1> QED BY <1>1, SuricataFits, ZeekConnFits, ZeekDnsFits, EndpointAuthFits DEF Sensor

\* A text that comes out has one character at least, and no more than fit, but for a text
\* that a change of case makes longer and for one with half a surrogate pair.
LEMMA WrittenFits ==
    ASSUME NEW v \in Json, 1 <= v.length, NEW row, row.hi \in Int, 1 <= row.hi,
           v.type # "surrogate", ~ (v.type = "expanding" /\ row.field \in Recased)
    PROVE  /\ Written(v, row) \in Int
           /\ 1 <= Written(v, row) /\ Written(v, row) <= row.hi /\ Written(v, row) <= v.length
           /\ Written(v, row) = v.length \/ Written(v, row) = row.hi
<1>1. v.length \in Nat
  BY DEF Json
<1> QED BY <1>1 DEF Written

\* What passes the coercion of a row that fits, the model refuses for a known cause.
LEMMA RefusalIsKnown ==
    ASSUME NEW s \in Sensor, NEW row, RowFits(Model[s], row),
           NEW candidates \in Seq(Json), Len(candidates) >= 2,
           Accepted(row, candidates), Refuses(s, row, candidates)
    PROVE  RefusalKnown(row, candidates)
<1> DEFINE v == Got(row, candidates)
<1>1. PICK limit \in Model[s], n \in Out(row, candidates) :
        limit.field = row.field /\ ~ (limit.lo <= n /\ n <= limit.hi)
  BY DEF Refuses
<1>2. \A lo, hi : Fits(Model[s], row.field, lo, hi) =>
            limit.lo \in Int /\ limit.lo <= lo /\ limit.hi \in Int /\ hi <= limit.hi
  BY <1>1 DEF Fits
<1>3. row.by \in NumberBy \cup TextBy \cup {"query", "qtype"}
  BY <1>1 DEF Out, NumberBy, TextBy
<1>4. /\ row.lo \in Int /\ row.hi \in Int
      /\ row.default \in Json /\ row.default.type \notin {"absent", "surrogate", "expanding"}
  BY DEF RowFits
<1>5. /\ v \in Json /\ v.type # "absent"
      /\ v.type \in {"surrogate", "expanding"} => v \in ToSet(candidates)
  <2>1. ToSet(candidates) \subseteq Json
    BY ElementOfSeq, LenProperties DEF ToSet
  <2>2. row.by # "stream"
    BY <1>3 DEF NumberBy, TextBy
  <2> QED BY <1>4, <2>1, <2>2, GotCandidate
<1> HIDE DEF v
<1>6. v.number \in Int /\ v.length \in Nat /\ (v.type # "blank" => 1 <= v.length)
  BY <1>5 DEF Json
<1>7. row.by \notin NumberBy
  <2> SUFFICES ASSUME row.by \in NumberBy PROVE FALSE
    OBVIOUS
  <2>1. n = v.number /\ ~ IsMissing(v)
    BY <1>1 DEF Out, NumberBy, v
  <2>2. row.lo <= v.number /\ v.number <= row.hi
    BY <2>1 DEF Accepted, ParsesAsInt, ParsesAsFloat, Bounded, NumberBy, v
  <2>3. limit.lo \in Int /\ limit.lo <= row.lo /\ limit.hi \in Int /\ row.hi <= limit.hi
    BY <1>2 DEF RowFits
  <2> QED BY <1>1, <1>4, <1>6, <2>1, <2>2, <2>3
<1> SUFFICES ASSUME ~ \E w \in ToSet(candidates) : w.type = "surrogate",
                    ~ (row.field \in Recased /\ \E w \in ToSet(candidates) : w.type = "expanding")
             PROVE  RefusalKnown(row, candidates)
  BY DEF RefusalKnown
<1>8. v.type # "surrogate" /\ ~ (v.type = "expanding" /\ row.field \in Recased)
  BY <1>5
<1>9. CASE row.by \in TextBy
  <2>1. n = Written(v, row) /\ 1 <= v.length
    <3>1. CASE row.by = "require_text"
      BY <1>1, <1>6, <3>1 DEF Out, Accepted, ParsesAsText, v
    <3>2. CASE row.by = "optional_text"
      <4>1. ~ NoText(v) /\ n = Written(v, row)
        BY <1>1, <3>2 DEF Out, v
      <4> QED BY <1>6, <4>1 DEF NoText
    <3> QED BY <1>9, <3>1, <3>2 DEF TextBy
  <2>2. /\ 1 <= row.hi
        /\ \/ Fits(Model[s], row.field, 1, row.hi)
           \/ row.field = "event.id" /\ 8 <= row.hi /\ Fits(Model[s], row.field, 8, row.hi)
    BY <1>9 DEF RowFits
  <2>3. n \in Int /\ 1 <= n /\ n <= row.hi /\ n <= v.length /\ (n = v.length \/ n = row.hi)
    BY <1>4, <1>5, <1>8, <2>1, <2>2, WrittenFits
  <2>4. ~ Fits(Model[s], row.field, 1, row.hi)
    BY <1>1, <1>2, <1>4, <2>3
  <2>5. /\ row.field = "event.id" /\ 8 <= row.hi
        /\ limit.lo \in Int /\ limit.lo <= 8 /\ limit.hi \in Int /\ row.hi <= limit.hi
    BY <1>2, <2>2, <2>4
  <2>6. v.length < 8
    BY <1>1, <1>4, <1>6, <2>3, <2>5
  <2> QED BY <2>5, <2>6 DEF RefusalKnown, v
<1>10. CASE row.by = "query"
  <2>1. /\ row.field = "query" /\ row.lo = 1 /\ row.hi = 254
        /\ limit.lo \in Int /\ limit.lo <= 1 /\ limit.hi \in Int /\ 253 <= limit.hi
    BY <1>2, <1>10 DEF RowFits
  <2>2. 1 <= v.length /\ v.length <= 254 /\ ~ (v.type = "dotted" /\ v.length = 1)
    BY <1>10, <2>1 DEF Accepted, ParsesAsText, Bounded, v
  <2>3. n = IF v.type = "dotted" THEN v.length - 1 ELSE Written(v, row)
    BY <1>1, <1>10 DEF Out, v
  <2>4. v.type # "dotted"
    BY <1>1, <1>6, <2>1, <2>2, <2>3
  <2>5. n \in Int /\ 1 <= n /\ n <= v.length
    BY <1>4, <1>5, <1>8, <2>1, <2>2, <2>3, <2>4, WrittenFits
  <2>6. v.length = 254
    BY <1>1, <1>6, <2>1, <2>2, <2>5
  <2> QED BY <2>1, <2>6 DEF RefusalKnown, v
<1>11. CASE row.by = "qtype"
  <2>1. /\ row.field = "qtype" /\ row.hi = 32
        /\ limit.lo \in Int /\ limit.lo <= 1 /\ limit.hi \in Int /\ 32 <= limit.hi
    BY <1>2, <1>11 DEF RowFits
  <2>2. /\ candidates[1] \in Json /\ candidates[1] \in ToSet(candidates)
        /\ candidates[2] \in Json
    <3>1. 1 \in 1..Len(candidates) /\ 2 \in 1..Len(candidates) /\ DOMAIN candidates = 1..Len(candidates)
      BY LenProperties
    <3> QED BY <3>1, ElementOfSeq DEF ToSet
  <2> DEFINE name == Got(row, <<candidates[1]>>)
             number == Got(row, <<candidates[2]>>)
  <2>3. CASE ~ NoText(name)
    <3>1. n = Written(name, row)
      BY <1>1, <1>11, <2>3 DEF Out
    <3>2. /\ name \in Json /\ name.type # "absent"
          /\ name.type \in {"surrogate", "expanding"} => name = candidates[1]
      <4>1. <<candidates[1]>> \in Seq(Json) /\ ToSet(<<candidates[1]>>) = {candidates[1]}
        BY <2>2 DEF ToSet
      <4> QED BY <1>4, <1>11, <2>2, <4>1, GotCandidate
    <3> HIDE DEF name
    <3>3. 1 <= name.length
      BY <2>3, <3>2 DEF NoText, Json
    <3>4. name.type # "surrogate" /\ ~ (name.type = "expanding" /\ row.field \in Recased)
      BY <2>2, <3>2
    <3>5. n \in Int /\ 1 <= n /\ n <= row.hi
      BY <1>4, <2>1, <3>1, <3>2, <3>3, <3>4, WrittenFits
    <3> QED BY <1>1, <2>1, <3>5
  <2>4. CASE NoText(name)
    <3>1. number.type \notin {"null", "dash"} /\ n = 4 + candidates[2].length
      BY <1>1, <1>11, <2>4 DEF Out
    <3>2. candidates[2].type \in {"int", "digits"}
      BY <1>11, <2>4, <3>1 DEF Accepted, ParsesAsInt
    <3>3. candidates[2].length \in Nat
      BY <2>2 DEF Json
    <3>4. candidates[2].length > 28
      BY <1>1, <2>1, <3>1, <3>3
    <3> QED BY <2>1, <3>4 DEF RefusalKnown
  <2> QED BY <2>3, <2>4
<1> QED BY <1>3, <1>7, <1>9, <1>10, <1>11

-----------------------------------------------------------------------------
\* What validate counts.

Outcome == {"event", "ParseError", "raised", "skipped"}

Line == OtherLine \cup {[kind |-> "object", document |-> d] : d \in Document(sensor)}

\* How many of the lines read are counted: all but the one at hand.
Counted == IF line = NoLine THEN Len(results) ELSE Len(results) - 1

EventLines(n) == {i \in 1..n : results[i] = "event"}

FaultyLines(n) == {i \in 1..n : results[i] \notin {"event", "skipped"}}

ValidateInv ==
    /\ results \in Seq(Outcome) /\ read \in Nat
    /\ sensor \in Sensor
    /\ line # NoLine =>
            /\ line \in Line
            /\ results # <<>> /\ results[Len(results)] = ParseLine(line)
    /\ valid = Cardinality(EventLines(Counted))
    /\ invalid = Cardinality(FaultyLines(Counted))
    /\ command = "validate" =>
            /\ exit = "0" => line = NoLine /\ invalid = 0
            /\ exit = "1" => line = NoLine /\ invalid > 0
            /\ exit = "raised" => line # NoLine /\ ParseLine(line) = "raised"

\* What a line comes to.
LEMMA ParseLineOutcome == ASSUME NEW l PROVE ParseLine(l) \in Outcome
<1>1. ASSUME NEW s, NEW d PROVE Parse(s, d).result \in {"event", "ParseError", "raised"}
  BY DEF Parse
<1> QED BY <1>1 DEF ParseLine, Outcome

\* Counting one position more.
LEMMA CountNext ==
    ASSUME NEW n \in Nat
    PROVE  /\ Cardinality(EventLines(n + 1)) =
                Cardinality(EventLines(n)) + (IF results[n + 1] = "event" THEN 1 ELSE 0)
           /\ Cardinality(FaultyLines(n + 1)) =
                Cardinality(FaultyLines(n))
                    + (IF results[n + 1] \notin {"event", "skipped"} THEN 1 ELSE 0)
<1>1. IsFiniteSet(1..n)
  BY FS_Interval
<1>2. IsFiniteSet(EventLines(n)) /\ IsFiniteSet(FaultyLines(n))
  BY <1>1, FS_Subset DEF EventLines, FaultyLines
<1>3. n + 1 \notin EventLines(n) /\ n + 1 \notin FaultyLines(n)
  BY DEF EventLines, FaultyLines
<1>4. EventLines(n + 1) = IF results[n + 1] = "event" THEN EventLines(n) \cup {n + 1}
                          ELSE EventLines(n)
  BY DEF EventLines
<1>5. FaultyLines(n + 1) = IF results[n + 1] \notin {"event", "skipped"}
                           THEN FaultyLines(n) \cup {n + 1} ELSE FaultyLines(n)
  BY DEF FaultyLines
<1>6. /\ Cardinality(EventLines(n)) \in Nat /\ Cardinality(FaultyLines(n)) \in Nat
      /\ Cardinality(EventLines(n) \cup {n + 1}) = Cardinality(EventLines(n)) + 1
      /\ Cardinality(FaultyLines(n) \cup {n + 1}) = Cardinality(FaultyLines(n)) + 1
  BY <1>2, <1>3, FS_AddElement, FS_CardinalityType
<1> QED BY <1>4, <1>5, <1>6

\* At the start nothing is read and nothing counted.
LEMMA ValidateInvInit ==
    ASSUME CommandInit, results = <<>>
    PROVE  ValidateInv
<1>1. Counted = 0
  BY DEF CommandInit, Counted
<1>2. EventLines(0) = {} /\ FaultyLines(0) = {}
  BY DEF EventLines, FaultyLines
<1>3. Cardinality({}) = 0
  BY FS_EmptySet
<1>4. sensor \in Sensor
  BY DEF CommandInit, Sensor
<1>5. valid = 0 /\ invalid = 0 /\ read = 0 /\ line = NoLine /\ exit = "none"
  BY DEF CommandInit
<1>6. valid = Cardinality(EventLines(Counted)) /\ invalid = Cardinality(FaultyLines(Counted))
  BY <1>1, <1>2, <1>3, <1>5
<1>7. results \in Seq(Outcome)
  OBVIOUS
<1> HIDE DEF Counted, EventLines, FaultyLines
<1> QED BY <1>4, <1>5, <1>6, <1>7 DEF ValidateInv

\* Every step counts what it should.
LEMMA ValidateInvStep ==
    ASSUME CommandInv, ValidateInv, [MCNext]_mcVars
    PROVE  ValidateInv'
<1>1. /\ results \in Seq(Outcome) /\ read \in Nat /\ sensor \in Sensor
      /\ Len(results) \in Nat /\ DOMAIN results = 1..Len(results)
  BY LenProperties DEF ValidateInv
<1>2. CASE ReadLine /\ MCNext
  <2>1. /\ line = NoLine /\ line' \in Line /\ read' = read + 1 /\ pc = "validating"
        /\ UNCHANGED <<argumentVars, valid, invalid, exit>>
    BY <1>2 DEF ReadLine, Line
  <2>2. sensor' = sensor /\ command' = command /\ Line' = Line
    BY <2>1 DEF argumentVars, Line
  <2>3. line' # NoLine
    <3>1. CASE line' \in OtherLine
      <4>1. PICK k \in {"empty", "malformed", "long integer", "deep", "undecodable"} :
                line' = [kind |-> k]
        BY <3>1 DEF OtherLine
      <4>2. line'.kind # "none"
        BY <4>1
      <4>3. NoLine.kind = "none"
        BY DEF NoLine
      <4> QED BY <4>2, <4>3
    <3>2. CASE line' \in {[kind |-> "object", document |-> d] : d \in Document(sensor)}
      <4>1. line'.kind = "object"
        BY <3>2
      <4>2. NoLine.kind = "none"
        BY DEF NoLine
      <4> QED BY <4>1, <4>2
    <3> QED BY <2>1, <3>1, <3>2 DEF Line
  <2>4. PICK r : r = ParseLine(line')
    OBVIOUS
  <2>5. results' = Append(results, r) /\ r \in Outcome
    <3>1. r \in Outcome
      BY <2>4, ParseLineOutcome
    <3>2. read' > read
      BY <1>1, <2>1
    <3>3. results' = IF read' > read THEN Append(results, ParseLine(line')) ELSE results
      BY <1>2 DEF MCNext
    <3> QED BY <2>4, <3>1, <3>2, <3>3
  <2>6. /\ results' \in Seq(Outcome) /\ Len(results') = Len(results) + 1 /\ results' # <<>>
        /\ results'[Len(results')] = r
        /\ \A i \in 1..Len(results) : results'[i] = results[i]
    BY <1>1, <2>5
  <2>7. ParseLine(line)' = r
    BY <2>2, <2>4 DEF ParseLine
  <2>8. Counted' = Counted /\ Counted = Len(results)
    BY <1>1, <2>1, <2>3, <2>6 DEF Counted
  <2>9. EventLines(Counted)' = EventLines(Counted) /\ FaultyLines(Counted)' = FaultyLines(Counted)
    BY <2>6, <2>8 DEF EventLines, FaultyLines
  <2>10. /\ valid' = Cardinality(EventLines(Counted))'
         /\ invalid' = Cardinality(FaultyLines(Counted))'
    BY <2>1, <2>9 DEF ValidateInv
  <2>11. exit' = "none" /\ read' \in Nat
    BY <1>1, <2>1 DEF CommandInv, SettingsInv
  <2> QED BY <1>1, <2>1, <2>2, <2>6, <2>7, <2>10, <2>11 DEF ValidateInv
<1>3. CASE ~ (ReadLine /\ MCNext)
  <2>1. read' = read /\ UNCHANGED argumentVars
    <3>1. CASE UNCHANGED mcVars
      BY <3>1 DEF mcVars, commandVars, fileVars
    <3>2. CASE MCNext
      BY <1>3, <3>2 DEF MCNext, CommandNext, MakeSettings, RejectSettings, AcceptRate, Unlink,
        RunDaemon, CountLine, EndOfFile, ReadFails, fileVars
    <3> QED BY <3>1, <3>2
  <2>2. results' = results
    BY <1>1, <2>1 DEF MCNext, mcVars
  <2>3. sensor' = sensor /\ command' = command /\ Line' = Line
    BY <2>1 DEF argumentVars, Line
  <2>4. \A n : EventLines(n)' = EventLines(n) /\ FaultyLines(n)' = FaultyLines(n)
    BY <2>2 DEF EventLines, FaultyLines
  <2>5. CASE CountLine /\ ParseLine(line) = "raised"
    <3>1. /\ UNCHANGED <<line, valid, invalid>> /\ exit' = "raised" /\ line # NoLine
      BY <2>5 DEF CountLine, Leave
    <3>2. Counted' = Counted /\ ParseLine(line)' = ParseLine(line)
      BY <2>2, <2>3, <3>1 DEF Counted, ParseLine
    <3>3. /\ EventLines(Counted)' = EventLines(Counted)
          /\ FaultyLines(Counted)' = FaultyLines(Counted)
      BY <2>2, <3>2 DEF EventLines, FaultyLines
    <3> QED BY <1>1, <2>1, <2>2, <2>3, <2>5, <3>1, <3>2, <3>3 DEF ValidateInv
  <2>6. CASE CountLine /\ ParseLine(line) # "raised"
    <3>1. PICK result : result = ParseLine(line)
      OBVIOUS
    <3>2. /\ line # NoLine /\ line' = NoLine /\ exit' = exit /\ pc = "validating"
          /\ valid' = IF result = "event" THEN valid + 1 ELSE valid
          /\ invalid' = IF result # "event" /\ result # "skipped" THEN invalid + 1 ELSE invalid
      BY <2>6, <3>1 DEF CountLine, Leave, Skipped
    <3>3. results # <<>> /\ results[Len(results)] = result
      BY <3>1, <3>2 DEF ValidateInv
    <3>4. Len(results) > 0
      BY <1>1, <3>3, EmptySeq
    <3>5. PICK n \in Nat : n = Len(results) - 1
      <4>1. PICK m : m = Len(results)
        OBVIOUS
      <4>2. m - 1 \in Nat
        BY <1>1, <3>4, <4>1
      <4> QED BY <4>1, <4>2
    <3>6. n + 1 = Len(results) /\ Counted = n /\ Counted' = n + 1 /\ results[n + 1] = result
      BY <1>1, <2>2, <3>2, <3>3, <3>5 DEF Counted
    <3>7. /\ valid = Cardinality(EventLines(n)) /\ invalid = Cardinality(FaultyLines(n))
      BY <3>6 DEF ValidateInv
    <3>8. /\ valid' = Cardinality(EventLines(n + 1))
          /\ invalid' = Cardinality(FaultyLines(n + 1))
      <4>1. /\ Cardinality(EventLines(n + 1)) =
                    Cardinality(EventLines(n)) + (IF results[n + 1] = "event" THEN 1 ELSE 0)
            /\ Cardinality(FaultyLines(n + 1)) =
                    Cardinality(FaultyLines(n))
                        + (IF results[n + 1] \notin {"event", "skipped"} THEN 1 ELSE 0)
        BY CountNext
      <4>2. Cardinality(EventLines(n)) \in Nat /\ Cardinality(FaultyLines(n)) \in Nat
        <5>1. IsFiniteSet(1..n)
          BY FS_Interval
        <5>2. IsFiniteSet(EventLines(n)) /\ IsFiniteSet(FaultyLines(n))
          BY <5>1, FS_Subset DEF EventLines, FaultyLines
        <5> QED BY <5>2, FS_CardinalityType
      <4> QED BY <3>2, <3>6, <3>7, <4>1, <4>2
    <3>9. /\ EventLines(Counted)' = EventLines(n + 1)
          /\ FaultyLines(Counted)' = FaultyLines(n + 1)
      BY <2>2, <3>6 DEF EventLines, FaultyLines
    <3>10. exit' = "none"
      BY <3>2 DEF CommandInv, SettingsInv
    <3> QED BY <1>1, <2>1, <2>2, <2>3, <3>2, <3>8, <3>9, <3>10 DEF ValidateInv
  <2>7. CASE ~ CountLine
    <3>1. UNCHANGED fileVars
      <4>1. CASE UNCHANGED mcVars
        BY <4>1 DEF mcVars, commandVars
      <4>2. CASE MCNext
        BY <1>3, <2>7, <4>2 DEF MCNext, CommandNext, MakeSettings, RejectSettings, AcceptRate,
            Unlink, RunDaemon, EndOfFile, ReadFails
      <4> QED BY <4>1, <4>2
    <3>2. command = "validate" =>
            \/ exit' \in {exit, "2"}
            \/ line = NoLine /\ exit' = IF invalid > 0 THEN "1" ELSE "0"
      <4>1. CASE UNCHANGED mcVars
        BY <4>1 DEF mcVars, commandVars
      <4>2. CASE MCNext
        BY <1>3, <2>7, <4>2 DEF MCNext, CommandNext, MakeSettings, RejectSettings, AcceptRate,
            Unlink, RunDaemon, EndOfFile, ReadFails, Leave, CommandInv, SettingsInv
      <4> QED BY <4>1, <4>2
    <3>3. Counted' = Counted /\ ParseLine(line)' = ParseLine(line)
      BY <2>2, <2>3, <3>1 DEF Counted, ParseLine, fileVars
    <3>4. /\ EventLines(Counted)' = EventLines(Counted)
          /\ FaultyLines(Counted)' = FaultyLines(Counted)
      BY <2>2, <3>3 DEF EventLines, FaultyLines
    <3>5. UNCHANGED <<line, valid, invalid>>
      BY <3>1 DEF fileVars
    <3>6. IsFiniteSet(FaultyLines(Counted))
      <4>1. Counted \in Int
        BY <1>1 DEF Counted
      <4>2. IsFiniteSet(1..Counted)
        BY <4>1, FS_Interval
      <4> QED BY <4>2, FS_Subset DEF FaultyLines
    <3>7. invalid \in Nat
      BY <3>6, FS_CardinalityType DEF ValidateInv
    <3>8. command' = "validate" =>
            /\ exit' = "0" => line = NoLine /\ invalid = 0
            /\ exit' = "1" => line = NoLine /\ invalid > 0
            /\ exit' = "raised" => line # NoLine /\ ParseLine(line) = "raised"
      BY <2>3, <3>2, <3>7 DEF ValidateInv
    <3> QED BY <1>1, <2>1, <2>2, <2>3, <3>3, <3>4, <3>5, <3>8 DEF ValidateInv
  <2> QED BY <2>5, <2>6, <2>7
<1> QED BY <1>2, <1>3

\* MCSpec adds only the record of the lines.
LEMMA MCStep == [MCNext]_mcVars => [CommandNext]_commandVars
BY DEF MCNext, mcVars

\* ValidateInv holds throughout.
THEOREM ValidateInvariant == MCSpec => [](CommandInv /\ ValidateInv)
<1>1. MCInit => CommandInv /\ ValidateInv
  BY SettingsInvInit, ValidateInvInit DEF MCInit
<1>2. CommandInv /\ ValidateInv /\ [MCNext]_mcVars => (CommandInv /\ ValidateInv)'
  BY SettingsInvStep, ValidateInvStep, MCStep
<1> QED BY <1>1, <1>2, PTL DEF MCSpec

\* validate counts every line with text once, its exit status says whether all were valid,
\* and an exception has one of few causes, all in the file.
THEOREM ValidateIsExact ==
    ASSUME CommandLineAssumption
    PROVE  MCSpec => []ValidateExact
<1>1. CommandInv /\ ValidateInv => ValidateExact
  <2> SUFFICES ASSUME CommandInv, ValidateInv PROVE ValidateExact
    OBVIOUS
  <2> DEFINE texts == {i \in DOMAIN results : results[i] # "skipped"}
             events == {i \in texts : results[i] = "event"}
  <2>1. results \in Seq(Outcome) /\ Len(results) \in Nat /\ DOMAIN results = 1..Len(results)
    BY LenProperties DEF ValidateInv
  <2>2. ASSUME exit \in {"0", "1"}, command = "validate"
        PROVE  /\ valid = Cardinality(events)
               /\ invalid = Cardinality(texts) - valid
               /\ (exit = "0") <=> (events = texts)
    <3>1. line = NoLine /\ (exit = "0" => invalid = 0) /\ (exit = "1" => invalid > 0)
      BY <2>2 DEF ValidateInv
    <3> DEFINE faults == FaultyLines(Len(results))
    <3>2. valid = Cardinality(events) /\ invalid = Cardinality(faults)
      <4>1. events = EventLines(Len(results))
        BY <2>1 DEF EventLines
      <4> QED BY <3>1, <4>1 DEF ValidateInv, Counted
    <3>3. texts = events \cup faults /\ events \cap faults = {}
      BY <2>1 DEF FaultyLines
    <3>4. IsFiniteSet(events) /\ IsFiniteSet(faults)
      <4>1. IsFiniteSet(1..Len(results))
        BY <2>1, FS_Interval
      <4> QED BY <2>1, <4>1, FS_Subset DEF FaultyLines
    <3> HIDE DEF events, faults, texts
    <3>5. Cardinality(texts) = Cardinality(events) + Cardinality(faults)
      <4>1. Cardinality(events \cap faults) = 0
        BY <3>3, FS_EmptySet
      <4>2. Cardinality(events) \in Nat /\ Cardinality(faults) \in Nat
        BY <3>4, FS_CardinalityType
      <4>3. Cardinality(events \cup faults)
                = Cardinality(events) + Cardinality(faults) - Cardinality(events \cap faults)
        BY <3>4, FS_Union
      <4> QED BY <3>3, <4>1, <4>2, <4>3
    <3>6. (Cardinality(faults) = 0) <=> (faults = {})
      BY <3>4, FS_EmptySet
    <3>7. (exit = "0") <=> (faults = {})
      BY <2>2, <3>1, <3>2, <3>4, <3>6, FS_CardinalityType
    <3>8. Cardinality(events) \in Nat /\ Cardinality(faults) \in Nat
      BY <3>4, FS_CardinalityType
    <3>9. invalid = Cardinality(texts) - valid
      BY <3>2, <3>5, <3>8
    <3>10. (events = texts) <=> (faults = {})
      BY <3>3
    <3> QED BY <3>2, <3>7, <3>9, <3>10
  <2>3. ASSUME exit = "raised", command = "validate"
        PROVE  \/ line.kind \in {"undecodable", "long integer", "deep"}
               \/ /\ line.kind = "object"
                  /\ \E f \in DOMAIN line.document : \E v \in ToSet(line.document[f]) :
                        v.type = "edge" \/ (f = "duration" /\ v.type = "int" /\ v.number = Huge)
    <3>1. line \in Line /\ ParseLine(line) = "raised" /\ sensor \in Sensor
      BY <2>3 DEF ValidateInv
    <3>2. CASE line \in OtherLine
      <4>1. PICK k \in {"empty", "malformed", "long integer", "deep", "undecodable"} :
                line = [kind |-> k]
        BY <3>2 DEF OtherLine
      <4>2. line.kind = k
        BY <4>1
      <4>3. k # "empty" /\ k # "malformed"
        BY <3>1, <4>2 DEF ParseLine
      <4> QED BY <4>2, <4>3
    <3>3. CASE \E d \in Document(sensor) : line = [kind |-> "object", document |-> d]
      <4>1. PICK d \in Document(sensor) : line = [kind |-> "object", document |-> d]
        BY <3>3
      <4>2. line.kind = "object" /\ line.document = d
        BY <4>1
      <4>3. Parse(sensor, d).result = "raised"
        BY <3>1, <4>2 DEF ParseLine
      <4> QED BY <3>1, <4>2, <4>3, RaisedCause
    <3> QED BY <3>1, <3>2, <3>3 DEF Line
  <2> QED BY <2>2, <2>3 DEF ValidateExact
<1> QED BY <1>1, ValidateInvariant, PTL

-----------------------------------------------------------------------------
\* Parsers and models agree.

Disputed(s, d) ==
    {row \in ToSet(Parser[s]) : Accepted(row, d[row.field]) /\ Refuses(s, row, d[row.field])}

\* The schema is blamed only for what a coercion accepts and the model refuses, whether the
\* first fault is the identity of the sensor or there is no fault before the model is made.
LEMMA BlameIsDue ==
    ASSUME NEW s \in Sensor, NEW d, Parse(s, d).field = "schema"
    PROVE  Disputed(s, d) # {}
<1> DEFINE rows == Parser[s]
           faults == {i \in DOMAIN rows :
                        \/ ~ Accepted(rows[i], d[rows[i].field])
                        \/ Uncaught(rows[i], d[rows[i].field])
                        \/ /\ rows[i].field \in SensorIdentity
                           /\ Refuses(s, rows[i], d[rows[i].field])}
           n == CHOOSE i \in faults : \A j \in faults : i <= j
<1>1. CASE faults # {}
  <2>1. n \in faults
    <3>1. PICK S : rows \in Seq(S) /\ \A row \in S : SafeRow(row)
      BY ParserIsSafe DEF SafeRows
    <3>2. faults \in SUBSET Nat
      BY <3>1, LenProperties
    <3>3. \E i \in faults : \A j \in faults : i <= j
      <4> HIDE DEF faults
      <4> QED BY <1>1, <3>2, LeastNatural
    <3> QED BY <3>3
  <2>2. rows[n] \in ToSet(rows)
    BY <2>1 DEF ToSet
  <2>3. rows[n].field # "schema"
    BY <2>2, ParserFits DEF RowFits
  <2>4. ~ Uncaught(rows[n], d[rows[n].field]) /\ Accepted(rows[n], d[rows[n].field])
    BY <1>1, <2>3 DEF Parse
  <2> QED BY <2>1, <2>2, <2>4 DEF Disputed
<1>2. CASE faults = {}
  <2>1. Refused(s, d) # {}
    BY <1>2 DEF Parse
  <2>2. PICK row \in ToSet(rows) : Refuses(s, row, d[row.field])
    BY <2>1 DEF Refused
  <2>3. PICK i \in DOMAIN rows : row = rows[i]
    BY <2>2 DEF ToSet
  <2>4. Accepted(row, d[row.field])
    BY <1>2, <2>3
  <2> QED BY <2>2, <2>4 DEF Disputed
<1> QED BY <1>1, <1>2

\* Whatever the documents that a file may hold, its parser and its model disagree over one
\* of the known causes alone, and the schema is blamed for nothing else.
THEOREM SchemasAgree ==
    ASSUME CommandLineAssumption
    PROVE  MCSpec => []SchemaAgrees
<1>1. ValidateInv => SchemaAgrees
  <2> SUFFICES ASSUME ValidateInv, line.kind = "object" PROVE SchemaAgrees
    BY DEF SchemaAgrees
  <2>1. PICK d \in Document(sensor) : line = [kind |-> "object", document |-> d]
    <3>1. line # NoLine
      BY DEF NoLine
    <3>2. line \in Line
      BY <3>1 DEF ValidateInv
    <3>3. ASSUME line \in OtherLine PROVE FALSE
      <4>1. PICK k \in {"empty", "malformed", "long integer", "deep", "undecodable"} :
                line = [kind |-> k]
        BY <3>3 DEF OtherLine
      <4>2. line.kind = k
        BY <4>1
      <4> QED BY <4>2
    <3> QED BY <3>2, <3>3 DEF Line
  <2>2. sensor \in Sensor /\ line.document = d
    BY <2>1 DEF ValidateInv
  <2>3. ASSUME NEW row \in Disputed(sensor, d)
        PROVE  RefusalKnown(row, d[row.field])
    <3>1. /\ row \in ToSet(Parser[sensor])
          /\ Accepted(row, d[row.field]) /\ Refuses(sensor, row, d[row.field])
      BY DEF Disputed
    <3>2. d[row.field] \in Seq(Json) /\ Len(d[row.field]) >= 2
      BY <2>1, <2>2, <3>1 DEF CommandLineAssumption
    <3>3. RowFits(Model[sensor], row)
      BY <2>2, <3>1, ParserFits
    <3> QED BY <2>2, <3>1, <3>2, <3>3, RefusalIsKnown
  <2>4. Parse(sensor, d).field = "schema" => Disputed(sensor, d) # {}
    BY <2>2, BlameIsDue
  <2> QED BY <2>2, <2>3, <2>4 DEF SchemaAgrees, Disputed
<1> QED BY <1>1, ValidateInvariant, PTL
====
