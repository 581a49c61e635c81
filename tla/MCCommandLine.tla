---- MODULE MCCommandLine ----
(***************************************************************************)
(* CommandLine with a few options and variables at a time, and documents   *)
(* that differ from the usual one of their sensor in one field; it records *)
(* the lines that validate has read.                                       *)
(***************************************************************************)
EXTENDS CommandLine

CONSTANTS
    MaxOptions,     \* bound: options given
    MaxVariables    \* bound: variables set

VARIABLE results    \* what the lines read so far should come to

mcVars == <<commandVars, results>>

Absent == JsonValue("absent", 0, 0)

\* A value that the field of a row usually has.
Usual(row) ==
    CASE row.by \in {"keyword", "object"} -> JsonValue(row.by, 1, 5)
      [] row.by = "timestamp" -> JsonValue("iso", 0, 20)
      [] row.by = "ip" -> JsonValue("address", 0, 9)
      [] row.by = "int" -> JsonValue("int", 1, 1)
      [] row.by \in {"require_text", "query"} -> JsonValue("text", 0, 8)
      [] OTHER -> Absent

\* A value of each type, and the numbers and lengths at and beside the bounds of a row.
Values(row) ==
    {Absent, Null}
        \cup {JsonValue(type, n, 5) : type \in {"bool", "float", "list", "object"}, n \in {0, 1}}
        \cup {JsonValue(type, 0, 9) : type \in StringType \ {"digits"}}
        \cup {JsonValue("nan", 0, 3), JsonValue("dash", 0, 1), JsonValue("blank", 0, 0)}
        \cup {JsonValue(type, n, 3) : type \in {"int", "digits"},
                                      n \in {-1, row.lo, row.hi, row.hi + 1}}
        \cup {JsonValue(type, Huge, 310) : type \in {"int", "digits"}}
        \cup {JsonValue(type, 0, n) : type \in {"text", "dotted", "expanding"},
                                      n \in {1, row.hi, row.hi + 1} \ {0}}

\* Only some fields are looked for under two keys.
Candidates(of, row) ==
    {<<v, Absent>> : v \in Values(row)} \cup
        (IF of = "endpoint-auth" \/ row.by \in {"stream", "qtype"}
         THEN {<<v, w>> : v \in {Absent, Null}, w \in Values(row)}
         ELSE {})

MCDocument(of) ==
    LET rows == ToSet(Parser[of])
        usual == [f \in {row.field : row \in rows} |->
                    <<Usual(CHOOSE row \in rows : row.field = f), Absent>>]
    IN  UNION {{[usual EXCEPT ![row.field] = c] : c \in Candidates(of, row)} : row \in rows}

MCInit ==
    /\ CommandInit
    /\ Cardinality(given) <= MaxOptions
    /\ Cardinality(environment) <= MaxVariables
    /\ results = <<>>

MCNext ==
    /\ CommandNext
    /\ results' = IF read' > read THEN Append(results, ParseLine(line')) ELSE results

MCSpec == MCInit /\ [][MCNext]_mcVars

-----------------------------------------------------------------------------
\* What the command line says holds, and what the variables say of the rest, in every
\* combination of the two: an option is overruled by nothing, and a variable by its option
\* or its command alone. Two exceptions: a path on the command line drops all variables of
\* the source, and --from-beginning does nothing for a source that the variables describe.
OptionsHonoured ==
    pc = "running" =>
        /\ \A o \in given :
            settings[o] = "given" \/ (o = "from_beginning" /\ "paths" \notin given)
        /\ \A o \in environment \ given :
            \/ settings[o] = "environment"
            \/ o \in SourceOption /\ "paths" \in given
            \/ o \in {"follow", "from_beginning", "metrics"} /\ command = "replay"
        /\ command = "replay" =>
            \A o \in {"follow", "from_beginning", "metrics"} : settings[o] = "forced"
        /\ settings["paths"] # "default"

\* The output of an earlier replay is deleted only by a replay whose settings are all
\* valid, and then before anything is appended to it: a configuration error costs no file.
OutputKept ==
    /\ output_file = "deleted" =>
        /\ command = "replay" /\ "output" \in given
        /\ pc \in {"running", "over"} /\ exit \in {"none", "0", "1", "130"}
    /\ command = "replay" /\ pc = "running" => output_file \in {"absent", "deleted"}

\* validate counts every line with text once, as valid or as invalid, and its status says
\* whether all were valid. Nothing but the file can end it earlier: bytes that are not
\* UTF-8, an integer too long for Python or for a float, lists nested too deep, a date at
\* the end of the calendar.
ValidateExact ==
    LET texts == {i \in DOMAIN results : results[i] # "skipped"}
        events == {i \in texts : results[i] = "event"}
    IN  /\ exit \in {"0", "1"} /\ command = "validate" =>
            /\ valid = Cardinality(events)
            /\ invalid = Cardinality(texts) - valid
            /\ (exit = "0") <=> (events = texts)
        /\ exit = "raised" /\ command = "validate" =>
            \/ line.kind \in {"undecodable", "long integer", "deep"}
            \/ /\ line.kind = "object"
               /\ \E f \in DOMAIN line.document : \E v \in ToSet(line.document[f]) :
                    v.type = "edge" \/ (f = "duration" /\ v.type = "int" /\ v.number = Huge)

\* Why a model may refuse what has passed the coercion of its field: a name of 254
\* characters whose last is not a dot; a query type with a number of too many digits; an
\* identifier of the endpoint's own of less than eight characters; a text made too long by
\* its change of case; and one with half a surrogate pair.
RefusalKnown(row, candidates) ==
    \/ row.field = "query" /\ Got(row, candidates).length = 254
    \/ row.field = "qtype" /\ candidates[2].length > 28
    \/ row.field = "event.id" /\ Got(row, candidates).length < 8
    \/ row.field \in Recased /\ \E v \in ToSet(candidates) : v.type = "expanding"
    \/ \E v \in ToSet(candidates) : v.type = "surrogate"

\* The coercions of a parser and its strict model agree, although their bounds are written
\* down twice: of the values that pass its coercion, the model refuses those with one of
\* five causes alone, and it is for such a value that a parser blames the schema, whatever
\* else is wrong with the document.
SchemaAgrees ==
    line.kind = "object" =>
        LET candidates(row) == line.document[row.field]
            disputed == {row \in ToSet(Parser[sensor]) :
                            /\ Accepted(row, candidates(row))
                            /\ Refuses(sensor, row, candidates(row))}
        IN  /\ \A row \in disputed : RefusalKnown(row, candidates(row))
            /\ Parse(sensor, line.document).field = "schema" => disputed # {}
====
