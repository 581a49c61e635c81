---- MODULE CommandLine ----
(***************************************************************************)
(* The command line (cli.py): main, the settings it makes up of options and*)
(* IDS_* variables (config.py) for run and replay, and validate, which     *)
(* parses one sensor file.                                                 *)
(*                                                                         *)
(* Settings are represented by where each of them comes from.              *)
(***************************************************************************)
EXTENDS Normalization, FiniteSets

CONSTANTS
    Document(_),    \* the documents that a line of the file of a sensor may hold
    MaxLines        \* bound: lines of that file

ASSUME CommandLineAssumption ==
    /\ MaxLines \in Nat
    /\ \A s \in Sensor : \A d \in Document(s) : \A row \in ToSet(Parser[s]) :
        row.field \in DOMAIN d /\ d[row.field] \in Seq(Json) /\ Len(d[row.field]) >= 2

\* The settings of SourceSettings; "paths" stands for the four of them.
SourceOption == {"paths", "follow", "from_beginning", "poll_interval"}

Option == SourceOption \cup
    {"output", "include_events", "log_level", "metrics", "opensearch"}

\* What an option of the command line can set, by command.
Argument(command) ==
    {"paths", "output", "include_events", "log_level"} \cup
        (IF command = "run" THEN {"from_beginning"} ELSE {"opensearch"})

\* "forced": by the command, whatever options and variables say.
Origin == {"given", "environment", "default", "forced"}

VARIABLES
    command,
    given,          \* the options on the command line
    negative_rate,  \* is --rate below 0?
    environment,    \* the settings that have an IDS_* variable
    bad_source,     \* is a variable of SourceSettings invalid?
    bad_other,      \* is another variable invalid?
    pc,             \* where main is
    settings,       \* [Option -> Origin], once made up
    output_file,    \* what --output names: "absent", "present", "locked", "deleted"
    sensor,         \* of validate
    line,           \* the line of the file last read
    valid,
    invalid,
    read,           \* lines read
    exit            \* the exit status; "raised" for a traceback; or "none"

argumentVars == <<command, given, negative_rate, environment, bad_source, bad_other, sensor>>
fileVars == <<line, valid, invalid, read>>
settingsVars == <<settings, output_file>>

commandVars == <<argumentVars, pc, settingsVars, fileVars, exit>>

NoSettings == [o \in Option |-> "default"]

NoLine == [kind |-> "none"]

CommandInit ==
    /\ command \in {"run", "replay", "validate"}
    /\ given \in IF command = "validate" THEN {{}} ELSE SUBSET Argument(command)
    /\ negative_rate \in IF command = "replay" THEN BOOLEAN ELSE {FALSE}
    /\ environment \in IF command = "validate" THEN {{}} ELSE SUBSET Option
    /\ bad_source \in IF environment \cap SourceOption = {} THEN {FALSE} ELSE BOOLEAN
    /\ bad_other \in IF environment \subseteq SourceOption THEN {FALSE} ELSE BOOLEAN
    /\ pc = IF command = "validate" THEN "validating" ELSE "settings"
    /\ settings = NoSettings
    /\ output_file \in IF "output" \in given THEN {"absent", "present", "locked"}
                       ELSE {"absent"}
    /\ sensor \in IF command = "validate" THEN Sensor ELSE {"suricata"}
    /\ line = NoLine
    /\ valid = 0 /\ invalid = 0 /\ read = 0
    /\ exit = "none"

Leave(status) == pc' = "over" /\ exit' = status

-----------------------------------------------------------------------------
\* _settings_for_command.

\* Are the settings that options and variables make up valid? With a path on the command
\* line, that source replaces all of the source that the variables describe.
SettingsValid ==
    /\ ~ bad_other
    /\ "paths" \in given \/ ("paths" \in environment /\ ~ bad_source)

FromEnvironment(o) == IF o \in environment THEN "environment" ELSE "default"

GivenOrElse(o, origin) == IF o \in given THEN "given" ELSE origin

SourceOrigin(o) ==
    IF "paths" \in given
    THEN CASE o = "paths" -> "given"
           [] o = "follow" -> "forced"
           [] o = "from_beginning" ->
                IF command = "run" THEN GivenOrElse(o, "default") ELSE "forced"
           [] o = "poll_interval" -> "default"
    ELSE IF command = "replay" /\ o \in {"follow", "from_beginning"} THEN "forced"
    ELSE FromEnvironment(o)

\* Mutation of SettingsOrigin: a variable wins over an option.
VariableFirst(o) ==
    IF o \in SourceOption THEN SourceOrigin(o)
    ELSE IF o = "metrics" /\ command = "replay" THEN "forced"
    ELSE IF o \in environment THEN "environment" ELSE GivenOrElse(o, "default")

SettingsOrigin(o) ==
    IF o \in SourceOption THEN SourceOrigin(o)
    ELSE IF o = "metrics" /\ command = "replay" THEN "forced"
    ELSE GivenOrElse(o, FromEnvironment(o))

\* Mutation of MakeSettings: the output is deleted before the rate is looked at.
MakeSettingsAndUnlink ==
    /\ pc = "settings"
    /\ SettingsValid
    /\ settings' = [o \in Option |-> SettingsOrigin(o)]
    /\ output_file' = IF command = "replay" /\ output_file = "present" THEN "deleted"
                      ELSE output_file
    /\ pc' = IF command = "replay" THEN "checking_rate" ELSE "running"
    /\ UNCHANGED <<argumentVars, fileVars, exit>>

\* EngineSettings and SourceSettings are built, and the options copied over them.
MakeSettings ==
    /\ pc = "settings"
    /\ SettingsValid
    /\ settings' = [o \in Option |-> SettingsOrigin(o)]
    /\ pc' = IF command = "replay" THEN "checking_rate" ELSE "running"
    /\ UNCHANGED <<argumentVars, output_file, fileVars, exit>>

\* A ValidationError of the settings, or of the rate.
RejectSettings ==
    /\ \/ pc = "settings" /\ ~ SettingsValid
       \/ pc = "checking_rate" /\ negative_rate
    /\ Leave("2")
    /\ UNCHANGED <<argumentVars, settingsVars, fileVars>>

AcceptRate ==
    /\ pc = "checking_rate"
    /\ ~ negative_rate
    /\ pc' = "unlinking"
    /\ UNCHANGED <<argumentVars, settingsVars, fileVars, exit>>

\* A replay deletes the output of an earlier one; an OSError is not caught.
Unlink ==
    /\ pc = "unlinking"
    /\ IF output_file = "locked" THEN Leave("raised") /\ UNCHANGED output_file
       ELSE /\ output_file' = IF output_file = "present" THEN "deleted" ELSE output_file
            /\ pc' = "running"
            /\ UNCHANGED exit
    /\ UNCHANGED <<argumentVars, settings, fileVars>>

\* run_daemon returns, raises, or is interrupted.
RunDaemon ==
    /\ pc = "running"
    /\ \E status \in {"0", "1", "130"} : Leave(status)
    /\ UNCHANGED <<argumentVars, settingsVars, fileVars>>

-----------------------------------------------------------------------------
\* _validate.

\* The kinds of line besides those that hold a JSON object: one without text, one that is
\* no JSON or no object, an integer of more digits than Python converts, lists nested
\* deeper than Python recurses, and bytes that are not UTF-8.
OtherLine ==
    {[kind |-> k] : k \in {"empty", "malformed", "long integer", "deep", "undecodable"}}

ReadLine ==
    /\ pc = "validating" /\ line = NoLine
    /\ read < MaxLines
    /\ line' \in OtherLine \cup {[kind |-> "object", document |-> d] : d \in Document(sensor)}
    /\ read' = read + 1
    /\ UNCHANGED <<argumentVars, pc, settingsVars, valid, invalid, exit>>

\* load_json_object, then the parser of the sensor.
ParseLine(l) ==
    CASE l.kind = "object" -> Parse(sensor, l.document).result
      [] l.kind = "empty" -> "skipped"
      [] l.kind = "malformed" -> "ParseError"
      [] OTHER -> "raised"

\* Mutation of Skipped: a line without text goes to the parser.
NothingSkipped(result) == FALSE

Skipped(result) == result = "skipped"

CountLine ==
    /\ pc = "validating" /\ line # NoLine
    /\ LET result == ParseLine(line) IN
        IF result = "raised" THEN Leave("raised") /\ UNCHANGED <<line, valid, invalid>>
        ELSE /\ valid' = IF result = "event" THEN valid + 1 ELSE valid
             /\ invalid' = IF result # "event" /\ ~ Skipped(result) THEN invalid + 1 ELSE invalid
             /\ line' = NoLine
             /\ UNCHANGED <<pc, exit>>
    /\ UNCHANGED <<argumentVars, settingsVars, read>>

EndOfFile ==
    /\ pc = "validating" /\ line = NoLine
    /\ Leave(IF invalid > 0 THEN "1" ELSE "0")
    /\ UNCHANGED <<argumentVars, settingsVars, fileVars>>

\* Opening or reading the file raises OSError.
ReadFails ==
    /\ pc = "validating" /\ line = NoLine
    /\ Leave("2")
    /\ UNCHANGED <<argumentVars, settingsVars, fileVars>>

-----------------------------------------------------------------------------
CommandNext ==
    \/ MakeSettings \/ RejectSettings \/ AcceptRate \/ Unlink \/ RunDaemon
    \/ ReadLine \/ CountLine \/ EndOfFile \/ ReadFails

CommandSpec == CommandInit /\ [][CommandNext]_commandVars
====
