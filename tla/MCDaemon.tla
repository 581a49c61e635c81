---- MODULE MCDaemon ----
(***************************************************************************)
(* Daemon on one or two short files, and the two statements of the         *)
(* documentation about its end that the code does not keep.                *)
(***************************************************************************)
EXTENDS Daemon

CONSTANTS s1, s2, e1, e2, e3

MCTwoFiles == {s1 :> <<e1, e2>> @@ s2 :> <<e3>>}

MCFiles == MCTwoFiles \cup {s1 :> <<e1, e2>> @@ s2 :> <<>>}

Setting(follow, opensearch, metrics, include_events) ==
    [follow |-> follow, opensearch |-> opensearch, metrics |-> metrics,
     include_events |-> include_events, include_metrics |-> TRUE]

\* The combinations checked; replay turns the metrics off (cli.py:160).
MCSettings ==
    {Setting(TRUE, TRUE, TRUE, FALSE), Setting(TRUE, TRUE, FALSE, FALSE),
     Setting(TRUE, FALSE, TRUE, TRUE),
     Setting(FALSE, TRUE, FALSE, FALSE), Setting(FALSE, FALSE, FALSE, TRUE)}

MCOpenSearch == {s \in MCSettings : s.opensearch /\ s.metrics = s.follow}

MCTime(t1, t2, t3) == e1 :> t1 @@ e2 :> t2 @@ e3 :> t3

\* A tie, a first file that is not sorted, and a second file that is late.
MCTimes == {MCTime(1, 2, 1), MCTime(2, 1, 1), MCTime(1, 1, 2)}

MCOneTime == {MCTime(1, 2, 1)}

\* The second file is empty where metrics share the bulk queue with the events; and
\* nothing in a live daemon reads the times.
MCInit ==
    /\ DaemonInit
    /\ lines \in MCTwoFiles <=> ~ (settings.metrics /\ settings.opensearch)
    /\ Live => observed_at \in MCOneTime

MCSpec == MCInit /\ [][DaemonNext]_daemonVars /\ DaemonFairness

MCDocument ==
    {EventDoc(e) : e \in Event} \cup {AlertDoc(e) : e \in Alarming}
        \cup {MetricDoc(n) : n \in 1..MaxSnapshots}

-----------------------------------------------------------------------------
\* Statements that do not hold.

\* "A sink failure propagates out of the consumer rather than being silently ignored"
\* (docs/ARCHITECTURE.md:110): the error that ends the consumer comes out of run.
SinkFailurePropagates == (consumer = "failed") ~> (main = "raised")

\* "On SIGINT or SIGTERM, the live daemon: 1. stops followers; ... 6. closes local
\* output and the OpenSearch client" (docs/ARCHITECTURE.md:101-108): it ends.
ShutdownAlwaysEnds == (shutdown /\ Live) ~> Over
====
