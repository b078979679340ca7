----------------------------- MODULE FieldTools -----------------------------
(***************************************************************************)
(* The operator stops the gateway, frees its port, and starts one of the    *)
(* tools of src/debug on it; meters connect, fall silent, and come back.    *)
(***************************************************************************)
EXTENDS ObisScan, ObisProbe, Dlt645Probe

CONSTANT MaxConnections   \* bound, per tool: how many connections come

VARIABLE tool             \* the tool that was started

toolsVars == <<serverVars, wireVars, scanVars, probeVars, destVars, tool>>

ToolsInit ==
    /\ tool \in {"scan", "probe", "dlt645"}
    /\ ServerInit /\ ScanInit /\ ProbeInit /\ DestInit
    /\ resumeArg => tool = "scan"

\* Sockets are numbered in the order in which they come.
MetersCome ==
    \E n \in 0..MaxConnections[tool] : {s \in Sockets : sock'[s] # "unused"} = 1..n

ToolsNext ==
    \/ tool = "scan" /\ ScanNext /\ MetersCome /\ UNCHANGED <<probeVars, destVars, tool>>
    \/ tool = "probe" /\ ProbeNext /\ MetersCome /\ UNCHANGED <<scanVars, destVars, tool>>
    \/ tool = "dlt645" /\ DestNext /\ MetersCome /\ UNCHANGED <<scanVars, probeVars, tool>>

ToolsSpec == ToolsInit /\ [][ToolsNext]_toolsVars

----------------------------------------------------------------------------
(* Properties *)

\* Whatever is recorded for a request is the meter's answer to that request, as
\* long as no answer misses its timer: the waits compare types only (the DLT645
\* probe not even those), so that a late answer is taken for that of the next
\* request; but releases, renewed sessions, a change of mode, a connection that
\* fails and the runs of other connections never mix results up.
HonestUnlessLate ==
    /\ ServerTypeOK
    /\ \A s \in Sockets : ScanHonest(s) /\ ProbeHonest(s) /\ DestHonest(s)

\* Every step of a run brings it nearer to its end, whatever the meter answers,
\* refuses or loses, and wherever the connection ends: renewing a session or
\* changing the mode never takes a run back to a request it has made.  As every
\* await ends by a timer at the latest, no run goes on for ever.
RunsAdvance ==
    [][\A s \in Sockets : ScanAdvances(s) /\ ProbeAdvances(s) /\ DestAdvances(s)]_toolsVars
=============================================================================
