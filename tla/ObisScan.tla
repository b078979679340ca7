------------------------------ MODULE ObisScan ------------------------------
(***************************************************************************)
(* src/debug/dlms-obis-bruteforce.js: asks a meter for one OBIS code after  *)
(* the other, in two phases, over sessions of a limited number of probes,   *)
(* and saves what it has found in a file that a later run can resume from.  *)
(*                                                                         *)
(* A run is a chain of awaits: scan[s] is the run that connection s         *)
(* started, scan[s].pc the await it is in.  What happens between two awaits *)
(* is one step.  waitForResponse takes the first answer of the type it      *)
(* expects; heartbeats and notifications, which it skips, and the invoke    *)
(* ids, which it never compares, are left out.                             *)
(***************************************************************************)
EXTENDS ProbeServer

CONSTANTS
    Phase1Probes,      \* what generatePhase1Probes returns, a sequence
    Phase2Variants,    \* the combinations of D, E and class of phase 2, a sequence
    MaxC,              \* the largest value of C (99)
    Radius,            \* how far phase 2 looks around a successful C (2)
    ScannedC,          \* the values of C that --group lets through
    MaxProbesPerSession,
    GroupExhaustThreshold,
    SaveEvery,         \* probes between two saves (10)
    Answers,           \* bound: how a meter answers, of success, undefined and denied
    MaxStarts          \* bound: how often the tool is started

ASSUME ScanAssumption ==
    /\ MaxC \in Nat
    /\ Radius \in Nat
    /\ Phase2Variants \in Seq(ToSet(Phase2Variants))
    /\ Phase1Probes \in Seq([ab : {"1-0", "0-0"}, c : 0..MaxC,
                             v : {Phase1Probes[i].v : i \in DOMAIN Phase1Probes}])
    /\ MaxProbesPerSession \in Nat \ {0}
    /\ GroupExhaustThreshold \in Nat \ {0}
    /\ SaveEvery \in Nat \ {0}
    /\ Answers \subseteq {"success", "undefined", "denied"}

VARIABLES
    scan,          \* connection -> the run it started
    running,       \* the process is up
    starts,        \* how often it was started
    resumeArg,     \* it was started with --resume
    file,          \* the results file: the label of its last save and its entries
    allResults,    \* the results the exit handlers would save
    cut            \* history: runs refused a session, or stopped by disconnected

scanVars == <<scan, running, starts, resumeArg, file, allResults, cut>>

Groups == {"1-0", "0-0"} \X (0..MaxC)

\* A result: the code, how it ended, whether it has the value that came with a success
\* (data; an answer of success without one is left out), and as history its phase and
\* the code that the answer taken for it was of.
\*
\* The awaits of a run are "aare" and "get", its sleeps "armed", "delay", "release"
\* and "lastRelease": the last two stand for closeSession, that is, the RLRQ, the
\* wait for its answer, which changes nothing whether it comes or not, and the pause.
IdleRun == [pc |-> "idle", phase |-> 1, probes |-> <<>>, at |-> 1, results |-> <<>>,
            loaded |-> 0, failures |-> [g \in Groups |-> 0], asked |-> 0]

NoFile == [label |-> "none", results |-> <<>>]

ScanInit ==
    /\ scan = [s \in Sockets |-> IdleRun]
    /\ running = TRUE
    /\ starts = 1
    /\ resumeArg \in BOOLEAN
    /\ file = NoFile
    /\ allResults = <<>>
    /\ cut = {}

----------------------------------------------------------------------------
(* Probes *)

Group(p) == <<p.ab, p.c>>

Probed(results) == {results[i].probe : i \in DOMAIN results}

\* The probes of a list that are of the group asked for and have no result.
Wanted(p, results) == p.c \in ScannedC /\ p \notin Probed(results)

Filtered(probes, results) ==
    LET rest[i \in 0..Len(probes)] ==
            IF i = 0 THEN <<>>
            ELSE IF Wanted(probes[i], results) THEN Append(rest[i - 1], probes[i])
            ELSE rest[i - 1]
    IN  rest[Len(probes)]

\* The values of C that answered, in the order of the results.
SuccessfulC(results) ==
    LET cs[i \in 0..Len(results)] ==
            IF i = 0 THEN <<>>
            ELSE IF /\ results[i].result = "success"
                    /\ results[i].probe.c \notin ToSet(cs[i - 1])
                 THEN Append(cs[i - 1], results[i].probe.c)
            ELSE cs[i - 1]
    IN  cs[Len(results)]

\* Every C near a successful one, with every variant of phase 2.  A C near
\* two of them is generated twice.
Around(c) ==
    LET first == IF c < Radius THEN 0 ELSE c - Radius
        last == IF c + Radius > MaxC THEN MaxC ELSE c + Radius
    IN  FlattenSeq([i \in 1..((last + 1) - first) |->
            [j \in DOMAIN Phase2Variants |->
                [ab |-> "1-0", c |-> (first + i) - 1, v |-> Phase2Variants[j]]]])

GeneratePhase2Probes(results) ==
    LET cs == SuccessfulC(results) IN FlattenSeq([i \in DOMAIN cs |-> Around(cs[i])])

----------------------------------------------------------------------------
(* The results file *)

\* saveResults writes the whole list, over what the file held.  An entry has the
\* code and how it ended, and a value only if the result has its data.
Entry(r) == [probe |-> r.probe, result |-> r.result, value |-> r.data]

Saved(results, label) ==
    [label |-> label, results |-> [i \in DOMAIN results |-> Entry(results[i])]]

\* The exit handlers save what allResults holds: nothing before a scan is over.
AllSaved(label) == IF allResults = <<>> THEN file ELSE Saved(allResults, label)

NoSave == "none"

NoProbe == [ab |-> "none", c |-> 0, v |-> "none"]

\* An entry read back from the file, as one of the results.  Its value has another
\* shape than data that came from a meter, and is not looked at again.
Remembered(e) ==
    [probe |-> e.probe, result |-> e.result, phase |-> 0, of |-> NoProbe, data |-> FALSE]

Request(tag) == [tag |-> tag, probe |-> NoProbe]

NoRequest == Request("none")

\* A run reaches its next await: it has become run, sends a request (answered
\* if the socket is open) and has saved its results under a label, if any.
\* rest is what stays in flight.
Await(s, run, rest, request, save) ==
    /\ scan' = [scan EXCEPT ![s] = run]
    /\ inflight' = [inflight EXCEPT ![s] =
            IF request = NoRequest THEN rest ELSE Sent(s, rest, request)]
    /\ file' = IF save = NoSave THEN file ELSE Saved(run.results, save)
    /\ allResults' = IF save = "complete" THEN run.results ELSE allResults
    /\ UNCHANGED <<serverVars, running, starts, resumeArg>>

----------------------------------------------------------------------------
(* From one await to the next: each operator is the code from a point of a  *)
(* run on, and ends in Await.                                               *)

\* The end of runBruteForceScan, which sets allResults.
FinishScan(s, run, rest) == Await(s, [run EXCEPT !.pc = "done"], rest, NoRequest, "complete")

\* runScanPhase, up to the wait for the AARE; save is the label of a save
\* made since the last await.
BeginPhase(s, run, rest, phase, probes, save) ==
    Await(s, [run EXCEPT !.phase = phase, !.probes = probes, !.at = 1, !.asked = 0,
                         !.failures = [g \in Groups |-> 0], !.pc = "aare"],
          rest, Request("aare"), save)

\* runBruteForceScan behind a phase.
AfterPhase(s, run, rest, save) ==
    \/ /\ run.phase = 2
       /\ FinishScan(s, run, rest)
    \/ /\ run.phase = 1
       /\ disconnected
       /\ Await(s, [run EXCEPT !.pc = "done"], rest, NoRequest, "phase1-interrupted")
    \/ /\ run.phase = 1
       /\ ~disconnected
       /\ \E probes \in {Filtered(GeneratePhase2Probes(run.results), run.results)} :
            \/ probes = <<>> /\ FinishScan(s, run, rest)
            \/ probes # <<>> /\ BeginPhase(s, run, rest, 2, probes, save)

\* runScanPhase behind its loop: the phase's save, and the release.
EndPhase(s, run, rest) ==
    \E label \in {IF run.phase = 1 THEN "phase1" ELSE "phase2"} :
        \/ disconnected /\ AfterPhase(s, run, rest, label)
        \/ ~disconnected /\ Await(s, [run EXCEPT !.pc = "lastRelease"], rest, NoRequest, label)

Exhausted(run, p) == run.failures[Group(p)] >= GroupExhaustThreshold

\* The first probe from run.at on whose group is not exhausted; the ones
\* before it are recorded as skipped without a pause, and without a save.
NextProbe(run) ==
    LET open == {i \in run.at..Len(run.probes) : ~Exhausted(run, run.probes[i])} IN
    CHOOSE i \in open \cup {Len(run.probes) + 1} : \A j \in open : i <= j

Skipped(run, next) ==
    [i \in 1..(next - run.at) |->
        [probe |-> run.probes[run.at + i - 1], result |-> "skipped", phase |-> run.phase,
         of |-> run.probes[run.at + i - 1], data |-> FALSE]]

Ask(s, run, rest) ==
    Await(s, [run EXCEPT !.pc = "get"], rest,
          [tag |-> "get", probe |-> run.probes[run.at]], NoSave)

\* The loop of runScanPhase from its head.
GoOn(s, run, rest) ==
    \/ /\ disconnected
       /\ EndPhase(s, run, rest)
    \/ /\ ~disconnected
       /\ \E next \in {NextProbe(run)} :
          \E past \in {[run EXCEPT !.results = @ \o Skipped(run, next), !.at = next]} :
            \/ /\ next > Len(run.probes)
               /\ EndPhase(s, past, rest)
            \/ /\ next <= Len(run.probes)
               /\ run.asked >= MaxProbesPerSession
               /\ Await(s, [past EXCEPT !.pc = "release"], rest, NoRequest, NoSave)
            \/ /\ next <= Len(run.probes)
               /\ run.asked < MaxProbesPerSession
               /\ Ask(s, past, rest)

\* runBruteForceScan from its start.
BeginScan(s, run, rest) ==
    \E probes \in {Filtered(Phase1Probes, run.results)} :
        \/ probes = <<>> /\ AfterPhase(s, run, rest, NoSave)
        \/ probes # <<>> /\ BeginPhase(s, run, rest, 1, probes, NoSave)

\* A probe has its result.
AnyFailure(run, probe, result) == \* mutant: a timeout counts as well
    [run.failures EXCEPT ![Group(probe)] = IF result # "success" THEN @ + 1 ELSE 0]
Failures(run, probe, result) ==
    [run.failures EXCEPT ![Group(probe)] = IF result = "undefined" THEN @ + 1 ELSE 0]

Record(s, run, rest, result, of) ==
    LET probe == run.probes[run.at] IN
    Await(s, [run EXCEPT !.results = Append(@, [probe |-> probe, result |-> result,
                                                phase |-> run.phase, of |-> of,
                                                data |-> result = "success"]),
                         !.failures = Failures(run, probe, result),
                         !.asked = @ + 1, !.at = @ + 1, !.pc = "delay"],
          rest, NoRequest, IF run.at % SaveEvery = 0 THEN "progress" ELSE NoSave)

\* openSession returned: a first session is followed by the loop's head, a
\* renewed one by the probe that was waiting for it.
OpenedSkipping(s, run, rest) == \* mutant: the probe that waited for the session is lost
    GoOn(s, [run EXCEPT !.asked = 0, !.at = IF run.asked = 0 THEN @ ELSE @ + 1], rest)
Opened(s, run, rest) ==
    \/ run.asked = 0 /\ GoOn(s, run, rest)
    \/ run.asked # 0 /\ Ask(s, [run EXCEPT !.asked = 0], rest)

NotOpened(s, run, rest) ==
    \/ run.asked = 0 /\ AfterPhase(s, run, rest, NoSave)
    \/ run.asked # 0 /\ EndPhase(s, run, rest)

Stopped(s) == IF disconnected THEN cut \cup {s} ELSE cut

----------------------------------------------------------------------------
(* A run's steps *)

\* The heartbeat arms the timer of two seconds, which starts the run even if
\* the connection is gone by then.
Heartbeat(s) ==
    /\ running
    /\ sock[s] = "open"
    /\ scan[s].pc = "idle"
    /\ scan' = [scan EXCEPT ![s].pc = "armed"]
    /\ UNCHANGED <<serverVars, wireVars, running, starts, resumeArg, file, allResults, cut>>

\* loadResumeData: with --resume the file is read, and written to from now on.
LoadNothing == <<>> \* mutant: the file is found and not read
LoadResumeData ==
    IF resumeArg THEN [i \in DOMAIN file.results |-> Remembered(file.results[i])] ELSE <<>>

RunBruteForceScan(s) ==
    /\ running
    /\ scan[s].pc = "armed"
    /\ \E saved \in {LoadResumeData} :
         BeginScan(s, [scan[s] EXCEPT !.results = saved, !.loaded = Len(saved)], inflight[s])
    /\ cut' = Stopped(s)
    /\ UNCHANGED late

Expected(pc) ==
    CASE pc = "aare" -> "aare"
      [] pc = "get" -> "get"
      [] OTHER -> "nothing"

\* The session is opened or refused, or a value or an error comes back.
Answered(s, answer) ==
    LET run == scan[s] IN
    \/ /\ run.pc = "aare"
       /\ Opened(s, run, Tail(inflight[s]))
       /\ cut' = Stopped(s)
    \/ /\ run.pc = "aare"
       /\ NotOpened(s, run, Tail(inflight[s]))
       /\ cut' = cut \cup {s}
    \/ /\ run.pc = "get"
       /\ \E result \in Answers :
            Record(s, run, Tail(inflight[s]), result, answer.probe)
       /\ UNCHANGED cut

\* The first answer in flight arrives: taken if its type is the expected one,
\* whatever it answers, and lost otherwise.
Deliver(s) ==
    /\ running
    /\ sock[s] = "open"
    /\ inflight[s] # <<>>
    /\ \/ /\ Head(inflight[s]).tag = Expected(scan[s].pc)
          /\ Answered(s, Head(inflight[s]))
          /\ UNCHANGED late
       \/ /\ Head(inflight[s]).tag # Expected(scan[s].pc)
          /\ Lose(s)
          /\ UNCHANGED scanVars

\* waitForResponse's timer: the answer comes late, or not at all.
Timeout(s) ==
    LET run == scan[s] IN
    /\ running
    /\ \E rest \in Outstanding(s) :
        /\ MissAnswer(s, rest)
        /\ \/ /\ run.pc = "aare"
              /\ NotOpened(s, run, rest)
              /\ cut' = cut \cup {s}
           \/ /\ run.pc = "get"
              /\ Record(s, run, rest, "timeout", run.probes[run.at])
              /\ UNCHANGED cut

\* The end of a sleep: between two probes, or behind a release.
Woken(s, run, rest) ==
    \/ run.pc = "delay" /\ GoOn(s, run, rest)
    \/ run.pc = "lastRelease" /\ AfterPhase(s, run, rest, NoSave)
    \/ run.pc = "release" /\ disconnected /\ EndPhase(s, run, rest)
    \/ /\ run.pc = "release"
       /\ ~disconnected
       /\ Await(s, [run EXCEPT !.pc = "aare"], rest, Request("aare"), NoSave)

Wake(s) ==
    /\ running
    /\ Woken(s, scan[s], inflight[s])
    /\ cut' = Stopped(s)
    /\ UNCHANGED late

----------------------------------------------------------------------------
(* The server's steps *)

\* Runs of this process that have started.
Runs == {s \in Sockets : scan[s].pc \notin {"idle", "armed", "killed"}}

\* What a run knew is gone when it is over, or when it was killed.
Forgotten(pc) == [IdleRun EXCEPT !.pc = pc]

AcceptMeter(s) ==
    /\ running
    /\ Accept(s)
    /\ \A r \in Runs : scan[r].pc # "done" => Len(scan[r].results) <= MaxOverlap
    /\ allResults' = <<>>
    /\ scan' = [r \in Sockets |-> IF scan[r].pc = "done" THEN Forgotten("over") ELSE scan[r]]
    /\ UNCHANGED <<running, starts, resumeArg, file, cut>>

RejectMeter(s) ==
    /\ running
    /\ Reject(s)
    /\ UNCHANGED scanVars

CloseMeter(s) ==
    /\ running
    /\ Close(s)
    /\ file' = AllSaved("disconnected")
    /\ UNCHANGED <<scan, running, starts, resumeArg, allResults, cut>>

FailMeter(s) ==
    /\ running
    /\ Fail(s)
    /\ UNCHANGED scanVars

\* Ctrl+C: the handler saves allResults, and the process and all it knows go.
Interrupt ==
    /\ running
    /\ running' = FALSE
    /\ file' = AllSaved("interrupted")
    /\ sock' = Down
    /\ scan' = [s \in Sockets |->
            IF sock[s] = "unused" THEN scan[s] ELSE Forgotten("killed")]
    /\ inflight' = [s \in Sockets |-> <<>>]
    /\ activeSocket' = NoSocket
    /\ disconnected' = FALSE
    /\ allResults' = <<>>
    /\ late' = [s \in Sockets |-> 0]
    /\ cut' = {}
    /\ UNCHANGED <<starts, resumeArg>>

\* The operator starts the tool once more, with --resume: without it a new
\* file would be begun and this one left alone.
Restart ==
    /\ ~running
    /\ starts < MaxStarts
    /\ \E s \in Sockets : sock[s] = "unused"
    /\ running' = TRUE
    /\ starts' = starts + 1
    /\ resumeArg' = TRUE
    /\ UNCHANGED <<serverVars, wireVars, scan, file, allResults, cut>>

ScanNext ==
    \/ \E s \in Sockets :
        \/ AcceptMeter(s) \/ RejectMeter(s) \/ CloseMeter(s) \/ FailMeter(s)
        \/ Heartbeat(s) \/ RunBruteForceScan(s) \/ Deliver(s) \/ Timeout(s) \/ Wake(s)
    \/ Interrupt
    \/ Restart

ScanSpec == ServerInit /\ ScanInit /\ [][ScanNext]_<<serverVars, wireVars, scanVars>>

----------------------------------------------------------------------------
(* Properties *)

\* The answer recorded for a probe is the meter's answer to that probe, unless
\* an answer missed its timer before.
ScanHonest(s) ==
    \A i \in (scan[s].loaded + 1)..Len(scan[s].results) :
        scan[s].results[i].of = scan[s].results[i].probe \/ late[s] > 0

\* The places, among some, of the results of a group and a phase that were asked for.
Asked(results, group, phase, places) ==
    {k \in places : /\ Group(results[k].probe) = group
                    /\ results[k].phase = phase
                    /\ results[k].result # "skipped"}

\* A group is given up only after GroupExhaustThreshold probes of it in a row
\* were answered with object-undefined in this phase: a timeout or another
\* error between them starts the count again, and neither the end of a session
\* nor the other groups' probes disturb it.
SkipsJustified ==
    \A s \in Sockets :
        LET results == scan[s].results IN
        \A i \in (scan[s].loaded + 1)..Len(results) :
            results[i].result = "skipped" =>
                \E first \in (scan[s].loaded + 1)..i :
                    LET streak == Asked(results, Group(results[i].probe),
                                        results[i].phase, first..(i - 1))
                    IN  /\ Cardinality(streak) >= GroupExhaustThreshold
                        /\ \A k \in streak : results[k].result = "undefined"

\* What a run has recorded is of phase 1 up to n, and of phase 2 behind.
InTwoPhases(run, n) ==
    \A i \in (run.loaded + 1)..Len(run.results) :
        run.results[i].phase = IF i <= n THEN 1 ELSE 2

\* A scan that ran to its end over a connection that stayed up, and whose
\* sessions were opened, has a result for every probe of phase 1 and for
\* everything around the codes that answered by then - in this run or in the
\* ones it resumed.
CompleteUnlessRefused ==
    \A s \in Sockets :
        (scan[s].pc = "done" /\ sock[s] = "open" /\ s \notin cut) =>
            LET run == scan[s] IN
            /\ Filtered(Phase1Probes, run.results) = <<>>
            /\ \E n \in run.loaded..Len(run.results) :
                /\ InTwoPhases(run, n)
                /\ Filtered(GeneratePhase2Probes(SubSeq(run.results, 1, n)), run.results) = <<>>

\* The codes of a list and how they ended are those of another's first entries.
Lists(old, new) ==
    /\ Len(old) <= Len(new)
    /\ \A i \in DOMAIN old : new[i].probe = old[i].probe /\ new[i].result = old[i].result

\* A run has the i-th result from the file.
Resumed(i) == \E s \in Runs : i <= scan[s].loaded

\* What a results file lists stays listed, in its place: a later save, a resumed
\* scan, a disconnection or Ctrl+C only adds to it.  And the values saved with it
\* stay, except for those of the entries that a resumed run has loaded, which its
\* first save replaces by null: what it found itself it saves with its value.  It
\* is true of a process with one run; two runs overwrite each other's file.
SavedResultsKept ==
    [][ \/ /\ Lists(file.results, file'.results)
          /\ \A i \in DOMAIN file.results :
                file.results[i].value => file'.results[i].value \/ Resumed(i)'
       \/ \E r, q \in Runs : r # q ]_<<serverVars, wireVars, scanVars>>

\* How far a run is: its phase, the probe it is at, and the await it is in.
Progress(run) ==
    IF run.pc \in {"done", "over", "killed"} THEN <<3, 0, 0>>
    ELSE <<run.phase, run.at,
           CASE run.pc = "idle" -> 0 [] run.pc = "armed" -> 1 [] run.pc = "delay" -> 2
             [] run.pc = "release" -> 3 [] run.pc = "aare" -> 4 [] run.pc = "get" -> 5
             [] run.pc = "lastRelease" -> 6>>

ScanAdvances(s) ==
    \/ scan'[s] = scan[s]
    \/ scan[s].pc \in {"done", "over"} /\ scan'[s].pc \in {"over", "killed"}
    \/ Before(Progress(scan[s]), Progress(scan'[s]))
=============================================================================
