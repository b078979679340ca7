---------------------------- MODULE Dlt645Probe ----------------------------
(***************************************************************************)
(* src/debug/ivy-dlt645-probe.js: sends a meter one DLT645 read request     *)
(* after the other, each with another destination in the IVY header or with *)
(* no header at all, and takes the first destination that answers; then it  *)
(* tries to trip the relay over that destination and to close it again, or, *)
(* if none answered, to trip it over every destination.                     *)
(*                                                                         *)
(* dest[s] is the run that connection s started.  Each probe listens for a  *)
(* window of fixed length and takes whatever comes in it.  The results are  *)
(* one list of the process, which every new connection empties; its length  *)
(* is the number of the next probe of phase 2, and sendProbe looks the      *)
(* number up in PROBE_LIST, which has the probes of phase 1 only.           *)
(***************************************************************************)
EXTENDS ProbeServer

CONSTANTS
    Destinations,  \* PROBE_LIST, and relayDests: a sequence whose last is Raw
    Raw            \* destination: null, no IVY header

ASSUME DestinationsAssumption ==
    /\ Destinations # <<>>
    /\ \A i \in DOMAIN Destinations : Destinations[i] = Raw <=> i = Len(Destinations)

VARIABLES
    dest,          \* connection -> the run it started
    probeResults,  \* how many results the list holds
    relay          \* connection -> history: kinds of relay commands its meter was sent

destVars == <<dest, probeResults, relay>>

\* workingDestination = null, which is also what a working Raw leaves it at.
Nowhere == Raw

\* at: the probe of this phase the run is at; working: the first destination a
\* DLT645 answer came in the window of; of: the destinations whose requests were
\* answered in that window; got: those answered in the present one.
IdleDest == [pc |-> "idle", phase |-> "read", at |-> 1, working |-> Nowhere,
             of |-> {}, got |-> {}]

DestInit ==
    /\ dest = [s \in Sockets |-> IdleDest]
    /\ probeResults = 0
    /\ relay = [s \in Sockets |-> {}]

----------------------------------------------------------------------------
(* sendProbe *)

\* PROBE_LIST[probeIndex].description, probeIndex counting from 0: behind the
\* list's end the expression throws, and the run ends with its error logged.
Numbered(index) == index < Len(Destinations)

\* What goes out in a phase at a place of its list.
Frame(run) ==
    CASE run.phase = "read" -> [kind |-> "read", to |-> Destinations[run.at]]
      [] run.phase = "tripAll" -> [kind |-> "trip", to |-> Destinations[run.at]]
      [] run.phase = "test" -> [kind |-> IF run.at = 1 THEN "trip" ELSE "close",
                                to |-> run.working]

Pending(frame) == [tag |-> "dlt645", of |-> frame.to]

\* The number of a probe: its place in phase 1, and later the results' count.
ProbeIndex(run, results) ==
    IF run.phase = "read" THEN run.at - 1 ELSE results

\* results: probeResults as they are by now.  A meter need not answer, least
\* of all a destination it does not know.
SendProbe(s, run, rest, results) ==
    \/ /\ ~Numbered(ProbeIndex(run, results))
       /\ dest' = [dest EXCEPT ![s] = [run EXCEPT !.pc = "failed"]]
       /\ inflight' = [inflight EXCEPT ![s] = rest]
       /\ UNCHANGED <<serverVars, relay>>
    \/ /\ Numbered(ProbeIndex(run, results))
       /\ dest' = [dest EXCEPT ![s] = [run EXCEPT !.pc = "window", !.got = {}]]
       /\ inflight' = [inflight EXCEPT ![s] = Sent(s, rest, Pending(Frame(run)))]
       /\ relay' = IF sock[s] = "open" /\ Frame(run).kind # "read"
                   THEN [relay EXCEPT ![s] = @ \cup {Frame(run).kind}] ELSE relay
       /\ UNCHANGED serverVars

----------------------------------------------------------------------------
(* runProbes *)

\* The first answer of the protocol that came in the window decides; a working
\* Raw is stored as null, as if there were none.
WorkingUnanswered(run) == \* mutant: gotResponse is not looked at
    IF run.phase # "read" \/ run.working # Nowhere THEN run
    ELSE [run EXCEPT !.working = Destinations[run.at], !.of = run.got]
Working(run) ==
    IF run.phase # "read" \/ run.working # Nowhere \/ run.got = {} THEN run
    ELSE [run EXCEPT !.working = Destinations[run.at],
                     !.of = run.got]

Probes(run) == IF run.phase = "test" THEN 2 ELSE Len(Destinations)

Relays(run) ==
    [run EXCEPT !.phase = IF run.working # Nowhere THEN "test" ELSE "tripAll", !.at = 1]

\* The window of a probe is over: its result is pushed, and the run pauses, goes
\* over to the relay without a pause, or is through and prints its summary.
WindowEnds(s) ==
    /\ dest[s].pc = "window"
    /\ \E run \in {Working(dest[s])} :
       \E results \in {probeResults + 1}, rest \in Outstanding(s) :
        /\ MissAnswer(s, rest)
        /\ probeResults' = results
        /\ \/ /\ run.at < Probes(run)
              /\ dest' = [dest EXCEPT ![s] = [run EXCEPT !.pc = "gap"]]
              /\ inflight' = [inflight EXCEPT ![s] = rest]
              /\ UNCHANGED <<serverVars, relay>>
           \/ /\ run.at = Probes(run)
              /\ run.phase = "read"
              /\ SendProbe(s, Relays(run), rest, results)
           \/ /\ run.at = Probes(run)
              /\ run.phase # "read"
              /\ dest' = [dest EXCEPT ![s] = [run EXCEPT !.pc = "done"]]
              /\ inflight' = [inflight EXCEPT ![s] = rest]
              /\ UNCHANGED <<serverVars, relay>>

\* The end of a sleep, or of the two seconds behind the heartbeat.
WakeDest(s) ==
    /\ \E run \in {dest[s]} :
        \/ run.pc = "armed" /\ SendProbe(s, run, inflight[s], probeResults)
        \/ run.pc = "gap" /\ SendProbe(s, [run EXCEPT !.at = @ + 1], inflight[s], probeResults)
    /\ UNCHANGED <<late, probeResults>>

\* Data counts for the probe whose window it comes in; data of another kind than
\* DLT645 changes only what the summary shows.
DeliverToDest(s) ==
    \/ /\ dest[s].pc = "window"
       /\ sock[s] = "open"
       /\ inflight[s] # <<>>
       /\ dest' = [dest EXCEPT ![s].got = @ \cup {Head(inflight[s]).of}]
       /\ inflight' = [inflight EXCEPT ![s] = Tail(@)]
       /\ UNCHANGED <<serverVars, late, probeResults, relay>>
    \/ /\ dest[s].pc # "window"
       /\ Lose(s)
       /\ UNCHANGED destVars

----------------------------------------------------------------------------
(* The server's steps *)

DestHeartbeat(s) ==
    /\ sock[s] = "open"
    /\ dest[s].pc = "idle"
    /\ dest' = [dest EXCEPT ![s].pc = "armed"]
    /\ UNCHANGED <<serverVars, wireVars, probeResults, relay>>

AcceptForDest(s) ==
    /\ Accept(s)
    /\ probeResults' = 0
    /\ UNCHANGED <<dest, relay>>

RejectForDest(s) == Reject(s) /\ UNCHANGED destVars

CloseForDest(s) == Close(s) /\ UNCHANGED destVars

FailForDest(s) == Fail(s) /\ UNCHANGED destVars

DestNext ==
    \E s \in Sockets :
        \/ AcceptForDest(s) \/ RejectForDest(s) \/ CloseForDest(s) \/ FailForDest(s)
        \/ DestHeartbeat(s) \/ DeliverToDest(s) \/ WindowEnds(s) \/ WakeDest(s)

DestSpec == ServerInit /\ DestInit /\ [][DestNext]_<<serverVars, wireVars, destVars>>

----------------------------------------------------------------------------
(* Properties *)

\* The working destination is one whose request was answered, unless an answer
\* missed the window of its request.
DestHonest(s) ==
    dest[s].working = Nowhere \/ dest[s].working \in dest[s].of \/ late[s] > 0

\* What the tool says it does, and runProbes has its second phase for: it sends
\* DLT645 relay control probes.  A run that ended over a connection that is up has
\* sent its meter one.
RelayProbed ==
    \A s \in Sockets :
        dest[s].pc \in {"done", "failed"} /\ sock[s] = "open" => relay[s] # {}

\* How far a run is.
DestProgress(run) ==
    IF run.pc \in {"done", "failed"} THEN <<4, 0, 0>>
    ELSE IF run.pc = "idle" THEN <<0, 0, 0>>
    ELSE IF run.pc = "armed" THEN <<1, 0, 0>>
    ELSE <<IF run.phase = "read" THEN 2 ELSE 3, run.at, IF run.pc = "window" THEN 0 ELSE 1>>

DestAdvances(s) ==
    \/ dest'[s] = dest[s]
    \/ dest[s].pc = "window" /\ dest'[s] = [dest[s] EXCEPT !.got = dest'[s].got]
    \/ Before(DestProgress(dest[s]), DestProgress(dest'[s]))
=============================================================================
