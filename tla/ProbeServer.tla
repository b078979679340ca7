---------------------------- MODULE ProbeServer ----------------------------
(***************************************************************************)
(* The TCP server of the field tools in src/debug: it takes one meter at a  *)
(* time, waits for its heartbeat, and two seconds later starts a run of     *)
(* the tool on that connection.  What the handlers of a connection share    *)
(* with the run it started - and with the runs of the connections before    *)
(* it - are two variables of the process: activeSocket and disconnected.    *)
(* (The DLT645 probe has the first only, and looks at nothing else.)        *)
(*                                                                         *)
(* net.Socket tells of a failure in two events: 'error', and 'close' when   *)
(* the handle is closed, one phase of the event loop later.                *)
(*                                                                         *)
(* A request on an open socket puts the meter's answer in flight.  A run    *)
(* listens only while it waits for an answer; one that arrives at another   *)
(* time is lost, because the stream flows on without a listener.            *)
(***************************************************************************)
EXTENDS Naturals, FiniteSets, Sequences, SequencesExt

CONSTANTS
    Sockets,       \* connections a meter makes, each a socket of its own
    NoSocket,      \* activeSocket = null
    MaxOverlap,    \* bound: results of an unfinished run when another connection comes
    MaxDrops,      \* bound: connections that fail while a tool runs
    MaxLate        \* bound: answers that miss their timer, all on one connection

ASSUME SocketsAssumption == NoSocket \notin Sockets
ASSUME BoundsAssumption == MaxLate \in Nat

VARIABLES
    sock,          \* state of each socket, see SocketState
    activeSocket,  \* the socket that keeps others out
    disconnected,  \* the flag a run looks at between its steps
    inflight,      \* connection -> answers on their way
    late           \* connection -> history: answers that have missed their timer

serverVars == <<sock, activeSocket, disconnected>>
wireVars == <<inflight, late>>

\* "failed": 'error' was emitted and 'close' was not yet.
SocketState == {"unused", "open", "failed", "closed", "rejected"}

ServerTypeOK ==
    /\ sock \in [Sockets -> SocketState]
    /\ activeSocket \in Sockets \cup {NoSocket}
    /\ disconnected \in BOOLEAN
    /\ late \in [Sockets -> 0..MaxLate]

ServerInit ==
    /\ sock = [s \in Sockets |-> "unused"]
    /\ activeSocket = NoSocket
    /\ disconnected = FALSE
    /\ inflight = [s \in Sockets |-> <<>>]
    /\ late = [s \in Sockets |-> 0]

\* A second meter is turned away while activeSocket is set.
Reject(s) ==
    /\ sock[s] = "unused"
    /\ activeSocket # NoSocket
    /\ sock' = [sock EXCEPT ![s] = "rejected"]
    /\ UNCHANGED <<activeSocket, disconnected, wireVars>>

Accept(s) ==
    /\ sock[s] = "unused"
    /\ activeSocket = NoSocket
    /\ sock' = [sock EXCEPT ![s] = "open"]
    /\ activeSocket' = s
    /\ disconnected' = FALSE
    /\ UNCHANGED wireVars

\* Both handlers clear the process's variables, whichever socket they serve.
Forget ==
    /\ activeSocket' = NoSocket
    /\ disconnected' = TRUE

MayDrop == Cardinality({s \in Sockets : sock[s] \in {"failed", "closed"}}) < MaxDrops

\* 'close' of a connection the peer ended, or of one that failed before.
Close(s) ==
    /\ sock[s] \in {"open", "failed"}
    /\ sock[s] = "open" => MayDrop
    /\ sock' = [sock EXCEPT ![s] = "closed"]
    /\ inflight' = [inflight EXCEPT ![s] = <<>>]
    /\ UNCHANGED late
    /\ Forget

\* 'error' of a connection that was reset.
Fail(s) ==
    /\ sock[s] = "open"
    /\ MayDrop
    /\ sock' = [sock EXCEPT ![s] = "failed"]
    /\ inflight' = [inflight EXCEPT ![s] = <<>>]
    /\ UNCHANGED late
    /\ Forget

\* A run writes a request: what is written to a socket that is gone gets no
\* answer, and no error either.
Sent(s, rest, request) == IF sock[s] = "open" THEN Append(rest, request) ELSE rest

\* The first answer in flight reaches the process, and nobody listens to it.
Lose(s) ==
    /\ sock[s] = "open"
    /\ inflight[s] # <<>>
    /\ inflight' = [inflight EXCEPT ![s] = Tail(@)]
    /\ UNCHANGED <<serverVars, late>>

\* What may still be on its way when a request's timer fires: its answer comes
\* late, or was never sent.
Outstanding(s) ==
    IF inflight[s] = <<>> THEN {<<>>} ELSE {inflight[s], Front(inflight[s])}

\* A timer fires, and rest is still to come.
MissAnswer(s, rest) ==
    \/ rest = <<>> /\ UNCHANGED late
    \/ /\ rest # <<>>
       /\ late[s] < MaxLate
       /\ \A r \in Sockets \ {s} : late[r] = 0
       /\ late' = [late EXCEPT ![s] = @ + 1]

\* The lexicographic order, in which the runs of a tool come nearer to their end.
Before(a, b) ==
    \E i \in DOMAIN a : a[i] < b[i] /\ \A j \in 1..(i - 1) : a[j] = b[j]

\* The process ends: every socket goes down with it.
Down == [s \in Sockets |-> IF sock[s] \in {"open", "failed"} THEN "closed" ELSE sock[s]]
=============================================================================
