--------------------------- MODULE ConnectionManager ---------------------------
(***************************************************************************)
(* The registry of meter connections kept by class ConnectionManager in    *)
(* src/tcp/connection-manager.js, together with the TCP sockets it drives. *)
(*                                                                         *)
(* A connection slot stands for one connection object.  Node runs every    *)
(* handler to completion, so one handler is one action; the interleavings  *)
(* are those of handlers, timers and socket callbacks.  closeConnection    *)
(* only half-closes a socket: data may still arrive until the socket is    *)
(* destroyed, and the 'close' event comes later still.                     *)
(***************************************************************************)
EXTENDS Naturals, FiniteSets

CONSTANTS
  ConnIds,        \* connection objects (a slot is reused once its object is gone)
  Meters,         \* meter ids, as resolveMeterId and parseFrame return them
  NoConn,         \* "no entry" in meterToConnection
  NoMeter,        \* connection.meterId = null
  maxConnections  \* options.maxConnections

ASSUME ConstantsAssumption ==
  /\ IsFiniteSet(ConnIds)
  /\ NoConn \notin ConnIds
  /\ NoMeter \notin Meters
  /\ maxConnections \in Nat \ {0}

VARIABLES
  state,              \* connection.state, "absent" when not in this.connections
  meterId,            \* connection.meterId
  meterToConnection,  \* this.meterToConnection
  socket,             \* the socket as Node sees it
  lastActivity,       \* connection.lastActivity, against the two thresholds
  writing,            \* connections with an unanswered socket.write
  isRunning,          \* this.isRunning, and the heartbeat timer with it
  awaited             \* closes that a stop() in progress is waiting for

vars == <<state, meterId, meterToConnection, socket, lastActivity, writing,
          isRunning, awaited>>

CONNECTION_STATE == {"connected", "identified", "active", "idle", "disconnecting"}

\* "ended": half-closed by socket.end(), still readable, force-destroy timer armed;
\* "destroyed": only the 'close' event is still to come.
SocketPhase == {"none", "open", "ended", "destroyed"}

\* "recent": within 2 * heartbeatInterval; "expired": older than connectionTimeout.
Recency == {"recent", "quiet", "expired"}

TypeOK ==
  /\ state \in [ConnIds -> CONNECTION_STATE \cup {"absent"}]
  /\ meterId \in [ConnIds -> Meters \cup {NoMeter}]
  /\ meterToConnection \in [Meters -> ConnIds \cup {NoConn}]
  /\ socket \in [ConnIds -> SocketPhase]
  /\ lastActivity \in [ConnIds -> Recency]
  /\ writing \subseteq ConnIds
  /\ isRunning \in BOOLEAN
  /\ awaited \subseteq ConnIds

Init ==
  /\ state = [c \in ConnIds |-> "absent"]
  /\ meterId = [c \in ConnIds |-> NoMeter]
  /\ meterToConnection = [m \in Meters |-> NoConn]
  /\ socket = [c \in ConnIds |-> "none"]
  /\ lastActivity = [c \in ConnIds |-> "recent"]
  /\ writing = {}
  /\ isRunning = FALSE
  /\ awaited = {}

--------------------------------------------------------------------------------
(* Closing and identifying, as the handlers below use them.                *)

registered == {c \in ConnIds : state[c] # "absent"}

Full == Cardinality(registered) >= maxConnections

Readable(c) == socket[c] \in {"open", "ended"}

\* closeConnection returns early for unknown and already closing connections.
Closeable(D) == {c \in D : state[c] \notin {"absent", "disconnecting"}}

\* socket.end() on each of them; it does nothing to a socket that is down.
SocketsUntouched(D) == socket \* mutant: end() forgotten
HalfClosed(D) ==
  [c \in ConnIds |-> IF c \in D /\ socket[c] = "open" THEN "ended" ELSE socket[c]]

CloseConnections(D) ==
  /\ state' = [c \in ConnIds |-> IF c \in Closeable(D) THEN "disconnecting" ELSE state[c]]
  /\ socket' = HalfClosed(Closeable(D))

\* The connection that meter m is routed to, if it is another one than c.
NoDuplicate(c, m) == {} \* mutant: the old connection is left alone
DuplicateOf(c, m) == {meterToConnection[m]} \ {c, NoConn}

\* identifyConnection(c, m): the state becomes IDENTIFIED whatever it was.
IdentifyConnection(c, m) ==
  LET closed == Closeable(DuplicateOf(c, m)) IN
  /\ state' = [d \in ConnIds |-> IF d = c THEN "identified"
                                 ELSE IF d \in closed THEN "disconnecting" ELSE state[d]]
  /\ socket' = HalfClosed(closed)
  /\ meterId' = [meterId EXCEPT ![c] = m]
  /\ meterToConnection' = [meterToConnection EXCEPT ![m] = c]

\* What handleData does to the connection before the protocol router runs.
MarkActive(c) ==
  /\ state' = [state EXCEPT ![c] = IF @ \in {"connected", "idle"} THEN "active" ELSE @]
  /\ UNCHANGED <<meterId, meterToConnection, socket>>

--------------------------------------------------------------------------------
(* Handlers.                                                               *)

\* TcpServer.start reaches this only when no stop() is in progress.
Start ==
  /\ ~isRunning
  /\ awaited = {}
  /\ isRunning' = TRUE
  /\ UNCHANGED <<state, meterId, meterToConnection, socket, lastActivity, writing, awaited>>

\* stop() closes what is registered now and awaits those closes; the close of an
\* already destroyed socket resolves at once.  Nothing stops later registrations.
StopAwaitingAll == \* mutant: waits for the callbacks of destroyed sockets as well
  /\ isRunning
  /\ isRunning' = FALSE
  /\ CloseConnections(registered)
  /\ awaited' = Closeable(registered)
  /\ UNCHANGED <<meterId, meterToConnection, lastActivity, writing>>
Stop ==
  /\ isRunning
  /\ isRunning' = FALSE
  /\ CloseConnections(registered)
  /\ awaited' = {c \in Closeable(registered) : Readable(c)}
  /\ UNCHANGED <<meterId, meterToConnection, lastActivity, writing>>

\* A refused socket is destroyed without a trace, so only acceptance is a step.
RegisterConnection(c) ==
  /\ state[c] = "absent"
  /\ ~Full
  /\ state' = [state EXCEPT ![c] = "connected"]
  /\ socket' = [socket EXCEPT ![c] = "open"]
  /\ lastActivity' = [lastActivity EXCEPT ![c] = "recent"]
  /\ UNCHANGED <<meterId, meterToConnection, writing, isRunning, awaited>>

Receive(c) ==
  /\ Readable(c)
  /\ lastActivity' = [lastActivity EXCEPT ![c] = "recent"]
  /\ UNCHANGED <<writing, isRunning, awaited>>

\* A chunk with neither a heartbeat nor a DLT645 frame (DLMS, garbage, a fragment).
HandleData(c) ==
  /\ Receive(c)
  /\ MarkActive(c)

\* A chunk whose first packet is a heartbeat that resolves to meter m.
HeartbeatReidentifies(c, m) == \* mutant: no look at connection.meterId
  /\ Receive(c)
  /\ IdentifyConnection(c, m)
HandleRouterHeartbeat(c, m) ==
  /\ Receive(c)
  /\ IF meterId[c] = NoMeter THEN IdentifyConnection(c, m) ELSE MarkActive(c)

\* A chunk whose first packet is a DLT645 frame from address m (TcpServer.handleFrame).
HandleFrame(c, m) ==
  /\ Receive(c)
  /\ \/ meterId[c] = NoMeter /\ IdentifyConnection(c, m)
     \/ meterId[c] # NoMeter /\ MarkActive(c)

\* send() refuses closing connections; a write on an ended socket just fails.
Send(c) ==
  /\ state[c] \notin {"absent", "disconnecting"}
  /\ socket[c] = "open"
  /\ writing' = writing \cup {c}
  /\ UNCHANGED <<state, meterId, meterToConnection, socket, lastActivity, isRunning, awaited>>

\* The callback of socket.write: only a successful write counts as activity.
WriteCallback(c) ==
  /\ c \in writing
  /\ writing' = writing \ {c}
  /\ lastActivity' = IF Readable(c) THEN [lastActivity EXCEPT ![c] = "recent"] ELSE lastActivity
  /\ UNCHANGED <<state, meterId, meterToConnection, socket, isRunning, awaited>>

\* The socket's own inactivity timer.
TimeoutIfIdentified(c) == \* mutant: connections without a meter are never timed out
  /\ Readable(c)
  /\ lastActivity[c] = "expired"
  /\ meterId[c] # NoMeter
  /\ CloseConnections({c})
  /\ UNCHANGED <<meterId, meterToConnection, lastActivity, writing, isRunning, awaited>>
HandleTimeout(c) ==
  /\ Readable(c)
  /\ lastActivity[c] = "expired"
  /\ CloseConnections({c})
  /\ UNCHANGED <<meterId, meterToConnection, lastActivity, writing, isRunning, awaited>>

\* The heartbeat timer: one synchronous pass over all connections.
CheckConnections ==
  LET expired == Closeable({c \in ConnIds : lastActivity[c] = "expired"}) IN
  /\ isRunning
  /\ state' = [c \in ConnIds |->
       IF c \in expired THEN "disconnecting"
       ELSE IF state[c] = "active" /\ lastActivity[c] = "quiet" THEN "idle"
       ELSE state[c]]
  /\ socket' = HalfClosed(expired)
  /\ UNCHANGED <<meterId, meterToConnection, lastActivity, writing, isRunning, awaited>>

\* The socket goes down: socket.end() flushed, or reset or FIN by the peer.
DestroySocket(c) ==
  /\ socket' = [socket EXCEPT ![c] = "destroyed"]
  /\ awaited' = awaited \ {c}
  /\ UNCHANGED <<state, meterId, meterToConnection, lastActivity, writing, isRunning>>

EndCallback(c) == socket[c] = "ended" /\ DestroySocket(c)

\* The five-second timer of closeConnection.
DestroyIfClosing(c) == \* mutant: looks at connection.state instead of socket.destroyed
  state[c] = "disconnecting" /\ socket[c] = "ended" /\ DestroySocket(c)
ForceDestroy(c) == socket[c] = "ended" /\ DestroySocket(c)

PeerClose(c) == Readable(c) /\ DestroySocket(c)

\* The meter's route is deleted whichever connection holds it.
RoutesWithout(m) == [n \in Meters |-> IF n = m THEN NoConn ELSE meterToConnection[n]]

\* The 'close' event.
HandleClose(c) ==
  /\ socket[c] = "destroyed"
  /\ state' = [state EXCEPT ![c] = "absent"]
  /\ socket' = [socket EXCEPT ![c] = "none"]
  /\ meterId' = [meterId EXCEPT ![c] = NoMeter]
  /\ meterToConnection' = RoutesWithout(meterId[c])
  /\ lastActivity' = [lastActivity EXCEPT ![c] = "recent"]
  /\ writing' = writing \ {c}
  /\ UNCHANGED <<isRunning, awaited>>

\* Time passes without activity on c.
Age(c) ==
  /\ state[c] # "absent"
  /\ lastActivity[c] # "expired"
  /\ lastActivity' = [lastActivity EXCEPT ![c] = IF @ = "recent" THEN "quiet" ELSE "expired"]
  /\ UNCHANGED <<state, meterId, meterToConnection, socket, writing, isRunning, awaited>>

Next ==
  \/ Start
  \/ Stop
  \/ CheckConnections
  \/ \E c \in ConnIds :
       \/ RegisterConnection(c)
       \/ HandleData(c)
       \/ \E m \in Meters : HandleRouterHeartbeat(c, m) \/ HandleFrame(c, m)
       \/ Send(c)
       \/ WriteCallback(c)
       \/ HandleTimeout(c)
       \/ EndCallback(c)
       \/ ForceDestroy(c)
       \/ PeerClose(c)
       \/ HandleClose(c)
       \/ Age(c)

\* Timers fire and Node delivers 'close'; what peers and callers do is free.
Fairness ==
  \A c \in ConnIds :
    /\ WF_vars(HandleTimeout(c))
    /\ WF_vars(ForceDestroy(c))
    /\ WF_vars(HandleClose(c))

Spec == Init /\ [][Next]_vars /\ Fairness

--------------------------------------------------------------------------------
(* Properties.                                                             *)

\* A route never dangles: the connection a meter is routed to is registered and
\* carries that meter's id, so getConnectionByMeter never answers with another
\* meter's connection or a closed one (identifyConnection, handleClose).
RouteConsistent ==
  \A m \in Meters : meterToConnection[m] # NoConn =>
    /\ state[meterToConnection[m]] # "absent"
    /\ meterId[meterToConnection[m]] = m

\* A connection in state DISCONNECTING has had its socket half-closed or lost: no
\* path marks a connection as closing and leaves its socket open (closeConnection).
ClosingSocketShut ==
  \A c \in ConnIds : state[c] = "disconnecting" => socket[c] \in {"ended", "destroyed"}

\* ACTIVE and IDLE are states of unidentified connections only: identifying a
\* connection ends its activity tracking, so getStats counts no identified meter
\* as active or idle (handleData, checkConnections, identifyConnection).
ActivityOnlyUnidentified ==
  \A c \in ConnIds : state[c] \in {"active", "idle"} => meterId[c] = NoMeter

\* At most maxConnections connections are registered, closing ones included
\* (registerConnection).
CapacityRespected == Cardinality(registered) <= maxConnections

\* Once a connection has a meter it keeps it until it is closed: later heartbeats
\* and frames with another address cannot move it (handleRouterHeartbeat,
\* TcpServer.handleFrame).
MeterIdStable ==
  [][\A c \in ConnIds : meterId[c] # NoMeter => meterId'[c] \in {meterId[c], NoMeter}]_vars

\* A meter's route moves from one connection to another only by a step that leaves
\* the old one closing (identifyConnection, reason 'duplicate_meter').
TakeoverClosesOld ==
  [][\A m \in Meters :
       (/\ meterToConnection[m] # NoConn
        /\ meterToConnection'[m] \notin {meterToConnection[m], NoConn})
         => state'[meterToConnection[m]] = "disconnecting"]_vars

\* A half-closed socket is gone in the end, even if the peer neither reads nor
\* closes and even if late data turned the connection back to IDENTIFIED
\* (closeConnection's force-destroy timer, handleClose).
ClosingCompletes ==
  \A c \in ConnIds : socket[c] = "ended" ~> socket[c] = "none"

\* A connection silent for longer than connectionTimeout is evicted unless it
\* becomes active again (handleTimeout).
SilentEvicted ==
  \A c \in ConnIds : lastActivity[c] = "expired" ~>
    (lastActivity[c] = "recent" \/ state[c] = "absent")

\* stop() does not wait for ever: every close it awaits is resolved (stop).
StopCompletes == awaited # {} ~> awaited = {}

\* A connection object without a socket is not registered and the other way round,
\* and only identified or closing connections have a meter.
AbsentIsClean ==
  \A c \in ConnIds :
    /\ state[c] = "absent" <=> socket[c] = "none"
    /\ state[c] \notin {"identified", "disconnecting"} => meterId[c] = NoMeter

\* The facts above on which the registry rests, together inductive: no handler breaks
\* one of them in any state where all hold, reached by whatever order of events
\* (identifyConnection, closeConnection, handleClose).
IInv ==
  /\ TypeOK
  /\ RouteConsistent
  /\ ClosingSocketShut
  /\ AbsentIsClean

\* The registry in every state: the facts above, and never more connections than
\* maxConnections, however registrations, takeovers and closes interleave.
RegistryConsistent == IInv /\ CapacityRespected

\* What the test 'should close old connection for duplicate meter' expects of a
\* takeover, at every later moment: a meter with an identified connection whose
\* socket is open is routed (identifyConnection, handleClose).
IdentifiedIsRouted ==
  \A c \in ConnIds :
    (state[c] = "identified" /\ socket[c] = "open") => meterToConnection[meterId[c]] # NoConn
================================================================================
