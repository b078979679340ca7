------------------------------- MODULE Gateway -------------------------------
(***************************************************************************)
(* The process of src/src/index.js from the end of main() to its exit: the *)
(* command handler at work while SIGINT or SIGTERM, or both, run shutdown()*)
(* over the HTTP server, the services, the TCP server with its             *)
(* connections, the publisher and the broker.                              *)
(***************************************************************************)
EXTENDS CommandHandler

CONSTANTS MaxSignals    \* deliveries of SIGINT and SIGTERM: bound

ASSUME SignalsAssumption == MaxSignals \in Nat \ {0}

Signals == 1 .. MaxSignals

VARIABLES shutdown,          \* per signal: the call of shutdown() it made
          managerRunning,    \* isRunning of the ConnectionManager
          listening,         \* the TCP server accepts connections
          socket,            \* per meter: its connection's socket
          statusTimer,       \* the publisher's interval for its own status
          gatewayStatus,     \* the retained status message
          broker             \* "up" or "stopped"

gatewayVars == <<shutdown, managerRunning, listening, socket, statusTimer,
                gatewayStatus, broker>>
vars == <<handlerVars, gatewayVars>>

\* The calls of shutdown(), by what they wait for.
Stages == {"idle", "http", "connections", "tcp", "publisher", "broker", "exited"}
Exited == \E s \in Signals : shutdown[s] = "exited"

\* A socket is open or half-closed; the server holds both.
Sockets == {"none", "open", "closing"}
Held == {m \in Meters : socket[m] # "none"}

Init ==
    /\ HandlerInit
    /\ shutdown = [s \in Signals |-> "idle"]
    /\ managerRunning = TRUE
    /\ listening = TRUE
    /\ socket = [m \in Meters |-> "none"]
    /\ statusTimer = TRUE
    /\ gatewayStatus = "online"
    /\ broker = "up"

Moves(s, from, to) ==
    /\ ~Exited
    /\ shutdown[s] = from
    /\ shutdown' = [shutdown EXCEPT ![s] = to]

------------------------------------------------------------------------------
\* shutdown() begins: httpServer.stop().
Signal(s) ==
    /\ \A t \in 1 .. s - 1 : shutdown[t] # "idle"
    /\ Moves(s, "idle", "http")
    /\ UNCHANGED <<handlerVars, managerRunning, listening, socket, statusTimer,
                   gatewayStatus, broker>>

\* connectionManager.stop(): half-close every connection there is.
StopConnections ==
    /\ managerRunning' = FALSE
    /\ socket' = [m \in Meters |-> IF managerRunning /\ socket[m] = "open"
                                   THEN "closing" ELSE socket[m]]

\* From the HTTP server's end to the wait in tcpServer.stop(): the services are
\* stopped without a wait in between.
StopServices(s) ==
    /\ Moves(s, "http", "connections")
    /\ IF handlerRunning THEN StopHandler ELSE UNCHANGED handlerVars
    /\ StopConnections
    /\ UNCHANGED <<listening, statusTimer, gatewayStatus, broker>>

\* The half-closes are flushed, which may be at once: server.close().
CloseServer(s) ==
    /\ Moves(s, "connections", "tcp")
    /\ listening' = FALSE
    /\ UNCHANGED <<handlerVars, managerRunning, socket, statusTimer,
                   gatewayStatus, broker>>

\* Mutant: stopStatusPublishing() is forgotten.
StopPublisherKeepingTimer(s) ==
    /\ Moves(s, "tcp", "publisher")
    /\ Held = {}
    /\ publisherRunning' = FALSE
    /\ gatewayStatus' = IF publisherRunning THEN "offline" ELSE gatewayStatus
    /\ UNCHANGED <<handlerRunning, link, call, pendingCommands, stats, responses, managerRunning, listening, socket, statusTimer, broker>>

\* The server's 'close': no socket is held any more.  publisher.stop().
StopPublisher(s) ==
    /\ Moves(s, "tcp", "publisher")
    /\ Held = {}
    /\ publisherRunning' = FALSE
    /\ statusTimer' = FALSE
    /\ gatewayStatus' = IF publisherRunning THEN "offline" ELSE gatewayStatus
    /\ UNCHANGED <<handlerRunning, link, call, pendingCommands, stats, responses, managerRunning, listening, socket, broker>>

\* broker.stop() begins once the status is out.
StopBroker(s) ==
    /\ Moves(s, "publisher", "broker")
    /\ UNCHANGED <<handlerVars, managerRunning, listening, socket, statusTimer,
                   gatewayStatus, broker>>

\* The broker's server closes when its clients have gone.
BrokerClosed ==
    /\ ~Exited
    /\ broker = "up"
    /\ \E s \in Signals : shutdown[s] = "broker"
    /\ broker' = "stopped"
    /\ UNCHANGED <<handlerVars, shutdown, managerRunning, listening, socket,
                   statusTimer, gatewayStatus>>

\* The process ends, and with it every call of shutdown().
ProcessExits(s) ==
    /\ ~Exited
    /\ shutdown[s] = "broker"
    /\ shutdown' = [t \in Signals |-> "exited"]

\* Mutant: stop() has no timer of its own.
ExitWhenClosed(s) ==
    /\ ProcessExits(s)
    /\ broker = "stopped"
    /\ UNCHANGED <<handlerVars, managerRunning, listening, socket,
                   statusTimer, gatewayStatus, broker>>

\* process.exit(), after the broker has closed or five seconds.
Exit(s) ==
    /\ ProcessExits(s)
    /\ broker' = "stopped"
    /\ UNCHANGED <<handlerVars, managerRunning, listening, socket,
                   statusTimer, gatewayStatus>>

------------------------------------------------------------------------------
\* A meter connects and is identified; nothing looks at managerRunning.
Accept(m, protocol) ==
    /\ ~Exited
    /\ listening
    /\ socket[m] = "none"
    /\ socket' = [socket EXCEPT ![m] = "open"]
    /\ Connect(m, protocol)
    /\ UNCHANGED <<shutdown, managerRunning, listening, statusTimer,
                   gatewayStatus, broker>>

\* A socket ends: the peer hangs up, answers the half-close, or is destroyed.  The
\* route goes with it (handleClose).
SocketEnds(m) ==
    /\ ~Exited
    /\ socket[m] # "none"
    /\ socket' = [socket EXCEPT ![m] = "none"]
    /\ Disconnect(m)
    /\ UNCHANGED <<shutdown, managerRunning, listening, statusTimer, gatewayStatus, broker>>

\* publishGatewayStatus('online'), every minute.
PublishStatus ==
    /\ ~Exited
    /\ statusTimer
    /\ gatewayStatus' = "online"
    /\ UNCHANGED <<handlerVars, shutdown, managerRunning, listening, socket,
                   statusTimer, broker>>

HandleCommand(r) ==
    /\ ~Exited
    /\ HandlerSteps(r)
    /\ UNCHANGED gatewayVars

ShutdownSteps(s) ==
    \/ StopServices(s) \/ CloseServer(s) \/ StopPublisher(s) \/ StopBroker(s) \/ Exit(s)

Next ==
    \/ \E s \in Signals : Signal(s) \/ ShutdownSteps(s)
    \/ BrokerClosed \/ PublishStatus
    \/ \E m \in Meters : \/ \E protocol \in PROTOCOLS : Accept(m, protocol)
                         \/ SocketEnds(m)
    \/ \E r \in Requests : HandleCommand(r)

\* Promises settle and timers fire: shutdown() goes on when it can, a half-closed
\* socket is destroyed after five seconds, its 'close' follows, and every exchange
\* with a meter ends at the latest with its timer.  HTTP requests are short.  No
\* meter has to hang up, no client has to leave, and nobody has to send anything.
Fairness ==
    /\ \A s \in Signals : WF_vars(ShutdownSteps(s))
    /\ \A m \in Meters : WF_vars(socket[m] = "closing" /\ SocketEnds(m))
    /\ \A r \in Requests : /\ WF_vars(~Exited /\ UNCHANGED gatewayVars /\ Settles(r, "timeout"))
                           /\ WF_vars(~Exited /\ UNCHANGED gatewayVars /\ Finish(r))

Spec == Init /\ [][Next]_vars /\ Fairness

------------------------------------------------------------------------------
GatewayTypeOK ==
    /\ shutdown \in [Signals -> Stages]
    /\ {managerRunning, listening, statusTimer} \subseteq BOOLEAN
    /\ socket \in [Meters -> Sockets]
    /\ gatewayStatus \in {"online", "offline"}
    /\ broker \in {"up", "stopped"}

\* publisher.stop() has the last word about the gateway: no tick of the status
\* timer and no second shutdown() leaves a stopped gateway "online" (retained).
OfflineIsFinal ==
    /\ GatewayTypeOK
    /\ ~publisherRunning => gatewayStatus = "offline"

\* Every command that waits for a meter is answered in the end, whatever its meter,
\* its links and the shutdown do, unless the publisher has stopped before
\* (executeCommand, waitForDlmsResponse, TcpServer.sendCommand).
CommandsAnswered ==
    \A r \in Requests :
        call[r].phase = "waiting" ~> (responses[r] # <<>> \/ ~publisherRunning)

\* shutdown() ends although no MQTT client leaves and no meter hangs up, provided
\* that meters which got in after connectionManager.stop() leave by themselves:
\* nothing in the gateway would end those, and server.close() waits for them.
LateMeters == {m \in Meters : ~managerRunning /\ socket[m] = "open"}
ShutdownCompletes ==
    <>[](LateMeters = {}) => ((\E s \in Signals : shutdown[s] # "idle") ~> Exited)
=============================================================================
