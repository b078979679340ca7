------------------------------ MODULE TcpCommands ------------------------------
(***************************************************************************)
(* Request/response matching of TcpServer (src/tcp/server.js): sendCommand *)
(* routes a DLT645 request to the connection of a meter and parks it in    *)
(* connection.pendingCommands until a frame, an error frame, its timeout,  *)
(* a failed write or the close of the connection settles it.               *)
(*                                                                         *)
(* Composed with ConnectionManager, whose sockets carry the requests.      *)
(* Clocks are left out: a connection may be closed at any moment, which    *)
(* covers its timeouts, the heartbeat check and stop().                    *)
(***************************************************************************)
EXTENDS ConnectionManager, SequencesExt

CONSTANTS
  Commands,   \* calls of sendCommand, each made once
  DataIds     \* DLT645 data identifiers a call may expect in its response

ASSUME DataIdsAssumption == DataIds # {}

VARIABLES
  outcome,          \* what became of the promise of each call
  call,             \* meter, connection and dataId of each call made
  pendingCommands,  \* connection.pendingCommands, a Map in insertion order
  timers,           \* calls whose timeoutHandle is armed
  unsent,           \* writes the socket has accepted and not flushed, in order
  received,         \* requests the meter at the other end has yet to answer
  inStep            \* history: the meter has answered every request so far in time

commandVars == <<outcome, call, pendingCommands, timers, unsent, received, inStep>>
allVars == <<vars, commandVars>>

Outcome == {"uncalled", "waiting", "resolved", "rejected", "timeout", "closed", "failed"}

NoCall == [meter |-> NoMeter, conn |-> NoConn, dataId |-> CHOOSE d \in DataIds : TRUE]

CommandsTypeOK ==
  /\ TypeOK
  /\ outcome \in [Commands -> Outcome]
  /\ call \in [Commands -> [meter : Meters \cup {NoMeter}, conn : ConnIds \cup {NoConn},
                            dataId : DataIds]]
  /\ {pendingCommands, unsent, received} \subseteq [ConnIds -> Seq(Commands)]
  /\ timers \subseteq Commands
  /\ inStep \in [ConnIds -> BOOLEAN]

CommandsInit ==
  /\ Init
  /\ outcome = [k \in Commands |-> "uncalled"]
  /\ call = [k \in Commands |-> NoCall]
  /\ pendingCommands = [c \in ConnIds |-> <<>>]
  /\ timers = {}
  /\ unsent = [c \in ConnIds |-> <<>>]
  /\ received = [c \in ConnIds |-> <<>>]
  /\ inStep = [c \in ConnIds |-> TRUE]

--------------------------------------------------------------------------------
(* Settling a call: its entry and its timer go with it.                    *)

Settle(k, result) ==
  /\ outcome' = [outcome EXCEPT ![k] = result]
  /\ timers' = timers \ {k}
  /\ pendingCommands' = [pendingCommands EXCEPT ![call[k].conn] = RemoveFirst(@, k)]

SettleNothing == UNCHANGED <<outcome, timers, pendingCommands>>

\* resolvePendingCommand: the first pending call that expects this dataId.
ResolvePendingCommand(c, d) ==
  LET matching == {i \in DOMAIN pendingCommands[c] : call[pendingCommands[c][i]].dataId = d} IN
  \/ \E i \in matching :
       /\ \A j \in matching : i <= j
       /\ Settle(pendingCommands[c][i], "resolved")
  \/ matching = {} /\ SettleNothing

\* rejectPendingCommand: the first pending call, whatever it asked.
RejectLastCommand(c) == \* mutant: the newest call for the oldest
  IF pendingCommands[c] # <<>> THEN Settle(Last(pendingCommands[c]), "rejected")
  ELSE SettleNothing
RejectPendingCommand(c) ==
  IF pendingCommands[c] # <<>> THEN Settle(Head(pendingCommands[c]), "rejected")
  ELSE SettleNothing

--------------------------------------------------------------------------------
(* Calls.                                                                  *)

\* sendCommand with a routed meter.  While the connection is closing send() answers
\* false and writes nothing: the call stays pending.  A write on a socket that is
\* down fails on the next tick, before any other event.
SendCommand(k, m, d) ==
  LET c == meterToConnection[m]
      refused == state[c] = "disconnecting"
      broken == ~refused /\ socket[c] # "open"
  IN
  /\ outcome[k] = "uncalled"
  /\ c # NoConn
  /\ call' = [call EXCEPT ![k] = [meter |-> m, conn |-> c, dataId |-> d]]
  /\ outcome' = [outcome EXCEPT ![k] = IF broken THEN "failed" ELSE "waiting"]
  /\ timers' = IF broken THEN timers ELSE timers \cup {k}
  /\ pendingCommands' = IF broken THEN pendingCommands
                        ELSE [pendingCommands EXCEPT ![c] = Append(@, k)]
  /\ unsent' = IF refused \/ broken THEN unsent ELSE [unsent EXCEPT ![c] = Append(@, k)]
  /\ UNCHANGED <<vars, received, inStep>>

\* sendCommand throws when the meter has no route.
SendCommandUnrouted(k, m) ==
  /\ outcome[k] = "uncalled"
  /\ meterToConnection[m] = NoConn
  /\ outcome' = [outcome EXCEPT ![k] = "failed"]
  /\ UNCHANGED <<vars, call, pendingCommands, timers, unsent, received, inStep>>

\* The oldest write reaches the network, and with it the meter.
WriteDone(c) ==
  /\ unsent[c] # <<>>
  /\ Readable(c)
  /\ unsent' = [unsent EXCEPT ![c] = Tail(@)]
  /\ received' = [received EXCEPT ![c] = Append(@, Head(unsent[c]))]
  /\ UNCHANGED <<vars, outcome, call, pendingCommands, timers, inStep>>

\* The oldest write fails because the socket is down: the catch of sendCommand.
WriteFailed(c) ==
  /\ unsent[c] # <<>>
  /\ socket[c] = "destroyed"
  /\ unsent' = [unsent EXCEPT ![c] = Tail(@)]
  /\ LET k == Head(unsent[c]) IN
     IF outcome[k] = "waiting" THEN Settle(k, "failed") ELSE SettleNothing
  /\ UNCHANGED <<vars, call, received, inStep>>

\* The timeout handle of a call fires.
CommandTimeout(k) ==
  /\ k \in timers
  /\ Settle(k, "timeout")
  /\ inStep' = [inStep EXCEPT ![call[k].conn] = FALSE]
  /\ UNCHANGED <<vars, call, unsent, received>>

--------------------------------------------------------------------------------
(* Frames from the meter, which answers in the order it was asked.         *)

Answered(c) ==
  /\ received[c] # <<>>
  /\ received' = [received EXCEPT ![c] = Tail(@)]
  /\ UNCHANGED <<call, unsent>>

\* A read response: it repeats the data id of the request it answers.
SuccessResponse(c) ==
  /\ Answered(c)
  /\ HandleFrame(c, meterId[c])
  /\ ResolvePendingCommand(c, call[Head(received[c])].dataId)
  /\ UNCHANGED inStep

\* An error response: it names no request.
ErrorResponse(c) ==
  /\ Answered(c)
  /\ HandleFrame(c, meterId[c])
  /\ RejectPendingCommand(c)
  /\ UNCHANGED inStep

\* A response parseReadResponse throws on (a relay acknowledgement has no data id).
UnusableResponse(c) ==
  /\ Answered(c)
  /\ HandleFrame(c, meterId[c])
  /\ SettleNothing
  /\ inStep' = [inStep EXCEPT ![c] = FALSE]

\* The meter drops the request.
NoResponse(c) ==
  /\ Answered(c)
  /\ SettleNothing
  /\ inStep' = [inStep EXCEPT ![c] = FALSE]
  /\ UNCHANGED vars

--------------------------------------------------------------------------------
(* The handlers of ConnectionManager.                                      *)

\* closeConnection, as called by handleTimeout, checkConnections and stop.
CloseConnection(c) ==
  /\ Closeable({c}) # {}
  /\ CloseConnections({c})
  /\ UNCHANGED <<meterId, meterToConnection, lastActivity, writing, isRunning, awaited>>
  /\ UNCHANGED commandVars

\* handleClose rejects whatever is still pending on the connection.
CancelNothing(c) == SettleNothing \* mutant: pending calls outlive their connection
CancelKeepingTimers(c) == \* mutant: no clearTimeout
  /\ outcome' = [k \in Commands |-> IF k \in ToSet(pendingCommands[c]) THEN "closed"
                                    ELSE outcome[k]]
  /\ pendingCommands' = [pendingCommands EXCEPT ![c] = <<>>]
  /\ UNCHANGED timers
CancelPendingCommands(c) ==
  /\ outcome' = [k \in Commands |-> IF k \in ToSet(pendingCommands[c]) THEN "closed"
                                    ELSE outcome[k]]
  /\ timers' = timers \ ToSet(pendingCommands[c])
  /\ pendingCommands' = [pendingCommands EXCEPT ![c] = <<>>]

HandleCloseRejecting(c) ==
  /\ HandleClose(c)
  /\ CancelPendingCommands(c)
  /\ unsent' = [unsent EXCEPT ![c] = <<>>]
  /\ received' = [received EXCEPT ![c] = <<>>]
  /\ inStep' = [inStep EXCEPT ![c] = TRUE]
  /\ UNCHANGED call

\* Handlers that touch no command; a first frame finds nothing pending.
ConnectionStep(c) ==
  /\ \/ RegisterConnection(c)
     \/ HandleData(c)
     \/ \E m \in Meters : HandleRouterHeartbeat(c, m)
     \/ meterId[c] = NoMeter /\ \E m \in Meters : HandleFrame(c, m)
     \/ EndCallback(c)
     \/ PeerClose(c)
  /\ UNCHANGED commandVars

CommandsNext ==
  \/ \E k \in Commands, m \in Meters :
       \/ \E d \in DataIds : SendCommand(k, m, d)
       \/ SendCommandUnrouted(k, m)
  \/ \E k \in Commands : CommandTimeout(k)
  \/ \E c \in ConnIds :
       \/ ConnectionStep(c)
       \/ CloseConnection(c)
       \/ HandleCloseRejecting(c)
       \/ WriteDone(c)
       \/ WriteFailed(c)
       \/ SuccessResponse(c)
       \/ ErrorResponse(c)
       \/ UnusableResponse(c)
       \/ NoResponse(c)

CommandsSpec == CommandsInit /\ [][CommandsNext]_allVars

--------------------------------------------------------------------------------
(* Properties.                                                             *)

\* Where a call stands in the Map of a connection.
Entries(c, k) == {i \in DOMAIN pendingCommands[c] : pendingCommands[c][i] = k}

\* The three books agree: a call is waiting exactly as long as its timer is armed
\* and it has one entry, in the Map of the connection it was sent on.  No call is
\* left with an entry but no timer (it could hang) or a timer but no entry (it would
\* be settled twice) by any of the five ways to settle it.
PendingConsistent ==
  /\ CommandsTypeOK
  /\ \A k \in Commands :
      /\ outcome[k] = "waiting" <=> k \in timers
      /\ \A c \in ConnIds :
           Cardinality(Entries(c, k)) = IF outcome[k] = "waiting" /\ call[k].conn = c THEN 1 ELSE 0

\* A call waits only on a registered connection of the very meter it addresses, even
\* after takeovers and closes: another meter's frames cannot settle it (sendCommand,
\* handleClose).
WaitingOnOwnMeter ==
  \A k \in Commands : outcome[k] = "waiting" =>
    /\ state[call[k].conn] # "absent"
    /\ meterId[call[k].conn] = call[k].meter

\* As long as a meter has answered every request on a connection, in order and before
\* its timeout, a response, matched to the first call with its data id or, when it is an
\* error, to the first one pending, settles no call but the one it answers.  (An answer
\* without a usable data id settles none; its own call then ends by its timer.)  A late
\* error response is what breaks it, hence the history variable
\* (resolvePendingCommand, rejectPendingCommand).
AnswersInStep ==
  [][\A c \in ConnIds :
       (/\ inStep[c] /\ received[c] # <<>>
        /\ state'[c] # "absent" /\ received'[c] = Tail(received[c]))
         => \A k \in Commands \ {Head(received[c])} : outcome'[k] = outcome[k]]_allVars
================================================================================
