------------------------------ MODULE MeterStatus ------------------------------
(***************************************************************************)
(* What StatusManager (src/services/status-manager.js) and the handlers of *)
(* src/index.js make of the connection events that TcpServer forwards:     *)
(* which meters are online, how many, the COMMUNICATION_LOST alarms and    *)
(* the retained status messages.                                           *)
(*                                                                         *)
(* Composed with ConnectionManager.  The gateway accepts connections       *)
(* before its publisher and its status manager are started.  Clocks are    *)
(* left out: a connection may be closed at any moment, which covers its    *)
(* timeouts, the heartbeat check and stop().                               *)
(***************************************************************************)
EXTENDS ConnectionManager, Integers

VARIABLES
  publishing,   \* TelemetryPublisher.isRunning
  listening,    \* StatusManager.start has attached its listeners
  meterStatus,  \* status of each meter in this.meterStatus, "unknown" without entry
  metersOnline, \* this.stats.metersOnline
  lostAlarms,   \* meters with an active COMMUNICATION_LOST alarm
  retained,     \* online flag of the retained status message of each meter
  unnoticed,    \* history: identified connections from before the listeners
  undercount    \* history: the listeners have heard one of those close

statusVars == <<publishing, listening, meterStatus, metersOnline, lostAlarms, retained,
                unnoticed, undercount>>
allVars == <<vars, statusVars>>

StatusTypeOK ==
  /\ TypeOK
  /\ publishing \in BOOLEAN
  /\ listening \in BOOLEAN
  /\ meterStatus \in [Meters -> {"unknown", "online", "offline"}]
  /\ metersOnline \in Nat
  /\ lostAlarms \subseteq Meters
  /\ retained \in [Meters -> {"none", "online", "offline"}]
  /\ unnoticed \subseteq ConnIds
  /\ undercount \in BOOLEAN

StatusInit ==
  /\ Init
  /\ publishing = FALSE
  /\ listening = FALSE
  /\ meterStatus = [m \in Meters |-> "unknown"]
  /\ metersOnline = 0
  /\ lostAlarms = {}
  /\ retained = [m \in Meters |-> "none"]
  /\ unnoticed = {}
  /\ undercount = FALSE

Identified == {c \in ConnIds : meterId[c] # NoMeter}

--------------------------------------------------------------------------------
(* The handlers of the two events.                                         *)

PublishOnlineOnly(m, status) == \* mutant: going offline is not published
  retained' = IF publishing /\ status = "online" THEN [retained EXCEPT ![m] = status]
              ELSE retained
PublishMeterStatus(m, status) ==
  retained' = IF publishing THEN [retained EXCEPT ![m] = status] ELSE retained

\* StatusManager.handleMeterConnected.
HandleMeterConnected(m) ==
  /\ meterStatus' = [meterStatus EXCEPT ![m] = "online"]
  /\ metersOnline' = metersOnline + 1
  /\ lostAlarms' = lostAlarms \ {m}

RaiseAlarm(m) == lostAlarms \cup {m}

CountKept == metersOnline \* mutant: nothing is counted down
CountDown == IF metersOnline = 0 THEN 0 ELSE metersOnline - 1

\* StatusManager.handleMeterDisconnected.
StayOnline(m) == \* mutant: only the alarm is handled
  /\ metersOnline' = CountDown
  /\ lostAlarms' = RaiseAlarm(m)
  /\ UNCHANGED meterStatus
HandleMeterDisconnected(m) ==
  /\ meterStatus' = [meterStatus EXCEPT ![m] = "offline"]
  /\ metersOnline' = CountDown
  /\ lostAlarms' = RaiseAlarm(m)

\* METER_CONNECTED: index.js and the status manager both publish.
MeterConnected(m) ==
  /\ IF listening THEN HandleMeterConnected(m)
     ELSE UNCHANGED <<meterStatus, metersOnline, lostAlarms>>
  /\ PublishMeterStatus(m, "online")
  /\ UNCHANGED <<publishing, listening>>

\* METER_DISCONNECTED.
MeterDisconnected(m) ==
  /\ IF listening THEN HandleMeterDisconnected(m)
     ELSE UNCHANGED <<meterStatus, metersOnline, lostAlarms>>
  /\ PublishMeterStatus(m, "offline")
  /\ UNCHANGED <<publishing, listening>>

--------------------------------------------------------------------------------
(* Steps.                                                                  *)

StartPublisher ==
  /\ ~publishing
  /\ publishing' = TRUE
  /\ UNCHANGED <<vars, listening, meterStatus, metersOnline, lostAlarms, retained, unnoticed,
                 undercount>>

\* The status manager starts last and asks nobody who is connected already.
StartStatusManager ==
  /\ publishing
  /\ ~listening
  /\ listening' = TRUE
  /\ unnoticed' = Identified
  /\ UNCHANGED <<vars, publishing, meterStatus, metersOnline, lostAlarms, retained, undercount>>

\* A first heartbeat or frame identifies the connection (CONNECTION_IDENTIFIED).
Identify(c, m) ==
  /\ meterId[c] = NoMeter
  /\ HandleRouterHeartbeat(c, m) \/ HandleFrame(c, m)
  /\ MeterConnected(m)
  /\ UNCHANGED <<unnoticed, undercount>>

\* handleClose of an identified connection (CONNECTION_CLOSED with a meterId).
CloseIdentified(c) ==
  /\ meterId[c] # NoMeter
  /\ HandleClose(c)
  /\ MeterDisconnected(meterId[c])
  /\ unnoticed' = unnoticed \ {c}
  /\ undercount' = (undercount \/ c \in unnoticed)

CloseUnidentified(c) ==
  /\ meterId[c] = NoMeter
  /\ HandleClose(c)
  /\ UNCHANGED statusVars

\* closeConnection, as called by handleTimeout, checkConnections and stop.
CloseConnection(c) ==
  /\ Closeable({c}) # {}
  /\ CloseConnections({c})
  /\ UNCHANGED <<meterId, meterToConnection, lastActivity, writing, isRunning, awaited>>
  /\ UNCHANGED statusVars

\* Handlers that emit neither event.
OtherHandler(c) ==
  /\ \/ RegisterConnection(c)
     \/ HandleData(c)
     \/ meterId[c] # NoMeter /\ \E m \in Meters : HandleFrame(c, m)
     \/ EndCallback(c)
     \/ ForceDestroy(c)
     \/ PeerClose(c)
  /\ UNCHANGED statusVars

StatusNext ==
  \/ StartPublisher
  \/ StartStatusManager
  \/ \E c \in ConnIds :
       \/ \E m \in Meters : Identify(c, m)
       \/ CloseIdentified(c)
       \/ CloseUnidentified(c)
       \/ CloseConnection(c)
       \/ OtherHandler(c)

\* The five-second timer of closeConnection and the 'close' event (ConnectionManager).
StatusSpec ==
  /\ StatusInit
  /\ [][StatusNext]_allVars
  /\ \A c \in ConnIds :
       /\ WF_allVars(ForceDestroy(c) /\ UNCHANGED statusVars)
       /\ WF_allVars(CloseIdentified(c))
       /\ WF_allVars(CloseUnidentified(c))

--------------------------------------------------------------------------------
(* Properties.                                                             *)

\* The status manager and the registry agree on every meter that was identified while
\* the status manager listened: online there is routed here.  The route is deleted by
\* the very step that reports the meter offline, even by the wrong connection.
OnlineIffRouted ==
  \A m \in Meters :
    /\ meterStatus[m] = "online" => meterToConnection[m] # NoConn
    /\ (listening /\ meterToConnection[m] \notin unnoticed \cup {NoConn})
         => meterStatus[m] = "online"

\* metersOnline counts the identified connections that the listeners saw identified, two
\* for a meter in a takeover.  It may only ever be too low, and only once a connection
\* from before the listeners has been counted down (handleMeterConnected,
\* handleMeterDisconnected).
OnlineCountExact ==
  LET noticed == Cardinality(Identified \ unnoticed) IN
  listening => IF undercount THEN metersOnline <= noticed ELSE metersOnline = noticed

\* What is told of a meter agrees, through takeovers and a late start of the status
\* manager as well: it has a COMMUNICATION_LOST alarm exactly while its status is
\* offline, and the retained message, which two components publish, is that status
\* (index.js, handleMeterConnected, handleMeterDisconnected).
ReportsAgree ==
  /\ StatusTypeOK
  /\ lostAlarms = {m \in Meters : meterStatus[m] = "offline"}
  /\ \A m \in Meters : meterStatus[m] # "unknown" => retained[m] = meterStatus[m]

\* A meter whose connections are all on their way out is reported offline in the end,
\* unless it is connected again first (closeConnection, handleClose).
OutageReported ==
  \A m \in Meters :
    (meterStatus[m] = "online" /\ ~ \E c \in ConnIds : meterId[c] = m /\ socket[c] = "open")
      ~> \/ meterStatus[m] = "offline"
         \/ \E c \in ConnIds : meterId[c] = m /\ socket[c] = "open"
================================================================================
