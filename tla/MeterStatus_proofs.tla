--------------------------- MODULE MeterStatus_proofs ---------------------------
(***************************************************************************)
(* What the gateway tells of its meters agrees with its registry, for any  *)
(* finite set of connections and any set of meters.  The registry's own    *)
(* invariant is carried over from ConnectionManager_proofs: every handler  *)
(* of the composition is one of ConnectionManager's.                       *)
(***************************************************************************)
EXTENDS MeterStatus, ConnectionManager_proofs

\* Before the status manager listens it knows nothing.
DeafIsBlank ==
  ~listening => /\ \A m \in Meters : meterStatus[m] = "unknown"
                /\ metersOnline = 0
                /\ lostAlarms = {}
                /\ unnoticed = {}
                /\ ~undercount

StatusInv ==
  /\ IInv
  /\ ReportsAgree
  /\ OnlineIffRouted
  /\ OnlineCountExact
  /\ DeafIsBlank
  /\ unnoticed \subseteq Identified
  /\ listening => publishing

\* The composition keeps the registry's invariant.
LEMMA RegistryIInv == IInv /\ [StatusNext]_allVars => IInv'
<1> SUFFICES ASSUME IInv, [StatusNext]_allVars PROVE IInv'
  OBVIOUS
<1>1. CASE StartPublisher \/ StartStatusManager \/ UNCHANGED allVars
  BY <1>1, NextIInv DEF StartPublisher, StartStatusManager, allVars
<1>2. ASSUME NEW c \in ConnIds, NEW m \in Meters, Identify(c, m) PROVE IInv'
  BY <1>2, NextIInv DEF Identify, Next
<1>3. ASSUME NEW c \in ConnIds, CloseIdentified(c) \/ CloseUnidentified(c) PROVE IInv'
  BY <1>3, NextIInv DEF CloseIdentified, CloseUnidentified, Next
<1>4. ASSUME NEW c \in ConnIds, CloseConnection(c) PROVE IInv'
  <2>1. /\ CloseConnections({c})
        /\ UNCHANGED <<meterId, meterToConnection>>
        /\ lastActivity' \in [ConnIds -> Recency]
        /\ writing' \subseteq ConnIds
        /\ isRunning' \in BOOLEAN
        /\ awaited' \subseteq ConnIds
    BY <1>4 DEF CloseConnection, IInv, TypeOK
  <2>2. QED
    BY <2>1, CloseIInv
<1>5. ASSUME NEW c \in ConnIds, OtherHandler(c) PROVE IInv'
  BY <1>5, NextIInv DEF OtherHandler, Next
<1>6. QED
  BY <1>1, <1>2, <1>3, <1>4, <1>5 DEF StatusNext

\* A step that tells nothing and identifies nobody preserves the rest.
LEMMA QuietKeepsInv ==
  ASSUME StatusInv, IInv', UNCHANGED statusVars, UNCHANGED <<meterId, meterToConnection>>
  PROVE  StatusInv'
<1>1. UNCHANGED Identified
  BY DEF Identified
<1>2. ReportsAgree' /\ OnlineIffRouted' /\ OnlineCountExact'
  BY <1>1 DEF StatusInv, IInv, statusVars, ReportsAgree, StatusTypeOK, OnlineIffRouted,
              OnlineCountExact
<1>3. QED
  BY <1>1, <1>2 DEF StatusInv, statusVars, DeafIsBlank

\* One element more, or less.
LEMMA OneMore ==
  ASSUME NEW S, IsFiniteSet(S), NEW x, x \notin S, NEW T, T = S \cup {x}
  PROVE  Cardinality(T) = Cardinality(S) + 1
BY FS_AddElement

\* What taking one element away does to the size of a set.
LEMMA OneLess ==
  ASSUME NEW S, IsFiniteSet(S), NEW x, NEW T, T = S \ {x}
  PROVE  /\ Cardinality(T) = IF x \in S THEN Cardinality(S) - 1 ELSE Cardinality(S)
         /\ x \in S => Cardinality(S) > 0
<1>1. Cardinality(T) = IF x \in S THEN Cardinality(S) - 1 ELSE Cardinality(S)
  BY FS_RemoveElement
<1>2. ASSUME x \in S PROVE Cardinality(S) > 0
  <2>1. Cardinality(S) \in Nat /\ Cardinality(S) # 0
    BY <1>2, FS_CardinalityType, FS_EmptySet
  <2>2. QED
    BY <2>1
<1>3. QED
  BY <1>1, <1>2

\* METER_CONNECTED.
LEMMA IdentifyKeepsInv ==
  ASSUME StatusInv, IInv', NEW c \in ConnIds, NEW m \in Meters, Identify(c, m)
  PROVE  StatusInv'
<1> USE ConstantsAssumption DEF StatusInv, IInv, TypeOK
<1>1. /\ meterId[c] = NoMeter
      /\ meterId' = [meterId EXCEPT ![c] = m]
      /\ meterToConnection' = [meterToConnection EXCEPT ![m] = c]
  BY DEF Identify, HandleRouterHeartbeat, HandleFrame, IdentifyConnection
<1>2. /\ IF listening THEN HandleMeterConnected(m)
         ELSE UNCHANGED <<meterStatus, metersOnline, lostAlarms>>
      /\ PublishMeterStatus(m, "online")
      /\ UNCHANGED <<publishing, listening, unnoticed, undercount>>
  BY DEF Identify, MeterConnected
<1>3. Identified' = Identified \cup {c} /\ c \notin Identified
  BY <1>1 DEF Identified
<1>4. StatusTypeOK'
  BY <1>2 DEF ReportsAgree, StatusTypeOK, HandleMeterConnected, PublishMeterStatus
<1>5. ReportsAgree'
  BY <1>2, <1>4 DEF ReportsAgree, StatusTypeOK, HandleMeterConnected, PublishMeterStatus,
                    DeafIsBlank
<1>6. OnlineIffRouted'
  BY <1>1, <1>2, <1>3 DEF OnlineIffRouted, ReportsAgree, StatusTypeOK, HandleMeterConnected,
                          DeafIsBlank
<1>7. OnlineCountExact'
  <2> DEFINE Noticed == Identified \ unnoticed
  <2>1. Noticed' = Noticed \cup {c} /\ c \notin Noticed
    BY <1>2, <1>3
  <2>2. IsFiniteSet(Noticed) /\ Cardinality(Noticed) \in Nat
    <3>1. Noticed \subseteq ConnIds
      BY DEF Identified
    <3>2. QED
      BY <3>1, FS_Subset, FS_CardinalityType
  <2>3. Cardinality(Noticed') = Cardinality(Noticed) + 1
    BY <2>1, <2>2, OneMore
  <2> HIDE DEF Noticed
  <2>4. listening => IF undercount THEN metersOnline <= Cardinality(Noticed)
                     ELSE metersOnline = Cardinality(Noticed)
    BY DEF OnlineCountExact, Noticed
  <2>5. listening' => metersOnline' = metersOnline + 1 /\ metersOnline \in Nat
    BY <1>2 DEF HandleMeterConnected, ReportsAgree, StatusTypeOK
  <2>6. listening' => IF undercount' THEN metersOnline' <= Cardinality(Noticed')
                      ELSE metersOnline' = Cardinality(Noticed')
    BY <1>2, <2>2, <2>3, <2>4, <2>5
  <2>7. QED
    BY <2>6 DEF OnlineCountExact, Noticed
<1>8. DeafIsBlank'
  BY <1>2 DEF DeafIsBlank
<1>9. QED
  BY <1>2, <1>3, <1>5, <1>6, <1>7, <1>8

\* METER_DISCONNECTED.
LEMMA CloseKeepsInv ==
  ASSUME StatusInv, IInv', NEW c \in ConnIds, CloseIdentified(c)
  PROVE  StatusInv'
<1> USE ConstantsAssumption DEF StatusInv, IInv, TypeOK
<1> DEFINE m == meterId[c]
<1>1. /\ m \in Meters
      /\ meterId' = [meterId EXCEPT ![c] = NoMeter]
      /\ meterToConnection' = [n \in Meters |-> IF n = m THEN NoConn ELSE meterToConnection[n]]
  BY DEF CloseIdentified, HandleClose, RoutesWithout
<1>2. /\ IF listening THEN HandleMeterDisconnected(m)
         ELSE UNCHANGED <<meterStatus, metersOnline, lostAlarms>>
      /\ PublishMeterStatus(m, "offline")
      /\ UNCHANGED <<publishing, listening>>
      /\ unnoticed' = unnoticed \ {c}
      /\ undercount' = (undercount \/ c \in unnoticed)
  BY DEF CloseIdentified, MeterDisconnected
<1>3. Identified' = Identified \ {c} /\ c \in Identified
  BY <1>1 DEF Identified
<1>4. metersOnline \in Nat /\ CountDown \in Nat
  BY DEF ReportsAgree, StatusTypeOK, CountDown
<1>5. undercount \in BOOLEAN /\ undercount' \in BOOLEAN
  BY <1>2 DEF ReportsAgree, StatusTypeOK
<1> HIDE DEF m
<1>6. StatusTypeOK'
  BY <1>1, <1>2, <1>4, <1>5 DEF ReportsAgree, StatusTypeOK, HandleMeterDisconnected,
                                PublishMeterStatus, RaiseAlarm
<1>7. ReportsAgree'
  BY <1>1, <1>2, <1>6 DEF ReportsAgree, StatusTypeOK, HandleMeterDisconnected,
                          PublishMeterStatus, RaiseAlarm, DeafIsBlank
<1>8. OnlineIffRouted'
  <2>1. ASSUME NEW n \in Meters, n # m
        PROVE  /\ meterToConnection'[n] = meterToConnection[n]
               /\ meterStatus'[n] = meterStatus[n]
               /\ meterToConnection[n] # c
    <3>1. meterToConnection[n] = c => meterId[c] = n
      BY DEF RouteConsistent
    <3>2. QED
      BY <1>1, <1>2, <2>1, <3>1 DEF HandleMeterDisconnected, ReportsAgree, StatusTypeOK, m
  <2>2. meterToConnection'[m] = NoConn /\ meterStatus'[m] # "online"
    BY <1>1, <1>2 DEF HandleMeterDisconnected, ReportsAgree, StatusTypeOK, DeafIsBlank
  <2>3. ASSUME NEW n \in Meters
        PROVE  /\ meterStatus'[n] = "online" => meterToConnection'[n] # NoConn
               /\ (listening' /\ meterToConnection'[n] \notin unnoticed' \cup {NoConn})
                    => meterStatus'[n] = "online"
    BY <1>2, <2>1, <2>2 DEF OnlineIffRouted
  <2>4. QED
    BY <2>3 DEF OnlineIffRouted
<1>9. OnlineCountExact'
  <2> DEFINE Noticed == Identified \ unnoticed
  <2>1. Noticed' = Noticed \ {c}
    BY <1>2, <1>3
  <2>2. IsFiniteSet(Noticed) /\ Cardinality(Noticed) \in Nat
    <3>1. Noticed \subseteq ConnIds
      BY DEF Identified
    <3>2. QED
      BY <3>1, FS_Subset, FS_CardinalityType
  <2>3. Cardinality(Noticed') = IF c \in Noticed THEN Cardinality(Noticed) - 1
                                ELSE Cardinality(Noticed)
    BY <2>1, <2>2, OneLess
  <2>4. c \in Noticed => Cardinality(Noticed) > 0
    BY <2>1, <2>2, OneLess
  <2>5. c \in Noticed <=> c \notin unnoticed
    BY <1>3
  <2> HIDE DEF Noticed
  <2>6. listening => IF undercount THEN metersOnline <= Cardinality(Noticed)
                     ELSE metersOnline = Cardinality(Noticed)
    BY DEF OnlineCountExact, Noticed
  <2>7. listening' => metersOnline' = IF metersOnline = 0 THEN 0 ELSE metersOnline - 1
    BY <1>2 DEF HandleMeterDisconnected, CountDown
  <2>8. listening' => IF undercount' THEN metersOnline' <= Cardinality(Noticed')
                      ELSE metersOnline' = Cardinality(Noticed')
    <3>1. CASE c \in unnoticed
      <4>1. undercount' = TRUE /\ listening' = listening
        BY <1>2, <3>1
      <4>2. listening => metersOnline' <= Cardinality(Noticed')
        BY <1>2, <1>4, <2>2, <2>3, <2>5, <2>6, <2>7, <3>1
      <4>3. QED
        BY <4>1, <4>2
    <3>2. CASE c \notin unnoticed
      <4>1. undercount' = undercount /\ listening' = listening
        BY <1>2, <1>5, <3>2
      <4>2. listening => metersOnline' <= Cardinality(Noticed')
        BY <1>2, <1>4, <2>2, <2>3, <2>4, <2>5, <2>6, <2>7, <3>2
      <4>3. listening /\ ~undercount => metersOnline' = Cardinality(Noticed')
        BY <1>2, <1>4, <2>2, <2>3, <2>4, <2>5, <2>6, <2>7, <3>2
      <4>4. QED
        BY <4>1, <4>2, <4>3
    <3>3. QED
      BY <3>1, <3>2
  <2>9. QED
    BY <2>8 DEF OnlineCountExact, Noticed
<1>10. DeafIsBlank'
  BY <1>2 DEF DeafIsBlank
<1>11. QED
  BY <1>2, <1>3, <1>7, <1>8, <1>9, <1>10

\* The starts of the publisher and of the status manager.
LEMMA StartsKeepInv ==
  ASSUME StatusInv, IInv', StartPublisher \/ StartStatusManager
  PROVE  StatusInv'
<1> USE DEF StatusInv, IInv
<1>1. UNCHANGED <<vars, meterStatus, metersOnline, lostAlarms, retained, undercount>>
  BY DEF StartPublisher, StartStatusManager
<1>2. UNCHANGED Identified /\ Identified \subseteq ConnIds
  BY <1>1 DEF Identified, vars
<1>3. ~listening /\ (\A m \in Meters : meterStatus[m] = "unknown")
  BY DEF StartPublisher, StartStatusManager, DeafIsBlank
<1>4. CASE StartPublisher
  <2>1. publishing' = TRUE /\ UNCHANGED <<listening, unnoticed>>
    BY <1>4 DEF StartPublisher
  <2>2. ReportsAgree' /\ OnlineIffRouted' /\ OnlineCountExact' /\ DeafIsBlank'
    BY <1>1, <1>2, <1>3, <2>1 DEF vars, ReportsAgree, StatusTypeOK, TypeOK, OnlineIffRouted,
                                  OnlineCountExact, DeafIsBlank
  <2>3. QED
    BY <1>2, <2>1, <2>2
<1>5. CASE StartStatusManager
  <2>1. publishing /\ listening' = TRUE /\ unnoticed' = Identified /\ UNCHANGED publishing
    BY <1>5 DEF StartStatusManager
  <2>2. ReportsAgree'
    BY <1>1, <1>2, <2>1 DEF vars, ReportsAgree, StatusTypeOK, TypeOK
  <2>3. OnlineIffRouted'
    <3>1. ASSUME NEW m \in Meters, meterToConnection[m] # NoConn
          PROVE  meterToConnection[m] \in Identified
      BY <3>1, ConstantsAssumption DEF RouteConsistent, TypeOK, Identified
    <3>2. QED
      BY <1>1, <1>2, <1>3, <2>1, <3>1 DEF vars, OnlineIffRouted
  <2>4. OnlineCountExact'
    <3>1. (Identified \ unnoticed)' = {}
      BY <1>2, <2>1
    <3>2. metersOnline' = 0 /\ ~undercount'
      BY <1>1, <1>3 DEF DeafIsBlank
    <3>3. QED
      BY <3>1, <3>2, FS_EmptySet DEF OnlineCountExact
  <2>5. QED
    BY <1>2, <2>1, <2>2, <2>3, <2>4 DEF DeafIsBlank
<1>6. QED
  BY <1>4, <1>5

--------------------------------------------------------------------------------
\* In every reachable state the status manager's books, the retained messages and the
\* registry agree; a status manager that does not listen yet knows nothing.
THEOREM StatusInvariance == StatusSpec => []StatusInv
<1>1. StatusInit => StatusInv
  <2> SUFFICES ASSUME StatusInit PROVE StatusInv
    OBVIOUS
  <2>1. IInv
    BY InitIInv DEF StatusInit
  <2>2. QED
    BY <2>1 DEF StatusInit, StatusInv, IInv, ReportsAgree, StatusTypeOK, OnlineIffRouted,
                OnlineCountExact, DeafIsBlank
<1>2. StatusInv /\ [StatusNext]_allVars => StatusInv'
  <2> SUFFICES ASSUME StatusInv, [StatusNext]_allVars PROVE StatusInv'
    OBVIOUS
  <2>1. IInv'
    BY RegistryIInv DEF StatusInv
  <2>2. CASE StartPublisher \/ StartStatusManager
    BY <2>1, <2>2, StartsKeepInv
  <2>3. ASSUME NEW c \in ConnIds, NEW m \in Meters, Identify(c, m) PROVE StatusInv'
    BY <2>1, <2>3, IdentifyKeepsInv
  <2>4. ASSUME NEW c \in ConnIds, CloseIdentified(c) PROVE StatusInv'
    BY <2>1, <2>4, CloseKeepsInv
  <2>5. ASSUME NEW c \in ConnIds, CloseUnidentified(c) PROVE StatusInv'
    <3>1. meterToConnection' = meterToConnection /\ meterId' = meterId
      BY <2>5, ConstantsAssumption
         DEF CloseUnidentified, HandleClose, RoutesWithout, StatusInv, IInv, TypeOK
    <3>2. UNCHANGED statusVars
      BY <2>5 DEF CloseUnidentified
    <3>3. QED
      BY <2>1, <3>1, <3>2, QuietKeepsInv
  <2>6. ASSUME NEW c \in ConnIds, CloseConnection(c) PROVE StatusInv'
    BY <2>1, <2>6, QuietKeepsInv DEF CloseConnection
  <2>7. ASSUME NEW c \in ConnIds, OtherHandler(c) PROVE StatusInv'
    <3>1. UNCHANGED <<meterId, meterToConnection>>
      BY <2>7 DEF OtherHandler, RegisterConnection, HandleData, HandleFrame, MarkActive,
                  EndCallback, ForceDestroy, PeerClose, DestroySocket
    <3>2. QED
      BY <2>1, <2>7, <3>1, QuietKeepsInv DEF OtherHandler
  <2>8. CASE UNCHANGED allVars
    BY <2>1, <2>8, QuietKeepsInv DEF allVars, vars
  <2>9. QED
    BY <2>2, <2>3, <2>4, <2>5, <2>6, <2>7, <2>8 DEF StatusNext
<1>3. QED
  BY <1>1, <1>2, PTL DEF StatusSpec

\* What is told of a meter agrees with itself: status, alarm and retained message
\* (index.js, handleMeterConnected, handleMeterDisconnected).
THEOREM ReportsAlwaysAgree == StatusSpec => []ReportsAgree
BY StatusInvariance, PTL DEF StatusInv

\* Online in the status manager is routed in the registry, whatever connections a
\* meter makes and in whatever order they close.
THEOREM OnlineAlwaysRouted == StatusSpec => []OnlineIffRouted
BY StatusInvariance, PTL DEF StatusInv

\* metersOnline counts the connections the listeners saw identified, for any number
\* of connections (handleMeterConnected, handleMeterDisconnected).
THEOREM OnlineAlwaysCounted == StatusSpec => []OnlineCountExact
BY StatusInvariance, PTL DEF StatusInv
================================================================================
