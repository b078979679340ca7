------------------------ MODULE ConnectionManager_proofs ------------------------
(***************************************************************************)
(* Proofs about ConnectionManager, for any finite set of connections, any  *)
(* set of meters and any maxConnections.                                   *)
(***************************************************************************)
EXTENDS ConnectionManager, FiniteSetTheorems, TLAPS

\* The initial state satisfies the inductive invariant.
LEMMA InitIInv == Init => IInv
BY ConstantsAssumption
   DEF Init, IInv, TypeOK, RouteConsistent, ClosingSocketShut, AbsentIsClean,
       CONNECTION_STATE, SocketPhase, Recency

\* Closing any set of connections preserves the inductive invariant as long as
\* the rest of the state is left alone or only clocks and flags change.
LEMMA CloseIInv ==
  ASSUME NEW D \in SUBSET ConnIds, IInv, CloseConnections(D),
         UNCHANGED <<meterId, meterToConnection>>,
         lastActivity' \in [ConnIds -> Recency], writing' \subseteq ConnIds,
         isRunning' \in BOOLEAN, awaited' \subseteq ConnIds
  PROVE  IInv'
<1>1. TypeOK'
  BY DEF IInv, TypeOK, CloseConnections, HalfClosed, CONNECTION_STATE, SocketPhase
<1>2. RouteConsistent'
  BY DEF IInv, TypeOK, RouteConsistent, CloseConnections, HalfClosed, Closeable
<1>3. ClosingSocketShut'
  BY DEF IInv, TypeOK, ClosingSocketShut, AbsentIsClean, CloseConnections, HalfClosed,
         Closeable,
         SocketPhase
<1>4. AbsentIsClean'
  BY DEF IInv, TypeOK, AbsentIsClean, CloseConnections, HalfClosed, Closeable,
         SocketPhase, CONNECTION_STATE
<1>5. QED
  BY <1>1, <1>2, <1>3, <1>4 DEF IInv

\* identifyConnection on a connection without a meter preserves it.
LEMMA IdentifyIInv ==
  ASSUME NEW c \in ConnIds, NEW m \in Meters, IInv,
         Receive(c), meterId[c] = NoMeter, IdentifyConnection(c, m)
  PROVE  IInv'
<1>1. TypeOK'
  BY DEF IInv, TypeOK, Receive, IdentifyConnection, HalfClosed, CONNECTION_STATE,
         SocketPhase, Recency
<1>2. RouteConsistent'
  BY ConstantsAssumption
     DEF IInv, TypeOK, RouteConsistent, Receive, IdentifyConnection, HalfClosed, Closeable,
         DuplicateOf
<1>3. ClosingSocketShut'
  BY DEF IInv, TypeOK, ClosingSocketShut, AbsentIsClean, Receive, IdentifyConnection,
         HalfClosed,
         Closeable, DuplicateOf, SocketPhase
<1>4. AbsentIsClean'
  BY DEF IInv, TypeOK, AbsentIsClean, Receive, Readable, IdentifyConnection, HalfClosed,
         Closeable,
         DuplicateOf, SocketPhase, CONNECTION_STATE
<1>5. QED
  BY <1>1, <1>2, <1>3, <1>4 DEF IInv

\* Receiving data that identifies nobody preserves it.
LEMMA MarkActiveIInv ==
  ASSUME NEW c \in ConnIds, IInv, Receive(c), MarkActive(c)
  PROVE  IInv'
BY DEF IInv, TypeOK, RouteConsistent, ClosingSocketShut, AbsentIsClean, Receive, MarkActive,
       CONNECTION_STATE, Recency

\* Destroying the socket of a registered connection preserves it.
LEMMA DestroyIInv ==
  ASSUME NEW c \in ConnIds, IInv, Readable(c), DestroySocket(c)
  PROVE  IInv'
BY DEF IInv, TypeOK, RouteConsistent, ClosingSocketShut, AbsentIsClean, Readable,
       DestroySocket, SocketPhase

\* Every step preserves the inductive invariant.
LEMMA NextIInv == IInv /\ [Next]_vars => IInv'
<1> SUFFICES ASSUME IInv, [Next]_vars PROVE IInv'
  OBVIOUS
<1>1. CASE Start
  BY <1>1 DEF Start, IInv, TypeOK, RouteConsistent, ClosingSocketShut, AbsentIsClean
<1>2. CASE Stop
  <2>1. registered \in SUBSET ConnIds
    BY DEF registered
  <2>2. /\ CloseConnections(registered)
        /\ UNCHANGED <<meterId, meterToConnection>>
        /\ lastActivity' \in [ConnIds -> Recency]
        /\ writing' \subseteq ConnIds
        /\ isRunning' \in BOOLEAN
        /\ awaited' \subseteq ConnIds
    BY <1>2 DEF Stop, IInv, TypeOK, Closeable, registered
  <2>3. QED
    BY <2>1, <2>2, CloseIInv
<1>3. CASE CheckConnections
  <2> USE <1>3 DEF CheckConnections, HalfClosed, IInv, TypeOK, Closeable
  <2>1. TypeOK'
    BY DEF CONNECTION_STATE, SocketPhase
  <2>2. RouteConsistent'
    BY DEF RouteConsistent
  <2>3. ClosingSocketShut'
    BY DEF ClosingSocketShut, AbsentIsClean, SocketPhase
  <2>4. AbsentIsClean'
    BY DEF AbsentIsClean, SocketPhase, CONNECTION_STATE
  <2>5. QED
    BY <2>1, <2>2, <2>3, <2>4
<1>4. ASSUME NEW c \in ConnIds, RegisterConnection(c)
      PROVE  IInv'
  BY <1>4 DEF RegisterConnection, Full, IInv, TypeOK, RouteConsistent, ClosingSocketShut,
              AbsentIsClean, CONNECTION_STATE, SocketPhase, Recency
<1>5. ASSUME NEW c \in ConnIds, HandleData(c)
      PROVE  IInv'
  BY <1>5, MarkActiveIInv DEF HandleData
<1>6. ASSUME NEW c \in ConnIds, NEW m \in Meters, HandleRouterHeartbeat(c, m)
      PROVE  IInv'
  BY <1>6, MarkActiveIInv, IdentifyIInv DEF HandleRouterHeartbeat
<1>7. ASSUME NEW c \in ConnIds, NEW m \in Meters, HandleFrame(c, m)
      PROVE  IInv'
  BY <1>7, MarkActiveIInv, IdentifyIInv DEF HandleFrame
<1>8. ASSUME NEW c \in ConnIds, Send(c)
      PROVE  IInv'
  BY <1>8 DEF Send, IInv, TypeOK, RouteConsistent, ClosingSocketShut, AbsentIsClean
<1>9. ASSUME NEW c \in ConnIds, WriteCallback(c)
      PROVE  IInv'
  BY <1>9 DEF WriteCallback, IInv, TypeOK, RouteConsistent, ClosingSocketShut, AbsentIsClean,
              Recency
<1>10. ASSUME NEW c \in ConnIds, HandleTimeout(c)
       PROVE  IInv'
  <2>1. /\ CloseConnections({c})
        /\ UNCHANGED <<meterId, meterToConnection>>
        /\ lastActivity' \in [ConnIds -> Recency]
        /\ writing' \subseteq ConnIds
        /\ isRunning' \in BOOLEAN
        /\ awaited' \subseteq ConnIds
    BY <1>10 DEF HandleTimeout, IInv, TypeOK
  <2>2. QED
    BY <2>1, CloseIInv
<1>11. ASSUME NEW c \in ConnIds, EndCallback(c) \/ ForceDestroy(c) \/ PeerClose(c)
       PROVE  IInv'
  BY <1>11, DestroyIInv DEF EndCallback, ForceDestroy, PeerClose, Readable
<1>12. ASSUME NEW c \in ConnIds, HandleClose(c)
       PROVE  IInv'
  BY <1>12, ConstantsAssumption
     DEF HandleClose, RoutesWithout, IInv, TypeOK, RouteConsistent, ClosingSocketShut,
         AbsentIsClean,
         SocketPhase, Recency
<1>13. ASSUME NEW c \in ConnIds, Age(c)
       PROVE  IInv'
  BY <1>13 DEF Age, IInv, TypeOK, RouteConsistent, ClosingSocketShut, AbsentIsClean, Recency
<1>14. CASE UNCHANGED vars
  BY <1>14 DEF vars, IInv, TypeOK, RouteConsistent, ClosingSocketShut, AbsentIsClean
<1>15. QED
  BY <1>1, <1>2, <1>3, <1>4, <1>5, <1>6, <1>7, <1>8, <1>9, <1>10, <1>11, <1>12, <1>13, <1>14
     DEF Next

\* The inductive invariant holds in every reachable state.
THEOREM Invariance == Spec => []IInv
<1>1. Init => IInv
  BY InitIInv
<1>2. IInv /\ [Next]_vars => IInv'
  BY NextIInv
<1>3. QED
  BY <1>1, <1>2, PTL DEF Spec

\* Every variable keeps its type.
THEOREM TypeCorrect == Spec => []TypeOK
BY Invariance, PTL DEF IInv

\* A meter is only ever routed to a registered connection that carries its id.
THEOREM RoutesNeverDangle == Spec => []RouteConsistent
BY Invariance, PTL DEF IInv

\* A connection marked as closing has lost the use of its socket.
THEOREM ClosingShutsSocket == Spec => []ClosingSocketShut
BY Invariance, PTL DEF IInv

\* No identified connection is ever tracked as active or idle.
THEOREM NoActivityOnceIdentified == Spec => []ActivityOnlyUnidentified
<1>1. IInv => ActivityOnlyUnidentified
  BY DEF IInv, AbsentIsClean, ActivityOnlyUnidentified
<1>2. QED
  BY <1>1, Invariance, PTL

--------------------------------------------------------------------------------
(* Capacity.                                                               *)

\* Only RegisterConnection adds a connection to the registry.
LEMMA RegisteredShrinks ==
  ASSUME IInv, [Next]_vars, ~ \E c \in ConnIds : RegisterConnection(c)
  PROVE  registered' \subseteq registered
<1> USE DEF IInv, TypeOK, AbsentIsClean, registered, Closeable
<1>1. CASE Start \/ Stop \/ CheckConnections
  BY <1>1 DEF Start, Stop, CheckConnections, CloseConnections, HalfClosed
<1>2. ASSUME NEW c \in ConnIds, NEW m \in Meters,
             HandleRouterHeartbeat(c, m) \/ HandleFrame(c, m)
      PROVE  registered' \subseteq registered
  BY <1>2 DEF HandleRouterHeartbeat, HandleFrame, Receive, Readable, MarkActive,
              IdentifyConnection, HalfClosed
<1>3. ASSUME NEW c \in ConnIds, HandleData(c) \/ HandleTimeout(c)
      PROVE  registered' \subseteq registered
  BY <1>3 DEF HandleData, HandleTimeout, Receive, Readable, MarkActive, CloseConnections,
              HalfClosed
<1>4. ASSUME NEW c \in ConnIds,
             \/ Send(c) \/ WriteCallback(c) \/ Age(c) \/ EndCallback(c)
             \/ ForceDestroy(c) \/ PeerClose(c) \/ HandleClose(c)
      PROVE  registered' \subseteq registered
  BY <1>4 DEF Send, WriteCallback, Age, EndCallback, ForceDestroy, PeerClose, HandleClose,
              RoutesWithout,
              DestroySocket
<1>5. CASE UNCHANGED vars
  BY <1>5 DEF vars
<1>6. QED
  BY <1>1, <1>2, <1>3, <1>4, <1>5 DEF Next

\* The registry never holds more than maxConnections connections.
THEOREM Capacity == Spec => []CapacityRespected
<1>1. Init => CapacityRespected
  <2>1. Init => registered = {}
    BY DEF Init, registered
  <2>2. QED
    BY <2>1, FS_EmptySet, ConstantsAssumption DEF CapacityRespected
<1>2. IInv /\ CapacityRespected /\ [Next]_vars => CapacityRespected'
  <2> SUFFICES ASSUME IInv, CapacityRespected, [Next]_vars PROVE CapacityRespected'
    OBVIOUS
  <2>1. /\ IsFiniteSet(registered)
        /\ Cardinality(registered) \in Nat
    BY ConstantsAssumption, FS_Subset, FS_CardinalityType DEF registered
  <2>2. ASSUME NEW c \in ConnIds, RegisterConnection(c)
        PROVE  CapacityRespected'
    <3>1. registered' = registered \cup {c} /\ c \notin registered
      BY <2>2 DEF RegisterConnection, Full, registered, IInv, TypeOK
    <3>2. Cardinality(registered') = Cardinality(registered) + 1
      BY <3>1, <2>1, FS_AddElement
    <3>3. QED
      BY <3>2, <2>1, <2>2, ConstantsAssumption DEF RegisterConnection, Full, CapacityRespected
  <2>3. CASE ~ \E c \in ConnIds : RegisterConnection(c)
    <3>1. registered' \subseteq registered
      BY <2>3, RegisteredShrinks

       <3>2. Cardinality(registered') <= Cardinality(registered) /\ Cardinality(registered') \in Nat
      BY <3>1, <2>1, FS_Subset, FS_CardinalityType
    <3>3. QED
      BY <3>2, <2>1, ConstantsAssumption DEF CapacityRespected
  <2>4. QED
    BY <2>2, <2>3
<1>3. QED
  BY <1>1, <1>2, Invariance, PTL DEF Spec

\* The registry, its routes, its sockets and its size, in every reachable state.
THEOREM RegistryIsConsistent == Spec => []RegistryConsistent
BY Invariance, Capacity, PTL DEF RegistryConsistent

--------------------------------------------------------------------------------
(* What a step may never do.                                               *)

\* A connection never changes meter while it is registered.
THEOREM MeterIdsAreStable == Spec => MeterIdStable
<1>1. ASSUME IInv, [Next]_vars, NEW c \in ConnIds, meterId[c] # NoMeter
      PROVE  meterId'[c] \in {meterId[c], NoMeter}
  <2> USE <1>1 DEF IInv, TypeOK
  <2>1. CASE Start \/ Stop \/ CheckConnections
    BY <2>1 DEF Start, Stop, CheckConnections
  <2>2. ASSUME NEW d \in ConnIds, NEW m \in Meters,
               HandleRouterHeartbeat(d, m) \/ HandleFrame(d, m)
        PROVE  meterId'[c] \in {meterId[c], NoMeter}
    BY <2>2 DEF HandleRouterHeartbeat, HandleFrame, MarkActive, IdentifyConnection, HalfClosed
  <2>3. ASSUME NEW d \in ConnIds,
               \/ RegisterConnection(d) \/ HandleData(d) \/ Send(d) \/ WriteCallback(d)
               \/ HandleTimeout(d) \/ Age(d) \/ EndCallback(d) \/ ForceDestroy(d)
               \/ PeerClose(d) \/ HandleClose(d)
        PROVE  meterId'[c] \in {meterId[c], NoMeter}
    BY <2>3 DEF RegisterConnection, Full, HandleData, MarkActive, Send, WriteCallback,
                HandleTimeout,
                Age, EndCallback, ForceDestroy, PeerClose, DestroySocket, HandleClose,
                RoutesWithout
  <2>4. CASE UNCHANGED vars
    BY <2>4 DEF vars
  <2>5. QED
    BY <2>1, <2>2, <2>3, <2>4 DEF Next
<1>2. IInv /\ [Next]_vars =>
        [\A c \in ConnIds : meterId[c] # NoMeter => meterId'[c] \in {meterId[c], NoMeter}]_vars
  BY <1>1
<1>3. QED
  BY <1>2, Invariance, PTL DEF Spec, MeterIdStable

\* A takeover leaves the connection that lost the meter closing.
THEOREM TakeoversCloseOld == Spec => TakeoverClosesOld
<1>1. ASSUME IInv, [Next]_vars, NEW m \in Meters, meterToConnection[m] # NoConn,
             meterToConnection'[m] \notin {meterToConnection[m], NoConn}
      PROVE  state'[meterToConnection[m]] = "disconnecting"
  <2> USE <1>1 DEF IInv, TypeOK
  <2>1. CASE Start \/ Stop \/ CheckConnections
    BY <2>1 DEF Start, Stop, CheckConnections
  <2>2. ASSUME NEW c \in ConnIds, NEW n \in Meters,
               HandleRouterHeartbeat(c, n) \/ HandleFrame(c, n)
        PROVE  state'[meterToConnection[m]] = "disconnecting"
    BY <2>2 DEF HandleRouterHeartbeat, HandleFrame, MarkActive, IdentifyConnection,
                HalfClosed, Closeable,
                DuplicateOf, RouteConsistent
  <2>3. ASSUME NEW c \in ConnIds,
               \/ RegisterConnection(c) \/ HandleData(c) \/ Send(c) \/ WriteCallback(c)
               \/ HandleTimeout(c) \/ Age(c) \/ EndCallback(c) \/ ForceDestroy(c)
               \/ PeerClose(c) \/ HandleClose(c)
        PROVE  state'[meterToConnection[m]] = "disconnecting"
    BY <2>3 DEF RegisterConnection, Full, HandleData, MarkActive, Send, WriteCallback,
                HandleTimeout,
                Age, EndCallback, ForceDestroy, PeerClose, DestroySocket, HandleClose,
                RoutesWithout
  <2>4. CASE UNCHANGED vars
    BY <2>4 DEF vars
  <2>5. QED
    BY <2>1, <2>2, <2>3, <2>4 DEF Next
<1>2. IInv /\ [Next]_vars =>
        [\A m \in Meters :
           (/\ meterToConnection[m] # NoConn
            /\ meterToConnection'[m] \notin {meterToConnection[m], NoConn})
             => state'[meterToConnection[m]] = "disconnecting"]_vars
  BY <1>1
<1>3. QED
  BY <1>2, Invariance, PTL DEF Spec, TakeoverClosesOld
================================================================================
