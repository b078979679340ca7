--------------------------- MODULE TcpCommands_proofs ---------------------------
(***************************************************************************)
(* Every call of sendCommand is settled once, by its own meter and, while  *)
(* that meter answers in step, by its own response: proved for any number  *)
(* of calls, connections and meters.  The registry's own invariant is      *)
(* carried over from ConnectionManager_proofs.                             *)
(***************************************************************************)
EXTENDS TcpCommands, ConnectionManager_proofs, SequenceTheorems

\* A call that waits is in the Map of its connection, once, and nothing else is.
MapsSound ==
  /\ \A k \in Commands : outcome[k] = "waiting" =>
       /\ call[k].conn \in ConnIds /\ call[k].meter \in Meters
       /\ \E i \in DOMAIN pendingCommands[call[k].conn] : pendingCommands[call[k].conn][i] = k
  /\ \A c \in ConnIds : \A i \in DOMAIN pendingCommands[c] :
       /\ outcome[pendingCommands[c][i]] = "waiting"
       /\ call[pendingCommands[c][i]].conn = c
       /\ \A j \in DOMAIN pendingCommands[c] :
            pendingCommands[c][j] = pendingCommands[c][i] => j = i

TimersExact == \A k \in Commands : outcome[k] = "waiting" <=> k \in timers

\* A connection that carries requests is a meter's.
TrafficIdentified ==
  \A c \in ConnIds : unsent[c] # <<>> \/ received[c] # <<>> =>
    state[c] # "absent" /\ meterId[c] # NoMeter

CommandsInv ==
  /\ IInv
  /\ CommandsTypeOK
  /\ TimersExact
  /\ MapsSound
  /\ TrafficIdentified
  /\ WaitingOnOwnMeter

--------------------------------------------------------------------------------
(* Sequences without one of their elements.                                *)

\* A sequence without its i-th element.
LEMMA RemoveAtEntry ==
  ASSUME NEW S, NEW s \in Seq(S), NEW i \in 1..Len(s)
  PROVE  /\ RemoveAt(s, i) \in Seq(S)
         /\ Len(RemoveAt(s, i)) = Len(s) - 1
         /\ \A j \in 1..(Len(s) - 1) : RemoveAt(s, i)[j] = s[IF j < i THEN j ELSE j + 1]
<1> DEFINE a == SubSeq(s, 1, i - 1)
           b == SubSeq(s, i + 1, Len(s))
<1>1. a \in Seq(S) /\ Len(a) = i - 1 /\ \A j \in 1..(i - 1) : a[j] = s[j]
  OBVIOUS
<1>2. b \in Seq(S) /\ Len(b) = Len(s) - i /\ \A j \in 1..(Len(s) - i) : b[j] = s[i + j]
  OBVIOUS
<1> HIDE DEF a, b
<1>3. a \o b \in Seq(S) /\ Len(a \o b) = Len(a) + Len(b)
  BY <1>1, <1>2, ConcatProperties
<1>4. \A j \in 1..Len(a \o b) : (a \o b)[j] = IF j <= Len(a) THEN a[j] ELSE b[j - Len(a)]
  BY <1>1, <1>2, ConcatProperties
<1>5. RemoveAt(s, i) = a \o b
  BY DEF RemoveAt, a, b
<1>6. Len(a \o b) = Len(s) - 1 /\ Len(s) \in Nat
  BY <1>1, <1>2, <1>3
<1>7. ASSUME NEW j \in 1..(Len(s) - 1)
      PROVE  (a \o b)[j] = s[IF j < i THEN j ELSE j + 1]
  <2>1. (a \o b)[j] = IF j <= i - 1 THEN a[j] ELSE b[j - (i - 1)]
    BY <1>1, <1>4, <1>6
  <2>2. CASE j <= i - 1
    BY <1>1, <1>6, <2>1, <2>2
  <2>3. CASE ~(j <= i - 1)
    <3>1. j - (i - 1) \in 1..(Len(s) - i) /\ i + (j - (i - 1)) = j + 1
      BY <1>6, <2>3
    <3>2. QED
      BY <1>2, <1>6, <2>1, <2>3, <3>1
  <2>4. QED
    BY <2>2, <2>3
<1>8. QED
  BY <1>3, <1>5, <1>6, <1>7

\* An element that occurs once is gone behind RemoveFirst, and every other one is
\* where it was, or one place earlier.
LEMMA RemoveFirstEntry ==
  ASSUME NEW S, NEW s \in Seq(S), NEW i \in 1..Len(s), NEW k, s[i] = k,
         \A j \in 1..Len(s) : s[j] = k => j = i
  PROVE  /\ RemoveFirst(s, k) \in Seq(S)
         /\ Len(RemoveFirst(s, k)) = Len(s) - 1
         /\ \A j \in 1..(Len(s) - 1) : RemoveFirst(s, k)[j] = s[IF j < i THEN j ELSE j + 1]
<1>1. {j \in 1..Len(s) : s[j] = k} = {i}
  OBVIOUS
<1>2. Min({i}) = i
  BY DEF Min
<1>3. SelectInSeq(s, LAMBDA v : v = k) = i
  BY <1>1, <1>2 DEF SelectInSeq
<1>4. RemoveFirst(s, k) = RemoveAt(s, i)
  BY <1>3 DEF RemoveFirst
<1>5. QED
  BY <1>4, RemoveAtEntry

NoRepeat(s) == \A j, l \in 1..Len(s) : s[j] = s[l] => j = l

\* The elements of t are those of s but k.
AllBut(t, s, k) ==
  /\ \A j \in 1..Len(t) : t[j] # k /\ \E l \in 1..Len(s) : s[l] = t[j]
  /\ \A l \in 1..Len(s) : s[l] # k => \E j \in 1..Len(t) : t[j] = s[l]

\* The same with the elements named: none is lost, none is new, and what occurred
\* once does so still.
LEMMA Without ==
  ASSUME NEW S, NEW s \in Seq(S), NEW i \in 1..Len(s), NEW k, s[i] = k, NoRepeat(s)
  PROVE  /\ RemoveFirst(s, k) \in Seq(S)
         /\ AllBut(RemoveFirst(s, k), s, k)
         /\ NoRepeat(RemoveFirst(s, k))
<1> DEFINE t == RemoveFirst(s, k)
<1>1. /\ t \in Seq(S)
      /\ Len(t) = Len(s) - 1
      /\ \A j \in 1..(Len(s) - 1) : t[j] = s[IF j < i THEN j ELSE j + 1]
  BY RemoveFirstEntry DEF NoRepeat
<1> HIDE DEF t
<1> USE DEF NoRepeat
<1>2. Len(s) \in Nat /\ \A j \in 1..Len(t) : (IF j < i THEN j ELSE j + 1) \in 1..Len(s) \ {i}
  BY <1>1
<1>3. \A j \in 1..Len(t) : t[j] # k /\ \E l \in 1..Len(s) : s[l] = t[j]
  BY <1>1, <1>2
<1>4. \A j, l \in 1..Len(t) : t[j] = t[l] => j = l
  BY <1>1, <1>2
<1>5. ASSUME NEW l \in 1..Len(s), s[l] # k PROVE \E j \in 1..Len(t) : t[j] = s[l]
  <2>1. CASE l < i
    BY <1>1, <1>2, <2>1
  <2>2. CASE l > i
    <3>1. l - 1 \in 1..(Len(s) - 1) /\ ~(l - 1 < i) /\ (l - 1) + 1 = l
      BY <1>2, <2>2
    <3>2. t[l - 1] = s[l]
      BY <1>1, <3>1
    <3>3. QED
      BY <1>1, <3>1, <3>2
  <2>3. QED
    BY <1>5, <2>1, <2>2
<1>6. QED
  BY <1>1, <1>3, <1>4, <1>5 DEF AllBut, t

--------------------------------------------------------------------------------
(* The registry under the calls.                                           *)

\* An identified connection stays what it is.
KeepsMeters ==
  \A c \in ConnIds : state[c] # "absent" /\ meterId[c] # NoMeter =>
    state'[c] # "absent" /\ meterId'[c] = meterId[c]

\* The registry's handlers keep its invariant and every connection's meter.
LEMMA HandlersKeepMeters ==
  ASSUME IInv, NEW c \in ConnIds,
         \/ RegisterConnection(c) \/ HandleData(c) \/ EndCallback(c) \/ PeerClose(c)
         \/ \E m \in Meters : HandleRouterHeartbeat(c, m) \/ HandleFrame(c, m)
  PROVE  IInv' /\ KeepsMeters
<1>1. IInv'
  BY NextIInv DEF Next
<1>2. KeepsMeters
  <2> USE ConstantsAssumption DEF IInv, TypeOK, KeepsMeters
  <2>1. CASE RegisterConnection(c)
    BY <2>1 DEF RegisterConnection
  <2>2. CASE HandleData(c) \/ EndCallback(c) \/ PeerClose(c)
    BY <2>2 DEF HandleData, MarkActive, EndCallback, PeerClose, DestroySocket
  <2>3. ASSUME NEW m \in Meters, HandleRouterHeartbeat(c, m) \/ HandleFrame(c, m)
        PROVE  KeepsMeters
    BY <2>3 DEF HandleRouterHeartbeat, HandleFrame, MarkActive, IdentifyConnection
  <2>4. QED
    BY <2>1, <2>2, <2>3
<1>3. QED
  BY <1>1, <1>2

\* A step of the registry or of the wire, whatever it settles.
Underneath ==
  /\ IInv'
  /\ KeepsMeters
  /\ UNCHANGED call
  /\ {unsent', received'} \subseteq [ConnIds -> Seq(Commands)]
  /\ inStep' \in [ConnIds -> BOOLEAN]
  /\ \A c \in ConnIds : unsent'[c] # <<>> \/ received'[c] # <<>> =>
       state[c] # "absent" /\ meterId[c] # NoMeter

\* A call that waits keeps its connection.
LEMMA WaitingKept ==
  ASSUME CommandsInv, Underneath, NEW k \in Commands, outcome[k] = "waiting"
  PROVE  state'[call'[k].conn] # "absent" /\ meterId'[call'[k].conn] = call'[k].meter
<1>1. /\ call[k].conn \in ConnIds
      /\ state[call[k].conn] # "absent"
      /\ meterId[call[k].conn] = call[k].meter
      /\ call[k].meter # NoMeter
  BY ConstantsAssumption DEF CommandsInv, MapsSound, WaitingOnOwnMeter
<1>2. QED
  BY <1>1 DEF Underneath, KeepsMeters

\* What is on its way belongs to an identified connection.
LEMMA TrafficKept ==
  ASSUME CommandsInv, Underneath
  PROVE  TrafficIdentified'
BY DEF Underneath, TrafficIdentified, KeepsMeters

\* Such a step that settles no call.
LEMMA NothingSettled ==
  ASSUME CommandsInv, Underneath, SettleNothing
  PROVE  CommandsInv'
<1> USE DEF CommandsInv, Underneath, SettleNothing
<1>1. CommandsTypeOK'
  BY DEF CommandsTypeOK, IInv
<1>2. TimersExact' /\ MapsSound'
  BY DEF TimersExact, MapsSound
<1>3. WaitingOnOwnMeter'
  BY WaitingKept DEF WaitingOnOwnMeter
<1>4. QED
  BY <1>1, <1>2, <1>3, TrafficKept

\* Such a step that settles one.
LEMMA OneSettled ==
  ASSUME CommandsInv, Underneath, NEW k \in Commands, outcome[k] = "waiting",
         NEW result \in Outcome \ {"waiting"}, Settle(k, result)
  PROVE  CommandsInv'
<1> DEFINE c == call[k].conn
           s == pendingCommands[c]
           t == RemoveFirst(s, k)
<1>1. c \in ConnIds /\ s \in Seq(Commands)
  BY DEF CommandsInv, CommandsTypeOK, MapsSound
<1>2. PICK i \in 1..Len(s) : s[i] = k
  BY <1>1 DEF CommandsInv, MapsSound
<1>3. NoRepeat(s)
  BY <1>1 DEF CommandsInv, MapsSound, NoRepeat
<1>4. /\ outcome' = [outcome EXCEPT ![k] = result]
      /\ timers' = timers \ {k}
      /\ pendingCommands' = [pendingCommands EXCEPT ![c] = t]
      /\ UNCHANGED call
  BY DEF Settle, Underneath
<1>5. t \in Seq(Commands) /\ AllBut(t, s, k) /\ NoRepeat(t)
  <2> HIDE DEF c, s
  <2>1. QED
    BY <1>1, <1>2, <1>3, Without
<1> HIDE DEF s, t, c
<1>6. /\ t \in Seq(Commands)
      /\ \A j \in 1..Len(t) : t[j] # k /\ \E l \in 1..Len(s) : s[l] = t[j]
      /\ \A j, l \in 1..Len(t) : t[j] = t[l] => j = l
      /\ \A l \in 1..Len(s) : s[l] # k => \E j \in 1..Len(t) : t[j] = s[l]
  BY <1>5 DEF AllBut, NoRepeat
<1>7. DOMAIN t = 1..Len(t) /\ DOMAIN s = 1..Len(s)
  BY <1>1, <1>6
<1> USE DEF CommandsInv
<1>8. CommandsTypeOK'
  BY <1>1, <1>6, <1>4 DEF CommandsTypeOK, Underneath, IInv
<1>9. TimersExact'
  BY <1>4 DEF TimersExact, CommandsTypeOK
<1>10. \A d \in ConnIds : pendingCommands'[d] = IF d = c THEN t ELSE pendingCommands[d]
  BY <1>4 DEF CommandsTypeOK
<1>11. \A l \in Commands : outcome'[l] = IF l = k THEN result ELSE outcome[l]
  BY <1>4 DEF CommandsTypeOK
<1>12. MapsSound'
  <2>1. ASSUME NEW l \in Commands, outcome'[l] = "waiting"
        PROVE  /\ call[l].conn \in ConnIds /\ call[l].meter \in Meters
               /\ \E j \in DOMAIN pendingCommands'[call[l].conn] : pendingCommands'[call[l].conn][j] = l
    <3>1. l # k /\ outcome[l] = "waiting"
      BY <1>11, <2>1
    <3>2. /\ call[l].conn \in ConnIds /\ call[l].meter \in Meters
          /\ \E j \in DOMAIN pendingCommands[call[l].conn] : pendingCommands[call[l].conn][j] = l
      BY <3>1 DEF MapsSound
    <3>3. CASE call[l].conn = c
      <4>1. PICK j \in 1..Len(s) : s[j] = l
        BY <1>7, <3>2, <3>3 DEF s
      <4>2. PICK i2 \in 1..Len(t) : t[i2] = l
        BY <1>6, <3>1, <4>1
      <4>3. pendingCommands'[call[l].conn] = t
        BY <1>10, <3>2, <3>3
      <4>4. QED
        BY <1>7, <3>2, <4>2, <4>3
    <3>4. CASE call[l].conn # c
      BY <1>10, <3>2, <3>4
    <3>5. QED
      BY <3>2, <3>3, <3>4
  <2>2. ASSUME NEW d \in ConnIds, NEW j \in DOMAIN pendingCommands'[d]
        PROVE  /\ outcome'[pendingCommands'[d][j]] = "waiting"
               /\ call[pendingCommands'[d][j]].conn = d
               /\ \A l \in DOMAIN pendingCommands'[d] :
                    pendingCommands'[d][l] = pendingCommands'[d][j] => l = j
    <3>1. CASE d = c
      <4>1. pendingCommands'[d] = t /\ j \in 1..Len(t) /\ t[j] \in Commands /\ t[j] # k
        BY <1>6, <1>7, <1>5, <1>10, <2>2, <3>1
      <4>2. PICK l \in DOMAIN pendingCommands[d] : pendingCommands[d][l] = t[j]
        BY <1>6, <1>7, <1>5, <3>1, <4>1 DEF s
      <4>3. outcome[t[j]] = "waiting" /\ call[t[j]].conn = d
        BY <4>2 DEF MapsSound
      <4>4. QED
        BY <1>6, <1>7, <1>11, <4>1, <4>3
    <3>2. CASE d # c
      <4>1. pendingCommands'[d] = pendingCommands[d]
        BY <1>10, <3>2
      <4>2. /\ pendingCommands[d][j] \in Commands
            /\ outcome[pendingCommands[d][j]] = "waiting"
            /\ call[pendingCommands[d][j]].conn = d
        BY <2>2, <4>1 DEF MapsSound, CommandsTypeOK
      <4>3. pendingCommands[d][j] # k
        BY <1>5, <3>2, <4>2 DEF c
      <4>4. QED
        BY <1>11, <2>2, <4>1, <4>2, <4>3 DEF MapsSound
    <3>3. QED
      BY <3>1, <3>2
  <2>3. QED
    BY <1>4, <2>1, <2>2 DEF MapsSound
<1>13. WaitingOnOwnMeter'
  BY <1>11, WaitingKept DEF WaitingOnOwnMeter
<1>14. QED
  BY <1>8, <1>9, <1>12, <1>13, TrafficKept DEF Underneath

--------------------------------------------------------------------------------
(* The steps.                                                              *)

\* An unchanged registry.
LEMMA SameRegistry ==
  ASSUME IInv, UNCHANGED vars
  PROVE  IInv' /\ KeepsMeters
<1>1. IInv'
  BY NextIInv
<1>2. KeepsMeters
  BY DEF KeepsMeters, vars
<1>3. QED
  BY <1>1, <1>2

\* sendCommand.
LEMMA SendKeepsInv ==
  ASSUME CommandsInv, NEW k \in Commands, NEW m \in Meters, NEW d \in DataIds,
         SendCommand(k, m, d)
  PROVE  CommandsInv'
<1> DEFINE c == meterToConnection[m]
           s == pendingCommands[c]
           broken == ~(state[c] = "disconnecting") /\ socket[c] # "open"
<1> USE DEF CommandsInv
<1>1. /\ c \in ConnIds /\ state[c] # "absent" /\ meterId[c] = m /\ m # NoMeter
      /\ outcome[k] = "uncalled"
  BY ConstantsAssumption DEF SendCommand, IInv, TypeOK, RouteConsistent
<1>2. /\ call' = [call EXCEPT ![k] = [meter |-> m, conn |-> c, dataId |-> d]]
      /\ UNCHANGED <<vars, received, inStep>>
      /\ unsent' = [unsent EXCEPT ![c] = Append(@, k)] \/ UNCHANGED unsent
      /\ \/ /\ broken
            /\ outcome' = [outcome EXCEPT ![k] = "failed"]
            /\ UNCHANGED <<timers, pendingCommands>>
         \/ /\ ~broken
            /\ outcome' = [outcome EXCEPT ![k] = "waiting"]
            /\ timers' = timers \cup {k}
            /\ pendingCommands' = [pendingCommands EXCEPT ![c] = Append(s, k)]
  BY DEF SendCommand
<1> HIDE DEF broken
<1>3. IInv' /\ KeepsMeters
  BY <1>2, SameRegistry
<1>4. s \in Seq(Commands)
  BY <1>1 DEF CommandsTypeOK
<1>5. /\ Append(s, k) \in Seq(Commands)
      /\ Len(Append(s, k)) = Len(s) + 1
      /\ \A i \in 1..(Len(s) + 1) : Append(s, k)[i] = IF i <= Len(s) THEN s[i] ELSE k
      /\ Len(s) \in Nat
  BY <1>4, AppendProperties
<1>6. /\ call'[k] = [meter |-> m, conn |-> c, dataId |-> d]
      /\ \A l \in Commands \ {k} : call'[l] = call[l] /\ outcome'[l] = outcome[l]
  BY <1>2 DEF CommandsTypeOK
<1>7. \A e \in ConnIds : \A i \in DOMAIN pendingCommands[e] :
        pendingCommands[e][i] \in Commands \ {k}
  BY <1>1 DEF CommandsTypeOK, MapsSound
<1>8. CommandsTypeOK'
  <2>1. unsent' \in [ConnIds -> Seq(Commands)]
    <3>1. Append(unsent[c], k) \in Seq(Commands)
      BY <1>1 DEF CommandsTypeOK
    <3>2. QED
      BY <1>1, <1>2, <3>1 DEF CommandsTypeOK
  <2>2. pendingCommands' \in [ConnIds -> Seq(Commands)]
    BY <1>1, <1>2, <1>5 DEF CommandsTypeOK
  <2>3. call' \in [Commands -> [meter : Meters \cup {NoMeter}, conn : ConnIds \cup {NoConn},
                               dataId : DataIds]]
    BY <1>1, <1>2 DEF CommandsTypeOK
  <2>4. outcome' \in [Commands -> Outcome] /\ timers' \subseteq Commands
    BY <1>2 DEF CommandsTypeOK, Outcome
  <2>5. QED
    BY <1>2, <1>3, <2>1, <2>2, <2>3, <2>4 DEF CommandsTypeOK, IInv
<1>9. TimersExact'
  BY <1>1, <1>2, <1>6 DEF TimersExact, CommandsTypeOK
<1>10. TrafficIdentified'
  BY <1>1, <1>2 DEF TrafficIdentified, CommandsTypeOK, vars
<1>11. WaitingOnOwnMeter'
  BY <1>1, <1>2, <1>6 DEF WaitingOnOwnMeter, vars
<1>12. MapsSound'
  <2>1. CASE UNCHANGED pendingCommands /\ outcome'[k] # "waiting"
    <3>1. ASSUME NEW l \in Commands, outcome'[l] = "waiting"
          PROVE  /\ call'[l].conn \in ConnIds /\ call'[l].meter \in Meters
                 /\ \E i \in DOMAIN pendingCommands'[call'[l].conn] :
                      pendingCommands'[call'[l].conn][i] = l
      BY <1>6, <2>1, <3>1 DEF MapsSound
    <3>2. ASSUME NEW e \in ConnIds, NEW i \in DOMAIN pendingCommands'[e]
          PROVE  /\ outcome'[pendingCommands'[e][i]] = "waiting"
                 /\ call'[pendingCommands'[e][i]].conn = e
                 /\ \A j \in DOMAIN pendingCommands'[e] :
                      pendingCommands'[e][j] = pendingCommands'[e][i] => j = i
      BY <1>6, <1>7, <2>1, <3>2 DEF MapsSound
    <3>3. QED
      BY <3>1, <3>2 DEF MapsSound
  <2>2. CASE /\ pendingCommands' = [pendingCommands EXCEPT ![c] = Append(s, k)]
             /\ outcome'[k] = "waiting"
    <3> DEFINE t == Append(s, k)
               n == Len(s)
    <3>1. /\ \A e \in ConnIds : pendingCommands'[e] = IF e = c THEN t ELSE pendingCommands[e]
          /\ pendingCommands[c] = s
      BY <2>2 DEF CommandsTypeOK
    <3>2. /\ DOMAIN t = 1..(n + 1) /\ DOMAIN s = 1..n /\ n \in Nat
          /\ t[n + 1] = k
          /\ \A i \in 1..n : t[i] = s[i] /\ i \in 1..(n + 1)
          /\ \A i \in 1..(n + 1) : i = n + 1 \/ i \in 1..n
          /\ n + 1 \in 1..(n + 1)
      BY <1>4, <1>5
    <3>5. /\ \A i \in 1..n : s[i] \in Commands \ {k}
          /\ c \in ConnIds
      BY <1>1, <1>7, <3>1, <3>2
    <3> HIDE DEF t, s, n, c
    <3>3. ASSUME NEW l \in Commands, outcome'[l] = "waiting"
          PROVE  /\ call'[l].conn \in ConnIds /\ call'[l].meter \in Meters
                 /\ \E i \in DOMAIN pendingCommands'[call'[l].conn] :
                      pendingCommands'[call'[l].conn][i] = l
      <4>1. CASE l = k
        <5>1. call'[l].conn = c /\ call'[l].meter = m
          BY <1>6, <4>1
        <5>2. pendingCommands'[c] = t /\ n + 1 \in DOMAIN t /\ t[n + 1] = l
          BY <3>1, <3>2, <3>5, <4>1
        <5>3. QED
          BY <3>5, <5>1, <5>2
      <4>2. CASE l # k
        <5>1. /\ call'[l] = call[l]
              /\ call[l].conn \in ConnIds /\ call[l].meter \in Meters
          BY <1>6, <3>3, <4>2 DEF MapsSound
        <5>2. PICK i \in DOMAIN pendingCommands[call[l].conn] : pendingCommands[call[l].conn][i] = l
          BY <1>6, <3>3, <4>2 DEF MapsSound
        <5>3. CASE call[l].conn = c
          <6>1. i \in 1..n /\ s[i] = l
            BY <3>1, <3>2, <5>2, <5>3
          <6>2. t[i] = l /\ i \in DOMAIN t /\ pendingCommands'[c] = t
            BY <3>1, <3>2, <3>5, <6>1
          <6>3. QED
            BY <5>1, <5>3, <6>2
        <5>4. CASE call[l].conn # c
          BY <3>1, <5>1, <5>2, <5>4
        <5>5. QED
          BY <5>1, <5>3, <5>4
      <4>3. QED
        BY <4>1, <4>2
    <3>4. ASSUME NEW e \in ConnIds, NEW i \in DOMAIN pendingCommands'[e]
          PROVE  /\ outcome'[pendingCommands'[e][i]] = "waiting"
                 /\ call'[pendingCommands'[e][i]].conn = e
                 /\ \A j \in DOMAIN pendingCommands'[e] :
                      pendingCommands'[e][j] = pendingCommands'[e][i] => j = i
      <4>1. CASE e # c
        <5>1. pendingCommands'[e] = pendingCommands[e]
          BY <3>1, <4>1
        <5>2. QED
          BY <1>6, <1>7, <3>4, <5>1 DEF MapsSound
      <4>2. CASE e = c /\ i = n + 1
        <5>1. pendingCommands'[e] = t /\ t[i] = k
          BY <3>1, <3>2, <3>5, <4>2
        <5>2. \A j \in 1..(n + 1) : t[j] = k => j = n + 1
          BY <3>2, <3>5
        <5>3. QED
          BY <1>6, <2>2, <3>2, <4>2, <5>1, <5>2
      <4>3. CASE e = c /\ i # n + 1
        <5>1. pendingCommands'[e] = t /\ i \in 1..n /\ t[i] = s[i]
          BY <3>1, <3>2, <3>4, <4>3
        <5>2. /\ s[i] \in Commands \ {k}
              /\ outcome[s[i]] = "waiting"
              /\ call[s[i]].conn = c
              /\ \A j \in 1..n : s[j] = s[i] => j = i
          BY <3>1, <3>2, <3>5, <5>1 DEF MapsSound
        <5>3. \A j \in 1..(n + 1) : t[j] = s[i] => j = i
          BY <3>2, <5>1, <5>2
        <5>4. QED
          BY <1>6, <3>2, <4>3, <5>1, <5>2, <5>3
      <4>4. QED
        BY <4>1, <4>2, <4>3
    <3>6. QED
      BY <3>3, <3>4 DEF MapsSound
  <2>3. QED
    BY <1>2, <2>1, <2>2 DEF CommandsTypeOK
<1>13. QED
  BY <1>3, <1>8, <1>9, <1>10, <1>11, <1>12

\* The sendCommand that throws.
LEMMA UnroutedKeepsInv ==
  ASSUME CommandsInv, NEW k \in Commands, NEW m \in Meters, SendCommandUnrouted(k, m)
  PROVE  CommandsInv'
<1> USE DEF CommandsInv
<1>1. /\ outcome[k] = "uncalled"
      /\ UNCHANGED <<vars, call, pendingCommands, timers, unsent, received, inStep>>
      /\ outcome' = [outcome EXCEPT ![k] = "failed"]
  BY DEF SendCommandUnrouted
<1>2. IInv' /\ KeepsMeters
  BY <1>1, SameRegistry
<1>3. CommandsTypeOK'
  BY <1>1, <1>2 DEF CommandsTypeOK, IInv, Outcome
<1>4. \A l \in Commands : outcome'[l] = "waiting" <=> outcome[l] = "waiting"
  BY <1>1 DEF CommandsTypeOK
<1>5. \A e \in ConnIds : \A i \in DOMAIN pendingCommands[e] : pendingCommands[e][i] \in Commands
  BY DEF CommandsTypeOK
<1>6. TimersExact' /\ TrafficIdentified'
  BY <1>1, <1>4 DEF TimersExact, TrafficIdentified, vars
<1>7. MapsSound'
  BY <1>1, <1>4, <1>5 DEF MapsSound
<1>8. WaitingOnOwnMeter'
  BY <1>1, <1>4 DEF WaitingOnOwnMeter, vars
<1>9. QED
  BY <1>2, <1>3, <1>6, <1>7, <1>8

\* The timer of a call.
LEMMA TimeoutKeepsInv ==
  ASSUME CommandsInv, NEW k \in Commands, CommandTimeout(k)
  PROVE  CommandsInv'
<1>1. /\ outcome[k] = "waiting"
      /\ Settle(k, "timeout")
      /\ inStep' = [inStep EXCEPT ![call[k].conn] = FALSE]
      /\ UNCHANGED <<vars, call, unsent, received>>
  BY DEF CommandTimeout, CommandsInv, TimersExact
<1>2. Underneath
  BY <1>1, SameRegistry
     DEF Underneath, CommandsInv, CommandsTypeOK, TrafficIdentified
<1>3. "timeout" \in Outcome \ {"waiting"}
  BY DEF Outcome
<1>4. QED
  BY <1>1, <1>2, <1>3, OneSettled

\* A queue of writes or requests without its oldest entry.
LEMMA QueueShrinks ==
  ASSUME NEW q \in [ConnIds -> Seq(Commands)], NEW c \in ConnIds, q[c] # <<>>
  PROVE  /\ Head(q[c]) \in Commands
         /\ [q EXCEPT ![c] = Tail(@)] \in [ConnIds -> Seq(Commands)]
         /\ \A d \in ConnIds : [q EXCEPT ![c] = Tail(@)][d] # <<>> => q[d] # <<>>
<1>1. q[c] \in Seq(Commands)
  OBVIOUS
<1>2. Head(q[c]) \in Commands /\ Tail(q[c]) \in Seq(Commands)
  BY <1>1, HeadTailProperties
<1>3. QED
  BY <1>2

\* The oldest write leaves the socket.
LEMMA WriteKeepsInv ==
  ASSUME CommandsInv, NEW c \in ConnIds, WriteDone(c) \/ WriteFailed(c)
  PROVE  CommandsInv'
<1> DEFINE rest == [unsent EXCEPT ![c] = Tail(@)]
<1>1. unsent[c] # <<>> /\ unsent' = rest /\ UNCHANGED <<vars, call, inStep>>
  BY DEF WriteDone, WriteFailed
<1>2. /\ unsent \in [ConnIds -> Seq(Commands)] /\ received \in [ConnIds -> Seq(Commands)]
      /\ inStep \in [ConnIds -> BOOLEAN]
      /\ IInv
  BY DEF CommandsInv, CommandsTypeOK
<1>3. /\ rest \in [ConnIds -> Seq(Commands)]
      /\ Head(unsent[c]) \in Commands
      /\ \A d \in ConnIds : rest[d] # <<>> => unsent[d] # <<>>
  BY <1>1, <1>2, QueueShrinks
<1> HIDE DEF rest
<1>4. IInv' /\ KeepsMeters
  BY <1>1, <1>2, SameRegistry
<1>5. CASE WriteDone(c)
  <2>1. /\ received' = [received EXCEPT ![c] = Append(@, Head(unsent[c]))]
        /\ SettleNothing
    BY <1>5 DEF WriteDone, SettleNothing
  <2>2. received' \in [ConnIds -> Seq(Commands)]
    <3>1. Append(received[c], Head(unsent[c])) \in Seq(Commands)
      BY <1>2, <1>3
    <3>2. QED
      BY <1>2, <2>1, <3>1
  <2>3. \A d \in ConnIds : unsent'[d] # <<>> \/ received'[d] # <<>> =>
          unsent[d] # <<>> \/ received[d] # <<>>
    BY <1>1, <1>2, <1>3, <2>1
  <2>4. Underneath
    BY <1>1, <1>2, <1>3, <1>4, <2>2, <2>3 DEF Underneath, CommandsInv, TrafficIdentified
  <2>5. QED
    BY <2>1, <2>4, NothingSettled
<1>6. CASE WriteFailed(c)
  <2>1. /\ UNCHANGED received
        /\ \/ outcome[Head(unsent[c])] = "waiting" /\ Settle(Head(unsent[c]), "failed")
           \/ SettleNothing
    BY <1>6 DEF WriteFailed
  <2>2. \A d \in ConnIds : unsent'[d] # <<>> \/ received'[d] # <<>> =>
          unsent[d] # <<>> \/ received[d] # <<>>
    BY <1>1, <1>2, <1>3, <2>1
  <2>3. Underneath
    BY <1>1, <1>2, <1>3, <1>4, <2>1, <2>2 DEF Underneath, CommandsInv, TrafficIdentified
  <2>4. "failed" \in Outcome \ {"waiting"}
    BY DEF Outcome
  <2>5. QED
    BY <1>3, <2>1, <2>3, <2>4, NothingSettled, OneSettled
<1>7. QED
  BY <1>5, <1>6

\* A frame from the meter, or none: at most the call it names or the oldest is settled.
LEMMA AnswerKeepsInv ==
  ASSUME CommandsInv, NEW c \in ConnIds,
         SuccessResponse(c) \/ ErrorResponse(c) \/ UnusableResponse(c) \/ NoResponse(c)
  PROVE  CommandsInv'
<1> DEFINE rest == [received EXCEPT ![c] = Tail(@)]
<1>1. /\ received[c] # <<>> /\ received' = rest /\ UNCHANGED <<call, unsent>>
      /\ HandleFrame(c, meterId[c]) \/ UNCHANGED vars
      /\ inStep' = inStep \/ inStep' = [inStep EXCEPT ![c] = FALSE]
  BY DEF SuccessResponse, ErrorResponse, UnusableResponse, NoResponse, Answered
<1>2. /\ unsent \in [ConnIds -> Seq(Commands)] /\ received \in [ConnIds -> Seq(Commands)]
      /\ inStep \in [ConnIds -> BOOLEAN]
      /\ pendingCommands \in [ConnIds -> Seq(Commands)]
      /\ IInv
  BY DEF CommandsInv, CommandsTypeOK
<1>3. /\ rest \in [ConnIds -> Seq(Commands)]
      /\ \A d \in ConnIds : rest[d] # <<>> => received[d] # <<>>
  BY <1>1, <1>2, QueueShrinks
<1> HIDE DEF rest
<1>4. IInv' /\ KeepsMeters
  <2>1. meterId[c] \in Meters
    BY <1>1 DEF CommandsInv, TrafficIdentified, IInv, TypeOK
  <2>2. CASE HandleFrame(c, meterId[c])
    BY <1>2, <2>1, <2>2, HandlersKeepMeters
  <2>3. CASE UNCHANGED vars
    BY <1>2, <2>3, SameRegistry
  <2>4. QED
    BY <1>1, <2>2, <2>3
<1>5. inStep' \in [ConnIds -> BOOLEAN]
  BY <1>1, <1>2
<1>6. \A d \in ConnIds : unsent'[d] # <<>> \/ received'[d] # <<>> =>
        unsent[d] # <<>> \/ received[d] # <<>>
  BY <1>1, <1>3
<1>7. Underneath
  BY <1>1, <1>2, <1>3, <1>4, <1>5, <1>6 DEF Underneath, CommandsInv, TrafficIdentified
<1>8. \/ \E i \in DOMAIN pendingCommands[c] :
           \E r \in {"resolved", "rejected"} : Settle(pendingCommands[c][i], r)
      \/ SettleNothing
  <2>1. CASE SuccessResponse(c)
    BY <2>1 DEF SuccessResponse, ResolvePendingCommand
  <2>2. CASE ErrorResponse(c)
    <3>1. CASE pendingCommands[c] # <<>>
      <4>1. 1 \in DOMAIN pendingCommands[c] /\ Head(pendingCommands[c]) = pendingCommands[c][1]
        BY <1>2, <3>1
      <4>2. QED
        BY <2>2, <3>1, <4>1 DEF ErrorResponse, RejectPendingCommand
    <3>2. QED
      BY <2>2, <3>1 DEF ErrorResponse, RejectPendingCommand
  <2>3. QED
    BY <2>1, <2>2 DEF UnusableResponse, NoResponse
<1>9. \A i \in DOMAIN pendingCommands[c] :
        pendingCommands[c][i] \in Commands /\ outcome[pendingCommands[c][i]] = "waiting"
  BY <1>2 DEF CommandsInv, MapsSound
<1>10. {"resolved", "rejected"} \subseteq Outcome \ {"waiting"}
  BY DEF Outcome
<1>11. QED
  BY <1>7, <1>8, <1>9, <1>10, NothingSettled, OneSettled

\* The handlers that touch no command, and closeConnection.
LEMMA RegistryStepKeepsInv ==
  ASSUME CommandsInv, NEW c \in ConnIds, ConnectionStep(c) \/ CloseConnection(c)
  PROVE  CommandsInv'
<1>1. UNCHANGED commandVars
  BY DEF ConnectionStep, CloseConnection
<1>2. IInv' /\ KeepsMeters
  <2>1. CASE ConnectionStep(c)
    BY <2>1, HandlersKeepMeters DEF ConnectionStep, CommandsInv
  <2>2. CASE CloseConnection(c)
    <3>1. /\ CloseConnections({c})
          /\ UNCHANGED <<meterId, meterToConnection, lastActivity, writing, isRunning, awaited>>
      BY <2>2 DEF CloseConnection
    <3>2. IInv'
      BY <3>1, CloseIInv DEF CommandsInv, IInv, TypeOK
    <3>3. KeepsMeters
      BY <3>1 DEF KeepsMeters, CloseConnections, Closeable, CommandsInv, IInv, TypeOK
    <3>4. QED
      BY <3>2, <3>3
  <2>3. QED
    BY <2>1, <2>2
<1>3. Underneath /\ SettleNothing
  BY <1>1, <1>2
     DEF commandVars, Underneath, SettleNothing, CommandsInv, CommandsTypeOK, TrafficIdentified
<1>4. QED
  BY <1>3, NothingSettled

\* The 'close' event: every call of the connection is settled, no other.
LEMMA CloseKeepsInv ==
  ASSUME CommandsInv, NEW c \in ConnIds, HandleCloseRejecting(c)
  PROVE  CommandsInv'
<1> DEFINE gone == ToSet(pendingCommands[c])
<1> USE DEF CommandsInv
<1>1. /\ HandleClose(c)
      /\ outcome' = [k \in Commands |-> IF k \in gone THEN "closed" ELSE outcome[k]]
      /\ timers' = timers \ gone
      /\ pendingCommands' = [pendingCommands EXCEPT ![c] = <<>>]
      /\ unsent' = [unsent EXCEPT ![c] = <<>>]
      /\ received' = [received EXCEPT ![c] = <<>>]
      /\ inStep' = [inStep EXCEPT ![c] = TRUE]
      /\ UNCHANGED call
  BY DEF HandleCloseRejecting, CancelPendingCommands
<1>2. IInv'
  BY <1>1, NextIInv DEF Next
<1>3. \A d \in ConnIds \ {c} : state'[d] = state[d] /\ meterId'[d] = meterId[d]
  BY <1>1 DEF HandleClose, IInv, TypeOK
<1>4. \A k \in Commands : k \in gone <=> outcome[k] = "waiting" /\ call[k].conn = c
  BY DEF ToSet, MapsSound
<1> HIDE DEF gone
<1>5. CommandsTypeOK'
  <2>1. <<>> \in Seq(Commands)
    OBVIOUS
  <2>2. outcome' \in [Commands -> Outcome]
    BY <1>1 DEF CommandsTypeOK, Outcome
  <2>3. QED
    BY <1>1, <1>2, <2>1, <2>2 DEF CommandsTypeOK, IInv
<1>6. \A k \in Commands : outcome'[k] = "waiting" <=> outcome[k] = "waiting" /\ call[k].conn # c
  BY <1>1, <1>4
<1>7. TimersExact'
  BY <1>1, <1>4, <1>6 DEF TimersExact
<1>8. \A d \in ConnIds : pendingCommands'[d] = IF d = c THEN <<>> ELSE pendingCommands[d]
  BY <1>1 DEF CommandsTypeOK
<1>9. \A d \in ConnIds : \A i \in DOMAIN pendingCommands[d] : pendingCommands[d][i] \in Commands
  BY DEF CommandsTypeOK
<1>10. MapsSound'
  <2>1. DOMAIN <<>> = {}
    OBVIOUS
  <2>2. QED
    BY <1>1, <1>6, <1>8, <1>9, <2>1 DEF MapsSound
<1>11. TrafficIdentified'
  BY <1>1, <1>3 DEF TrafficIdentified, CommandsTypeOK
<1>12. WaitingOnOwnMeter'
  BY <1>1, <1>3, <1>6 DEF WaitingOnOwnMeter, MapsSound
<1>13. QED
  BY <1>2, <1>5, <1>7, <1>10, <1>11, <1>12

--------------------------------------------------------------------------------
(* Theorems.                                                               *)

\* The invariant holds before any call.
LEMMA CommandsInitInv == CommandsInit => CommandsInv
<1> SUFFICES ASSUME CommandsInit PROVE CommandsInv
  OBVIOUS
<1>1. IInv
  BY InitIInv DEF CommandsInit
<1>2. NoCall \in [meter : Meters \cup {NoMeter}, conn : ConnIds \cup {NoConn}, dataId : DataIds]
  BY DataIdsAssumption DEF NoCall
<1>3. <<>> \in Seq(Commands) /\ DOMAIN <<>> = {}
  OBVIOUS
<1>4. CommandsTypeOK
  BY <1>1, <1>2, <1>3 DEF CommandsInit, CommandsTypeOK, IInv, Outcome
<1>5. TimersExact /\ TrafficIdentified /\ WaitingOnOwnMeter
  BY DEF CommandsInit, TimersExact, TrafficIdentified, WaitingOnOwnMeter
<1>6. MapsSound
  BY <1>3 DEF CommandsInit, MapsSound
<1>7. QED
  BY <1>1, <1>4, <1>5, <1>6 DEF CommandsInv

\* Every step preserves it.
LEMMA CommandsNextInv == CommandsInv /\ [CommandsNext]_allVars => CommandsInv'
<1> SUFFICES ASSUME CommandsInv, [CommandsNext]_allVars PROVE CommandsInv'
  OBVIOUS
<1>1. ASSUME NEW k \in Commands, NEW m \in Meters,
             (\E d \in DataIds : SendCommand(k, m, d)) \/ SendCommandUnrouted(k, m)
      PROVE  CommandsInv'
  BY <1>1, SendKeepsInv, UnroutedKeepsInv
<1>2. ASSUME NEW k \in Commands, CommandTimeout(k) PROVE CommandsInv'
  BY <1>2, TimeoutKeepsInv
<1>3. ASSUME NEW c \in ConnIds, ConnectionStep(c) \/ CloseConnection(c) PROVE CommandsInv'
  BY <1>3, RegistryStepKeepsInv
<1>4. ASSUME NEW c \in ConnIds, HandleCloseRejecting(c) PROVE CommandsInv'
  BY <1>4, CloseKeepsInv
<1>5. ASSUME NEW c \in ConnIds, WriteDone(c) \/ WriteFailed(c) PROVE CommandsInv'
  BY <1>5, WriteKeepsInv
<1>6. ASSUME NEW c \in ConnIds,
             SuccessResponse(c) \/ ErrorResponse(c) \/ UnusableResponse(c) \/ NoResponse(c)
      PROVE  CommandsInv'
  BY <1>6, AnswerKeepsInv
<1>7. CASE UNCHANGED allVars
  <2>1. UNCHANGED vars /\ UNCHANGED commandVars
    BY <1>7 DEF allVars
  <2>2. Underneath /\ SettleNothing
    BY <2>1, SameRegistry
       DEF commandVars, Underneath, SettleNothing, CommandsInv, CommandsTypeOK,
           TrafficIdentified
  <2>3. QED
    BY <2>2, NothingSettled
<1>8. QED
  BY <1>1, <1>2, <1>3, <1>4, <1>5, <1>6, <1>7 DEF CommandsNext

\* The books of the pending calls agree with each other and with the registry in every
\* state, whichever way and in whichever order calls are settled.
THEOREM CommandsInvariance == CommandsSpec => []CommandsInv
<1>1. CommandsInit => CommandsInv
  BY CommandsInitInv
<1>2. CommandsInv /\ [CommandsNext]_allVars => CommandsInv'
  BY CommandsNextInv
<1>3. QED
  BY <1>1, <1>2, PTL DEF CommandsSpec

\* A waiting call has one entry in one Map and one timer; a settled one has neither.
THEOREM PendingAlwaysConsistent == CommandsSpec => []PendingConsistent
<1>1. CommandsInv => PendingConsistent
  <2> SUFFICES ASSUME CommandsInv PROVE PendingConsistent
    OBVIOUS
  <2> USE DEF CommandsInv
  <2>1. ASSUME NEW k \in Commands, NEW c \in ConnIds
        PROVE  Cardinality(Entries(c, k)) =
                 IF outcome[k] = "waiting" /\ call[k].conn = c THEN 1 ELSE 0
    <3>1. CASE outcome[k] = "waiting" /\ call[k].conn = c
      <4>1. PICK i \in DOMAIN pendingCommands[c] : pendingCommands[c][i] = k
        BY <3>1 DEF MapsSound
      <4>2. Entries(c, k) = {i}
        BY <4>1 DEF Entries, MapsSound
      <4>3. QED
        BY <3>1, <4>2, FS_Singleton
    <3>2. CASE ~(outcome[k] = "waiting" /\ call[k].conn = c)
      <4>1. Entries(c, k) = {}
        BY <3>2 DEF Entries, MapsSound
      <4>2. QED
        BY <3>2, <4>1, FS_EmptySet
    <3>3. QED
      BY <3>1, <3>2
  <2>2. QED
    BY <2>1 DEF PendingConsistent, TimersExact
<1>2. QED
  BY <1>1, CommandsInvariance, PTL

\* No call ever waits on another meter's connection, or on a closed one.
THEOREM WaitingAlwaysOnOwnMeter == CommandsSpec => []WaitingOnOwnMeter
BY CommandsInvariance, PTL DEF CommandsInv

--------------------------------------------------------------------------------
(* Answers in step.                                                        *)

\* What the meter of a connection has yet to answer (r), and behind it what it has yet
\* to be sent (u), are the oldest calls of the Map (p), in its order.
Follows(p, r, u) ==
  /\ Len(r) + Len(u) <= Len(p)
  /\ \A i \in 1..Len(r) : r[i] = p[i]
  /\ \A i \in 1..Len(u) : u[i] = p[Len(r) + i]

\* A sequence with one element more.
LEMMA Appended ==
  ASSUME NEW S, NEW s \in Seq(S), NEW k \in S
  PROVE  /\ Append(s, k) \in Seq(S)
         /\ Len(s) \in Nat /\ Len(Append(s, k)) = Len(s) + 1
         /\ DOMAIN s = 1..Len(s) /\ DOMAIN Append(s, k) = 1..(Len(s) + 1)
         /\ \A i \in 1..Len(s) : Append(s, k)[i] = s[i]
         /\ Append(s, k)[Len(s) + 1] = k
<1>1. Len(s) \in Nat /\ DOMAIN s = 1..Len(s)
  BY LenProperties
<1>2. /\ Append(s, k) \in Seq(S) /\ Len(Append(s, k)) = Len(s) + 1
      /\ \A i \in 1..Len(s) : Append(s, k)[i] = s[i]
      /\ Append(s, k)[Len(s) + 1] = k
  BY AppendProperties
<1>3. DOMAIN Append(s, k) = 1..(Len(s) + 1)
  BY <1>2, LenProperties
<1>4. QED
  BY <1>1, <1>2, <1>3

\* A call that is refused stands behind what was sent.
LEMMA FollowsRefused ==
  ASSUME NEW S, NEW p \in Seq(S), NEW r \in Seq(S), NEW u \in Seq(S), NEW k \in S,
         Follows(p, r, u)
  PROVE  Follows(Append(p, k), r, u)
<1> DEFINE q == Append(p, k)
<1>1. /\ Len(p) \in Nat /\ Len(r) \in Nat /\ Len(u) \in Nat /\ Len(q) = Len(p) + 1
      /\ \A i \in 1..Len(p) : q[i] = p[i]
  BY Appended, LenProperties
<1>2. /\ Len(r) + Len(u) <= Len(p)
      /\ \A i \in 1..Len(r) : r[i] = p[i]
      /\ \A i \in 1..Len(u) : u[i] = p[Len(r) + i]
  BY DEF Follows
<1> HIDE DEF q
<1>3. /\ \A i \in 1..Len(r) : i \in 1..Len(p)
      /\ \A i \in 1..Len(u) : Len(r) + i \in 1..Len(p)
  BY <1>1, <1>2
<1>4. Follows(q, r, u)
  BY <1>1, <1>2, <1>3 DEF Follows
<1>5. QED
  BY <1>4 DEF q

\* A call that is sent when all others were stands behind them in both places.
LEMMA FollowsSent ==
  ASSUME NEW S, NEW p \in Seq(S), NEW r \in Seq(S), NEW u \in Seq(S), NEW k \in S,
         Follows(p, r, u), Len(p) = Len(r) + Len(u)
  PROVE  /\ Follows(Append(p, k), r, Append(u, k))
         /\ Len(Append(p, k)) = Len(r) + Len(Append(u, k))
<1> DEFINE q == Append(p, k)
           v == Append(u, k)
<1>1. /\ Len(p) \in Nat /\ Len(q) = Len(p) + 1
      /\ \A i \in 1..Len(p) : q[i] = p[i]
      /\ q[Len(p) + 1] = k
  BY Appended
<1>2. /\ Len(u) \in Nat /\ Len(v) = Len(u) + 1
      /\ \A i \in 1..Len(u) : v[i] = u[i]
      /\ v[Len(u) + 1] = k
  BY Appended
<1>3. /\ Len(p) = Len(r) + Len(u) /\ Len(r) \in Nat
      /\ \A i \in 1..Len(r) : r[i] = p[i]
      /\ \A i \in 1..Len(u) : u[i] = p[Len(r) + i]
  BY LenProperties DEF Follows
<1> HIDE DEF q, v
<1>4. ASSUME NEW i \in 1..Len(r) PROVE r[i] = q[i]
  <2>1. i \in 1..Len(p)
    BY <1>2, <1>3
  <2>2. QED
    BY <1>1, <1>3, <2>1
<1>5. ASSUME NEW i \in 1..Len(v) PROVE v[i] = q[Len(r) + i]
  <2>1. CASE i = Len(u) + 1
    <3>1. Len(r) + i = Len(p) + 1
      BY <1>2, <1>3, <2>1
    <3>2. QED
      BY <1>1, <1>2, <2>1, <3>1
  <2>2. CASE i # Len(u) + 1
    <3>1. i \in 1..Len(u) /\ Len(r) + i \in 1..Len(p)
      BY <1>2, <1>3, <2>2
    <3>2. QED
      BY <1>1, <1>2, <1>3, <3>1
  <2>3. QED
    BY <2>1, <2>2
<1>6. Len(q) = Len(r) + Len(v) /\ Len(r) + Len(v) \in Nat
  BY <1>1, <1>2, <1>3
<1>7. Follows(q, r, v)
  BY <1>4, <1>5, <1>6 DEF Follows
<1>8. QED
  BY <1>6, <1>7 DEF q, v

\* Only calls refused by a closing connection stay behind without having been sent, and
\* none is sent after them.
Aligned(c) ==
  inStep[c] /\ Readable(c) =>
    /\ Follows(pendingCommands[c], received[c], unsent[c])
    /\ socket[c] = "open" => Len(pendingCommands[c]) = Len(received[c]) + Len(unsent[c])

\* A write belongs to a call that was made on its connection.
WritesOwned ==
  \A c \in ConnIds : \A i \in DOMAIN unsent[c] :
    outcome[unsent[c][i]] # "uncalled" /\ call[unsent[c][i]].conn = c

StepInv ==
  /\ CommandsInv
  /\ WritesOwned
  /\ \A c \in ConnIds : Aligned(c)

\* A connection on which nothing happened, but that it may have gone down.
LEMMA AlignedKept ==
  ASSUME NEW c \in ConnIds, Aligned(c),
         pendingCommands'[c] = pendingCommands[c], received'[c] = received[c],
         unsent'[c] = unsent[c], inStep'[c] => inStep[c],
         Readable(c)' => Readable(c), socket'[c] = "open" => socket[c] = "open"
  PROVE  Aligned(c)'
BY DEF Aligned

\* Sockets only go down, except for the one of a new connection.
SocketsFall(c) == (Readable(c)' => Readable(c)) /\ (socket'[c] = "open" => socket[c] = "open")

\* A socket only goes from open to its end.
LEMMA HandlersLowerSockets ==
  ASSUME IInv, NEW c \in ConnIds, NEW d \in ConnIds,
         \/ UNCHANGED vars
         \/ HandleData(c) \/ EndCallback(c) \/ PeerClose(c) \/ CloseConnection(c)
         \/ HandleClose(c)
         \/ \E m \in Meters : HandleRouterHeartbeat(c, m) \/ HandleFrame(c, m)
  PROVE  SocketsFall(d)
<1> USE DEF IInv, TypeOK, SocketsFall, Readable
<1>1. CASE UNCHANGED vars
  BY <1>1 DEF vars
<1>2. CASE HandleData(c) \/ EndCallback(c) \/ PeerClose(c) \/ HandleClose(c)
  BY <1>2 DEF HandleData, MarkActive, EndCallback, PeerClose, DestroySocket, HandleClose
<1>3. CASE CloseConnection(c)
  BY <1>3 DEF CloseConnection, CloseConnections, HalfClosed
<1>4. ASSUME NEW m \in Meters, HandleRouterHeartbeat(c, m) \/ HandleFrame(c, m)
      PROVE  SocketsFall(d)
  BY <1>4 DEF HandleRouterHeartbeat, HandleFrame, MarkActive, IdentifyConnection, HalfClosed
<1>5. QED
  BY <1>1, <1>2, <1>3, <1>4

\* Calls that were made stay made.
LEMMA OwnedKept ==
  ASSUME CommandsTypeOK, WritesOwned, UNCHANGED call,
         \A k \in Commands : outcome[k] # "uncalled" => outcome'[k] # "uncalled",
         \A c \in ConnIds : \A i \in DOMAIN unsent'[c] :
           \E j \in DOMAIN unsent[c] : unsent[c][j] = unsent'[c][i]
  PROVE  WritesOwned'
<1>1. ASSUME NEW c \in ConnIds, NEW i \in DOMAIN unsent'[c]
      PROVE  outcome'[unsent'[c][i]] # "uncalled" /\ call'[unsent'[c][i]].conn = c
  <2>1. PICK j \in DOMAIN unsent[c] : unsent[c][j] = unsent'[c][i]
    BY <1>1
  <2>2. unsent[c][j] \in Commands
    BY <2>1 DEF CommandsTypeOK
  <2>3. QED
    BY <2>1, <2>2 DEF WritesOwned
<1>2. QED
  BY <1>1 DEF WritesOwned

\* Settling a call touches the Map of its own connection only.
LEMMA SettleElsewhere ==
  ASSUME CommandsInv, NEW k \in Commands, NEW result \in Outcome \ {"waiting", "uncalled"},
         Settle(k, result)
  PROVE  /\ \A d \in ConnIds : d # call[k].conn => pendingCommands'[d] = pendingCommands[d]
         /\ \A l \in Commands : l # k => outcome'[l] = outcome[l]
         /\ \A l \in Commands : outcome[l] # "uncalled" => outcome'[l] # "uncalled"
BY DEF CommandsInv, CommandsTypeOK, Settle

\* sendCommand: a call that is sent stands behind all others, in the Map and on the wire.
LEMMA SendAligned ==
  ASSUME StepInv, NEW k \in Commands, NEW m \in Meters, NEW d \in DataIds,
         SendCommand(k, m, d)
  PROVE  WritesOwned' /\ \A c \in ConnIds : Aligned(c)'
<1> DEFINE c == meterToConnection[m]
           p == pendingCommands[c]
           r == received[c]
           u == unsent[c]
<1> USE DEF StepInv
<1>1. /\ outcome[k] = "uncalled" /\ c \in ConnIds /\ k \in Commands
      /\ UNCHANGED <<vars, received, inStep>>
      /\ call' = [call EXCEPT ![k] = [meter |-> m, conn |-> c, dataId |-> d]]
      /\ outcome' = [outcome EXCEPT ![k] = "waiting"] \/ outcome' = [outcome EXCEPT ![k] = "failed"]
      /\ \/ UNCHANGED <<pendingCommands, unsent>>
         \/ /\ state[c] = "disconnecting"
            /\ pendingCommands' = [pendingCommands EXCEPT ![c] = Append(p, k)]
            /\ UNCHANGED unsent
         \/ /\ socket[c] = "open"
            /\ pendingCommands' = [pendingCommands EXCEPT ![c] = Append(p, k)]
            /\ unsent' = [unsent EXCEPT ![c] = Append(u, k)]
  BY DEF SendCommand, CommandsInv, IInv, TypeOK
<1>2. p \in Seq(Commands) /\ r \in Seq(Commands) /\ u \in Seq(Commands)
  BY <1>1 DEF CommandsInv, CommandsTypeOK
<1>3. /\ Append(u, k) \in Seq(Commands)
      /\ DOMAIN Append(u, k) = 1..(Len(u) + 1) /\ DOMAIN u = 1..Len(u) /\ Len(u) \in Nat
      /\ \A i \in 1..Len(u) : Append(u, k)[i] = u[i]
      /\ Append(u, k)[Len(u) + 1] = k
  BY <1>1, <1>2, Appended
<1>4. WritesOwned'
  <2>1. ASSUME NEW e \in ConnIds, NEW i \in DOMAIN unsent[e]
        PROVE  /\ unsent[e][i] \in Commands \ {k}
               /\ outcome'[unsent[e][i]] # "uncalled" /\ call'[unsent[e][i]].conn = e
    BY <1>1 DEF WritesOwned, CommandsInv, CommandsTypeOK
  <2>2. CASE UNCHANGED unsent
    BY <2>1, <2>2 DEF WritesOwned
  <2>3. CASE unsent' = [unsent EXCEPT ![c] = Append(u, k)]
    <3>1. outcome'[k] # "uncalled" /\ call'[k].conn = c
      BY <1>1 DEF CommandsInv, CommandsTypeOK
    <3>2. \A e \in ConnIds : unsent'[e] = IF e = c THEN Append(u, k) ELSE unsent[e]
      BY <1>1, <2>3 DEF CommandsInv, CommandsTypeOK
    <3>4. ASSUME NEW i \in DOMAIN Append(u, k)
          PROVE  Append(u, k)[i] = k \/ (i \in DOMAIN u /\ Append(u, k)[i] = u[i])
      BY <1>3
    <3>5. ASSUME NEW i \in DOMAIN Append(u, k)
          PROVE  outcome'[Append(u, k)[i]] # "uncalled" /\ call'[Append(u, k)[i]].conn = c
      BY <1>1, <2>1, <3>1, <3>4
    <3> DEFINE v == Append(u, k)
    <3>6. /\ \A i \in DOMAIN v : outcome'[v[i]] # "uncalled" /\ call'[v[i]].conn = c
          /\ \A e \in ConnIds : unsent'[e] = IF e = c THEN v ELSE unsent[e]
      BY <3>2, <3>5
    <3> HIDE DEF v, c
    <3>7. QED
      BY <2>1, <3>6 DEF WritesOwned
  <2>4. QED
    BY <1>1, <2>2, <2>3
<1>5. ASSUME NEW e \in ConnIds PROVE Aligned(e)'
  <2>1. Aligned(e) /\ Readable(e)' = Readable(e) /\ socket'[e] = socket[e] /\ inStep'[e] = inStep[e]
    BY <1>1 DEF Readable, vars
  <2>2. CASE e # c \/ UNCHANGED <<pendingCommands, unsent>>
    BY <1>1, <2>1, <2>2, AlignedKept DEF CommandsInv, CommandsTypeOK
  <2>3. CASE e = c /\ pendingCommands' = [pendingCommands EXCEPT ![c] = Append(p, k)]
    <3>1. /\ pendingCommands'[e] = Append(p, k) /\ received'[e] = r
          /\ pendingCommands[e] = p /\ received[e] = r /\ unsent[e] = u
      BY <1>1, <2>3 DEF CommandsInv, CommandsTypeOK
    <3>2. CASE state[c] = "disconnecting" /\ UNCHANGED unsent
      <4>1. socket'[e] # "open" /\ unsent'[e] = u
        BY <2>1, <2>3, <3>2 DEF CommandsInv, IInv, ClosingSocketShut
      <4>2. Follows(p, r, u) => Follows(Append(p, k), r, u)
        BY <1>1, <1>2, FollowsRefused
      <4> HIDE DEF p, r, u, c
      <4>3. QED
        BY <2>1, <3>1, <4>1, <4>2 DEF Aligned
    <3>3. CASE socket[c] = "open" /\ unsent' = [unsent EXCEPT ![c] = Append(u, k)]
      <4>1. unsent'[e] = Append(u, k)
        BY <1>1, <2>3, <3>3 DEF CommandsInv, CommandsTypeOK
      <4>2. Follows(p, r, u) /\ Len(p) = Len(r) + Len(u) =>
              /\ Follows(Append(p, k), r, Append(u, k))
              /\ Len(Append(p, k)) = Len(r) + Len(Append(u, k))
        <5> HIDE DEF p, r, u
        <5> SUFFICES ASSUME Follows(p, r, u), Len(p) = Len(r) + Len(u)
                     PROVE  /\ Follows(Append(p, k), r, Append(u, k))
                            /\ Len(Append(p, k)) = Len(r) + Len(Append(u, k))
          OBVIOUS
        <5>1. QED
          BY <1>2, FollowsSent
      <4> HIDE DEF p, r, u, c
      <4>3. QED
        BY <2>1, <2>3, <3>1, <3>3, <4>1, <4>2 DEF Aligned
    <3>4. CASE UNCHANGED <<pendingCommands, unsent>>
      BY <2>2, <3>4
    <3>5. QED
      BY <1>1, <3>2, <3>3, <3>4
  <2>4. QED
    BY <1>1, <2>2, <2>3
<1>6. QED
  BY <1>4, <1>5

\* The timer of a call takes its connection out of step.
LEMMA TimeoutAligned ==
  ASSUME StepInv, NEW k \in Commands, CommandTimeout(k)
  PROVE  WritesOwned' /\ \A c \in ConnIds : Aligned(c)'
<1> USE DEF StepInv
<1>1. /\ outcome[k] = "waiting" /\ Settle(k, "timeout")
      /\ inStep' = [inStep EXCEPT ![call[k].conn] = FALSE]
      /\ UNCHANGED <<vars, call, unsent, received>>
  BY DEF CommandTimeout, CommandsInv, TimersExact
<1>2. /\ \A d \in ConnIds : d # call[k].conn => pendingCommands'[d] = pendingCommands[d]
      /\ \A l \in Commands : outcome[l] # "uncalled" => outcome'[l] # "uncalled"
  BY <1>1, SettleElsewhere DEF Outcome
<1>3. WritesOwned'
  BY <1>1, <1>2, OwnedKept DEF CommandsInv
<1>4. ASSUME NEW c \in ConnIds PROVE Aligned(c)'
  <2>1. CASE c = call[k].conn
    BY <1>1, <2>1 DEF Aligned, CommandsInv, CommandsTypeOK
  <2>2. CASE c # call[k].conn
    BY <1>1, <1>2, <2>2, AlignedKept DEF CommandsInv, CommandsTypeOK, Readable, vars
  <2>3. QED
    BY <2>1, <2>2
<1>5. QED
  BY <1>3, <1>4

\* The queues without their oldest entries: the write that reaches the meter goes from
\* one to the other, the request that is answered leaves the Map as well.
LEMMA FollowsWritten ==
  ASSUME NEW S, NEW p \in Seq(S), NEW r \in Seq(S), NEW u \in Seq(S), u # <<>>,
         Follows(p, r, u)
  PROVE  /\ Follows(p, Append(r, Head(u)), Tail(u))
         /\ Len(r) + Len(u) = Len(Append(r, Head(u))) + Len(Tail(u))
<1> DEFINE k == Head(u)
           t == Append(r, k)
           v == Tail(u)
<1>1. /\ k \in S /\ k = u[1] /\ Len(v) = Len(u) - 1 /\ Len(u) \in Nat /\ Len(u) # 0
      /\ \A i \in 1..Len(v) : v[i] = u[i + 1]
  BY HeadTailProperties, LenProperties
<1>2. /\ Len(r) \in Nat /\ Len(t) = Len(r) + 1
      /\ \A i \in 1..Len(r) : t[i] = r[i]
      /\ t[Len(r) + 1] = k
  BY <1>1, Appended
<1>3. /\ Len(p) \in Nat /\ Len(r) + Len(u) <= Len(p)
      /\ \A i \in 1..Len(r) : r[i] = p[i]
      /\ \A i \in 1..Len(u) : u[i] = p[Len(r) + i]
  BY LenProperties DEF Follows
<1> HIDE DEF k, t, v
<1>4. ASSUME NEW i \in 1..Len(t) PROVE t[i] = p[i]
  <2>1. CASE i = Len(r) + 1
    <3>1. 1 \in 1..Len(u)
      BY <1>1
    <3>2. QED
      BY <1>1, <1>2, <1>3, <2>1, <3>1
  <2>2. CASE i # Len(r) + 1
    <3>1. i \in 1..Len(r)
      BY <1>2, <2>2
    <3>2. QED
      BY <1>2, <1>3, <3>1
  <2>3. QED
    BY <2>1, <2>2
<1>5. ASSUME NEW i \in 1..Len(v) PROVE v[i] = p[Len(t) + i]
  <2>1. i + 1 \in 1..Len(u) /\ Len(r) + (i + 1) = Len(t) + i
    BY <1>1, <1>2
  <2>2. QED
    BY <1>1, <1>3, <2>1
<1>6. Len(r) + Len(u) = Len(t) + Len(v)
  BY <1>1, <1>2
<1>7. Follows(p, t, v)
  BY <1>3, <1>4, <1>5, <1>6 DEF Follows
<1>8. QED
  BY <1>6, <1>7, Zenon DEF k, t, v

\* What follows in step still does when the oldest request is answered.
LEMMA FollowsAnswered ==
  ASSUME NEW S, NEW p \in Seq(S), NEW r \in Seq(S), NEW u \in Seq(S), r # <<>>,
         Follows(p, r, u), NoRepeat(p)
  PROVE  /\ p # <<>> /\ Head(p) = Head(r) /\ 1 \in DOMAIN p
         /\ Follows(RemoveFirst(p, Head(r)), Tail(r), u)
         /\ Len(RemoveFirst(p, Head(r))) = Len(p) - 1 /\ Len(Tail(r)) = Len(r) - 1
<1> DEFINE k == Head(r)
           t == Tail(r)
           q == RemoveFirst(p, k)
<1>1. /\ k = r[1] /\ Len(t) = Len(r) - 1 /\ Len(r) \in Nat /\ Len(r) # 0
      /\ \A i \in 1..Len(t) : t[i] = r[i + 1]
  BY HeadTailProperties, LenProperties
<1>2. /\ Len(p) \in Nat /\ Len(u) \in Nat /\ Len(r) + Len(u) <= Len(p)
      /\ DOMAIN p = 1..Len(p)
      /\ \A i \in 1..Len(r) : r[i] = p[i]
      /\ \A i \in 1..Len(u) : u[i] = p[Len(r) + i]
  BY LenProperties DEF Follows
<1>3. 1 \in 1..Len(p) /\ 1 \in 1..Len(r)
  BY <1>1, <1>2
<1>4. p[1] = k
  BY <1>1, <1>2, <1>3
<1>5. \A j \in 1..Len(p) : p[j] = k => j = 1
  BY <1>3, <1>4 DEF NoRepeat
<1>6. /\ Len(q) = Len(p) - 1
      /\ \A j \in 1..(Len(p) - 1) : q[j] = p[IF j < 1 THEN j ELSE j + 1]
  <2> HIDE DEF k
  <2>1. PICK i \in 1..Len(p) : i = 1
    BY <1>3
  <2>2. p[i] = k /\ \A j \in 1..Len(p) : p[j] = k => j = i
    BY <1>4, <1>5, <2>1
  <2>3. /\ Len(RemoveFirst(p, k)) = Len(p) - 1
        /\ \A j \in 1..(Len(p) - 1) : RemoveFirst(p, k)[j] = p[IF j < i THEN j ELSE j + 1]
    BY <2>2, RemoveFirstEntry
  <2>4. QED
    BY <2>1, <2>3
<1>7. p # <<>> /\ Head(p) = p[1]
  <2>1. Len(p) # 0
    BY <1>2, <1>3
  <2>2. p # <<>>
    BY <2>1, EmptySeq
  <2>3. QED
    BY <2>2, HeadTailProperties
<1> HIDE DEF k, t, q
<1>8. \A j \in 1..(Len(p) - 1) : q[j] = p[j + 1]
  BY <1>2, <1>6
<1>9. ASSUME NEW i \in 1..Len(t) PROVE t[i] = q[i]
  <2>1. i + 1 \in 1..Len(r) /\ i \in 1..(Len(p) - 1)
    BY <1>1, <1>2
  <2>2. QED
    BY <1>1, <1>2, <1>8, <2>1
<1>10. ASSUME NEW i \in 1..Len(u) PROVE u[i] = q[Len(t) + i]
  <2>1. Len(t) + i \in 1..(Len(p) - 1) /\ (Len(t) + i) + 1 = Len(r) + i
    BY <1>1, <1>2
  <2>2. QED
    BY <1>2, <1>8, <2>1
<1>11. Len(t) + Len(u) <= Len(q)
  BY <1>1, <1>2, <1>6
<1>12. Follows(q, t, u)
  BY <1>9, <1>10, <1>11 DEF Follows
<1>13. /\ p # <<>> /\ Head(p) = k /\ 1 \in DOMAIN p
       /\ Len(q) = Len(p) - 1 /\ Len(t) = Len(r) - 1
  BY <1>1, <1>2, <1>3, <1>4, <1>6, <1>7
<1>14. QED
  BY <1>12, <1>13, Zenon DEF k, t, q

\* The oldest write reaches the meter, or fails with its socket.
LEMMA WriteAligned ==
  ASSUME StepInv, NEW c \in ConnIds, WriteDone(c) \/ WriteFailed(c)
  PROVE  WritesOwned' /\ \A d \in ConnIds : Aligned(d)'
<1> DEFINE k == Head(unsent[c])
<1> USE DEF StepInv
<1>1. /\ unsent \in [ConnIds -> Seq(Commands)] /\ received \in [ConnIds -> Seq(Commands)]
      /\ pendingCommands \in [ConnIds -> Seq(Commands)]
  BY DEF CommandsInv, CommandsTypeOK
<1>2. /\ unsent[c] # <<>> /\ unsent' = [unsent EXCEPT ![c] = Tail(@)]
      /\ UNCHANGED <<vars, call, inStep>>
  BY DEF WriteDone, WriteFailed
<1>3. /\ k \in Commands /\ k = unsent[c][1] /\ 1 \in DOMAIN unsent[c]
      /\ Tail(unsent[c]) \in Seq(Commands)
      /\ \A i \in DOMAIN Tail(unsent[c]) :
           i + 1 \in DOMAIN unsent[c] /\ unsent[c][i + 1] = Tail(unsent[c])[i]
  <2> DEFINE u == unsent[c]
  <2>1. u \in Seq(Commands) /\ u # <<>>
    BY <1>1, <1>2
  <2> HIDE DEF u
  <2>2. /\ Head(u) \in Commands /\ Head(u) = u[1] /\ Tail(u) \in Seq(Commands)
        /\ Len(Tail(u)) = Len(u) - 1 /\ Len(u) \in Nat /\ Len(u) # 0
        /\ DOMAIN u = 1..Len(u) /\ DOMAIN Tail(u) = 1..Len(Tail(u))
        /\ \A i \in 1..Len(Tail(u)) : Tail(u)[i] = u[i + 1]
    BY <2>1, HeadTailProperties, LenProperties
  <2>3. QED
    BY <2>2 DEF u
<1>4. call[k].conn = c /\ outcome[k] # "uncalled"
  BY <1>3 DEF WritesOwned
<1> HIDE DEF k
<1>5. /\ \A d \in ConnIds : d # c => pendingCommands'[d] = pendingCommands[d]
      /\ \A l \in Commands : outcome[l] # "uncalled" => outcome'[l] # "uncalled"
  <2>1. SettleNothing \/ Settle(k, "failed")
    BY DEF WriteDone, WriteFailed, SettleNothing, k
  <2>2. "failed" \in Outcome \ {"waiting", "uncalled"}
    BY DEF Outcome
  <2>3. QED
    BY <1>3, <1>4, <2>1, <2>2, SettleElsewhere DEF SettleNothing
<1>6. WritesOwned'
  <2>1. ASSUME NEW d \in ConnIds, NEW i \in DOMAIN unsent'[d]
        PROVE  \E j \in DOMAIN unsent[d] : unsent[d][j] = unsent'[d][i]
    BY <1>1, <1>2, <1>3, <2>1
  <2>2. QED
    BY <1>2, <1>5, <2>1, OwnedKept DEF CommandsInv
<1>7. ASSUME NEW d \in ConnIds, d # c PROVE Aligned(d)'
  <2>1. received'[d] = received[d]
    BY <1>1, <1>7 DEF WriteDone, WriteFailed
  <2>2. QED
    BY <1>1, <1>2, <1>5, <1>7, <2>1, AlignedKept DEF Readable, vars
<1>8. CASE WriteFailed(c)
  <2>1. ~Readable(c)'
    BY <1>2, <1>8 DEF WriteFailed, Readable, vars
  <2>2. QED
    BY <1>6, <1>7, <2>1 DEF Aligned
<1>9. CASE WriteDone(c)
  <2> DEFINE p == pendingCommands[c]
             r == received[c]
             u == unsent[c]
  <2>1. p \in Seq(Commands) /\ r \in Seq(Commands) /\ u \in Seq(Commands) /\ u # <<>>
    BY <1>1, <1>2
  <2>2. /\ pendingCommands'[c] = p /\ received'[c] = Append(r, Head(u))
        /\ unsent'[c] = Tail(u) /\ inStep' = inStep /\ socket' = socket
    BY <1>1, <1>2, <1>9 DEF WriteDone, vars
  <2>3. Aligned(c)
    OBVIOUS
  <2>4. Follows(p, r, u) =>
          /\ Follows(p, Append(r, Head(u)), Tail(u))
          /\ Len(r) + Len(u) = Len(Append(r, Head(u))) + Len(Tail(u))
    <3> HIDE DEF p, r, u
    <3> SUFFICES ASSUME Follows(p, r, u)
                 PROVE  /\ Follows(p, Append(r, Head(u)), Tail(u))
                        /\ Len(r) + Len(u) = Len(Append(r, Head(u))) + Len(Tail(u))
      OBVIOUS
    <3>1. QED
      BY <2>1, FollowsWritten
  <2>5. Aligned(c)'
    BY <2>2, <2>3, <2>4 DEF Aligned, Readable
  <2>6. QED
    BY <1>6, <1>7, <2>5
<1>10. QED
  BY <1>8, <1>9

\* In step, the response settles the call it answers, and the queues stay aligned.
LEMMA AnswerSettlesOldest ==
  ASSUME StepInv, NEW c \in ConnIds, inStep[c], SuccessResponse(c) \/ ErrorResponse(c)
  PROVE  /\ \E result \in {"resolved", "rejected"} : Settle(Head(received[c]), result)
         /\ Head(received[c]) \in Commands /\ call[Head(received[c])].conn = c
         /\ Aligned(c)'
<1> DEFINE p == pendingCommands[c]
           r == received[c]
           u == unsent[c]
           k == Head(r)
           q == RemoveFirst(p, k)
<1> USE DEF StepInv
<1>1. /\ p \in Seq(Commands) /\ r \in Seq(Commands) /\ u \in Seq(Commands) /\ r # <<>>
      /\ pendingCommands \in [ConnIds -> Seq(Commands)]
      /\ received \in [ConnIds -> Seq(Commands)]
  BY DEF CommandsInv, CommandsTypeOK, SuccessResponse, ErrorResponse, Answered
<1>2. /\ HandleFrame(c, meterId[c]) /\ received' = [received EXCEPT ![c] = Tail(r)]
      /\ unsent' = unsent /\ inStep' = inStep
  BY DEF SuccessResponse, ErrorResponse, Answered
<1>3. Readable(c) /\ meterId[c] \in Meters
  BY <1>1, <1>2 DEF HandleFrame, Receive, CommandsInv, TrafficIdentified, IInv, TypeOK
<1>4. /\ Follows(p, r, u)
      /\ socket[c] = "open" => Len(p) = Len(r) + Len(u)
  BY <1>3 DEF Aligned
<1>5. NoRepeat(p)
  <2>1. DOMAIN p = 1..Len(p)
    BY <1>1
  <2>2. QED
    BY <2>1 DEF NoRepeat, CommandsInv, MapsSound
<1>6. /\ p # <<>> /\ Head(p) = k /\ 1 \in DOMAIN p
      /\ Follows(q, Tail(r), u)
      /\ Len(q) = Len(p) - 1 /\ Len(Tail(r)) = Len(r) - 1
  <2> HIDE DEF p, r, u
  <2>1. QED
    BY <1>1, <1>4, <1>5, FollowsAnswered
<1>7. p[1] = k /\ k \in Commands
  BY <1>1, <1>6, HeadTailProperties
<1>8. call[k].conn = c
  BY <1>6, <1>7 DEF CommandsInv, MapsSound
<1>9. \E result \in {"resolved", "rejected"} : Settle(k, result)
  <2>1. CASE ErrorResponse(c)
    BY <1>6, <2>1 DEF ErrorResponse, RejectPendingCommand
  <2>2. CASE SuccessResponse(c)
    <3> DEFINE matching == {i \in DOMAIN p : call[p[i]].dataId = call[k].dataId}
    <3>1. 1 \in matching /\ \A i \in matching : i \in 1..Len(p)
      BY <1>1, <1>6, <1>7
    <3>2. \E i \in matching : (\A j \in matching : i <= j) /\ Settle(p[i], "resolved")
      BY <2>2, <3>1 DEF SuccessResponse, ResolvePendingCommand
    <3> HIDE DEF matching
    <3>3. PICK i \in matching : (\A j \in matching : i <= j) /\ Settle(p[i], "resolved")
      BY <3>2
    <3>4. i = 1
      <4>1. i <= 1 /\ i \in 1..Len(p) /\ Len(p) \in Nat
        BY <1>1, <3>1, <3>3
      <4>2. QED
        BY <4>1
    <3>5. QED
      BY <1>7, <3>3, <3>4
  <2>3. QED
    BY <2>1, <2>2
<1>10. pendingCommands'[c] = q /\ received'[c] = Tail(r) /\ unsent'[c] = u
  BY <1>1, <1>2, <1>8, <1>9 DEF Settle
<1>11. socket'[c] = "open" => socket[c] = "open"
  BY <1>2, <1>3, HandlersLowerSockets DEF SocketsFall, CommandsInv
<1>12. Aligned(c)'
  <2>1. Len(p) \in Nat /\ Len(r) \in Nat /\ Len(u) \in Nat
    BY <1>1
  <2> HIDE DEF p, r, u, q
  <2>2. socket'[c] = "open" => Len(q) = Len(Tail(r)) + Len(u)
    <3>1. socket[c] = "open" => Len(p) = Len(r) + Len(u)
      BY <1>4
    <3>2. Len(q) = Len(p) - 1 /\ Len(Tail(r)) = Len(r) - 1
      BY <1>6
    <3>3. Len(p) = Len(r) + Len(u) => Len(q) = Len(Tail(r)) + Len(u)
      BY <2>1, <3>2
    <3>4. QED
      BY <1>11, <3>1, <3>3
  <2>3. QED
    BY <1>6, <1>10, <2>2 DEF Aligned
<1>13. QED
  BY <1>7, <1>8, <1>9, <1>12

\* A frame from the meter, or none.
LEMMA AnswerAligned ==
  ASSUME StepInv, NEW c \in ConnIds,
         SuccessResponse(c) \/ ErrorResponse(c) \/ UnusableResponse(c) \/ NoResponse(c)
  PROVE  WritesOwned' /\ \A d \in ConnIds : Aligned(d)'
<1> USE DEF StepInv
<1>1. /\ received' = [received EXCEPT ![c] = Tail(@)] /\ UNCHANGED <<call, unsent>>
      /\ received[c] # <<>>
      /\ HandleFrame(c, meterId[c]) \/ UNCHANGED vars
      /\ \/ inStep' = [inStep EXCEPT ![c] = FALSE] /\ SettleNothing
         \/ inStep' = inStep /\ (SuccessResponse(c) \/ ErrorResponse(c))
  BY DEF SuccessResponse, ErrorResponse, UnusableResponse, NoResponse, Answered
<1>2. /\ received \in [ConnIds -> Seq(Commands)] /\ inStep \in [ConnIds -> BOOLEAN]
      /\ pendingCommands \in [ConnIds -> Seq(Commands)]
  BY DEF CommandsInv, CommandsTypeOK
<1>3. /\ \A d \in ConnIds : d # c => pendingCommands'[d] = pendingCommands[d]
      /\ \A l \in Commands : outcome[l] # "uncalled" => outcome'[l] # "uncalled"
  <2>1. CASE SettleNothing
    BY <2>1 DEF SettleNothing
  <2>2. CASE SuccessResponse(c) \/ ErrorResponse(c)
    <3>1. \/ \E i \in DOMAIN pendingCommands[c], result \in {"resolved", "rejected"} :
               Settle(pendingCommands[c][i], result)
          \/ SettleNothing
      <4>1. pendingCommands[c] # <<>> =>
              1 \in DOMAIN pendingCommands[c] /\ Head(pendingCommands[c]) = pendingCommands[c][1]
        BY <1>2
      <4>2. QED
        BY <2>2, <4>1 DEF SuccessResponse, ErrorResponse, ResolvePendingCommand,
                          RejectPendingCommand
    <3>2. \A i \in DOMAIN pendingCommands[c] :
            pendingCommands[c][i] \in Commands /\ call[pendingCommands[c][i]].conn = c
      BY <1>2 DEF CommandsInv, MapsSound
    <3>3. {"resolved", "rejected"} \subseteq Outcome \ {"waiting", "uncalled"}
      BY DEF Outcome
    <3>4. QED
      BY <2>1, <3>1, <3>2, <3>3, SettleElsewhere
  <2>3. QED
    BY <1>1, <2>1, <2>2
<1>4. WritesOwned'
  BY <1>1, <1>3, OwnedKept DEF CommandsInv
<1>5. ASSUME NEW d \in ConnIds, d # c PROVE Aligned(d)'
  <2>1. SocketsFall(d)
    <3>1. meterId[c] \in Meters
      BY <1>1, <1>2 DEF CommandsInv, TrafficIdentified, IInv, TypeOK
    <3>2. QED
      BY <1>1, <3>1, HandlersLowerSockets DEF CommandsInv
  <2>2. received'[d] = received[d] /\ inStep'[d] = inStep[d]
    BY <1>1, <1>2, <1>5
  <2>3. QED
    BY <1>1, <1>3, <1>5, <2>1, <2>2, AlignedKept DEF SocketsFall
<1>6. Aligned(c)'
  <2>1. CASE inStep'[c]
    <3>1. inStep[c] /\ (SuccessResponse(c) \/ ErrorResponse(c))
      BY <1>1, <1>2, <2>1
    <3>2. QED
      BY <3>1, AnswerSettlesOldest
  <2>2. CASE ~inStep'[c]
    BY <2>2 DEF Aligned
  <2>3. QED
    BY <2>1, <2>2
<1>7. QED
  BY <1>4, <1>5, <1>6

\* The handlers that touch no command, and closeConnection; a new connection is blank.
LEMMA RegistryStepAligned ==
  ASSUME StepInv, NEW c \in ConnIds, ConnectionStep(c) \/ CloseConnection(c)
  PROVE  WritesOwned' /\ \A d \in ConnIds : Aligned(d)'
<1> USE DEF StepInv
<1>1. UNCHANGED <<outcome, call, pendingCommands, timers, unsent, received, inStep>>
  BY DEF ConnectionStep, CloseConnection, commandVars
<1>2. WritesOwned'
  BY <1>1 DEF WritesOwned
<1>3. CASE RegisterConnection(c)
  <2>1. /\ state[c] = "absent"
        /\ \A d \in ConnIds : d # c => socket'[d] = socket[d]
    BY <1>3 DEF RegisterConnection, CommandsInv, IInv, TypeOK
  <2>2. unsent[c] = <<>> /\ received[c] = <<>>
    BY <2>1 DEF CommandsInv, TrafficIdentified
  <2>3. pendingCommands[c] = <<>>
    <3>1. pendingCommands[c] \in Seq(Commands)
      BY DEF CommandsInv, CommandsTypeOK
    <3>2. \A i \in DOMAIN pendingCommands[c] : FALSE
      BY <2>1, <3>1 DEF CommandsInv, MapsSound, WaitingOnOwnMeter
    <3>3. 1 \notin 1..Len(pendingCommands[c]) /\ Len(pendingCommands[c]) \in Nat
      BY <3>1, <3>2, LenProperties
    <3>4. QED
      BY <3>1, <3>3, EmptySeq
  <2>4. Aligned(c)'
    <3>1. Len(<<>>) = 0 /\ Follows(<<>>, <<>>, <<>>)
      BY DEF Follows
    <3>2. QED
      BY <1>1, <2>2, <2>3, <3>1 DEF Aligned
  <2>5. ASSUME NEW d \in ConnIds, d # c PROVE Aligned(d)'
    BY <1>1, <2>1, <2>5, AlignedKept DEF Readable
  <2>6. QED
    BY <1>2, <2>4, <2>5
<1>4. CASE ~RegisterConnection(c)
  <2>1. ASSUME NEW d \in ConnIds PROVE Aligned(d)'
    <3>1. SocketsFall(d)
      BY <1>4, HandlersLowerSockets DEF ConnectionStep, CommandsInv
    <3>2. QED
      BY <1>1, <3>1, AlignedKept DEF SocketsFall
  <2>2. QED
    BY <1>2, <2>1
<1>5. QED
  BY <1>3, <1>4

\* The 'close' event: nothing is left on the connection, and it cannot be read.
LEMMA CloseAligned ==
  ASSUME StepInv, NEW c \in ConnIds, HandleCloseRejecting(c)
  PROVE  WritesOwned' /\ \A d \in ConnIds : Aligned(d)'
<1> USE DEF StepInv
<1>1. /\ HandleClose(c)
      /\ outcome' = [k \in Commands |-> IF k \in ToSet(pendingCommands[c]) THEN "closed"
                                        ELSE outcome[k]]
      /\ pendingCommands' = [pendingCommands EXCEPT ![c] = <<>>]
      /\ unsent' = [unsent EXCEPT ![c] = <<>>]
      /\ received' = [received EXCEPT ![c] = <<>>]
      /\ inStep' = [inStep EXCEPT ![c] = TRUE]
      /\ UNCHANGED call
  BY DEF HandleCloseRejecting, CancelPendingCommands
<1>2. /\ {pendingCommands, unsent, received} \subseteq [ConnIds -> Seq(Commands)]
      /\ inStep \in [ConnIds -> BOOLEAN]
  BY DEF CommandsInv, CommandsTypeOK
<1>3. WritesOwned'
  <2>1. DOMAIN <<>> = {}
    OBVIOUS
  <2>2. \A d \in ConnIds : \A i \in DOMAIN unsent'[d] :
          \E j \in DOMAIN unsent[d] : unsent[d][j] = unsent'[d][i]
    BY <1>1, <1>2, <2>1
  <2>3. \A k \in Commands : outcome[k] # "uncalled" => outcome'[k] # "uncalled"
    BY <1>1
  <2>4. QED
    BY <1>1, <2>2, <2>3, OwnedKept DEF CommandsInv
<1>4. ASSUME NEW d \in ConnIds PROVE Aligned(d)'
  <2>1. CASE d = c
    <3>1. ~Readable(c)'
      BY <1>1 DEF HandleClose, Readable, CommandsInv, IInv, TypeOK
    <3>2. QED
      BY <2>1, <3>1 DEF Aligned
  <2>2. CASE d # c
    <3>1. SocketsFall(d)
      BY <1>1, HandlersLowerSockets DEF CommandsInv
    <3>2. QED
      BY <1>1, <1>2, <2>2, <3>1, AlignedKept DEF SocketsFall
  <2>3. QED
    BY <2>1, <2>2
<1>5. QED
  BY <1>3, <1>4

\* A call without a route, and a step that leaves everything alone.
LEMMA UnroutedAligned ==
  ASSUME StepInv, (\E k \in Commands, m \in Meters : SendCommandUnrouted(k, m)) \/ UNCHANGED allVars
  PROVE  WritesOwned' /\ \A d \in ConnIds : Aligned(d)'
<1> USE DEF StepInv
<1>1. /\ UNCHANGED <<vars, call, pendingCommands, unsent, received, inStep>>
      /\ \A k \in Commands : outcome[k] # "uncalled" => outcome'[k] # "uncalled"
  BY DEF SendCommandUnrouted, allVars, commandVars, CommandsInv, CommandsTypeOK
<1>2. WritesOwned'
  BY <1>1, OwnedKept DEF CommandsInv
<1>3. ASSUME NEW d \in ConnIds PROVE Aligned(d)'
  BY <1>1, AlignedKept DEF vars, Readable
<1>4. QED
  BY <1>2, <1>3

\* Nothing is on its way before any call.
LEMMA StepInitInv == CommandsInit => StepInv
<1> SUFFICES ASSUME CommandsInit PROVE StepInv
  OBVIOUS
<1>1. WritesOwned
  BY DEF CommandsInit, WritesOwned
<1>2. \A c \in ConnIds : Aligned(c)
  <2>1. Len(<<>>) = 0 /\ Follows(<<>>, <<>>, <<>>)
    BY DEF Follows
  <2>2. QED
    BY <2>1 DEF CommandsInit, Aligned
<1>3. QED
  BY <1>1, <1>2, CommandsInitInv DEF StepInv

\* Every step keeps answers and calls in step.
LEMMA StepNextInv == StepInv /\ [CommandsNext]_allVars => StepInv'
<1> SUFFICES ASSUME StepInv, [CommandsNext]_allVars PROVE StepInv'
  OBVIOUS
<1>1. CommandsInv'
  BY CommandsNextInv DEF StepInv
<1> DEFINE Kept == WritesOwned' /\ \A c \in ConnIds : Aligned(c)'
<1>2. Kept
  <2>1. ASSUME NEW k \in Commands, NEW m \in Meters,
               (\E d \in DataIds : SendCommand(k, m, d)) \/ SendCommandUnrouted(k, m)
        PROVE  Kept
    BY <2>1, SendAligned, UnroutedAligned
  <2>2. ASSUME NEW k \in Commands, CommandTimeout(k)
        PROVE  Kept
    BY <2>2, TimeoutAligned
  <2>3. ASSUME NEW c \in ConnIds,
               ConnectionStep(c) \/ CloseConnection(c) \/ HandleCloseRejecting(c)
        PROVE  Kept
    BY <2>3, RegistryStepAligned, CloseAligned
  <2>4. ASSUME NEW c \in ConnIds,
               \/ WriteDone(c) \/ WriteFailed(c)
               \/ SuccessResponse(c) \/ ErrorResponse(c) \/ UnusableResponse(c) \/ NoResponse(c)
        PROVE  Kept
    BY <2>4, WriteAligned, AnswerAligned
  <2>5. CASE UNCHANGED allVars
    BY <2>5, UnroutedAligned
  <2> HIDE DEF Kept
  <2>6. QED
    BY <2>1, <2>2, <2>3, <2>4, <2>5 DEF CommandsNext
<1>3. QED
  BY <1>1, <1>2 DEF StepInv

\* A queue is not its own tail.
LEMMA TailDiffers ==
  ASSUME NEW S, NEW s \in Seq(S), s # <<>>, NEW k \in S
  PROVE  Tail(s) # s /\ Tail(s) # Append(s, k)
<1>1. Len(Tail(s)) = Len(s) - 1 /\ Len(s) \in Nat /\ Len(Append(s, k)) = Len(s) + 1
  BY HeadTailProperties, LenProperties, AppendProperties
<1>2. Len(Tail(s)) # Len(s) /\ Len(Tail(s)) # Len(Append(s, k))
  <2> DEFINE l == Len(s)
             m == Len(Tail(s))
             n == Len(Append(s, k))
  <2>1. m = l - 1 /\ l \in Nat /\ n = l + 1
    BY <1>1
  <2> HIDE DEF l, m, n
  <2>2. m # l /\ m # n
    BY <2>1
  <2>3. QED
    BY <2>2 DEF l, m, n
<1>3. QED
  BY <1>2

\* A request leaves the queue of a connection that stays only when its meter answers it.
LEMMA OnlyAnswersAnswer ==
  ASSUME StepInv, [CommandsNext]_allVars, NEW c \in ConnIds, received[c] # <<>>,
         state'[c] # "absent", received'[c] = Tail(received[c])
  PROVE  SuccessResponse(c) \/ ErrorResponse(c) \/ UnusableResponse(c) \/ NoResponse(c)
<1>1. received \in [ConnIds -> Seq(Commands)] /\ unsent \in [ConnIds -> Seq(Commands)]
  BY DEF StepInv, CommandsInv, CommandsTypeOK
<1>2. received'[c] # received[c]
  <2>1. received[c] \in Seq(Commands) /\ \E k \in Commands : TRUE
    BY <1>1, HeadTailProperties
  <2>2. QED
    BY <2>1, TailDiffers
<1>3. received' # received
  BY <1>2
<1>4. PICK d \in ConnIds :
        \/ HandleCloseRejecting(d) \/ WriteDone(d)
        \/ SuccessResponse(d) \/ ErrorResponse(d) \/ UnusableResponse(d) \/ NoResponse(d)
  BY <1>3 DEF CommandsNext, SendCommand, SendCommandUnrouted, CommandTimeout, ConnectionStep,
              CloseConnection, WriteFailed, allVars, commandVars
<1>5. \E s : received' = [received EXCEPT ![d] = s]
  BY <1>4 DEF HandleCloseRejecting, WriteDone, SuccessResponse, ErrorResponse,
              UnusableResponse, NoResponse, Answered
<1>6. d = c
  BY <1>1, <1>2, <1>5
<1>7. ~HandleCloseRejecting(c)
  BY DEF HandleCloseRejecting, HandleClose, StepInv, CommandsInv, IInv, TypeOK
<1>8. ~WriteDone(c)
  <2> SUFFICES ASSUME WriteDone(c) PROVE FALSE
    OBVIOUS
  <2>1. /\ unsent[c] # <<>> /\ unsent[c] \in Seq(Commands) /\ received[c] \in Seq(Commands)
        /\ received'[c] = Append(received[c], Head(unsent[c]))
    BY <1>1 DEF WriteDone
  <2>2. Head(unsent[c]) \in Commands
    BY <2>1, HeadTailProperties
  <2>3. QED
    BY <2>1, <2>2, TailDiffers
<1>9. QED
  BY <1>4, <1>6, <1>7, <1>8

\* While a meter keeps in step, its responses settle the calls they answer and no other,
\* however many calls are pending and whatever they ask.
THEOREM AnswersAlwaysInStep == CommandsSpec => AnswersInStep
<1>1. CommandsInit => StepInv
  BY StepInitInv
<1>2. StepInv /\ [CommandsNext]_allVars => StepInv'
  BY StepNextInv
<1> DEFINE Settles ==
      \A c \in ConnIds :
        (/\ inStep[c] /\ received[c] # <<>>
         /\ state'[c] # "absent" /\ received'[c] = Tail(received[c]))
          => \A k \in Commands \ {Head(received[c])} : outcome'[k] = outcome[k]
<1>3. StepInv /\ [CommandsNext]_allVars => Settles
  <2> SUFFICES ASSUME StepInv, [CommandsNext]_allVars, NEW c \in ConnIds,
                      inStep[c], received[c] # <<>>,
                      state'[c] # "absent", received'[c] = Tail(received[c]),
                      NEW k \in Commands \ {Head(received[c])}
               PROVE  outcome'[k] = outcome[k]
    OBVIOUS
  <2>1. SuccessResponse(c) \/ ErrorResponse(c) \/ SettleNothing
    BY OnlyAnswersAnswer DEF UnusableResponse, NoResponse
  <2>2. CASE SuccessResponse(c) \/ ErrorResponse(c)
    <3>1. PICK result \in {"resolved", "rejected"} : Settle(Head(received[c]), result)
      BY <2>2, AnswerSettlesOldest
    <3>2. Head(received[c]) \in Commands
      BY <2>2, AnswerSettlesOldest
    <3>3. QED
      BY <3>1, <3>2 DEF Settle, StepInv, CommandsInv, CommandsTypeOK
  <2>3. CASE SettleNothing
    BY <2>3 DEF SettleNothing
  <2>4. QED
    BY <2>1, <2>2, <2>3
<1>4. QED
  BY <1>1, <1>2, <1>3, PTL DEF CommandsSpec, AnswersInStep

================================================================================
