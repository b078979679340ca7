---------------------------- MODULE Gateway_proofs ----------------------------
(***************************************************************************)
(* What Gateway promises of commands and of its own status, proved for any *)
(* number of messages, meters, ids, registers and signals.                 *)
(***************************************************************************)
EXTENDS Gateway, FiniteSetTheorems, TLAPS

Results == {"ok", "error", "invalid"}

\* A message without a result has no response, and without being sent no id.
Unanswered ==
    \A r \in Requests :
        /\ call[r].phase \in {"unsent", "dropped", "waiting"} => responses[r] = <<>>
        /\ call[r].phase = "unsent" => call[r].id = NONE
        /\ call[r].phase = "waiting" => call[r].result = NONE

\* Where a relay command waits, and that the state is read only once the meter has
\* confirmed the switching.
RelayWaits ==
    \A r \in Requests :
        call[r].method = "relay_control" /\ call[r].phase = "waiting" =>
            /\ call[r].left = 1
            /\ \/ call[r].via = "dlt645" /\ call[r].step = "request"
               \/ call[r].via = "ivy_dlms" /\ call[r].step \in {"associate", "request"}
               \/ call[r].via = "ivy_dlms" /\ call[r].step = "confirm" /\ call[r].heard = "answer"

HandlerInv ==
    /\ PendingIsLive
    /\ responses \in [Requests -> Seq(Results)]
    /\ Unanswered
    /\ OneResponse
    /\ RelayWaits
    /\ RelayHonest

\* What the publisher's stop leaves behind.
StatusInv ==
    /\ GatewayTypeOK
    /\ ~publisherRunning => gatewayStatus = "offline" /\ ~statusTimer

IInv == HandlerInv /\ StatusInv

USE DEF Results

------------------------------------------------------------------------------
(* The commands.                                                           *)

\* The handler starts with no pending command.
LEMMA InitHandlerInv == HandlerInit => HandlerInv
<1> SUFFICES ASSUME HandlerInit PROVE HandlerInv
  OBVIOUS
<1>1. NotSent \in Calls
  BY DEF NotSent, Calls
<1>2. HandlerTypeOK
  BY <1>1 DEF HandlerInit, HandlerTypeOK, PROTOCOLS
<1>3. InFlight = {}
  BY DEF HandlerInit, InFlight, NotSent
<1>4. Cardinality(InFlight) = 0
  BY <1>3, FS_EmptySet
<1>5. PendingIsLive
  BY <1>2, <1>3, <1>4 DEF HandlerInit, PendingIsLive, Executing
<1>6. QED
  BY <1>5 DEF HandlerInit, HandlerInv, Unanswered, OneResponse, RelayWaits, RelayHonest, NotSent

\* The messages in flight are finitely many.
LEMMA InFlightFinite ==
  ASSUME HandlerInv
  PROVE  IsFiniteSet(InFlight) /\ Cardinality(InFlight) \in Nat
BY RequestsAssumption, FS_Subset, FS_CardinalityType DEF InFlight

\* The accounting, where a message comes in flight, stays there, or has its end.
LEMMA Accounting ==
  ASSUME HandlerInv, NEW r \in Requests, NEW c \in Calls,
         call' = [call EXCEPT ![r] = c]
  PROVE  /\ r \notin InFlight /\ c.phase \in {"waiting", "replying"}
              => Cardinality(InFlight') = Cardinality(InFlight) + 1
         /\ r \in InFlight /\ c.phase \in {"waiting", "replying"} => InFlight' = InFlight
         /\ r \in InFlight /\ c.phase \notin {"waiting", "replying"}
              => Cardinality(InFlight') = Cardinality(InFlight) - 1
<1>0. call \in [Requests -> Calls]
  BY DEF HandlerInv, PendingIsLive, HandlerTypeOK
<1>1. \A q \in Requests : call'[q] = IF q = r THEN c ELSE call[q]
  BY <1>0
<1>2. ASSUME r \notin InFlight, c.phase \in {"waiting", "replying"}
      PROVE  InFlight' = InFlight \cup {r}
  BY <1>1, <1>2 DEF InFlight
<1>3. ASSUME r \in InFlight, c.phase \in {"waiting", "replying"}
      PROVE  InFlight' = InFlight
  BY <1>1, <1>3 DEF InFlight
<1>4. ASSUME r \in InFlight, c.phase \notin {"waiting", "replying"}
      PROVE  InFlight' = InFlight \ {r}
  BY <1>1, <1>4 DEF InFlight
<1>5. IsFiniteSet(InFlight) /\ Cardinality(InFlight) \in Nat
  BY InFlightFinite
<1>6. Cardinality(InFlight \cup {r})
        = IF r \in InFlight THEN Cardinality(InFlight) ELSE Cardinality(InFlight) + 1
  BY <1>5, FS_AddElement
<1>7. Cardinality(InFlight \ {r})
        = IF r \in InFlight THEN Cardinality(InFlight) - 1 ELSE Cardinality(InFlight)
  BY <1>5, FS_RemoveElement
<1>8. QED
  BY <1>2, <1>3, <1>4, <1>6, <1>7

\* A step that sets the call of one message, described by what it needs of it.
LEMMA CallStep ==
  ASSUME HandlerInv, NEW r \in Requests, NEW c \in Calls,
         call' = [call EXCEPT ![r] = c],
         UNCHANGED <<handlerRunning, publisherRunning, link>>
  PROVE  /\ call' \in [Requests -> Calls]
         /\ \A q \in Requests : call'[q] = IF q = r THEN c ELSE call[q]
BY DEF HandlerInv, PendingIsLive, HandlerTypeOK

\* The table, where the message keeps its id or had none.
LEMMA TableStep ==
  ASSUME HandlerInv, NEW r \in Requests, NEW c \in Calls,
         call' = [call EXCEPT ![r] = c],
         c.phase \in {"waiting", "replying"},
         c.id = call[r].id,
         r \in InFlight \/ c.id = NONE,
         UNCHANGED <<handlerRunning, pendingCommands>>
  PROVE  /\ \A id \in Ids : pendingCommands'[id] # NONE =>
               Executing(pendingCommands[id])' /\ call'[pendingCommands'[id]].id = id
         /\ \A q \in Requests :
               (/\ Executing(q)' /\ handlerRunning'
                /\ \A p \in Requests \ {q} : call'[p].id # call'[q].id)
               => pendingCommands'[call'[q].id] = q
<1>1. /\ call \in [Requests -> Calls]
      /\ pendingCommands \in [Ids -> Requests \cup {NONE}]
  BY DEF HandlerInv, PendingIsLive, HandlerTypeOK
<1>2. \A q \in Requests : call'[q] = IF q = r THEN c ELSE call[q]
  BY <1>1
<1>3. \A q \in Requests \ {r} : Executing(q)' <=> Executing(q)
  BY <1>2 DEF Executing, InFlight
<1>4. Executing(r)' <=> c.id \in Ids
  BY <1>2 DEF Executing, InFlight
<1>5. Executing(r) <=> r \in InFlight /\ call[r].id \in Ids
  BY DEF Executing
<1>6. NONE \notin Ids
  BY NoneAssumption
<1>7. ASSUME NEW id \in Ids, pendingCommands'[id] # NONE
      PROVE  Executing(pendingCommands[id])' /\ call'[pendingCommands'[id]].id = id
  BY <1>1, <1>2, <1>3, <1>4, <1>5, <1>6, <1>7 DEF HandlerInv, PendingIsLive
<1>8. ASSUME NEW q \in Requests, Executing(q)', handlerRunning',
             \A p \in Requests \ {q} : call'[p].id # call'[q].id
      PROVE  pendingCommands'[call'[q].id] = q
  BY <1>1, <1>2, <1>3, <1>4, <1>5, <1>6, <1>8 DEF HandlerInv, PendingIsLive
<1>9. QED
  BY <1>7, <1>8

\* A reply is the one response to its message.
LEMMA ReplyStep ==
  ASSUME HandlerInv, NEW r \in Requests, NEW c \in Calls, NEW result \in Results,
         responses[r] = <<>>,
         Reply(r, c, result),
         UNCHANGED publisherRunning,
         c.method = "relay_control" /\ result = "ok" =>
            c.heard = "answer" \/ (c.via = "dlt645" /\ c.heard = "timeout")
  PROVE  /\ responses' \in [Requests -> Seq(Results)]
         /\ Unanswered' /\ OneResponse' /\ RelayWaits' /\ RelayHonest'
<1> DEFINE d == [c EXCEPT !.phase = "replying", !.result = result, !.step = NONE, !.left = 0]
<1>1. call \in [Requests -> Calls] /\ responses \in [Requests -> Seq(Results)]
  BY DEF HandlerInv, PendingIsLive, HandlerTypeOK
<1>2. \A q \in Requests : call'[q] = IF q = r THEN d ELSE call[q]
  BY <1>1 DEF Reply
<1>3. /\ d.phase = "replying" /\ d.result = result /\ d.method = c.method
      /\ d.heard = c.heard /\ d.via = c.via
  BY DEF Calls
<1>4. responses' = IF publisherRunning THEN [responses EXCEPT ![r] = <<result>>]
                   ELSE responses
  <2>1. Append(<<>>, result) = <<result>>
    OBVIOUS
  <2>2. QED
    BY <1>1, <2>1 DEF Reply
<1> HIDE DEF d
<1>5. <<result>> \in Seq(Results) /\ Len(<<result>>) = 1 /\ <<result>> # <<>> /\ Len(<<>>) = 0
  OBVIOUS
<1>6. responses' \in [Requests -> Seq(Results)]
  BY <1>1, <1>4, <1>5
<1>7. \A q \in Requests \ {r} : responses'[q] = responses[q]
  BY <1>1, <1>4
<1>8. responses'[r] = IF publisherRunning THEN <<result>> ELSE <<>>
  BY <1>1, <1>4
<1>9. Unanswered'
  BY <1>2, <1>3, <1>7 DEF HandlerInv, Unanswered
<1>10. OneResponse'
  <2>1. ASSUME NEW q \in Requests \ {r}
        PROVE  call'[q] = call[q] /\ responses'[q] = responses[q]
    BY <1>2, <1>7
  <2>2. /\ Len(responses'[r]) <= 1 /\ call'[r] = d
        /\ publisherRunning => responses'[r] = <<result>>
    BY <1>2, <1>5, <1>8
  <2>3. QED
    BY <2>1, <2>2, <1>3, <1>5 DEF HandlerInv, OneResponse
<1>11. RelayWaits'
  BY <1>2, <1>3 DEF HandlerInv, RelayWaits
<1>12. RelayHonest'
  BY <1>2, <1>3 DEF HandlerInv, RelayHonest
<1>13. QED
  BY <1>6, <1>9, <1>10, <1>11, <1>12

\* A message that waits has no response yet.
LEMMA AwaitStep ==
  ASSUME HandlerInv, NEW r \in Requests, NEW c \in Calls,
         responses[r] = <<>>, c.result = NONE,
         Await(r, c),
         UNCHANGED publisherRunning,
         c.method = "relay_control" =>
            /\ c.left = 1
            /\ \/ c.via = "dlt645" /\ c.step = "request"
               \/ c.via = "ivy_dlms" /\ c.step \in {"associate", "request"}
               \/ c.via = "ivy_dlms" /\ c.step = "confirm" /\ c.heard = "answer"
  PROVE  /\ responses' \in [Requests -> Seq(Results)]
         /\ Unanswered' /\ OneResponse' /\ RelayWaits' /\ RelayHonest'
<1> DEFINE d == [c EXCEPT !.phase = "waiting"]
<1>1. call \in [Requests -> Calls] /\ responses \in [Requests -> Seq(Results)]
  BY DEF HandlerInv, PendingIsLive, HandlerTypeOK
<1>2. \A q \in Requests : call'[q] = IF q = r THEN d ELSE call[q]
  BY <1>1 DEF Await
<1>3. /\ d.phase = "waiting" /\ d.result = NONE /\ d.method = c.method
      /\ d.heard = c.heard /\ d.via = c.via /\ d.left = c.left /\ d.step = c.step
  BY DEF Calls
<1> HIDE DEF d
<1>4. responses' = responses /\ Len(<<>>) = 0
  BY DEF Await
<1>5. Unanswered'
  BY <1>2, <1>3, <1>4 DEF HandlerInv, Unanswered
<1>6. OneResponse'
  BY <1>2, <1>3, <1>4 DEF HandlerInv, OneResponse
<1>7. RelayWaits'
  BY <1>2, <1>3 DEF HandlerInv, RelayWaits
<1>8. RelayHonest'
  BY <1>2, <1>3, NoneAssumption DEF HandlerInv, RelayHonest
<1>9. QED
  BY <1>1, <1>4, <1>5, <1>6, <1>7, <1>8

------------------------------------------------------------------------------
(* The actions of the handler.                                             *)

\* The calls a reply and a wait leave are calls.
LEMMA RepliedCall ==
  ASSUME NEW c \in Calls, NEW result \in Results
  PROVE  LET d == [c EXCEPT !.phase = "replying", !.result = result, !.step = NONE, !.left = 0]
         IN  /\ d \in Calls /\ d.id = c.id /\ d.phase = "replying"
BY DEF Calls

\* A message that is refused or answered at once: counted as received, in flight.
LEMMA ReceivedAndReplied ==
  ASSUME HandlerInv, NEW r \in Requests, NEW m \in Meters, NEW result \in Results,
         Received(r), Reply(r, [NotSent EXCEPT !.meter = m], result),
         UNCHANGED pendingCommands
  PROVE  HandlerInv'
<1> DEFINE c == [NotSent EXCEPT !.meter = m]
           d == [c EXCEPT !.phase = "replying", !.result = result, !.step = NONE, !.left = 0]
<1>1. c \in Calls /\ d \in Calls
  <2>1. c \in Calls
    BY SMTT(40) DEF NotSent, Calls
  <2> HIDE DEF c
  <2>2. d \in Calls
    BY <2>1, RepliedCall
  <2>3. QED
    BY <2>1, <2>2
<1>2. /\ d.phase = "replying" /\ d.id = NONE /\ c.method = NONE
  BY DEF NotSent
<1>3. call' = [call EXCEPT ![r] = d]
  BY DEF Reply
<1> HIDE DEF d, c
<1>4. call[r].phase = "unsent" /\ call[r].id = NONE /\ responses[r] = <<>>
  BY DEF Received, HandlerInv, Unanswered
<1>5. r \notin InFlight
  BY <1>4 DEF InFlight
<1>6. UNCHANGED <<handlerRunning, publisherRunning, link>> /\ stats' = Count("received")
  BY DEF Received
<1>7. call' \in [Requests -> Calls]
  BY <1>1, <1>3, <1>6, CallStep
<1>8. Cardinality(InFlight') = Cardinality(InFlight) + 1
  BY <1>1, <1>2, <1>3, <1>5, Accounting
<1>9. /\ responses' \in [Requests -> Seq(Results)]
      /\ Unanswered' /\ OneResponse' /\ RelayWaits' /\ RelayHonest'
  <2>1. Reply(r, c, result)
    BY DEF c
  <2>2. c.method # "relay_control"
    BY <1>2, NoneAssumption DEF METHODS
  <2>3. QED
    BY <1>1, <1>4, <1>6, <2>1, <2>2, ReplyStep
<1>10. HandlerTypeOK' /\ stats'.received = stats'.executed + stats'.failed + stats'.invalid
                                          + Cardinality(InFlight')
  <2>1. HandlerTypeOK /\ stats.received = stats.executed + stats.failed + stats.invalid
                                         + Cardinality(InFlight)
    BY DEF HandlerInv, PendingIsLive
  <2>2. Cardinality(InFlight) \in Nat
    BY InFlightFinite
  <2>3. QED
    BY <1>6, <1>7, <1>8, <2>1, <2>2 DEF HandlerTypeOK, Count
<1>11. PendingIsLive'
  BY <1>1, <1>2, <1>3, <1>4, <1>6, <1>10, TableStep DEF PendingIsLive
<1>12. QED
  BY <1>9, <1>11 DEF HandlerInv

\* A message that is not JSON is never in flight.
LEMMA Malformed ==
  ASSUME HandlerInv, NEW r \in Requests, ReceiveMalformed(r)
  PROVE  HandlerInv'
<1> DEFINE c == [call[r] EXCEPT !.phase = "dropped"]
<1>1. call \in [Requests -> Calls]
  BY DEF HandlerInv, PendingIsLive, HandlerTypeOK
<1>2. c \in Calls /\ call' = [call EXCEPT ![r] = c]
  BY <1>1 DEF ReceiveMalformed, Calls
<1>3. /\ c.phase = "dropped" /\ c.id = call[r].id /\ c.method = call[r].method
      /\ c.via = call[r].via /\ c.heard = call[r].heard /\ c.result = call[r].result
  BY <1>1 DEF Calls
<1> HIDE DEF c
<1>4. call' \in [Requests -> Calls] /\ \A q \in Requests : call'[q] = IF q = r THEN c ELSE call[q]
  BY <1>1, <1>2
<1>5. call[r].phase = "unsent"
      /\ UNCHANGED <<handlerRunning, publisherRunning, link, pendingCommands, stats, responses>>
  BY DEF ReceiveMalformed
<1>6. InFlight' = InFlight
  BY <1>3, <1>4, <1>5 DEF InFlight
<1>7. \A q \in Requests : (Executing(q)' <=> Executing(q)) /\ call'[q].id = call[q].id
  BY <1>3, <1>4, <1>6 DEF Executing
<1>8. HandlerTypeOK'
  BY <1>4, <1>5 DEF HandlerInv, PendingIsLive, HandlerTypeOK
<1>9. PendingIsLive'
  <2>1. \A id \in Ids : pendingCommands[id] # NONE => pendingCommands[id] \in Requests
    BY DEF HandlerInv, PendingIsLive, HandlerTypeOK
  <2>2. QED
    BY <1>5, <1>6, <1>7, <1>8, <2>1 DEF HandlerInv, PendingIsLive
<1>10. Unanswered' /\ OneResponse' /\ RelayWaits' /\ RelayHonest'
       /\ responses' \in [Requests -> Seq(Results)]
  <2>1. responses' \in [Requests -> Seq(Results)]
    BY <1>5 DEF HandlerInv
  <2>2. Unanswered'
    BY <1>3, <1>4, <1>5 DEF HandlerInv, Unanswered
  <2>3. OneResponse'
    BY <1>3, <1>4, <1>5 DEF HandlerInv, OneResponse
  <2>4. RelayWaits'
    BY <1>3, <1>4 DEF HandlerInv, RelayWaits
  <2>5. RelayHonest'
    BY <1>3, <1>4 DEF HandlerInv, RelayHonest
  <2>6. QED
    BY <2>1, <2>2, <2>3, <2>4, <2>5
<1>11. QED
  BY <1>9, <1>10 DEF HandlerInv

\* What is left of a command's first steps: its message has an id, the table names it.
LEMMA Registered ==
  ASSUME HandlerInv, NEW r \in Requests, NEW id \in Ids, NEW d \in Calls,
         Received(r), call' = [call EXCEPT ![r] = d], d.id = id,
         d.phase \in {"waiting", "replying"},
         pendingCommands' = [pendingCommands EXCEPT ![id] = r]
  PROVE  PendingIsLive'
<1>1. call \in [Requests -> Calls] /\ pendingCommands \in [Ids -> Requests \cup {NONE}]
  BY DEF HandlerInv, PendingIsLive, HandlerTypeOK
<1>2. \A q \in Requests : call'[q] = IF q = r THEN d ELSE call[q]
  BY <1>1
<1>3. \A i \in Ids : pendingCommands'[i] = IF i = id THEN r ELSE pendingCommands[i]
  BY <1>1
<1>4. call[r].phase = "unsent" /\ call[r].id = NONE /\ NONE \notin Ids
  BY NoneAssumption DEF Received, HandlerInv, Unanswered
<1>5. r \notin InFlight /\ ~Executing(r)
  BY <1>4 DEF InFlight, Executing
<1>6. \A q \in Requests \ {r} : Executing(q)' <=> Executing(q)
  BY <1>2 DEF Executing, InFlight
<1>7. Executing(r)'
  BY <1>2 DEF Executing, InFlight
<1>8. UNCHANGED <<handlerRunning, publisherRunning, link>> /\ stats' = Count("received")
  BY DEF Received
<1>9. Cardinality(InFlight') = Cardinality(InFlight) + 1
  BY <1>5, Accounting
<1>10. HandlerTypeOK' /\ stats'.received = stats'.executed + stats'.failed + stats'.invalid
                                          + Cardinality(InFlight')
  <2>1. HandlerTypeOK /\ stats.received = stats.executed + stats.failed + stats.invalid
                                         + Cardinality(InFlight)
    BY DEF HandlerInv, PendingIsLive
  <2>2. Cardinality(InFlight) \in Nat
    BY InFlightFinite
  <2>3. call' \in [Requests -> Calls] /\ pendingCommands' \in [Ids -> Requests \cup {NONE}]
    BY <1>1
  <2>4. QED
    BY <1>8, <1>9, <2>1, <2>2, <2>3 DEF HandlerTypeOK, Count
<1>11. ASSUME NEW i \in Ids, pendingCommands'[i] # NONE
       PROVE  Executing(pendingCommands[i])' /\ call'[pendingCommands'[i]].id = i
  <2>1. CASE i = id
    BY <2>1, <1>2, <1>3, <1>7
  <2>2. CASE i # id
    <3>1. pendingCommands'[i] = pendingCommands[i] /\ pendingCommands[i] \in Requests
      BY <2>2, <1>1, <1>3, <1>11
    <3>2. Executing(pendingCommands[i]) /\ call[pendingCommands[i]].id = i
      BY <3>1, <1>11 DEF HandlerInv, PendingIsLive
    <3>3. QED
      BY <3>1, <3>2, <1>2, <1>5, <1>6
  <2>3. QED
    BY <2>1, <2>2
<1>12. ASSUME NEW q \in Requests, Executing(q)', handlerRunning',
              \A p \in Requests \ {q} : call'[p].id # call'[q].id
       PROVE  pendingCommands'[call'[q].id] = q
  <2>1. CASE q = r
    BY <2>1, <1>2, <1>3
  <2>2. CASE q # r
    <3>1. Executing(q) /\ call'[q] = call[q] /\ call[q].id \in Ids /\ call[q].id # id
      BY <2>2, <1>2, <1>6, <1>12 DEF Executing
    <3>2. \A p \in Requests \ {q} : call[p].id # call[q].id
      BY <3>1, <1>2, <1>4, <1>12
    <3>3. pendingCommands[call[q].id] = q
      BY <3>1, <3>2, <1>8, <1>12 DEF HandlerInv, PendingIsLive
    <3>4. QED
      BY <3>1, <3>3, <1>3
  <2>3. QED
    BY <2>1, <2>2
<1>13. QED
  BY <1>10, <1>11, <1>12 DEF PendingIsLive

\* executeCommand up to its first wait.
LEMMA CommandBegins ==
  ASSUME HandlerInv, NEW r \in Requests, NEW m \in Meters, NEW id \in Ids,
         NEW method \in METHODS, ReceiveCommand(r, m, id, method)
  PROVE  HandlerInv'
<1> PICK n \in Registers(method) :
       LET c == [NotSent EXCEPT !.meter = m, !.id = id, !.method = method,
                                !.via = link[m], !.step = FirstStep(link[m]), !.left = n]
           refused == method = "read_relay_state" /\ link[m] = "dlt645"
           nothing == n = 0 /\ link[m] = "dlt645"
       IN  \/ (method = "read_address" \/ nothing) /\ Reply(r, c, "ok")
           \/ (method = "read_register" \/ refused \/ nothing) /\ Reply(r, c, "error")
           \/ method # "read_address" /\ ~refused /\ ~nothing /\ Await(r, c)
  BY DEF ReceiveCommand
<1> DEFINE c == [NotSent EXCEPT !.meter = m, !.id = id, !.method = method,
                                !.via = link[m], !.step = FirstStep(link[m]), !.left = n]
<1>1. link[m] \in PROTOCOLS /\ n \in Nat /\ (method = "relay_control" => n = 1)
  BY RegistersAssumption DEF ReceiveCommand, Registers
<1>2. c \in Calls
  <2>1. NotSent \in Calls
    BY DEF NotSent, Calls
  <2>2. FirstStep(link[m]) \in {"associate", "request"}
    BY DEF FirstStep
  <2>3. QED
    BY <1>1, <2>1, <2>2 DEF Calls
<1>3. /\ c.id = id /\ c.method = method /\ c.result = NONE
      /\ c.via = link[m] /\ c.step = FirstStep(link[m]) /\ c.left = n
  BY DEF NotSent
<1> HIDE DEF c
<1>4. Received(r) /\ pendingCommands' = [pendingCommands EXCEPT ![id] = r]
  BY DEF ReceiveCommand
<1>5. responses[r] = <<>> /\ UNCHANGED publisherRunning
  BY <1>4 DEF Received, HandlerInv, Unanswered
<1>6. ASSUME NEW result \in Results, Reply(r, c, result),
             method = "relay_control" => result # "ok"
      PROVE  HandlerInv'
  <2> DEFINE d == [c EXCEPT !.phase = "replying", !.result = result, !.step = NONE, !.left = 0]
  <2>1. d \in Calls /\ d.id = id /\ d.phase = "replying" /\ call' = [call EXCEPT ![r] = d]
    BY <1>2, <1>3, <1>6, RepliedCall DEF Reply
  <2> HIDE DEF d
  <2>2. PendingIsLive'
    BY <1>4, <2>1, Registered
  <2>3. QED
    BY <1>2, <1>3, <1>5, <1>6, <2>2, ReplyStep DEF HandlerInv
<1>7. ASSUME Await(r, c) PROVE HandlerInv'
  <2> DEFINE d == [c EXCEPT !.phase = "waiting"]
  <2>1. d \in Calls /\ d.id = id /\ d.phase = "waiting" /\ call' = [call EXCEPT ![r] = d]
    BY <1>2, <1>3, <1>7 DEF Await, Calls
  <2> HIDE DEF d
  <2>2. PendingIsLive'
    BY <1>4, <2>1, Registered
  <2>3. c.method = "relay_control" =>
            /\ c.left = 1
            /\ \/ c.via = "dlt645" /\ c.step = "request"
               \/ c.via = "ivy_dlms" /\ c.step \in {"associate", "request"}
    BY <1>1, <1>3 DEF FirstStep, PROTOCOLS
  <2>4. QED
    BY <1>2, <1>3, <1>5, <1>7, <2>2, <2>3, AwaitStep DEF HandlerInv
<1>8. method = "relay_control" => n # 0
  BY <1>1
<1>9. QED
  BY <1>6, <1>7, <1>8 DEF c

\* An exchange goes on or ends: the message stays in flight, under its id.
LEMMA StaysInFlight ==
  ASSUME HandlerInv, NEW r \in InFlight, NEW d \in Calls,
         call' = [call EXCEPT ![r] = d], d.id = call[r].id,
         d.phase \in {"waiting", "replying"},
         UNCHANGED <<handlerRunning, publisherRunning, link, pendingCommands, stats>>
  PROVE  PendingIsLive'
<1>1. r \in Requests
  BY DEF InFlight
<1>2. InFlight' = InFlight
  BY <1>1, Accounting
<1>3. call' \in [Requests -> Calls]
  BY <1>1, CallStep
<1>4. HandlerTypeOK'
  BY <1>3 DEF HandlerInv, PendingIsLive, HandlerTypeOK
<1>5. QED
  BY <1>1, <1>2, <1>4, TableStep DEF HandlerInv, PendingIsLive

\* One step of an exchange settles.
LEMMA ExchangeSettles ==
  ASSUME HandlerInv, NEW r \in Requests, NEW event \in Events, Settles(r, event)
  PROVE  HandlerInv'
<1> DEFINE onRelay == call[r].step = "request" /\ call[r].method = "relay_control"
           c == [call[r] EXCEPT !.heard = IF onRelay THEN event ELSE @]
           goesOn == event = "answer" \/ Tolerated(c, event)
           associated == c.step = "associate" /\ event = "answer"
<1>1. call[r] \in Calls /\ call[r].phase = "waiting" /\ r \in InFlight
      /\ UNCHANGED <<handlerRunning, publisherRunning, link, pendingCommands, stats>>
  BY DEF Settles, HandlerInv, PendingIsLive, HandlerTypeOK, InFlight
<1>2. /\ c \in Calls
      /\ c.id = call[r].id /\ c.method = call[r].method /\ c.via = call[r].via
      /\ c.step = call[r].step /\ c.left = call[r].left /\ c.result = call[r].result
      /\ c.heard = IF onRelay THEN event ELSE call[r].heard
  BY <1>1 DEF Calls
<1>3. responses[r] = <<>> /\ c.result = NONE
  BY <1>1, <1>2 DEF HandlerInv, Unanswered
<1>4. c.method = "relay_control" =>
            /\ c.left = 1
            /\ \/ c.via = "dlt645" /\ c.step = "request"
               \/ c.via = "ivy_dlms" /\ c.step \in {"associate", "request"}
               \/ c.via = "ivy_dlms" /\ c.step = "confirm" /\ c.heard = "answer"
  BY <1>1, <1>2 DEF HandlerInv, RelayWaits
<1>5. \/ ~goesOn /\ Reply(r, c, "error")
      \/ associated /\ c.left > 0 /\ Await(r, [c EXCEPT !.step = "request"])
      \/ goesOn /\ c.step = "request" /\ c.via = "ivy_dlms" /\ c.method = "relay_control"
           /\ Await(r, [c EXCEPT !.step = "confirm"])
      \/ goesOn /\ ~associated /\ c.left > 1 /\ Await(r, NextRegister(c))
      \/ /\ ~(associated /\ c.left > 0)
         /\ ~(goesOn /\ c.step = "request" /\ c.via = "ivy_dlms" /\ c.method = "relay_control")
         /\ goesOn /\ Reply(r, c, "ok")
  BY DEF Settles
<1>6. onRelay <=> c.step = "request" /\ c.method = "relay_control"
  BY <1>2
<1>7. Tolerated(c, event) =>
        \/ c.method = "read_all" /\ c.via = "dlt645"
        \/ c.method = "relay_control" /\ c.via = "dlt645" /\ event = "timeout"
        \/ /\ c.via = "ivy_dlms"
           /\ \/ c.method \in {"read_all", "read_relay_state"} /\ c.step = "request"
              \/ c.step = "confirm"
  BY DEF Tolerated
<1> HIDE DEF c, onRelay
<1>8. ASSUME NEW result \in Results, Reply(r, c, result),
             c.method = "relay_control" /\ result = "ok" =>
               c.heard = "answer" \/ (c.via = "dlt645" /\ c.heard = "timeout")
      PROVE  HandlerInv'
  <2> DEFINE d == [c EXCEPT !.phase = "replying", !.result = result, !.step = NONE, !.left = 0]
  <2>1. d \in Calls /\ d.id = call[r].id /\ d.phase = "replying" /\ call' = [call EXCEPT ![r] = d]
    BY <1>2, <1>8, RepliedCall DEF Reply
  <2> HIDE DEF d
  <2>2. PendingIsLive'
    BY <1>1, <2>1, StaysInFlight
  <2>3. QED
    BY <1>1, <1>2, <1>3, <1>8, <2>2, ReplyStep, SMTT(40) DEF HandlerInv
<1>9. ASSUME NEW e \in Calls, Await(r, e), e.id = c.id, e.result = NONE,
             e.method = "relay_control" =>
               /\ e.left = 1
               /\ \/ e.via = "dlt645" /\ e.step = "request"
                  \/ e.via = "ivy_dlms" /\ e.step \in {"associate", "request"}
                  \/ e.via = "ivy_dlms" /\ e.step = "confirm" /\ e.heard = "answer"
      PROVE  HandlerInv'
  <2> DEFINE d == [e EXCEPT !.phase = "waiting"]
  <2>1. d \in Calls /\ d.id = call[r].id /\ d.phase = "waiting" /\ call' = [call EXCEPT ![r] = d]
    BY <1>2, <1>9 DEF Await, Calls
  <2> HIDE DEF d
  <2>2. PendingIsLive'
    BY <1>1, <2>1, StaysInFlight
  <2>3. QED
    BY <1>1, <1>3, <1>9, <2>2, AwaitStep DEF HandlerInv
<1>10. CASE ~goesOn /\ Reply(r, c, "error")
  BY <1>8, <1>10
<1>11. CASE associated /\ c.left > 0 /\ Await(r, [c EXCEPT !.step = "request"])
  <2>1. /\ [c EXCEPT !.step = "request"] \in Calls
        /\ [c EXCEPT !.step = "request"].step = "request"
        /\ \A x \in {"id", "result", "method", "left", "via", "heard"} :
              [c EXCEPT !.step = "request"][x] = c[x]
    BY <1>2 DEF Calls
  <2>2. QED
    BY <1>3, <1>4, <1>9, <1>11, <2>1
<1>12. CASE goesOn /\ c.step = "request" /\ c.via = "ivy_dlms" /\ c.method = "relay_control"
            /\ Await(r, [c EXCEPT !.step = "confirm"])
  <2>1. /\ [c EXCEPT !.step = "confirm"] \in Calls
        /\ [c EXCEPT !.step = "confirm"].step = "confirm"
        /\ \A x \in {"id", "result", "method", "left", "via", "heard"} :
              [c EXCEPT !.step = "confirm"][x] = c[x]
    BY <1>2 DEF Calls
  <2>2. event = "answer" /\ c.heard = "answer"
    BY <1>2, <1>6, <1>7, <1>12
  <2>3. QED
    BY <1>3, <1>4, <1>9, <1>12, <2>1, <2>2
<1>13. CASE goesOn /\ ~associated /\ c.left > 1 /\ Await(r, NextRegister(c))
  <2>1. /\ NextRegister(c) \in Calls
        /\ NextRegister(c).id = c.id /\ NextRegister(c).result = c.result
        /\ NextRegister(c).method = c.method
    <3>1. c.left - 1 \in Nat /\ c.step \in {"associate", "request", "confirm", NONE}
      BY <1>2, <1>13 DEF Calls
    <3>2. FirstStep(link[c.meter]) \in {"associate", "request"}
      BY DEF FirstStep
    <3>3. QED
      BY <1>2, <3>1, <3>2 DEF NextRegister, Calls
  <2>2. c.method # "relay_control"
    BY <1>4, <1>13
  <2>3. QED
    BY <1>3, <1>9, <1>13, <2>1, <2>2
<1>14. CASE /\ ~(associated /\ c.left > 0)
            /\ ~(goesOn /\ c.step = "request" /\ c.via = "ivy_dlms" /\ c.method = "relay_control")
            /\ goesOn /\ Reply(r, c, "ok")
  <2>1. c.method = "relay_control" =>
           c.heard = "answer" \/ (c.via = "dlt645" /\ c.heard = "timeout")
    BY <1>2, <1>4, <1>6, <1>7, <1>14
  <2>2. QED
    BY <1>8, <1>14, <2>1
<1>15. QED
  BY <1>5, <1>10, <1>11, <1>12, <1>13, <1>14

\* A command ends: counted once, and gone from the table.
LEMMA CommandEnds ==
  ASSUME HandlerInv, NEW r \in Requests, Finish(r)
  PROVE  HandlerInv'
<1> DEFINE d == [NotSent EXCEPT !.phase = "done", !.id = call[r].id]
<1>1. /\ call[r] \in Calls /\ call \in [Requests -> Calls]
      /\ pendingCommands \in [Ids -> Requests \cup {NONE}]
  BY DEF HandlerInv, PendingIsLive, HandlerTypeOK
<1>2. /\ call[r].phase = "replying" /\ r \in InFlight
      /\ call' = [call EXCEPT ![r] = d]
      /\ stats' = Count(Counter(call[r].result))
      /\ pendingCommands' = IF call[r].id \in Ids
                            THEN [pendingCommands EXCEPT ![call[r].id] = NONE] ELSE pendingCommands
      /\ UNCHANGED <<handlerRunning, publisherRunning, link, responses>>
  BY DEF Finish, InFlight
<1>3. d \in Calls
  <2>1. NotSent \in Calls
    BY DEF NotSent, Calls
  <2>2. QED
    BY <1>1, <2>1 DEF Calls
<1>4. /\ d.phase = "done" /\ d.id = call[r].id /\ d.result = NONE /\ d.method = NONE
  BY DEF NotSent
<1> HIDE DEF d
<1>5. call' \in [Requests -> Calls] /\ \A q \in Requests : call'[q] = IF q = r THEN d ELSE call[q]
  BY <1>1, <1>2, <1>3
<1>6. Cardinality(InFlight') = Cardinality(InFlight) - 1
  BY <1>2, <1>3, <1>4, Accounting
<1>7. HandlerTypeOK' /\ stats'.received = stats'.executed + stats'.failed + stats'.invalid
                                         + Cardinality(InFlight')
  <2>1. HandlerTypeOK /\ stats.received = stats.executed + stats.failed + stats.invalid
                                         + Cardinality(InFlight)
    BY DEF HandlerInv, PendingIsLive
  <2>2. Cardinality(InFlight) \in Nat
    BY InFlightFinite
  <2>3. Counter(call[r].result) \in {"executed", "failed", "invalid"}
    BY DEF Counter
  <2>4. pendingCommands' \in [Ids -> Requests \cup {NONE}]
    BY <1>1, <1>2
  <2>5. QED
    BY <1>2, <1>5, <1>6, <2>1, <2>2, <2>3, <2>4 DEF HandlerTypeOK, Count
<1>8. \A q \in Requests : Executing(q)' <=> Executing(q) /\ q # r
  BY <1>4, <1>5 DEF Executing, InFlight
<1>9. \A i \in Ids : pendingCommands'[i] = IF i = call[r].id THEN NONE ELSE pendingCommands[i]
  BY <1>1, <1>2
<1>10. ASSUME NEW i \in Ids, pendingCommands'[i] # NONE
       PROVE  Executing(pendingCommands[i])' /\ call'[pendingCommands'[i]].id = i
  <2>1. i # call[r].id /\ pendingCommands'[i] = pendingCommands[i] /\ pendingCommands[i] \in Requests
    BY <1>1, <1>9, <1>10
  <2>2. Executing(pendingCommands[i]) /\ call[pendingCommands[i]].id = i
    BY <2>1, <1>10 DEF HandlerInv, PendingIsLive
  <2>3. QED
    BY <1>5, <1>8, <2>1, <2>2
<1>11. ASSUME NEW q \in Requests, Executing(q)', handlerRunning',
              \A p \in Requests \ {q} : call'[p].id # call'[q].id
       PROVE  pendingCommands'[call'[q].id] = q
  <2>1. Executing(q) /\ q # r /\ call'[q] = call[q] /\ call[q].id \in Ids
    BY <1>5, <1>8, <1>11 DEF Executing
  <2>2. \A p \in Requests \ {q} : call[p].id # call[q].id
    BY <1>4, <1>5, <1>11, <2>1
  <2>3. pendingCommands[call[q].id] = q /\ call[q].id # call[r].id
    BY <1>2, <1>11, <2>1, <2>2 DEF HandlerInv, PendingIsLive
  <2>4. QED
    BY <1>9, <2>1, <2>3
<1>12. PendingIsLive'
  BY <1>7, <1>10, <1>11 DEF PendingIsLive
<1>13. Unanswered' /\ RelayWaits' /\ RelayHonest'
  <2>1. Unanswered'
    BY <1>2, <1>4, <1>5 DEF HandlerInv, Unanswered
  <2>2. RelayWaits'
    BY <1>4, <1>5 DEF HandlerInv, RelayWaits
  <2>3. RelayHonest'
    BY <1>4, <1>5, NoneAssumption DEF HandlerInv, RelayHonest
  <2>4. QED
    BY <2>1, <2>2, <2>3
<1>14. OneResponse'
  <2>1. publisherRunning => responses[r] # <<>>
    <3>1. publisherRunning => responses[r] = <<call[r].result>>
      BY <1>2 DEF HandlerInv, OneResponse
    <3>2. QED
      BY <3>1, SMTT(40)
  <2>2. QED
    BY <1>2, <1>4, <1>5, <2>1, SMTT(40) DEF HandlerInv, OneResponse
<1>15. QED
  BY <1>2, <1>12, <1>13, <1>14 DEF HandlerInv

\* Meters coming and going, the publisher's stop, and the rest of the gateway do not
\* touch the commands; stop() of the handler empties the table.
LEMMA CommandsUntouched ==
  ASSUME HandlerInv, UNCHANGED <<call, stats, responses>>,
         link' \in [Meters -> PROTOCOLS \cup {"down"}],
         publisherRunning' \in BOOLEAN, publisherRunning' => publisherRunning,
         \/ UNCHANGED <<handlerRunning, pendingCommands>>
         \/ handlerRunning' = FALSE /\ pendingCommands' = [id \in Ids |-> NONE]
  PROVE  HandlerInv'
<1>1. InFlight' = InFlight /\ \A q \in Requests : Executing(q)' <=> Executing(q)
  BY DEF InFlight, Executing
<1>2. HandlerTypeOK'
  BY DEF HandlerInv, PendingIsLive, HandlerTypeOK
<1>3. CASE UNCHANGED <<handlerRunning, pendingCommands>>
  <2>1. \A id \in Ids : pendingCommands[id] # NONE => pendingCommands[id] \in Requests
    BY DEF HandlerInv, PendingIsLive, HandlerTypeOK
  <2>2. PendingIsLive'
    BY <1>1, <1>2, <1>3, <2>1 DEF HandlerInv, PendingIsLive
  <2>3. QED
    BY <2>2 DEF HandlerInv, Unanswered, OneResponse, RelayWaits, RelayHonest
<1>4. CASE handlerRunning' = FALSE /\ pendingCommands' = [id \in Ids |-> NONE]
  <2>1. PendingIsLive'
    BY <1>1, <1>2, <1>4 DEF HandlerInv, PendingIsLive
  <2>2. QED
    BY <2>1 DEF HandlerInv, Unanswered, OneResponse, RelayWaits, RelayHonest
<1>5. QED
  BY <1>3, <1>4

\* A command's steps keep the table of pending commands exact.
LEMMA HandlerStepKeepsInv ==
  ASSUME HandlerInv, NEW r \in Requests, HandlerSteps(r)
  PROVE  HandlerInv'
<1>1. CASE ReceiveMalformed(r)
  BY <1>1, Malformed
<1>2. CASE \E m \in Meters : ReceiveInvalid(r, m) \/ ReceiveUnconnected(r, m)
  <2>1. PICK m \in Meters : ReceiveInvalid(r, m) \/ ReceiveUnconnected(r, m)
    BY <1>2
  <2>2. QED
    BY <2>1, ReceivedAndReplied DEF ReceiveInvalid, ReceiveUnconnected
<1>3. CASE \E m \in Meters, id \in Ids, method \in METHODS : ReceiveCommand(r, m, id, method)
  BY <1>3, CommandBegins
<1>4. CASE \E event \in Events : Settles(r, event)
  BY <1>4, ExchangeSettles
<1>5. CASE Finish(r)
  BY <1>5, CommandEnds
<1>6. QED
  BY <1>1, <1>2, <1>3, <1>4, <1>5 DEF HandlerSteps

------------------------------------------------------------------------------
(* The gateway around them.                                                *)

\* The status message, where a step leaves the publisher, its timer and its status
\* alone or is a step of theirs.
LEMMA StatusKept ==
  ASSUME StatusInv, [Next]_vars
  PROVE  StatusInv'
<1> USE DEF StatusInv, GatewayTypeOK
<1>1. ASSUME NEW s \in Signals, Signal(s) PROVE StatusInv'
  BY <1>1 DEF Signal, Moves, Stages, handlerVars
<1>2. ASSUME NEW s \in Signals, StopServices(s) PROVE StatusInv'
  <2>1. UNCHANGED <<publisherRunning, listening, statusTimer, gatewayStatus, broker>>
    BY <1>2 DEF StopServices, StopHandler, handlerVars
  <2>2. shutdown' \in [Signals -> Stages]
    BY <1>2 DEF StopServices, Moves, Stages
  <2>3. managerRunning' \in BOOLEAN /\ socket' \in [Meters -> Sockets]
    BY <1>2 DEF StopServices, StopConnections, Sockets
  <2>4. QED
    BY <2>1, <2>2, <2>3
<1>3. ASSUME NEW s \in Signals, CloseServer(s) PROVE StatusInv'
  BY <1>3 DEF CloseServer, Moves, Stages, handlerVars
<1>4. ASSUME NEW s \in Signals, StopPublisher(s) PROVE StatusInv'
  BY <1>4 DEF StopPublisher, Moves, Stages
<1>5. ASSUME NEW s \in Signals, StopBroker(s) PROVE StatusInv'
  BY <1>5 DEF StopBroker, Moves, Stages, handlerVars
<1>6. ASSUME NEW s \in Signals, Exit(s) PROVE StatusInv'
  BY <1>6 DEF Exit, ProcessExits, Stages, handlerVars
<1>7. ASSUME BrokerClosed PROVE StatusInv'
  BY <1>7 DEF BrokerClosed, handlerVars
<1>8. ASSUME PublishStatus PROVE StatusInv'
  BY <1>8 DEF PublishStatus, handlerVars
<1>9. ASSUME NEW m \in Meters, NEW protocol \in PROTOCOLS, Accept(m, protocol) PROVE StatusInv'
  BY <1>9 DEF Accept, Connect, Sockets
<1>10. ASSUME NEW m \in Meters, SocketEnds(m) PROVE StatusInv'
  BY <1>10 DEF SocketEnds, Disconnect, Sockets
<1>11. ASSUME NEW r \in Requests, HandleCommand(r) PROVE StatusInv'
  <2>1. UNCHANGED publisherRunning
    BY <1>11 DEF HandleCommand, HandlerSteps, ReceiveMalformed, ReceiveInvalid,
                 ReceiveUnconnected, ReceiveCommand, Received, Settles, Finish
  <2>2. QED
    BY <1>11, <2>1 DEF HandleCommand, gatewayVars
<1>12. CASE UNCHANGED vars
  BY <1>12 DEF vars, handlerVars, gatewayVars
<1>13. QED
  BY <1>1, <1>2, <1>3, <1>4, <1>5, <1>6, <1>7, <1>8, <1>9, <1>10, <1>11, <1>12
     DEF Next, ShutdownSteps

\* A step of the gateway is a step of one command, or leaves them all alone.
LEMMA CommandsKept ==
  ASSUME HandlerInv, [Next]_vars
  PROVE  HandlerInv'
<1>1. /\ link \in [Meters -> PROTOCOLS \cup {"down"}] /\ publisherRunning \in BOOLEAN
  BY DEF HandlerInv, PendingIsLive, HandlerTypeOK
<1>2. ASSUME UNCHANGED handlerVars PROVE HandlerInv'
  BY <1>1, <1>2, CommandsUntouched DEF handlerVars
<1>3. ASSUME NEW s \in Signals, StopServices(s) PROVE HandlerInv'
  <2>1. CASE StopHandler
    BY <1>1, <2>1, CommandsUntouched DEF StopHandler
  <2>2. QED
    BY <1>2, <1>3, <2>1 DEF StopServices
<1>4. ASSUME NEW s \in Signals, StopPublisher(s) PROVE HandlerInv'
  BY <1>1, <1>4, CommandsUntouched DEF StopPublisher
<1>5. ASSUME NEW m \in Meters, NEW protocol \in PROTOCOLS, Accept(m, protocol) PROVE HandlerInv'
  <2>1. Connect(m, protocol)
    BY <1>5 DEF Accept
  <2>2. QED
    BY <1>1, <2>1, CommandsUntouched DEF Connect
<1>6. ASSUME NEW m \in Meters, SocketEnds(m) PROVE HandlerInv'
  <2>1. Disconnect(m)
    BY <1>6 DEF SocketEnds
  <2>2. QED
    BY <1>1, <2>1, CommandsUntouched DEF Disconnect
<1>7. ASSUME NEW r \in Requests, HandleCommand(r) PROVE HandlerInv'
  BY <1>7, HandlerStepKeepsInv DEF HandleCommand
<1>8. ASSUME NEW s \in Signals, Signal(s) \/ CloseServer(s) \/ StopBroker(s) \/ Exit(s)
      PROVE  HandlerInv'
  BY <1>2, <1>8 DEF Signal, CloseServer, StopBroker, Exit
<1>9. ASSUME BrokerClosed \/ PublishStatus \/ UNCHANGED vars PROVE HandlerInv'
  BY <1>2, <1>9 DEF BrokerClosed, PublishStatus, vars
<1>10. QED
  BY <1>3, <1>4, <1>5, <1>6, <1>7, <1>8, <1>9 DEF Next, ShutdownSteps

------------------------------------------------------------------------------
\* The strengthened invariant: the table, the counters and the answers of every
\* command (CommandHandler), and the publisher's status (TelemetryPublisher.stop).
THEOREM Invariance == Spec => []IInv
<1>1. Init => IInv
  BY InitHandlerInv DEF Init, HandlerInit, IInv, StatusInv, GatewayTypeOK, Stages, Sockets
<1>2. IInv /\ [Next]_vars => IInv'
  BY CommandsKept, StatusKept DEF IInv
<1>3. QED
  BY <1>1, <1>2, PTL DEF Spec

\* getPendingCommands() and getStats() tell the truth, for any number of messages
\* and ids, equal or not.
THEOREM PendingAlwaysLive == Spec => []PendingIsLive
<1>1. IInv => PendingIsLive
  BY DEF IInv, HandlerInv
<1>2. QED
  BY <1>1, Invariance, PTL

\* No command is answered twice, and none ends unanswered while the publisher runs
\* (sendSuccessResponse, sendErrorResponse).
THEOREM AlwaysOneResponse == Spec => []OneResponse
<1>1. IInv => OneResponse
  BY DEF IInv, HandlerInv
<1>2. QED
  BY <1>1, Invariance, PTL

\* A relay command reported as done was confirmed, or met silence on DLT645
\* (executeRelayControl, executeDlmsRelayControl).
THEOREM RelayAlwaysHonest == Spec => []RelayHonest
<1>1. IInv => RelayHonest
  BY DEF IInv, HandlerInv
<1>2. QED
  BY <1>1, Invariance, PTL

\* No tick of the status timer and no second signal leaves a stopped gateway
\* "online", for any number of signals.
THEOREM OfflineAlwaysFinal == Spec => []OfflineIsFinal
<1>1. IInv => OfflineIsFinal
  BY DEF IInv, StatusInv, OfflineIsFinal
<1>2. QED
  BY <1>1, Invariance, PTL
=============================================================================
