---------------------------- MODULE CommandHandler ----------------------------
(***************************************************************************)
(* src/src/mqtt/command-handler.js: MQTT messages to the commands of the   *)
(* meters and back to one response each.  Every await is a point where     *)
(* other messages, links and stop() come in.  A DLT645 exchange is one     *)
(* sendCommand() (TcpCommands), a DLMS exchange the association sequence   *)
(* of DlmsSession; here each is the list of answers it waits for, and what *)
(* the handler makes of an answer, a refusal, a timeout or a failed send.  *)
(***************************************************************************)
EXTENDS Integers, FiniteSets, Sequences

CONSTANTS Requests,      \* messages published on the command topic
          Meters,
          Ids,           \* command ids, chosen by the clients
          MaxRegisters,  \* registers of a read_all: bound on its list
          NONE

ASSUME RegistersAssumption == MaxRegisters \in Nat
ASSUME RequestsAssumption == IsFiniteSet(Requests)

VARIABLES handlerRunning,      \* isRunning, the 'publish' listener is there
          publisherRunning,    \* isRunning of the TelemetryPublisher
          link,                \* per meter: no routed connection, or its protocol
          call,                \* per message: where its handling stands
          pendingCommands,     \* id -> message that set the entry
          stats,
          responses            \* per message: results published for it

handlerVars == <<handlerRunning, publisherRunning, link, call, pendingCommands, stats, responses>>

METHODS == {"read_register", "relay_control", "read_relay_state", "read_address", "read_all"}
PROTOCOLS == {"dlt645", "ivy_dlms"}

\* What the exchange with a meter brings.
Events == {"answer", "refusal", "timeout", "failure"}

ASSUME NoneAssumption ==
    /\ NONE \notin Requests \cup Ids
    /\ NONE \notin METHODS \cup {"ok", "error", "invalid"}

\* A handled message.  "via" is the protocol the command was started for, "left"
\* the registers it has to ask for, "heard" what a relay command's request
\* brought.  Of a finished message only the id is of interest.
NotSent == [phase |-> "unsent", meter |-> NONE, id |-> NONE, method |-> NONE,
            via |-> NONE, step |-> NONE, left |-> 0, heard |-> NONE, result |-> NONE]

InFlight == {r \in Requests : call[r].phase \in {"waiting", "replying"}}

HandlerInit ==
    /\ handlerRunning = TRUE
    /\ publisherRunning = TRUE
    /\ link = [m \in Meters |-> "down"]
    /\ call = [r \in Requests |-> NotSent]
    /\ pendingCommands = [id \in Ids |-> NONE]
    /\ stats = [received |-> 0, executed |-> 0, failed |-> 0, invalid |-> 0]
    /\ responses = [r \in Requests |-> <<>>]

Count(counter) == [stats EXCEPT ![counter] = @ + 1]

\* sendSuccessResponse, sendErrorResponse: published at once, or dropped when
\* the publisher has stopped; either way the handler awaits the outcome.
Reply(r, c, result) ==
    /\ call' = [call EXCEPT ![r] = [c EXCEPT !.phase = "replying", !.result = result,
                                             !.step = NONE, !.left = 0]]
    /\ responses' = IF publisherRunning
                    THEN [responses EXCEPT ![r] = Append(@, result)] ELSE responses

Await(r, c) ==
    /\ call' = [call EXCEPT ![r] = [c EXCEPT !.phase = "waiting"]]
    /\ UNCHANGED responses

\* The first thing an exchange waits for: the association, or the one answer.
FirstStep(protocol) == IF protocol = "ivy_dlms" THEN "associate" ELSE "request"

\* How many registers a method asks for.  Of the list of a read_all these are the
\* ones that are known; there may be none.
Registers(method) ==
    CASE method = "read_all" -> 0 .. MaxRegisters
      [] method = "read_relay_state" -> {2}
      [] OTHER -> {1}

------------------------------------------------------------------------------
\* handleCommandMessage: the payload is not JSON.
ReceiveMalformed(r) ==
    /\ handlerRunning
    /\ call[r].phase = "unsent"
    /\ call' = [call EXCEPT ![r].phase = "dropped"]
    /\ UNCHANGED <<handlerRunning, publisherRunning, link, pendingCommands, stats, responses>>

\* The part of handleCommandMessage before validation.
Received(r) ==
    /\ handlerRunning
    /\ call[r].phase = "unsent"
    /\ stats' = Count("received")
    /\ UNCHANGED <<handlerRunning, publisherRunning, link>>

\* validateCommand fails: no id, an unknown method, missing parameters.
ReceiveInvalid(r, m) ==
    /\ Received(r)
    /\ Reply(r, [NotSent EXCEPT !.meter = m], "invalid")
    /\ UNCHANGED pendingCommands

\* Mutant: the missing connection is reported, and the command executed all the same.
UnconnectedGoesOn(r, m) ==
    /\ Received(r)
    /\ link[m] = "down"
    /\ call' = [call EXCEPT ![r] = [NotSent EXCEPT !.phase = "waiting", !.meter = m,
                  !.method = "read_register", !.via = "dlt645", !.step = "request", !.left = 1]]
    /\ responses' = [responses EXCEPT ![r] = Append(@, "error")]
    /\ UNCHANGED pendingCommands

\* executeCommand without a connection.
ReceiveUnconnected(r, m) ==
    /\ Received(r)
    /\ link[m] = "down"
    /\ Reply(r, [NotSent EXCEPT !.meter = m], "error")
    /\ UNCHANGED pendingCommands

\* executeCommand up to its first wait.  read_address waits for nothing, and on
\* DLT645 neither does a read_all without registers, which fails if they are no list
\* at all.  A register may be unknown, and DLT645 meters have no relay state to read.
ReceiveCommand(r, m, id, method) ==
    /\ Received(r)
    /\ link[m] \in PROTOCOLS
    /\ pendingCommands' = [pendingCommands EXCEPT ![id] = r]
    /\ \E n \in Registers(method) :
          LET c == [NotSent EXCEPT !.meter = m, !.id = id, !.method = method,
                                   !.via = link[m], !.step = FirstStep(link[m]), !.left = n]
              refused == method = "read_relay_state" /\ link[m] = "dlt645"
              nothing == n = 0 /\ link[m] = "dlt645"
          IN  \/ (method = "read_address" \/ nothing) /\ Reply(r, c, "ok")
              \/ (method = "read_register" \/ refused \/ nothing) /\ Reply(r, c, "error")
              \/ method # "read_address" /\ ~refused /\ ~nothing /\ Await(r, c)

\* Mutant: a relay command ignores every error, not only timeouts.
ToleratesAnyError(c, event) ==
    \/ c.method \in {"read_all", "relay_control"} /\ c.via = "dlt645"
    \/ /\ c.via = "ivy_dlms" /\ event \in {"refusal", "timeout"}
       /\ \/ c.method \in {"read_all", "read_relay_state"} /\ c.step = "request"
          \/ c.step = "confirm"

\* What does not stop a command: DLT645 catches every error of a register of
\* read_all and the timeout of a relay command; DLMS goes on without the values
\* of read_all, of read_relay_state and of the state read after a relay command.
Tolerated(c, event) ==
    \/ c.method = "read_all" /\ c.via = "dlt645"
    \/ c.method = "relay_control" /\ c.via = "dlt645" /\ event = "timeout"
    \/ /\ c.via = "ivy_dlms" /\ event \in {"refusal", "timeout"}
       /\ \/ c.method \in {"read_all", "read_relay_state"} /\ c.step = "request"
          \/ c.step = "confirm"

\* The next register is asked for in the same association; in a read_all that was
\* started for DLT645, by the protocol the meter has by then.
NextRegister(c) ==
    [c EXCEPT !.left = @ - 1, !.step = IF c.via = "dlt645" THEN FirstStep(link[c.meter]) ELSE @]

\* Mutant: no timer in waitForDlmsResponse().
SettlesUntimed(r, event) ==
    /\ call[r].phase = "waiting"
    /\ event # "timeout"
    /\ Reply(r, call[r], IF event = "answer" THEN "ok" ELSE "error")
    /\ UNCHANGED <<handlerRunning, publisherRunning, link, pendingCommands, stats>>

\* One step of an exchange settles.
Settles(r, event) ==
    LET onRelay == call[r].step = "request" /\ call[r].method = "relay_control"
        c == [call[r] EXCEPT !.heard = IF onRelay THEN event ELSE @]
        goesOn == event = "answer" \/ Tolerated(c, event)
        associated == c.step = "associate" /\ event = "answer"
    IN  /\ call[r].phase = "waiting"
        /\ event = "answer" => link[c.meter] # "down"
        /\ CASE ~goesOn -> Reply(r, c, "error")
             [] associated /\ c.left > 0 -> Await(r, [c EXCEPT !.step = "request"])
             [] goesOn /\ c.step = "request" /\ c.via = "ivy_dlms" /\ c.method = "relay_control" ->
                  Await(r, [c EXCEPT !.step = "confirm"])
             [] goesOn /\ ~associated /\ c.left > 1 -> Await(r, NextRegister(c))
             [] OTHER -> Reply(r, c, "ok")
        /\ UNCHANGED <<handlerRunning, publisherRunning, link, pendingCommands, stats>>

\* Mutant: a failed command stays in the table.
FinishKeepingFailed(r) ==
    LET c == call[r]
    IN  /\ c.phase = "replying"
        /\ stats' = Count(IF c.result = "ok" THEN "executed" ELSE "failed")
        /\ pendingCommands' = IF c.id \in Ids /\ c.result = "ok" THEN [pendingCommands EXCEPT ![c.id] = NONE]
                              ELSE pendingCommands
        /\ call' = [call EXCEPT ![r] = [NotSent EXCEPT !.phase = "done", !.id = c.id]]
        /\ UNCHANGED <<handlerRunning, publisherRunning, link, responses>>

\* The publish that was awaited is through: count, and forget the command.
Counter(result) ==
    CASE result = "ok" -> "executed" [] result = "invalid" -> "invalid" [] OTHER -> "failed"

Finish(r) ==
    LET c == call[r]
    IN  /\ c.phase = "replying"
        /\ stats' = Count(Counter(c.result))
        /\ pendingCommands' = IF c.id \in Ids
                              THEN [pendingCommands EXCEPT ![c.id] = NONE] ELSE pendingCommands
        /\ call' = [call EXCEPT ![r] = [NotSent EXCEPT !.phase = "done", !.id = c.id]]
        /\ UNCHANGED <<handlerRunning, publisherRunning, link, responses>>

\* stop(): no more messages, and the table is cleared; what is being executed goes on.
StopHandler ==
    /\ handlerRunning
    /\ handlerRunning' = FALSE
    /\ pendingCommands' = [id \in Ids |-> NONE]
    /\ UNCHANGED <<publisherRunning, link, call, stats, responses>>

\* Meters come and go.
Connect(m, protocol) ==
    /\ link[m] = "down"
    /\ link' = [link EXCEPT ![m] = protocol]
    /\ UNCHANGED <<handlerRunning, publisherRunning, call, pendingCommands, stats, responses>>

Disconnect(m) ==
    /\ link[m] # "down"
    /\ link' = [link EXCEPT ![m] = "down"]
    /\ UNCHANGED <<handlerRunning, publisherRunning, call, pendingCommands, stats, responses>>

HandlerSteps(r) ==
    \/ ReceiveMalformed(r)
    \/ \E m \in Meters : ReceiveInvalid(r, m) \/ ReceiveUnconnected(r, m)
    \/ \E m \in Meters, id \in Ids, method \in METHODS : ReceiveCommand(r, m, id, method)
    \/ \E event \in Events : Settles(r, event)
    \/ Finish(r)

------------------------------------------------------------------------------
Calls == [phase : {"unsent", "dropped", "waiting", "replying", "done"},
          meter : Meters \cup {NONE}, id : Ids \cup {NONE}, method : METHODS \cup {NONE},
          via : PROTOCOLS \cup {NONE}, step : {"associate", "request", "confirm", NONE},
          left : Nat, heard : Events \cup {NONE},
          result : {"ok", "error", "invalid", NONE}]

HandlerTypeOK ==
    /\ {handlerRunning, publisherRunning} \subseteq BOOLEAN
    /\ link \in [Meters -> PROTOCOLS \cup {"down"}]
    /\ call \in [Requests -> Calls]
    /\ pendingCommands \in [Ids -> Requests \cup {NONE}]
    /\ stats \in [{"received", "executed", "failed", "invalid"} -> Nat]

Executing(r) == r \in InFlight /\ call[r].id \in Ids

\* The counters of getStats() account for every command, counted once: what was
\* received is executed, failed, invalid or still being handled.  The table of
\* getPendingCommands() holds nothing that has ended; and a command whose id no
\* other message used is in it while it is executed, until stop().
PendingIsLive ==
    /\ HandlerTypeOK
    /\ stats.received = stats.executed + stats.failed + stats.invalid + Cardinality(InFlight)
    /\ \A id \in Ids : pendingCommands[id] # NONE =>
          Executing(pendingCommands[id]) /\ call[pendingCommands[id]].id = id
    /\ \A r \in Requests :
          (/\ Executing(r) /\ handlerRunning
           /\ \A q \in Requests \ {r} : call[q].id # call[r].id)
          => pendingCommands[call[r].id] = r

\* A command gets one response and no more; while the publisher runs, none ends
\* without (sendSuccessResponse, sendErrorResponse).
OneResponse ==
    \A r \in Requests :
        /\ Len(responses[r]) <= 1
        /\ call[r].phase = "replying" /\ publisherRunning => responses[r] = <<call[r].result>>
        /\ call[r].phase = "done" /\ publisherRunning => responses[r] # <<>>

\* "Success" for a relay command means that the meter confirmed the switching, or,
\* on DLT645, stayed silent; never that it refused or could not be reached.
RelayHonest ==
    \A r \in Requests :
        call[r].method = "relay_control" /\ call[r].result = "ok" =>
            \/ call[r].heard = "answer"
            \/ call[r].via = "dlt645" /\ call[r].heard = "timeout"
=============================================================================
