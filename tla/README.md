# Verification of the IVY 4G gateway

TLA+ models, model-checking runs and machine-checked proofs for the gateway that
connects electricity meters (DLT645 or DLMS over the IVY wrapper, on TCP over
4G) to MQTT, and for the field tools that take the gateway's place on its port.
Paths like `tcp/server.js` are below `src/src/` of the repository; `debug/`,
`ANALYSIS.md`, `docs/API.md` and `tests/` are directly below `src/`.

Contents: [1 The system](#1-the-system) - [2 Plan](#2-plan) -
[3 Modules](#3-modules-and-the-code) - [4 Runs](#4-runs) -
[5 Proofs](#5-proofs) - [6 What the code does against its docs](#6-what-the-code-does-against-its-docs) -
[7 Not modelled](#7-not-modelled) - [8 How to run](#8-how-to-run)

## 1 The system

One Node.js process, one thread. Every callback runs to its end before the next;
what interleaves are the callbacks of sockets, timers, MQTT messages and resumed
promises. So each action of the models is one callback, or the stretch of an
`async` function between two `await`s.

| Component | State it keeps | Operations | What makes it correct |
|---|---|---|---|
| Connection registry (`tcp/connection-manager.js`) | `connections`, `meterToConnection`, state, socket and last activity of each connection | register, data, heartbeat, identify (and take over), send, socket timeout, heartbeat pass, close, force-destroy, `close` event, start, stop | routes lead to live connections of the right meter; a closing connection ends; silent ones are evicted; a capacity that holds; `stop()` returns |
| TCP server (`tcp/server.js`) | `pendingCommands` per connection, each call with its timer | `sendCommand`, `sendCommandNoWait`, frames in, `close` | a call settles once, with the answer that is its own |
| Association lock (`services/polling-manager.js`) | `dlmsAssociationLocks`: per meter the promise of the holder | acquire with a timeout, release, `stop()` | mutual exclusion, no lost wake-up, nobody waits for ever |
| DLMS polls (same file) | `pendingDlmsRequests`: per meter a Map from invoke id to register, cleanup timers | `pollDlmsMeter`, `resolveDlmsInvokeId` | readings are published under the register that was read |
| Poll scheduler (same file) | `isRunning`, `isPolling`, `pollTimer` | start, stop, `setInterval`, `pollAllNow`, the cycle with its retries | one cycle at a time, cycles go on, `stop()` ends them |
| Command handler (`mqtt/command-handler.js`) | `pendingCommands` by client id, statistics | receive, validate, execute by method and protocol, respond, stop | one response for each command, truthful about relays; books that agree |
| Status manager (`services/status-manager.js`) | `meterStatus`, `metersOnline`, alarms | meter connected and disconnected, telemetry, alarms | agreement with the registry and with the retained messages |
| Publisher (`mqtt/publisher.js`) | `isRunning`, status timer, cache | publish, start, stop | "offline" has the last word |
| Protocol router and stream parsers (`protocol/protocol-router.js`, `frame-parser.js`, `ivy-wrapper.js`, `dlms/data-types.js`) | per connection the detected protocol and the bytes not parsed yet | `push(chunk)` | what is emitted does not depend on how TCP cuts the bytes; bounded buffers |
| DLT645 and DLMS codecs (`protocol/`) | none | encode and decode | decode inverts encode |
| Broker and authentication (`mqtt/broker.js`, `auth.js`) | aedes, ACL rules | start, stop, authorise | stop ends; first matching rule decides |
| HTTP dashboard (`http/`) | none of its own | read-only views | stop ends |
| Gateway (`index.js`) | the components, in the order of their start | `main()`, `shutdown()`, the event wiring | the process exits after SIGTERM |
| OBIS scan (`debug/dlms-obis-bruteforce.js`) | `activeSocket`, `disconnected`, the runs, `allResults`, the results file | accept, heartbeat, a run of two phases in sessions, skip exhausted groups, save, resume, Ctrl+C | an answer is credited to its request; skips are justified; a finished scan is complete; what was saved stays |
| OBIS probe (`debug/dlms-obis-probe.js`) | the same two variables, `lnResults`, `snResults` | accept, heartbeat, LN association and probes, SN association and reads, release | as above, and every association it learns of is released |
| DLT645 destination probe (`debug/ivy-dlt645-probe.js`) | `activeSocket`, `workingDestination`, the result list | accept, heartbeat, read probes, choice of the destination, relay probes | as above, and the relay probes are sent |

How they interact. The registry owns the sockets and emits *identified* and
*closed*; the TCP server forwards them as `METER_CONNECTED` and
`METER_DISCONNECTED`, to which `index.js` (publisher, DLMS readings) and the
status manager listen. Each socket's bytes go through a protocol router, whose
callbacks come back to the registry (heartbeats) and the TCP server (frames,
APDUs). Polling manager and command handler both send through the TCP server,
and share the meter's association lock. Responses in DLMS reach whoever listens
for their *type* (`waitForDlmsResponse`) and, apart from that, `index.js`, which
looks the invoke id up in the polling manager's Map and publishes the reading.

What is hard here: takeovers, when a meter reconnects before its old socket is
gone; the half-closed sockets in between; late, lost and unlabelled answers;
timers that race answers and each other (the cleanup of one poll runs in the
next); a lock that is awaited, overtaken and cleared; a shutdown that waits for
things that keep arriving; a byte stream that is framed by looking at its
content. The field tools add a server whose handlers and runs share variables of
the process, although runs of an earlier connection may still be going, and
answers that are told apart by their type at most. `PROJECT.json` lists each such hazard at its line, with the properties
that cover it.

## 2 Plan

Order of the modules, the most important behaviour first:

1. `ConnectionManager`, on which everything else rests, and its proofs.
2. `TcpCommands` and `MeterStatus`, two compositions with it; their proofs carry
   the registry's invariant over.
3. `DlmsLock` with its abstract specification `AssociationMutex`, refinement
   checked and proved; `DlmsSession` composes it with polls and commands.
   `DlmsSession_proofs` holds the proofs of both.
4. `DlmsValues`, `IvyStream`, `FrameStream`, composed by `ProtocolRouter` and
   proved about in `ProtocolRouter_proofs`.
5. `CommandHandler`, composed with the shutdown by `Gateway`, proved together.
6. `PollScheduler` and its proofs; `PollingManager` composes it with `DlmsLock`.
7. `ProbeServer`, on which `ObisScan`, `ObisProbe` and `Dlt645Probe` stand,
   composed by `FieldTools`; `FieldTools_proofs` proves about all of them.

Left, in this order:

1. More kinds of item for `PlainAlwaysIntact`: events, data notifications, nested
   values, noise before an IVY header.
2. An abstract request/response specification that `TcpCommands` implements:
   each call is settled once. What it would say is `PendingConsistent` now.
3. `AccessControl` (first-match ACL over topics), the rate limiter, and bounded
   checks of the codecs (BCD, the +0x33 offset, checksums) against references.
4. Telemetry alarms of the status manager.

## 3 Modules and the code

Each definition's lines are in the `map` of `PROJECT.json`. Definitions marked
"Mutant" or "mutant" in a comment are plausible bugs, put in the place of the definition that
follows them to see that a property notices; no specification uses them.

**`ConnectionManager`.** `state`, `meterId`, `meterToConnection` are the fields
of the code. `socket` is what Node knows of the socket: `open`, `ended` (our
half-close is sent), `destroyed` (its `close` event is due). `lastActivity` is
the age of the last activity as the code compares it: `recent`, `quiet` (beyond
the idle limit), `expired` (beyond `connectionTimeout`). `writing` and `awaited`
are the promises of `send()` and `stop()`. A heartbeat, or a frame's address, is
the meter it names. Identification takes the meter over, half-closing the
connection that has it; `HandleClose` deletes the route of the closed
connection's meter *whoever owns it by then*, as the code does.

**`TcpCommands`** adds `sendCommand`. A call has an entry in its connection's Map,
a timer and an outcome; `unsent` and `received` hold the requests in the socket's
buffer and at the meter. Success answers are matched by data id, error answers
go to the oldest entry. Five ways to settle race: answer, error answer, timer,
failed write, close.

**`MeterStatus`** adds the listeners of the status manager and of `index.js`, and
the start order: connections are accepted before anybody listens.

**`DlmsLock`**: `acquireDlmsLock` is a loop around `await lock.promise`. A task is
`waiting` on a holder's promise (`awaiting`), `woken`, `holding` or `idle`;
`late` says that its own timeout has passed, which it notices only when it looks
again. `stop()` resolves and deletes every lock, `evicted` are the holders that
lost theirs. **`AssociationMutex`** is the promise: critical sections of one task.

**`DlmsSession`** gives the tasks something to do under the lock: the scripts of a
poll and of the four DLMS commands, request by request. The requests at the
meter (`outstanding`) are answered in order, refused or lost. `detached`
describes a poll that fills a Map which a cleanup timer has removed from
`this.pendingDlmsRequests`.

**`DlmsValues`** computes where a DLMS value ends, undefined length bytes
(`NAN`) and exceptions included. **`FrameStream`** and **`IvyStream`** are the
`push()` of the two parsers, with what makes `parseFrame` throw (the checksum, an
address byte that is not BCD: `FrameParses`), their loops as recursive functions on buffers
(`Frames`, `Packets`, `ValuesEnd`), with their resynchronisation. What a DLT645
parser keeps of noise depends on the chunks, since it drops it only once
`MIN_FRAME_LENGTH` bytes are there; `ChunksIrrelevant` therefore compares what is
emitted and what is kept from the first frame start on (`FromFrameStart`).
**`ProtocolRouter`** delivers one connection's bytes in chunks of any size.
`torn` records that a chunk ended where the code is known to
misread (the item's `fragile` cuts; less than 4 bytes at the start).
`MCProtocolRouter` lists the traffic, noise longer than a frame included.

**`CommandHandler`**: one MQTT message per request. Its exchange with the meter is
the list of answers it waits for; each wait settles with an answer, a refusal, a
timeout or a failed send, and `Tolerated` says which of these do not stop the
command. `Registers` says how many requests a method makes in a row: two for the
relay state, any number for a `read_all`, whose list may also be empty or hold
unknown names only. `Reply` publishes, `Finish` counts and forgets after the awaited
publish. **`Gateway`** adds the signal handlers: each call of `shutdown()` goes
through the stages it waits in. A socket's end and its `close` event are one
step, signals are numbered in the order of delivery, and of a finished command
only its id is kept.

**`PollScheduler`**: a timer and the callback that re-arms it form a chain; two
chains arise when `setInterval()`, or `stop()` and `start()`, come during a
cycle, since the handle then names a timer that has fired. A cycle goes through
the connected meters and their registers with retries. The DLMS sequence of a
meter is one step here and the subject of `DlmsSession`. **`PollingManager`** is the
class itself: a cycle's DLMS poll and the commands share `DlmsLock`, so that a
cycle may have to wait in `pollMeter`, and `stop()` clears timer and locks at once
while the cycle and the sequences go on.

**`ProbeServer`** is the server the three field tools have in common: one meter at
a time, as `activeSocket` tells it, and a flag `disconnected` that every run
reads and every `close` or `error` sets, whichever socket it is about. A socket
that fails emits `error` first and `close` later. `inflight` are the answers on
their way; `late` counts (history) those that missed their timer.

**`ObisScan`**: the run of each connection is a record, `pc` the `await` it is in.
A run goes through phase 1, makes phase 2 out of the successes, opens and
releases sessions of `MaxProbesPerSession` probes, skips the rest of a group
after `GroupExhaustThreshold` refusals, and saves. `file` and `allResults` are
what a restart, with `--resume` or without, and the exit handlers find; `over`
is a finished run whose results a restart has forgotten. Results and the entries
of the file have different shapes: `Entry` is what `saveResults` makes of a result,
a value only if it has `data`, and `Remembered` what `--resume` makes of an entry,
which has none. **`ObisProbe`**:
codes by class over a logical-name association, and, if nothing answered, a
short-name association over the same connection. The meter decides on an AARQ when
it gets it, whenever the run hears: `granted` are the associations it holds,
`accepted` those whose AARE nobody has taken yet, `unheard` (history) those whose
AARE was late or overtaken by an older one. An error without its code makes the
run throw, which ends it with pc `failed` and releases nothing. **`Dlt645Probe`**:
a window per destination in which whatever arrives is taken, then the relay
probes; `relay` (history) is what a meter was sent of them. **`FieldTools`** starts
one of the three (`tool`).

## 4 Runs

| Run | Module, bounds | What it shows |
|---|---|---|
| `connections` | `ConnectionManager`; 3 connections, 2 meters, `maxConnections` 2 | the inductive invariant, routes that never dangle, capacity, stable meter ids, takeovers close the old connection; closing, eviction and `stop()` complete |
| `connections_route` | same; 2 connections, 1 meter | **violation**, finding 1 |
| `commands` | `TcpCommands`; 2 connections, 2 meters, 2 commands, 2 data ids, symmetry | Map, timer and outcome of a call agree through all five ways to settle; a call waits on its own meter; in-step answers settle their own call |
| `polling_manager` | `PollingManager`; the poller and 2 commands, 1 meter, 2 registers, 1 retry, 2 chains, 3 calls | one cycle, one chain unless calls overlap a cycle; cycles go on though polls wait for the lock, `stop()` brings quiet; lock and holders agree, no lost wake-up, waiters finish, refinement of `AssociationMutex` |
| `dlms_session` | `DlmsSession`; a poller with 2 polls, 1 command, 1 meter | commands in step get their own answers, readings carry the right register, and a sequence that holds its lock only moves forward, over two overlapping polls, their cleanup timers and a command |
| `dlms_session_collision` | same; 1 poll, 1 command | **violation**, finding 2 |
| `meter_status` | `MeterStatus`; 2 connections, 2 meters | online means routed, counts, alarms and retained messages agree, outages are reported |
| `streams` | `ProtocolRouter`; DLT645 and IVY traffic, 2 items, `MAX_PAYLOAD_LENGTH` 20 | every packet intact and in order for all ways to cut the stream, except the known ones; bounded buffer |
| `streams_fragments` | same; 2 clean IVY items | **violation**, finding 3 |
| `gateway` | `Gateway`; 2 requests, 1 meter, 1 id, up to 2 registers, 2 signals | statistics and tables agree, one honest response per command, "offline" is final, commands are answered, the shutdown ends |
| `field_tools` | `FieldTools`; 3 sockets (2 for the OBIS tools), 1 dropped, 1 late answer, scan started twice; 3 codes in phase 1, sessions of 2 probes, threshold 2, a save every 2 | results belong to their request unless an answer was late; skips are justified, scans complete, saved results stay listed; associations the run learns of are released; runs advance |
| `field_tools_relay` | same | **violation**, finding 4 |

*Why these bounds.* Takeover needs two connections of a meter; the third lets a
takeover be taken over and the table be full (2) while a close is due. Two
meters are what lets anything go to the wrong one. Three tasks at a lock, one of
them the poller: holder, sleeper and the newcomer that overtakes. Two polls: the cleanup timer of the
first in the second. Two registers: an answer for the other one, a retry between
them, "more than half failed" on either side. Two stream items in all orders
and every chunking of their bytes: each parser state depends on the item it is
in and what follows it, and longer traffic repeats pairs;
`MAX_PAYLOAD_LENGTH` is 20 instead of 4096 so that the oversized header can be
reached. Two requests under one id: the ids are client text, and equal ones are
the hard case; the proofs cover any set of ids and any number of requests and
signals. Two signals: `shutdown()` overtaken by itself.
Three calls of the polling manager: start, one in mid-cycle, and one that undoes
it. One meter there: locks are per meter, a cycle goes from meter to meter by
itself, and `PollingManager_proofs` and `DlmsSession_proofs` cover any number. Field tools: three
codes with sessions of two make a renewal in phase 1 and one in phase 2, and
put a threshold of two, and a save every two, on either side of it; one dropped
connection lets a second one start beside a run that goes on, and the DLT645
probe needs a third to get as far as its relay phase. `MaxOverlap` 0 lets a
second run start only beside one that has no results yet. No clock is
counted: a timer may fire whenever it is armed, which covers every duration.

*History variables* are marked "history" where they are declared and used in no
guard: `inStep`, `torn`, `overlapped`, `unnoticed`, `undercount`, `late`, `cut`, `unheard`, `relay`. They say when
the code's promise applies, for example "as long as the meter answered every
request in time". `lastActivity` is state of the program, not history.

*Fairness.* Always weak, always of the program's own steps: an armed timer
fires, a resolved promise resumes its waiter, Node delivers `close` for a
destroyed socket, a write settles. In the code each of these is a
`setTimeout`, a `finally` or an event that nothing can hold back, since no
callback blocks (the exception is finding 3). Peers, meters, MQTT clients and callers
have no fairness: meters need not answer or hang up. `Gateway` assumes besides
that HTTP requests are short (its server's close has no timer), and
`ShutdownCompletes` is conditional on meters that connect *after*
`connectionManager.stop()` leaving by themselves, as the code never ends those.
`TcpCommands`, `DlmsSession`, `ProtocolRouter` and `FieldTools` have no liveness
properties and state no fairness. Instead `SequencesAdvance` and `RunsAdvance`
say that every step of a sequence or a run makes progress in a fixed order;
since every `await` in them has a timer, none can go on for ever.

*Deadlock* is checked except where the system may stop: `streams` (all bytes
delivered), `gateway` (the process has exited), `polling_manager` (the bound of calls),
`field_tools` and `field_tools_relay` (the tool has finished and no other meter comes).

## 5 Proofs

For every set of connections, meters, tasks, requests and calls, every
`maxConnections`, number of registers, retries, probes and signals. The
assumptions are the named `ASSUME`s, which TLC evaluates in the runs: null values
are no members of the sets they complete, sets that are counted (requests,
meters of a poll cycle) are finite, bounds are natural numbers, a poll has
registers to read and a code classes to try, lists of probes and codes are
sequences of their kind, the traffic consists of bytes, and the destination list
ends with the raw probe. Each invariant below is proved to hold initially and in every
step, one named step per handler; the theorems about properties follow from it.

**`ConnectionManager_proofs`**: `Invariance`, `RoutesNeverDangle`,
`ClosingShutsSocket`, `NoActivityOnceIdentified`, `Capacity`,
`RegistryIsConsistent` and the action properties `MeterIdsAreStable`,
`TakeoversCloseOld`.

    IInv == TypeOK /\ RouteConsistent /\ ClosingSocketShut /\ AbsentIsClean

`RouteConsistent` alone is not inductive: a slot that is registered anew must
not carry a meter id to which an old route leads, and a close must find exactly
the one route of its id. `AbsentIsClean` gives that: no socket means no
connection, and only identified or disconnecting connections have a meter.
`Capacity` has an invariant of its own, with the finiteness of `registered` and
the library's facts about cardinality.

**`TcpCommands_proofs`** (`CommandsInvariance`, `PendingAlwaysConsistent`,
`WaitingAlwaysOnOwnMeter`, `AnswersAlwaysInStep`) carries that `IInv` over:

    CommandsInv == IInv /\ CommandsTypeOK /\ TimersExact /\ MapsSound
                   /\ TrafficIdentified /\ WaitingOnOwnMeter

`MapsSound` turns "one entry" from a cardinality into "an entry, and no other
like it", which `RemoveFirst` preserves; the lemmas on sequences without one
element are at the top. `TrafficIdentified` is what keeps a call's meter: a
connection that carries requests is identified, and `MeterIdStable` does the
rest. For answers in step there is a second layer,

    StepInv == CommandsInv /\ WritesOwned /\ \A c : Aligned(c)

`Aligned`: on a readable connection in step, the requests at the meter and then
those in the socket's buffer are the oldest entries of the Map, in its order
(`Follows`), and while the socket is open there are no others. It must allow for
entries behind them, because a closing connection takes calls it never sends;
that nothing is sent *after* those is where `ClosingSocketShut` comes in. Then
the oldest request is the Map's first entry, so that it is the first that
matches its own data id, and the one an error answer rejects.

**`MeterStatus_proofs`**: `StatusInvariance`, `ReportsAlwaysAgree`,
`OnlineAlwaysRouted`, `OnlineAlwaysCounted`. Besides the registry's `IInv` and the
three properties the invariant says that what was identified before anybody
listened is unknown to the status manager (`DeafIsBlank`, `unnoticed`). The
count is an argument over cardinalities: each identification and each close
moves one connection in or out of the set that is counted.

**`DlmsSession_proofs`** begins with the lock alone: `Invariance`,
`LocksMatchHolders`, `Exclusion`, `SleepersAreWoken`, and `RefinesMutex`, the
refinement of `AssociationMutex` under `inside <- Protected`.

    IInv == TypeOK /\ LockMatchesHolder /\ NoLostWakeup
            /\ evicted \subseteq {t \in Tasks : pc[t] = "holding"}

The last conjunct is what makes `Exclusion` survive `stop()`: an evicted task
is in its sequence, so its release is recognised as stale by the comparison with
the promise in the Map. In the refinement, taking the lock enters an empty
section, release and stop leave, and every other step stutters.

Then the sessions: `SessionInvariance`, `PollsAlwaysLabelledAsRead`,
`SequencesAlwaysAdvance`, with

    SessionInv == IInv /\ SequencesTyped /\ PollsInScript /\ EntriesLabelled

over the lock's `IInv`: a poll is at a place of its script, and an entry of a
poll's table carries the register that the request with its invoke id reads. The
lemmas on the scripts say what request stands at each place. `AnswersAlwaysInStep`
(with `StepInvariance`) is about two queues at once, the place in the script and
the requests at the meter:

    StepInv == SessionInv /\ ScriptsTyped /\ IdleAtStart /\ StepsMatched

`StepsMatched`: a meter in step owes a command that holds its lock the answer it
listens for and nothing else, and has no poll's table open; a poll holds the lock
only with requests of polls outstanding. It needs two facts from elsewhere:
nobody evicted still talks to a meter in step, and whoever takes a lock stands at
the start of a script (`IdleAtStart`).

**`PollingManager_proofs`**, of scheduler and lock together: `Invariance`,
`AlwaysOneCycle`, `AlwaysOneTimerChain`, and `LockStepsOnly`: cycles, commands,
`start()` and `stop()` take no step on the locks but `DlmsLock`'s, so that
`LocksMatchHolders`, `SleepersAreWoken` and `RefinesMutex`, proved of that module,
hold of `PollingManager`'s `Lock!` properties too (this last link is by reading,
not by the prover).

    IInv == TypeOK /\ CyclesSound /\ FlagExact /\ ChainSound

`FlagExact`: `isPolling` is set by the one cycle there is; `ChainSound`: a running
manager has a timer armed or a callback under way that will arm one, and more
than one chain only if a call came in the middle of a cycle.

**`Gateway_proofs`**: `Invariance`, `PendingAlwaysLive`, `AlwaysOneResponse`,
`RelayAlwaysHonest`, `OfflineAlwaysFinal`, with `IInv == HandlerInv /\ StatusInv`.
`HandlerInv` adds to the properties that a command not yet answered has no
response (`Unanswered`) and where a relay command's waits stand (`RelayWaits`), so
that "done" has a confirmation, or DLT645 silence, behind it. `PendingIsLive`
contains the type invariant and the counters, which are cardinalities.

**`ProtocolRouter_proofs`**: `StreamTypeAlwaysOK`, `ChunksAlwaysIrrelevant`,
`BufferAlwaysBounded`. The parsers' loops are recursive functions, and a theorem
about one needs first that such a function exists (that the loop ends), then
induction. Both are done once, over sets: `RecursionByRank` says that steps which
look only at arguments of lower rank define a function with values of given
types, `RankInduction` is the induction that goes with it. The rank of a buffer is
its length, of a place in a nested value the bytes left and then the depth. From
these follow `FramesUnfolds`, `PacketsUnfold` and `ValuesEndIs`: one turn of a
loop either stops or leaves a shorter buffer, and no value ends before it begins,
which is why lengths are positive or `NAN` and the IVY loop spins in the `NAN` case
only (`PacketsTyped`). `PushesJoin` is the heart of it: for every buffer and every
cut, the second push goes on where one push of both parts would, by induction on
the buffer with a case for each way a turn ends (no start yet, a false start, a
frame not whole yet, a complete frame). With it `RouterInv` is inductive; it holds
the types, that DLT645's emissions are those of one push (`AsOnce`), and the limit
of the IVY buffer, for traffic of any length and any bytes.

`IntactUnlessTorn` needs to know what a meter sends. `AlwaysIntact` takes it as a
contract on each item: `DltUnderstood` and `IvyUnderstood` say that the parser, given
the item and any bytes behind it, makes the item's events of it and goes on with those
bytes as if they came first (for IVY: any bytes that start like an item of this meter),
and keeps a part of it as it is. The contract says nothing of chunks; that whole
chunks, cut anywhere and joined as they come, are then read as the meter meant them is
the theorem. Its invariant says of IVY what `AsOnce` says of DLT645:

    IntactInv == RouterInv /\ TrafficTyped
                 /\ (DltTraffic => DLT645's parser is in use)
                 /\ (IvyTraffic /\ ~torn => IvyIntact)

`IvyIntact`: for some d, the first d items have arrived whole, what was emitted is
their events (`Upto`), and the buffer holds the bytes of the next one that came so
far. A chunk from there to any place that tears nothing finishes the next item, or
not, then takes whole items, then a part of one (`ChunkAdvances`); which items the
chunk touches is arithmetic on the ends of the items on the wire (`Position`,
`LaidOut`, `Between`). A chunk that touches a `lone` item is that item.
`PlainAlwaysIntact` then discharges the contract from the code, for traffic described by its
bytes: whole frames, those that parse and those that do not (a wrong checksum, an
address that is not BCD), and noise without a start byte
(`FramesUnderstood`, `NoiseUnderstood`); packets with a header and any payload up to
`MAX_PAYLOAD_LENGTH` (`HeadersUnderstood`, heartbeats among them); raw APDUs
whose own bytes tell their length (`LengthUnderstood`): exceptions, read errors,
values of fixed size, BER with a length of one byte; and strings, when
no chunk ends inside them (`ReadStringUnderstood`). For every other raw APDU
`RawUnderstood` leaves one thing to show, that `RawDlmsLength` is its length whatever
follows and unknown before. TLC checks the items of `MCProtocolRouter` themselves,
those with events, date-times, data notifications and noise among them.

**`FieldTools_proofs`** has two parts. On the scan: `ScanInvariance`,
`SkipsAlwaysJustified`, `CompleteAlways`, `SavedResultsAlwaysKept`,
`ScanRunsAdvance`, with `ScanInv`: the server's types, `RunInv` for the run of each
connection, and `FileInv`. `RunInv` says where the run is in its list (`InPlace`), that
its failure counters are the streak of refusals at the end of its results
(`Counted`), from which a skip is justified (`Justified`); that each place of the list
before `at` has a result (`SoFar`), which makes a finished list complete; and that
an answer on its way is the one due unless one came late. `FileInv` relates the file,
`allResults` and the results of the only run of a process: the file lists the first of
them, with the data of those the run has not loaded; with two runs nothing is
promised. The folds over probes and results are handled by induction over their
length, again in a form over sets (`SetInduction`, `RecursionExists`,
`RecursionKeeps`).

On the three tools: `Invariance`, `AssociationsAlwaysReleased`, with
`ToolsInv == ServerInv /\ ProbeInv`. `ProbeInv` says which association a run can
have at each `await`, besides the unheard ones. `AlwaysHonestUnlessLate` and `RunsAlwaysAdvance` rest on a second
invariant, `ToolsWireInv` (`WireInvariance`): as long as no answer of a connection
came late, what is on its way to its run is the one answer the run waits for. It
contains `ScanInv`, so the scan's theorems are restated for the composition
(`SkipsJustifiedInTools`, `CompleteInTools`, `SavedResultsKeptInTools`).

*Only model-checked*: everything about liveness, which is out of the prover's
reach (`ClosingCompletes`, `SilentEvicted`, `StopCompletes`, `WaitersFinish`,
`OutageReported`, `CommandsAnswered`, `ShutdownCompletes`, `CyclesGoOn`,
`QuietAfterStop`); and, of `IntactUnlessTorn`, the contract of the items that
`PlainTraffic` does not describe: event and data notifications, action responses,
structured values, BER with a longer length, and noise in front of an IVY header.

## 6 What the code does against its docs

Four findings have a run of their own:

1. *A takeover loses its route* (`connections_route`). The late `close` of the
   replaced connection deletes `meterToConnection[meterId]`, which names the new
   one (`tcp/connection-manager.js:435`): the meter is connected, identified and
   unreachable. The unit test of the takeover expects the new route, and looks
   before the `close`.
2. *Commands take a poll's values* (`dlms_session_collision`). A poll releases
   the lock with answers outstanding, and responses are matched by type.
3. *Fragments end a raw APDU early, or hang the parser* (`streams_fragments`). A
   length byte that has not arrived makes the length `NaN`, and the loop in
   `push()` (`protocol/ivy-wrapper.js:469`) never ends.
4. *The relay probes never run* (`field_tools_relay`). They are numbered by the
   results so far, which is beyond `PROBE_LIST`, so `PROBE_LIST[probeIndex].description`
   throws (`debug/ivy-dlt645-probe.js:392`) before anything is sent, and the summary
   is not printed. The banner (`:795`) announces them.

Others met while reading, for which there is no run; the models behave likewise
where they contain the code at all:

- `index.js` and the status manager publish "offline" for the old connection
  after a takeover, while the meter is connected (`docs/API.md:100`, `:118`: the
  flag is the connection status of the meter).
- `stop()` clears the locks although sequences are still using them
  (`services/polling-manager.js:220`): exclusion holds up to evictions only.
- A send that throws ends a poll before its cleanup timer is armed
  (`services/polling-manager.js:552`), and the cleanup removes a Map that the
  next poll may be filling (`:602`): its entries are then never found.
- A DLMS relay command is reported as an error when sending the state request
  or the release throws after the switching; a DLT645 one as a success when the
  meter stays silent. `RelayHonest` says what remains true.
- A connection accepted after `connectionManager.stop()` is ended by nobody and
  keeps `server.close()` waiting (compare `ANALYSIS.md:379`).
- The server's `close` may come before the last `close` events of its sockets
  are handled; the publisher is then stopped and the retained status stays.
- The first chunk decides the protocol: less than 4 bytes of an IVY header make
  it unknown for good. An event notification with a date-time is misframed when
  cut or joined; a data notification behind an event is swallowed; an action
  response takes the byte behind it; a response with a data block stalls the
  stream until the parser's limit of 4096 bytes for raw APDUs (`fragile`, `lone`,
  `misleads` in `MCProtocolRouter` name these).
- `setInterval()` during a cycle doubles the timer chain. Nothing calls it yet.
- The status manager's telemetry alarms (not modelled) share one key for the three
  phases; a jump from over- to under-voltage leaves the first alarm active, and
  a voltage of 0 clears both (`services/status-manager.js:331-440`).

In the field tools:

- Answers are credited to whoever waits: the invoke id is not compared, so a late
  answer is the next probe's (`late`); in the OBIS probe a late LN answer is taken
  for the SN association's.
- A scan's `allResults` is empty until the scan has ended, so Ctrl+C and a
  disconnection save nothing, although the usage text promises partial results
  (`debug/dlms-obis-bruteforce.js:21`, `:78`). The tenth probe saves only when it is
  not one of a skipped group. Two runs of one process overwrite each other's file,
  and a resumed scan counts skipped probes and timeouts as probed.
- A scan whose session was refused, or whose connection ended in phase 2, is
  labelled `complete` all the same (`:1197`); two neighbouring codes that answer make
  phase 2 ask the codes around both of them twice.
- A new connection empties `lnResults` and `snResults`, or the DLT645 result list, of
  a run still going; the late `close` of an earlier socket clears `activeSocket`
  and sets `disconnected` for the new one. The raw SN response tag 0x0C is not among
  `knownTags` (`debug/dlms-obis-probe.js:257`).
- If another connection has emptied the result list, a relay trip can be sent after
  all; its close may then throw, leaving the relay open. A working raw destination is
  stored as `null`, like none at all.
- A resumed scan loses the values on file: `saveResults`
  (`debug/dlms-obis-bruteforce.js:919-928`) writes `dataType`, `value` and `formatted` from
  `r.data`, which the entries read back by `--resume` (`:878-891`) do not have, so its
  first save puts null in their place. Codes and outcomes stay. `SavedResultsKept`
  says which values remain: those of results that the run itself found.
- The OBIS probe can leave an association behind on a connection that is up: when an
  accepted AARE comes after its timer (`debug/dlms-obis-probe.js:903-912`, `:1084-1087`),
  or when an error GET.response has no error byte, so that `err.errorName` throws
  (`:1008`) and the run ends in `.catch` (`:1455`). `AssociationsReleased` says so.

## 7 Not modelled

- *Codecs* (`protocol/bcd.js`, `checksum.js` apart from the sum, `registers.js`,
  `obis`, APDU builders and `parseApdu`): pure functions and tables.
- *Telemetry alarms and statistics* of the status manager, telemetry and its
  cache in the publisher: no interaction with what is modelled.
- *Authentication and ACL* (`mqtt/auth.js`): off by default.
- *HTTP dashboard*: read-only. *Configuration, logging*: no state after start.
- *Rate limiter* (`tcp/rate-limiter.js`), *DLMS capture and analyzer*, the meter
  simulator: not wired into the gateway; they record, print or generate traffic.
- Of the *field tools*, the decoding of what a meter sends and the printed tables.
- *Failures of the start*: they exit the process.
- `CommandHandler.execute()` and `setRegisterGroup()`: nothing in the gateway calls them.
- aedes, Node's `net` and `http`: modelled by the events they deliver.

## 8 How to run

    tlc -workers 2 -config ConnectionManager.cfg ConnectionManager
    tlapm ConnectionManager_proofs.tla

The type invariants of the compositions are the first conjunct of a property:
`PendingConsistent`, `ReportsAgree`, `BufferBounded`, `HonestUnlessLate`. Each run of
`PROJECT.json` names its module and cfg. The longest (`polling_manager`,
`gateway`, `field_tools`) take two to three minutes with two workers; the longest proofs take about seven (`FieldTools_proofs`), nine
(`ProtocolRouter_proofs`) and three minutes (`DlmsSession_proofs`).
