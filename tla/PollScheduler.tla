---------------------------- MODULE PollScheduler ----------------------------
(***************************************************************************)
(* The cycles of src/src/services/polling-manager.js: the timer that starts*)
(* them, start(), stop(), setInterval() and pollAllNow() around them, and  *)
(* a cycle's way through the meters and, with retries, their registers.    *)
(*                                                                         *)
(* A timer whose callback runs re-arms itself when its cycle is over, so a *)
(* timer and its callback are one chain here.  There should be one chain.  *)
(***************************************************************************)
EXTENDS Integers, FiniteSets

CONSTANTS Meters,
          NumRegisters,   \* of the register group
          Retries,        \* options.retries
          MaxChains,      \* bound: timers at one time
          MaxCalls,       \* bound: calls of start(), stop() and setInterval()
          NONE

ASSUME PollAssumption ==
    NumRegisters \in Nat \ {0} /\ Retries \in Nat /\ {MaxChains, MaxCalls} \subseteq Nat \ {0}
ASSUME MetersAssumption == IsFiniteSet(Meters) /\ NONE \notin Meters \cup (1 .. MaxChains)

VARIABLES isRunning,
          isPolling,
          pollTimer,     \* the handle: the timer set last, fired or not
          timer,         \* per chain: "free", "armed" or "running" its callback
          protocol,      \* per meter: of its connection, or "down"
          passiveOnly,   \* config.dlms.passiveOnly, fixed
          cycle,         \* per runner: the cycle it is in, or NoCycle
          calls,         \* of start(), stop() and setInterval() so far
          overlapped     \* history: a timer was set while a callback was running

vars == <<isRunning, isPolling, pollTimer, timer, protocol, passiveOnly, cycle, calls, overlapped>>

Chains == 1 .. MaxChains
Now == 0                          \* the runner that is a call of pollAllNow()
Runners == Chains \cup {Now}

\* "left" meters of the cycle to poll; the one it is at with its register, attempt
\* and errors; how many went well and how many failed.
NoCycle == [active |-> FALSE, left |-> {}, meter |-> NONE, register |-> 0, attempt |-> 0,
            errors |-> 0, successful |-> 0, failed |-> 0]

Connected == {m \in Meters : protocol[m] # "down"}

Init ==
    /\ isRunning = FALSE
    /\ isPolling = FALSE
    /\ pollTimer = NONE
    /\ timer = [t \in Chains |-> "free"]
    /\ protocol = [m \in Meters |-> "down"]
    /\ passiveOnly \in BOOLEAN
    /\ cycle = [r \in Runners |-> NoCycle]
    /\ calls = 0
    /\ overlapped = FALSE

------------------------------------------------------------------------------
\* schedulePoll: the timer t is set, and is the one the handle names.
Arm(t, timers) ==
    /\ timers[t] = "free"
    /\ timer' = [timers EXCEPT ![t] = "armed"]
    /\ pollTimer' = t

\* clearTimeout does nothing to a timer that has fired.
Cleared(t) ==
    IF t # NONE /\ timer[t] = "armed" THEN [timer EXCEPT ![t] = "free"] ELSE timer

Called == calls < MaxCalls /\ calls' = calls + 1

NoteOverlap == overlapped' = (overlapped \/ \E t \in Chains : timer[t] = "running")

Start ==
    /\ Called
    /\ ~isRunning
    /\ isRunning' = TRUE
    /\ \E t \in Chains : Arm(t, timer)
    /\ NoteOverlap
    /\ UNCHANGED <<isPolling, protocol, passiveOnly, cycle>>

\* Mutant: the timer is left armed.
StopKeepingTimer ==
    /\ Called
    /\ isRunning
    /\ isRunning' = FALSE
    /\ pollTimer' = NONE
    /\ UNCHANGED <<isPolling, timer, protocol, passiveOnly, cycle, overlapped>>

\* stop() ends no cycle.
Stop ==
    /\ Called
    /\ isRunning
    /\ isRunning' = FALSE
    /\ timer' = Cleared(pollTimer)
    /\ pollTimer' = NONE
    /\ UNCHANGED <<isPolling, protocol, passiveOnly, cycle, overlapped>>

SetInterval ==
    /\ Called
    /\ isRunning
    /\ pollTimer # NONE
    /\ \E t \in Chains : Arm(t, Cleared(pollTimer))
    /\ NoteOverlap
    /\ UNCHANGED <<isRunning, isPolling, protocol, passiveOnly, cycle>>

\* Mutant: it does not look at isRunning.
ReschedulesAlways(t) ==
    timer' = [timer EXCEPT ![t] = "armed"] /\ pollTimer' = t

\* The callback of chain t is through: schedulePoll again.
Reschedules(t) ==
    IF isRunning THEN timer' = [timer EXCEPT ![t] = "armed"] /\ pollTimer' = t
    ELSE timer' = [timer EXCEPT ![t] = "free"] /\ UNCHANGED pollTimer

\* Mutant: a cycle without meters leaves the flag set.
SkipsKeepingFlag == isPolling' = (isPolling \/ Connected = {}) /\ UNCHANGED cycle

\* executePollCycle that returns at once: another cycle is on, or there are no meters.
Skips == UNCHANGED <<isPolling, cycle>>

\* Mutant: cycles are not kept apart.
MayBeginAnyTime == Connected # {}
MayBegin == ~isPolling /\ Connected # {}

\* executePollCycle up to its first wait: the meters are those connected now.
Begins(r) ==
    /\ MayBegin
    /\ isPolling' = TRUE
    /\ cycle' = [cycle EXCEPT ![r] = [NoCycle EXCEPT !.active = TRUE, !.left = Connected]]

Fire(t) ==
    /\ timer[t] = "armed"
    /\ IF MayBegin
       THEN Begins(t) /\ timer' = [timer EXCEPT ![t] = "running"] /\ UNCHANGED pollTimer
       ELSE Skips /\ Reschedules(t)
    /\ UNCHANGED <<isRunning, protocol, passiveOnly, calls, overlapped>>

PollAllNow ==
    /\ ~cycle[Now].active
    /\ IF MayBegin THEN Begins(Now) ELSE Skips
    /\ UNCHANGED <<isRunning, pollTimer, timer, protocol, passiveOnly, calls, overlapped>>

------------------------------------------------------------------------------
Polling(r, m) == cycle[r].active /\ m # NONE /\ cycle[r].meter = m

CycleStep(r, c) ==
    /\ cycle' = [cycle EXCEPT ![r] = c]
    /\ UNCHANGED <<isRunning, isPolling, pollTimer, timer, protocol, passiveOnly, calls, overlapped>>

\* A meter has been polled.
Counted(c, ok) == IF ok THEN [c EXCEPT !.meter = NONE, !.successful = @ + 1]
                  ELSE [c EXCEPT !.meter = NONE, !.failed = @ + 1]

\* pollMeter begins, after the delay between meters.  Passive DLMS meters are not
\* asked, the others by an association sequence (register 0); a meter that has gone
\* is asked as if it spoke DLT645.
PollMeter(r, m) ==
    LET c == [cycle[r] EXCEPT !.left = @ \ {m}, !.meter = m, !.attempt = 0, !.errors = 0]
    IN  /\ cycle[r].meter = NONE
        /\ m \in cycle[r].left
        /\ CASE protocol[m] = "ivy_dlms" /\ passiveOnly -> CycleStep(r, Counted(c, TRUE))
             [] protocol[m] = "ivy_dlms" /\ ~passiveOnly -> CycleStep(r, [c EXCEPT !.register = 0])
             [] OTHER -> CycleStep(r, [c EXCEPT !.register = 1])

\* pollDlmsMeter ends, the AARQ sent or not, or an error caught.
DlmsMeterPolled(r, ok) ==
    /\ Polling(r, cycle[r].meter)
    /\ cycle[r].register = 0
    /\ CycleStep(r, Counted(cycle[r], ok))

\* The next register, or the verdict on the meter: more than half failed, or not.
NextRegister(c) ==
    IF c.register < NumRegisters
    THEN [c EXCEPT !.register = @ + 1, !.attempt = 0]
    ELSE Counted(c, 2 * c.errors <= NumRegisters)

\* readRegister: sendCommand brings the value.
RegisterRead(r) ==
    /\ Polling(r, cycle[r].meter)
    /\ cycle[r].register > 0
    /\ protocol[cycle[r].meter] # "down"
    /\ CycleStep(r, NextRegister(cycle[r]))

\* It rejects: again after a delay, or an error.
ReadFailed(r) ==
    LET c == cycle[r]
    IN  /\ Polling(r, c.meter)
        /\ c.register > 0
        /\ CycleStep(r, IF c.attempt < Retries THEN [c EXCEPT !.attempt = @ + 1]
                        ELSE NextRegister([c EXCEPT !.errors = @ + 1]))

\* The cycle is over; a timer's callback goes on to schedule the next.
EndCycle(r) ==
    /\ cycle[r].active /\ cycle[r].left = {} /\ cycle[r].meter = NONE
    /\ isPolling' = FALSE
    /\ cycle' = [cycle EXCEPT ![r] = NoCycle]
    /\ IF r \in Chains THEN Reschedules(r) ELSE UNCHANGED <<timer, pollTimer>>
    /\ UNCHANGED <<isRunning, protocol, passiveOnly, calls, overlapped>>

Advance(r) ==
    \/ \E m \in Meters : PollMeter(r, m)
    \/ \E ok \in BOOLEAN : DlmsMeterPolled(r, ok)
    \/ RegisterRead(r) \/ ReadFailed(r)
    \/ EndCycle(r)

\* Connections come and go.
LinkChange(m, p) ==
    /\ protocol[m] # p
    /\ protocol' = [protocol EXCEPT ![m] = p]
    /\ UNCHANGED <<isRunning, isPolling, pollTimer, timer, passiveOnly, cycle, calls, overlapped>>

Next ==
    \/ Start \/ Stop \/ SetInterval \/ PollAllNow
    \/ \E t \in Chains : Fire(t)
    \/ \E r \in Runners : Advance(r)
    \/ \E m \in Meters, p \in {"down", "dlt645", "ivy_dlms"} : LinkChange(m, p)

\* Timers fire, and a cycle goes on: every command to a meter settles, at the latest
\* with its own timer.
Fairness ==
    /\ \A t \in Chains : WF_vars(Fire(t))
    /\ \A r \in Runners : WF_vars(Advance(r))

Spec == Init /\ [][Next]_vars /\ Fairness

------------------------------------------------------------------------------
TypeOK ==
    /\ {isRunning, isPolling, passiveOnly, overlapped} \subseteq BOOLEAN
    /\ calls \in 0 .. MaxCalls
    /\ pollTimer \in Chains \cup {NONE}
    /\ timer \in [Chains -> {"free", "armed", "running"}]
    /\ protocol \in [Meters -> {"down", "dlt645", "ivy_dlms"}]
    /\ cycle \in [Runners ->
          [active : BOOLEAN, left : SUBSET Meters, meter : Meters \cup {NONE},
           register : 0 .. NumRegisters, attempt : 0 .. Retries, errors : 0 .. NumRegisters,
           successful : 0 .. Cardinality(Meters), failed : 0 .. Cardinality(Meters)]]

\* Timers and pollAllNow() never run two cycles at once, and isPolling, which the
\* statistics report, says exactly whether one runs (executePollCycle).
OneCycle ==
    /\ TypeOK
    /\ Cardinality({r \in Runners : cycle[r].active}) = IF isPolling THEN 1 ELSE 0
    /\ \A t \in Chains : timer[t] = "running" <=> cycle[t].active

\* While the manager runs the chain never breaks: a timer is armed, or a callback
\* will re-arm.  And unless start() or setInterval() came while a cycle was on, there
\* is one chain, its timer is the one the handle names, and stop() leaves none behind.
OneTimerChain ==
    /\ isRunning => \E t \in Chains : timer[t] # "free"
    /\ ~overlapped =>
          /\ {t \in Chains : timer[t] = "armed"} \subseteq {pollTimer}
          /\ Cardinality({t \in Chains : timer[t] # "free"}) <= 1

\* While polling runs and some meter stays connected, cycles begin again and again
\* and every one of them ends, with retries, meters that vanish and calls between.
CyclesGoOn ==
    /\ isPolling ~> ~isPolling
    /\ (<>[](isRunning /\ Connected # {})) => []<>isPolling

\* After the last stop() polling dies down, also when timer chains have multiplied.
QuietAfterStop == <>[]~isRunning => <>[](\A t \in Chains : timer[t] = "free")
=============================================================================
