---------------------------- MODULE PollingManager ----------------------------
(***************************************************************************)
(* The two halves of class PollingManager                                  *)
(* (src/src/services/polling-manager.js) together: the cycles of           *)
(* PollScheduler and the association lock of DlmsLock.  They meet in       *)
(* pollMeter, which asks a DLMS meter under its lock and so may wait in    *)
(* mid-cycle for a command to finish, and in stop(), which ends the timer  *)
(* and takes the locks away, but ends neither the cycle nor the sequences. *)
(***************************************************************************)
EXTENDS PollScheduler

CONSTANTS Tasks,     \* association sequences: the cycles' and those of commands
          Poller,    \* the task that is the cycles' own
          NoTask

ASSUME PollerAssumption == Poller \in Tasks

VARIABLES dlmsAssociationLocks, pc, target, awaiting, late, evicted   \* see DlmsLock

Lock == INSTANCE DlmsLock

lockVars == <<dlmsAssociationLocks, pc, target, awaiting, late, evicted>>
managerVars == <<vars, lockVars>>

ManagerInit == Init /\ Lock!Init

StartManager == Start /\ Lock!Start

StopManager == Stop /\ Lock!Stop

\* What goes on in the scheduler alone.
Unlocked(A) == A /\ UNCHANGED lockVars

\* pollMeter begins; register 0 stands for pollDlmsMeter, which first asks for the lock.
PollMeterLocked(r, m) ==
    /\ PollMeter(r, m)
    /\ \/ Polling(r, m)' /\ cycle'[r].register = 0 /\ Lock!AcquireDlmsLock(Poller, m)
       \/ ~(Polling(r, m)' /\ cycle'[r].register = 0) /\ UNCHANGED lockVars

\* Its finally block; the catch block in front of it, if something was thrown.
DlmsMeterReleased(r, ok) == DlmsMeterPolled(r, ok) /\ Lock!Release(Poller)

AdvanceCycle(r) ==
    \/ \E m \in Meters : PollMeterLocked(r, m)
    \/ \E ok \in BOOLEAN : DlmsMeterReleased(r, ok)
    \/ Unlocked(RegisterRead(r)) \/ Unlocked(ReadFailed(r)) \/ Unlocked(EndCycle(r))

\* A task that has waited for the lock takes it, sleeps again or gives up: then
\* acquireDlmsLock throws, and there is nothing to release.  A poll that gives up
\* is a failed one.
Waited(t, A) ==
    /\ A
    /\ IF t = Poller /\ pc'[t] = "idle" THEN \E r \in Runners : DlmsMeterPolled(r, FALSE)
       ELSE UNCHANGED vars

ResumeTask(t) == Waited(t, Lock!Resume(t))

LockTimeoutOf(t) == Waited(t, Lock!LockTimeout(t))

DeadlineOf(t) == Lock!Deadline(t) /\ UNCHANGED vars

\* The commands: asking for the lock, and the end of their sequence.
CommandAsks(t, m) == t # Poller /\ Lock!AcquireDlmsLock(t, m) /\ UNCHANGED vars

CommandReleases(t) == t # Poller /\ Lock!Release(t) /\ UNCHANGED vars

ManagerNext ==
    \/ StartManager \/ StopManager
    \/ Unlocked(SetInterval) \/ Unlocked(PollAllNow)
    \/ \E t \in Chains : Unlocked(Fire(t))
    \/ \E r \in Runners : AdvanceCycle(r)
    \/ \E m \in Meters, p \in {"down", "dlt645", "ivy_dlms"} : Unlocked(LinkChange(m, p))
    \/ \E t \in Tasks :
        \/ ResumeTask(t) \/ LockTimeoutOf(t) \/ DeadlineOf(t)
        \/ \E m \in Meters : CommandAsks(t, m)
        \/ CommandReleases(t)

\* Timers fire, awaits end, promises resume their waiters, and every association
\* sequence ends: each of its waits has a timer, and it releases in a finally block.
ManagerFairness ==
    /\ \A t \in Chains : WF_managerVars(Unlocked(Fire(t)))
    /\ \A r \in Runners : WF_managerVars(AdvanceCycle(r))
    /\ \A t \in Tasks :
        /\ WF_managerVars(DeadlineOf(t))
        /\ WF_managerVars(ResumeTask(t) \/ LockTimeoutOf(t) \/ CommandReleases(t))

ManagerSpec == ManagerInit /\ [][ManagerNext]_managerVars /\ ManagerFairness

----------------------------------------------------------------------------
(* Properties: those of PollScheduler, where a cycle may now have to wait   *)
(* for a lock, and those of DlmsLock, where polling comes in cycles.        *)

\* The Map and the tasks agree on who holds a meter's lock, unless stop() took
\* it away: a stale release never frees a successor's lock.
LockMatchesHolder == Lock!LockMatchesHolder

\* A sleeping task's lock is still in the Map, so its release or stop() wakes it.
NoLostWakeup == Lock!NoLostWakeup

\* A poll or a command that asked for the lock gets it or gives up, however many
\* cycles and commands overtake it.
WaitersFinish == Lock!WaitersFinish

\* The lock implements mutual exclusion of the tasks that stop() has not evicted.
ImplementsMutex == Lock!ImplementsMutex
=============================================================================
