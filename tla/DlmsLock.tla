-------------------------------- MODULE DlmsLock --------------------------------
(***************************************************************************)
(* The per-meter DLMS association lock of class PollingManager             *)
(* (src/services/polling-manager.js): acquireDlmsLock, the release         *)
(* function it returns, and the part of stop() that clears the locks.      *)
(*                                                                         *)
(* A task is one association sequence: a poll of a DLMS meter or a DLMS    *)
(* command.  Waiters sleep on the promise of the lock they found; the      *)
(* promise wakes all of them, each looks again when its turn comes, and a  *)
(* newcomer may get there first.                                           *)
(***************************************************************************)
EXTENDS Naturals

CONSTANTS Tasks, Meters, NoTask

ASSUME LockAssumption == NoTask \notin Tasks

VARIABLES
  dlmsAssociationLocks,  \* whose lock object the Map holds for each meter
  pc,                    \* where each task is
  target,                \* the meter each task works on
  awaiting,              \* whose lock promise a waiting task sleeps on
  late,                  \* tasks past the timeout they gave acquireDlmsLock
  isRunning,             \* this.isRunning of the PollingManager
  evicted                \* history: tasks whose lock stop() took while they held it

vars == <<dlmsAssociationLocks, pc, target, awaiting, late, isRunning, evicted>>

\* "woken": the awaited promise is settled, the task has not looked again yet.
Place == {"idle", "waiting", "woken", "holding"}

TypeOK ==
  /\ dlmsAssociationLocks \in [Meters -> Tasks \cup {NoTask}]
  /\ pc \in [Tasks -> Place]
  /\ target \in [Tasks -> Meters]
  /\ awaiting \in [Tasks -> Tasks \cup {NoTask}]
  /\ late \subseteq Tasks
  /\ isRunning \in BOOLEAN
  /\ evicted \subseteq Tasks

Init ==
  /\ dlmsAssociationLocks = [m \in Meters |-> NoTask]
  /\ pc = [t \in Tasks |-> "idle"]
  /\ target \in [Tasks -> Meters]
  /\ awaiting = [t \in Tasks |-> NoTask]
  /\ late = {}
  /\ isRunning = FALSE
  /\ evicted = {}

--------------------------------------------------------------------------------

\* The tail of acquireDlmsLock: put a lock of its own into the Map.
SetLock(t, m) ==
  /\ dlmsAssociationLocks' = [dlmsAssociationLocks EXCEPT ![m] = t]
  /\ pc' = [pc EXCEPT ![t] = "holding"]
  /\ awaiting' = [awaiting EXCEPT ![t] = NoTask]
  /\ late' = late \ {t}

TakeLock(t, m) == dlmsAssociationLocks[m] = NoTask /\ SetLock(t, m)

\* The loop body: sleep until the lock found in the Map is released, or too late.
WaitForLock(t, m) ==
  /\ dlmsAssociationLocks[m] # NoTask
  /\ pc' = [pc EXCEPT ![t] = "waiting"]
  /\ awaiting' = [awaiting EXCEPT ![t] = dlmsAssociationLocks[m]]
  /\ UNCHANGED <<dlmsAssociationLocks, late>>

GiveUp(t) ==
  /\ pc' = [pc EXCEPT ![t] = "idle"]
  /\ awaiting' = [awaiting EXCEPT ![t] = NoTask]
  /\ late' = late \ {t}
  /\ UNCHANGED dlmsAssociationLocks

\* Resolving lock promises wakes every task that sleeps on one of them.
NoWake(place, owners) == place \* mutant: the promise is never resolved
Wake(place, owners) ==
  [u \in Tasks |-> IF place[u] = "waiting" /\ awaiting[u] \in owners THEN "woken" ELSE place[u]]

AcquireUnlocked(t, m) == \* mutant: no look at the Map
  /\ pc[t] = "idle"
  /\ target' = [target EXCEPT ![t] = m]
  /\ SetLock(t, m)
  /\ UNCHANGED <<isRunning, evicted>>
AcquireDlmsLock(t, m) ==
  /\ pc[t] = "idle"
  /\ target' = [target EXCEPT ![t] = m]
  /\ TakeLock(t, m) \/ WaitForLock(t, m)
  /\ UNCHANGED <<isRunning, evicted>>

\* A woken task looks again: the deadline counts only if it has to wait once more.
ResumeBlindly(t) == \* mutant: if for while, the lock is taken without a second look
  /\ pc[t] = "woken"
  /\ SetLock(t, target[t])
  /\ UNCHANGED <<target, isRunning, evicted>>
ResumeAfresh(t) == \* mutant: every round starts a timeout of its own
  /\ pc[t] = "woken"
  /\ \/ TakeLock(t, target[t])
     \/ /\ dlmsAssociationLocks[target[t]] # NoTask
        /\ pc' = [pc EXCEPT ![t] = "waiting"]
        /\ awaiting' = [awaiting EXCEPT ![t] = dlmsAssociationLocks[target[t]]]
        /\ late' = late \ {t}
        /\ UNCHANGED dlmsAssociationLocks
  /\ UNCHANGED <<target, isRunning, evicted>>
Resume(t) ==
  /\ pc[t] = "woken"
  /\ \/ TakeLock(t, target[t])
     \/ t \notin late /\ WaitForLock(t, target[t])
     \/ t \in late /\ dlmsAssociationLocks[target[t]] # NoTask /\ GiveUp(t)
  /\ UNCHANGED <<target, isRunning, evicted>>

\* The time a task allowed for the lock runs out.
Deadline(t) ==
  /\ pc[t] \in {"waiting", "woken"}
  /\ t \notin late
  /\ late' = late \cup {t}
  /\ UNCHANGED <<dlmsAssociationLocks, pc, target, awaiting, isRunning, evicted>>

\* The rejecting timer wins the race against the lock's promise.
LockTimeout(t) ==
  /\ pc[t] = "waiting"
  /\ t \in late
  /\ GiveUp(t)
  /\ UNCHANGED <<target, isRunning, evicted>>

AnyLock(t) == dlmsAssociationLocks[target[t]] # NoTask \* mutant: lock.resolve not compared
OwnLock(t) == dlmsAssociationLocks[target[t]] = t

\* release(): only the task's own lock is deleted and resolved.
Release(t) ==
  /\ pc[t] = "holding"
  /\ IF OwnLock(t)
     THEN /\ dlmsAssociationLocks' = [dlmsAssociationLocks EXCEPT ![target[t]] = NoTask]
          /\ pc' = Wake([pc EXCEPT ![t] = "idle"], {t})
     ELSE /\ pc' = [pc EXCEPT ![t] = "idle"]
          /\ UNCHANGED dlmsAssociationLocks
  /\ evicted' = evicted \ {t}
  /\ UNCHANGED <<target, awaiting, late, isRunning>>

\* start() touches no lock, and tasks ask for locks whether it was called or not.
Start ==
  /\ ~isRunning
  /\ isRunning' = TRUE
  /\ UNCHANGED <<dlmsAssociationLocks, pc, target, awaiting, late, evicted>>

\* stop() resolves and clears all locks; their holders go on with their sequences.
Stop ==
  LET owners == {t \in Tasks : \E m \in Meters : dlmsAssociationLocks[m] = t} IN
  /\ isRunning
  /\ isRunning' = FALSE
  /\ dlmsAssociationLocks' = [m \in Meters |-> NoTask]
  /\ pc' = Wake(pc, owners)
  /\ evicted' = evicted \cup owners
  /\ UNCHANGED <<target, awaiting, late>>

Next ==
  \/ \E t \in Tasks :
       \/ \E m \in Meters : AcquireDlmsLock(t, m)
       \/ Resume(t)
       \/ Deadline(t)
       \/ LockTimeout(t)
       \/ Release(t)
  \/ Start
  \/ Stop

\* Promises resume their waiters, timers fire, and every association sequence ends
\* (each of its waits has a timeout, and release is called in a finally block).
Fairness ==
  \A t \in Tasks :
    /\ WF_vars(Resume(t))
    /\ WF_vars(Deadline(t))
    /\ WF_vars(LockTimeout(t))
    /\ WF_vars(Release(t))

Spec == Init /\ [][Next]_vars /\ Fairness

--------------------------------------------------------------------------------
(* Properties.                                                             *)

Holds(t, m) == pc[t] = "holding" /\ target[t] = m

\* The Map and the tasks agree: the lock of a meter belongs to a task that is in its
\* sequence on that meter, and a task in its sequence owns the lock unless stop()
\* took it away.  In particular a stale release never frees a successor's lock.
LockMatchesHolder ==
  \A t \in Tasks, m \in Meters :
    (Holds(t, m) /\ t \notin evicted) <=> dlmsAssociationLocks[m] = t

\* Two tasks are in their sequence on the same meter only if stop() evicted one.
ExclusiveUnlessStopped ==
  \A t, u \in Tasks, m \in Meters :
    (Holds(t, m) /\ Holds(u, m) /\ t # u) => (t \in evicted \/ u \in evicted)

\* No lost wake-up: a sleeping task's lock is still the one in the Map, so its
\* release or stop() will wake it (acquireDlmsLock, release, stop).
NoLostWakeup ==
  \A t \in Tasks : pc[t] = "waiting" =>
    awaiting[t] # NoTask /\ dlmsAssociationLocks[target[t]] = awaiting[t]

\* The facts above, and that only a task in its sequence has had its lock taken away,
\* so that no stale release is still to come from anybody else; together inductive
\* (acquireDlmsLock, release, stop).
IInv ==
  /\ TypeOK
  /\ LockMatchesHolder
  /\ NoLostWakeup
  /\ evicted \subseteq {t \in Tasks : pc[t] = "holding"}

\* Nobody waits for ever: a task that asked for the lock gets it or gives up, even
\* when newcomers keep overtaking it (the timeout of acquireDlmsLock).
WaitersFinish ==
  \A t \in Tasks : pc[t] \in {"waiting", "woken"} ~> pc[t] \in {"holding", "idle"}

\* The tasks in their sequence on each meter that still have the meter's lock.
Protected == [m \in Meters |-> {t \in Tasks : Holds(t, m) /\ t \notin evicted}]

Mutex == INSTANCE AssociationMutex WITH inside <- Protected

\* The lock implements mutual exclusion of the tasks it still protects: sleeping,
\* waking, overtaking and timing out change nothing, taking the lock is entering an
\* empty section (acquireDlmsLock, release, stop).
ImplementsMutex == Mutex!MutexSpec
================================================================================
