---------------------------- MODULE AssociationMutex ----------------------------
(***************************************************************************)
(* What the per-meter DLMS association lock promises, independently of     *)
(* promises, queues and timers: tasks enter and leave the protected        *)
(* section of a meter, and one that enters finds it empty.  Several tasks  *)
(* may be made to leave at once.                                           *)
(***************************************************************************)
CONSTANTS Tasks, Meters

VARIABLE inside   \* the tasks protected by each meter's lock

MutexInit == inside = [m \in Meters |-> {}]

Enter(t, m) ==
  /\ inside[m] = {}
  /\ inside' = [inside EXCEPT ![m] = {t}]

Leave(S) ==
  /\ S # {}
  /\ inside' = [m \in Meters |-> inside[m] \ S]

MutexNext ==
  \/ \E t \in Tasks, m \in Meters : Enter(t, m)
  \/ \E S \in SUBSET Tasks : Leave(S)

MutexSpec == MutexInit /\ [][MutexNext]_inside
================================================================================
