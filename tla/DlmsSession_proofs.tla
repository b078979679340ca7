--------------------------- MODULE DlmsSession_proofs ---------------------------
(***************************************************************************)
(* The association lock and the sequences under it, for any number of       *)
(* tasks, meters, polls and registers.  First the lock alone: who owns it,  *)
(* and that it is a mutual exclusion.  Then the sequences: they only move   *)
(* towards their end, a response to a poll is never published under another *)
(* register's name, and a meter's answers are taken in step.                *)
(***************************************************************************)
EXTENDS DlmsSession, TLAPS, SequenceTheorems

--------------------------------------------------------------------------------
(* The lock, of DlmsLock's specification.                                  *)

\* The initial state satisfies the inductive invariant.
LEMMA InitIInv == Init => IInv
BY LockAssumption
   DEF Init, IInv, TypeOK, LockMatchesHolder, NoLostWakeup, Holds, Place

\* Taking the lock from any place outside the sequence preserves it.
LEMMA TakeIInv ==
  ASSUME NEW t \in Tasks, NEW m \in Meters, IInv, TakeLock(t, m), pc[t] # "holding",
         target' = [target EXCEPT ![t] = m], UNCHANGED <<isRunning, evicted>>
  PROVE  IInv'
<1>1. TypeOK'
  BY DEF IInv, TypeOK, TakeLock, SetLock, Place
<1>2. LockMatchesHolder'
  BY LockAssumption DEF IInv, TypeOK, LockMatchesHolder, Holds, TakeLock, SetLock
<1>3. NoLostWakeup'
  BY LockAssumption DEF IInv, TypeOK, NoLostWakeup, TakeLock, SetLock
<1>4. QED
  BY <1>1, <1>2, <1>3 DEF IInv, TypeOK, TakeLock, SetLock

\* Going to sleep on the lock found in the Map preserves it.
LEMMA WaitIInv ==
  ASSUME NEW t \in Tasks, NEW m \in Meters, IInv, WaitForLock(t, m), pc[t] # "holding",
         target' = [target EXCEPT ![t] = m], UNCHANGED <<isRunning, evicted>>
  PROVE  IInv'
BY LockAssumption
   DEF IInv, TypeOK, LockMatchesHolder, NoLostWakeup, Holds, WaitForLock, Place

\* Giving up before the lock was taken preserves it.
LEMMA GiveUpIInv ==
  ASSUME NEW t \in Tasks, IInv, GiveUp(t), pc[t] # "holding",
         UNCHANGED <<target, isRunning, evicted>>
  PROVE  IInv'
BY LockAssumption
   DEF IInv, TypeOK, LockMatchesHolder, NoLostWakeup, Holds, GiveUp, Place

\* A release that finds its own lock wakes exactly the tasks that slept on it; one
\* that finds another's lock, or none, changes only its own task.
LEMMA ReleaseIInv ==
  ASSUME NEW t \in Tasks, IInv, Release(t)
  PROVE  IInv'
<1> USE DEF IInv, TypeOK, Release, OwnLock
<1>1. TypeOK'
  BY DEF Wake, Place
<1>2. LockMatchesHolder'
  BY LockAssumption DEF LockMatchesHolder, Holds, Wake
<1>3. NoLostWakeup'
  <2>1. CASE dlmsAssociationLocks[target[t]] = t
    BY <2>1 DEF NoLostWakeup, Wake
  <2>2. CASE dlmsAssociationLocks[target[t]] # t
    BY <2>2 DEF NoLostWakeup
  <2>3. QED
    BY <2>1, <2>2
<1>4. evicted' \subseteq {u \in Tasks : pc'[u] = "holding"}
  BY DEF Wake
<1>5. QED
  BY <1>1, <1>2, <1>3, <1>4

\* stop() leaves nobody asleep: by NoLostWakeup every sleeping task sleeps on a lock
\* that is in the Map.
LEMMA StopIInv ==
  ASSUME IInv, Stop
  PROVE  IInv'
<1> USE DEF IInv, TypeOK, Stop
<1>1. TypeOK'
  BY DEF Wake, Place
<1>2. LockMatchesHolder'
  BY LockAssumption DEF LockMatchesHolder, Holds, Wake
<1>3. NoLostWakeup'
  BY DEF NoLostWakeup, Wake
<1>4. evicted' \subseteq {u \in Tasks : pc'[u] = "holding"}
  BY DEF Wake, LockMatchesHolder, Holds
<1>5. QED
  BY <1>1, <1>2, <1>3, <1>4

\* Every step preserves the inductive invariant.
LEMMA NextIInv == IInv /\ [Next]_vars => IInv'
<1> SUFFICES ASSUME IInv, [Next]_vars PROVE IInv'
  OBVIOUS
<1>1. ASSUME NEW t \in Tasks, NEW m \in Meters, AcquireDlmsLock(t, m)
      PROVE  IInv'
  BY <1>1, TakeIInv, WaitIInv DEF AcquireDlmsLock
<1>2. ASSUME NEW t \in Tasks, Resume(t)
      PROVE  IInv'
  <2>1. target[t] \in Meters /\ target = [target EXCEPT ![t] = target[t]]
    BY DEF IInv, TypeOK
  <2>2. QED
    BY <1>2, <2>1, TakeIInv, WaitIInv, GiveUpIInv DEF Resume
<1>3. ASSUME NEW t \in Tasks, Deadline(t)
      PROVE  IInv'
  BY <1>3 DEF Deadline, IInv, TypeOK, LockMatchesHolder, NoLostWakeup, Holds
<1>4. ASSUME NEW t \in Tasks, LockTimeout(t)
      PROVE  IInv'
  BY <1>4, GiveUpIInv DEF LockTimeout
<1>5. CASE Start
  BY <1>5 DEF Start, IInv, TypeOK, LockMatchesHolder, NoLostWakeup, Holds
<1>6. CASE UNCHANGED vars
  BY <1>6 DEF vars, IInv, TypeOK, LockMatchesHolder, NoLostWakeup, Holds
<1>7. QED
  BY <1>1, <1>2, <1>3, <1>4, <1>5, <1>6, ReleaseIInv, StopIInv DEF Next

\* The inductive invariant holds in every reachable state.
THEOREM Invariance == Spec => []IInv
BY InitIInv, NextIInv, PTL DEF Spec

\* Every variable keeps its type.
THEOREM TypeCorrect == Spec => []TypeOK
<1>1. IInv => TypeOK
  BY DEF IInv
<1>2. QED
  BY <1>1, Invariance, PTL

\* The Map and the tasks agree on who owns each lock.
THEOREM LocksMatchHolders == Spec => []LockMatchesHolder
<1>1. IInv => LockMatchesHolder
  BY DEF IInv
<1>2. QED
  BY <1>1, Invariance, PTL

\* Only stop() lets two tasks into a sequence on the same meter.
THEOREM Exclusion == Spec => []ExclusiveUnlessStopped
<1>1. IInv => ExclusiveUnlessStopped
  BY DEF IInv, LockMatchesHolder, ExclusiveUnlessStopped
<1>2. QED
  BY <1>1, Invariance, PTL

\* No sleeping task is forgotten.
THEOREM SleepersAreWoken == Spec => []NoLostWakeup
<1>1. IInv => NoLostWakeup
  BY DEF IInv
<1>2. QED
  BY <1>1, Invariance, PTL

--------------------------------------------------------------------------------
(* The lock implements AssociationMutex.                                   *)

\* In the Map's terms: a meter protects the owner of its lock and nobody else.
LEMMA ProtectedOwner ==
  ASSUME IInv, NEW m \in Meters
  PROVE  Protected[m] = {dlmsAssociationLocks[m]} \ {NoTask}
BY LockAssumption DEF Protected, IInv, TypeOK, LockMatchesHolder

\* A step that takes one meter's free lock enters that meter's empty section.
LEMMA TakingEnters ==
  ASSUME NEW t \in Tasks, NEW m \in Meters, IInv, IInv', TakeLock(t, m)
  PROVE  Mutex!Enter(t, m)
<1>1. Protected[m] = {}
  BY ProtectedOwner DEF TakeLock, SetLock
<1>2. ASSUME NEW n \in Meters
      PROVE  Protected'[n] = IF n = m THEN {t} ELSE Protected[n]
  <2>1. Protected'[n] = {dlmsAssociationLocks'[n]} \ {NoTask}
    BY LockAssumption DEF Protected, IInv, TypeOK, LockMatchesHolder
  <2>2. QED
    BY <2>1, ProtectedOwner, LockAssumption DEF TakeLock, SetLock, IInv, TypeOK
<1>3. Protected' = [Protected EXCEPT ![m] = {t}]
  BY <1>2 DEF Protected
<1>4. QED
  BY <1>1, <1>3 DEF Mutex!Enter

\* A step that leaves the Map alone changes nothing in the abstract lock.
LEMMA UntouchedStutters ==
  ASSUME IInv, IInv', UNCHANGED dlmsAssociationLocks
  PROVE  UNCHANGED Protected
<1>1. ASSUME NEW n \in Meters
      PROVE  Protected'[n] = Protected[n]
  <2>1. Protected'[n] = {dlmsAssociationLocks'[n]} \ {NoTask}
    BY LockAssumption DEF Protected, IInv, TypeOK, LockMatchesHolder
  <2>2. QED
    BY <2>1, ProtectedOwner
<1>2. QED
  BY <1>1 DEF Protected

\* Every step is a step of the abstract lock or leaves it alone.
LEMMA StepRefines == IInv /\ IInv' /\ [Next]_vars => [Mutex!MutexNext]_Protected
<1> SUFFICES ASSUME IInv, IInv', [Next]_vars
             PROVE  Mutex!MutexNext \/ UNCHANGED Protected
  OBVIOUS
<1>1. ASSUME NEW t \in Tasks, NEW m \in Meters, TakeLock(t, m)
      PROVE  Mutex!MutexNext
  BY <1>1, TakingEnters DEF Mutex!MutexNext
<1>2. CASE UNCHANGED dlmsAssociationLocks
  BY <1>2, UntouchedStutters
<1>3. ASSUME NEW t \in Tasks, Release(t), dlmsAssociationLocks[target[t]] = t
      PROVE  Mutex!MutexNext
  <2>1. ASSUME NEW n \in Meters
        PROVE  Protected'[n] = Protected[n] \ {t}
    <3>1. Protected'[n] = {dlmsAssociationLocks'[n]} \ {NoTask}
      BY LockAssumption DEF Protected, IInv, TypeOK, LockMatchesHolder
    <3>2. dlmsAssociationLocks[n] = t => n = target[t]
      BY DEF IInv, LockMatchesHolder, Holds
    <3>3. QED
      BY <3>1, <3>2, <1>3, ProtectedOwner, LockAssumption DEF Release, OwnLock, IInv, TypeOK
  <2>2. Mutex!Leave({t})
    BY <2>1 DEF Mutex!Leave, Protected
  <2>3. QED
    BY <2>2 DEF Mutex!MutexNext
<1>4. CASE Stop /\ ~UNCHANGED dlmsAssociationLocks
  <2> DEFINE owners == {t \in Tasks : \E m \in Meters : dlmsAssociationLocks[m] = t}
  <2>1. owners # {}
    BY <1>4 DEF Stop, IInv, TypeOK
  <2>2. ASSUME NEW n \in Meters
        PROVE  Protected'[n] = Protected[n] \ owners
    <3>1. Protected'[n] = {dlmsAssociationLocks'[n]} \ {NoTask}
      BY LockAssumption DEF Protected, IInv, TypeOK, LockMatchesHolder
    <3>2. QED
      BY <3>1, <1>4, ProtectedOwner DEF Stop, IInv, TypeOK
  <2>3. Mutex!Leave(owners)
    BY <2>1, <2>2 DEF Mutex!Leave, Protected
  <2>4. QED
    BY <2>3 DEF Mutex!MutexNext
<1>5. ASSUME NEW t \in Tasks, NEW m \in Meters, AcquireDlmsLock(t, m)
      PROVE  Mutex!MutexNext \/ UNCHANGED Protected
  BY <1>5, <1>1, <1>2 DEF AcquireDlmsLock, WaitForLock
<1>6. ASSUME NEW t \in Tasks, Resume(t)
      PROVE  Mutex!MutexNext \/ UNCHANGED Protected
  BY <1>6, <1>1, <1>2 DEF Resume, WaitForLock, GiveUp, IInv, TypeOK
<1>7. ASSUME NEW t \in Tasks, Deadline(t) \/ LockTimeout(t)
      PROVE  UNCHANGED Protected
  BY <1>7, UntouchedStutters DEF Deadline, LockTimeout, GiveUp
<1>8. ASSUME NEW t \in Tasks, Release(t)
      PROVE  Mutex!MutexNext \/ UNCHANGED Protected
  BY <1>8, <1>2, <1>3 DEF Release, OwnLock
<1>9. CASE Start \/ UNCHANGED vars
  BY <1>9, <1>2 DEF Start, vars
<1>10. QED
  BY <1>2, <1>4, <1>5, <1>6, <1>7, <1>8, <1>9 DEF Next

\* The lock of acquireDlmsLock is a mutual exclusion of the tasks it protects.
THEOREM RefinesMutex == Spec => ImplementsMutex
<1>1. Init => Mutex!MutexInit
  BY DEF Init, Mutex!MutexInit, Protected, Holds
<1>2. QED
  BY <1>1, StepRefines, Invariance, PTL DEF Spec, ImplementsMutex, Mutex!MutexSpec

--------------------------------------------------------------------------------
(* The sequences.                                                          *)

\* What a poll has asked for lies in its script, and so does what it waits for.
PollsInScript ==
  /\ phase[Poller] # "listening"
  /\ pos[Poller] \in 0 .. Len(PollRegisters)
  /\ \A m \in Meters : \A i \in DOMAIN outstanding[m] :
       outstanding[m][i].by = Poller => outstanding[m][i].pos \in 0 .. Len(PollRegisters)

\* Every entry of the Map carries the register that its invoke id stands for.
EntriesLabelled ==
  \A m \in Meters : \A e \in pendingDlmsRequests[m] : e.register = PollRegisters[e.invokeId]

SequencesTyped ==
  /\ phase \in [Tasks -> Phase]
  /\ pos \in [Tasks -> Nat]
  /\ outstanding \in [Meters -> Seq(Requests)]
  /\ round \in 0 .. MaxPolls
  /\ pc[Poller] # "idle" => round # 0
  /\ pendingDlmsRequests \in [Meters -> SUBSET Entries]

SessionInv ==
  /\ IInv
  /\ SequencesTyped
  /\ PollsInScript
  /\ EntriesLabelled

--------------------------------------------------------------------------------
(* The script of a poll.                                                   *)

\* A poll asks for its registers in their order, under invoke ids of their own.
LEMMA PollScriptShape ==
  /\ Len(PollScript) = Len(PollRegisters)
  /\ Len(PollRegisters) \in Nat
  /\ \A i \in 1 .. Len(PollRegisters) :
       /\ PollScript[i].type = "get-response"
       /\ PollScript[i].register = PollRegisters[i]
       /\ PollScript[i].invokeId = i
       /\ PollRegisters[i] \in STRING
<1> DEFINE n == Len(PollRegisters)
           S == [type : {"get-response"}, register : STRING, invokeId : Nat, required : BOOLEAN]
<1>1. /\ n \in Nat /\ DOMAIN PollRegisters = 1 .. n
      /\ \A i \in 1 .. n : PollRegisters[i] \in STRING
  BY SessionAssumption, LenProperties, ElementOfSeq
<1>2. PollScript = [i \in 1 .. n |-> Get(PollRegisters[i], i, FALSE)]
  BY <1>1 DEF PollScript, ReadAllScript, InvokeId
<1> HIDE DEF n
<1>3. PollScript \in [1 .. n -> S]
  BY <1>1, <1>2 DEF Get
<1> HIDE DEF S
<1>4. PollScript \in Seq(S)
  <2>1. Seq(S) = UNION {[1 .. k -> S] : k \in Nat}
    BY SeqDef, Zenon
  <2>2. QED
    BY <1>1, <1>3, <2>1
<1>5. Len(PollScript) \in Nat /\ 1 .. Len(PollScript) = 1 .. n
  BY <1>3, <1>4, LenProperties
<1>6. Len(PollScript) = n
  BY <1>1, <1>5
<1>7. \A i \in 1 .. n : /\ PollScript[i].type = "get-response"
                        /\ PollScript[i].register = PollRegisters[i]
                        /\ PollScript[i].invokeId = i
  BY <1>2 DEF Get
<1>8. QED
  BY <1>1, <1>6, <1>7 DEF n

--------------------------------------------------------------------------------
(* Steps that leave the polls alone.                                       *)

\* A step of the lock that starts no poll.
LEMMA LockStepKeepsInv ==
  ASSUME SessionInv, [Next]_vars,
         UNCHANGED <<phase, pos, round, outstanding, pendingDlmsRequests>>,
         pc[Poller] = "idle" => pc'[Poller] = "idle"
  PROVE  SessionInv'
<1>1. IInv'
  BY NextIInv DEF SessionInv
<1>2. QED
  BY <1>1 DEF SessionInv, SequencesTyped, PollsInScript, EntriesLabelled

\* The steps of the lock, with which sequences begin, wait and are given up.
LEMMA LockStepsKeepInv ==
  ASSUME SessionInv,
         \/ \E t \in Tasks, m \in Meters, s \in Scripts : ExecuteCommand(t, m, s)
         \/ \E t \in Tasks : ResumeSession(t) \/ LockTimer(t)
         \/ Restart
         \/ StopPolling
         \/ UNCHANGED allVars
  PROVE  SessionInv'
<1> USE DEF IInv, TypeOK
<1>1. ASSUME NEW t \in Tasks, NEW m \in Meters, NEW s \in Scripts, ExecuteCommand(t, m, s)
      PROVE  SessionInv'
  <2>1. pc'[Poller] = pc[Poller]
    BY <1>1, SessionAssumption
       DEF ExecuteCommand, AcquireDlmsLock, TakeLock, SetLock, WaitForLock, SessionInv
  <2>2. [Next]_vars
    BY <1>1 DEF ExecuteCommand, Next
  <2>3. QED
    BY <1>1, <2>1, <2>2, LockStepKeepsInv DEF ExecuteCommand
<1>2. ASSUME NEW t \in Tasks, ResumeSession(t) PROVE SessionInv'
  <2>1. pc[Poller] = "idle" => pc'[Poller] = "idle"
    BY <1>2, SessionAssumption
       DEF ResumeSession, Resume, TakeLock, SetLock, WaitForLock, GiveUp, SessionInv
  <2>2. [Next]_vars
    BY <1>2 DEF ResumeSession, Next
  <2>3. QED
    BY <1>2, <2>1, <2>2, LockStepKeepsInv DEF ResumeSession
<1>3. ASSUME NEW t \in Tasks, LockTimer(t) PROVE SessionInv'
  <2>1. pc[Poller] = "idle" => pc'[Poller] = "idle"
    BY <1>3, SessionAssumption DEF LockTimer, Deadline, LockTimeout, GiveUp, SessionInv
  <2>2. [Next]_vars
    BY <1>3 DEF LockTimer, Next
  <2>3. QED
    BY <1>3, <2>1, <2>2, LockStepKeepsInv DEF LockTimer, sessionVars
<1>4. CASE Restart
  BY <1>4, LockStepKeepsInv DEF Restart, Start, Next, sessionVars
<1>5. CASE StopPolling
  <2>1. pc[Poller] = "idle" => pc'[Poller] = "idle"
    BY <1>5, SessionAssumption DEF StopPolling, Stop, Wake, SessionInv
  <2>2. [Next]_vars
    BY <1>5 DEF StopPolling, Next
  <2>3. QED
    BY <1>5, <2>1, <2>2, LockStepKeepsInv DEF StopPolling
<1>6. CASE UNCHANGED allVars
  BY <1>6, LockStepKeepsInv DEF allVars, vars, sessionVars
<1>7. QED
  BY <1>1, <1>2, <1>3, <1>4, <1>5, <1>6

\* pollDlmsMeter starts at the first register.
LEMMA PollStarts ==
  ASSUME SessionInv, NEW m \in Meters, PollDlmsMeter(m)
  PROVE  SessionInv'
<1>1. IInv'
  BY NextIInv, SessionAssumption DEF SessionInv, PollDlmsMeter, Next
<1>2. round' \in 1 .. MaxPolls
  BY SessionAssumption DEF PollDlmsMeter, SessionInv, SequencesTyped
<1>3. QED
  BY <1>1, <1>2
     DEF PollDlmsMeter, SessionInv, SequencesTyped, PollsInScript, EntriesLabelled

--------------------------------------------------------------------------------
(* Sending.                                                                *)

\* A request is written, or its write fails.
LEMMA SendingKeepsInv ==
  ASSUME SessionInv, NEW t \in Tasks, Sent(t) \/ SendRefused(t) \/ SendThrows(t)
  PROVE  SessionInv'
<1> USE DEF SessionInv
<1>1. IInv' /\ pc' = pc
  BY NextIInv DEF Sent, SendRefused, SendThrows, vars
<1>2. /\ UNCHANGED <<pos, round, pendingDlmsRequests>>
      /\ pc[t] = "holding" /\ target[t] \in Meters
      /\ phase' \in [Tasks -> Phase]
      /\ phase'[Poller] # "listening"
  BY SessionAssumption
     DEF Sent, SendRefused, SendThrows, Doing, SequencesTyped, PollsInScript, Phase, IInv, TypeOK
<1>3. CASE UNCHANGED outstanding
  BY <1>1, <1>2, <1>3 DEF SequencesTyped, PollsInScript, EntriesLabelled
<1>4. CASE Sent(t)
  <2> DEFINE m == target[t]
             q == Current(t)
             s == outstanding[m]
  <2>1. m \in Meters /\ outstanding' = [outstanding EXCEPT ![m] = Append(s, q)]
    BY <1>2, <1>4 DEF Sent
  <2>2. /\ q \in Requests
        /\ q.by = Poller => q.pos \in 0 .. Len(PollRegisters)
    BY SessionAssumption DEF Current, Requests, SequencesTyped, PollsInScript
  <2>3. s \in Seq(Requests)
    BY <2>1 DEF SequencesTyped
  <2> HIDE DEF m, q, s
  <2>4. /\ Append(s, q) \in Seq(Requests)
        /\ DOMAIN Append(s, q) = 1 .. (Len(s) + 1) /\ DOMAIN s = 1 .. Len(s)
        /\ Len(s) \in Nat
        /\ \A i \in 1 .. Len(s) : Append(s, q)[i] = s[i]
        /\ Append(s, q)[Len(s) + 1] = q
    BY <2>2, <2>3, AppendProperties, LenProperties
  <2>5. \A i \in DOMAIN Append(s, q) : i \in DOMAIN s \/ i = Len(s) + 1
    BY <2>4
  <2>6. \A i \in DOMAIN s : s[i].by = Poller => s[i].pos \in 0 .. Len(PollRegisters)
    BY <2>1 DEF PollsInScript, s
  <2>7. \A i \in DOMAIN Append(s, q) :
          Append(s, q)[i].by = Poller => Append(s, q)[i].pos \in 0 .. Len(PollRegisters)
    BY <2>2, <2>4, <2>5, <2>6
  <2>8. outstanding' \in [Meters -> Seq(Requests)]
    BY <2>1, <2>4 DEF SequencesTyped
  <2>9. \A n \in Meters : outstanding'[n] = IF n = m THEN Append(s, q) ELSE outstanding[n]
    BY <2>1 DEF SequencesTyped
  <2>10. SequencesTyped'
    BY <1>1, <1>2, <2>8 DEF SequencesTyped
  <2>11. PollsInScript'
    BY <1>2, <2>7, <2>9 DEF PollsInScript
  <2>12. QED
    BY <1>1, <1>2, <2>10, <2>11 DEF EntriesLabelled
<1>5. QED
  BY <1>3, <1>4 DEF SendRefused, SendThrows

\* A poll goes on to its next register, whose entry it makes, or to its end.
LEMMA PollingKeepsInv ==
  ASSUME SessionInv, PollNext \/ PollSent
  PROVE  SessionInv'
<1> USE SessionAssumption DEF SessionInv
<1>1. IInv' /\ pc' = pc /\ UNCHANGED <<round, outstanding>>
  BY NextIInv DEF PollNext, PollSent, vars
<1>2. /\ phase' \in [Tasks -> Phase] /\ phase'[Poller] # "listening"
  BY DEF PollNext, PollSent, SequencesTyped, Phase
<1>3. CASE PollSent
  BY <1>1, <1>2, <1>3 DEF PollSent, SequencesTyped, PollsInScript, EntriesLabelled
<1>4. CASE PollNext
  <2> DEFINE m == target[Poller]
             i == pos[Poller] + 1
             entry == [invokeId |-> PollScript[i].invokeId, register |-> PollScript[i].register,
                       round |-> round]
  <2>1. pos[Poller] < Len(PollScript) /\ pos' = [pos EXCEPT ![Poller] = i]
    BY <1>4 DEF PollNext
  <2>2. i \in 1 .. Len(PollRegisters) /\ pos[Poller] \in Nat
    BY <2>1, PollScriptShape DEF PollsInScript
  <2>3. /\ entry.invokeId = i /\ entry.register = PollRegisters[i]
        /\ i \in DOMAIN PollRegisters
        /\ entry \in Entries
    <3>1. round \in 1 .. MaxPolls
      BY <1>4 DEF PollNext, Doing, SequencesTyped
    <3>2. i \in DOMAIN PollRegisters
      BY <2>2, LenProperties
    <3>3. QED
      BY <2>2, <3>1, <3>2, PollScriptShape DEF Entries
  <2>4. \/ UNCHANGED pendingDlmsRequests
        \/ pendingDlmsRequests' =
             [pendingDlmsRequests EXCEPT
                ![m] = {e \in @ : e.invokeId # PollScript[i].invokeId} \cup {entry}]
    BY <1>4 DEF PollNext
  <2> HIDE DEF m, i, entry
  <2>5. pos' \in [Tasks -> Nat] /\ pos'[Poller] \in 0 .. Len(PollRegisters)
    BY <2>1, <2>2, PollScriptShape DEF SequencesTyped
  <2>6. pendingDlmsRequests' \in [Meters -> SUBSET Entries]
    BY <2>3, <2>4 DEF SequencesTyped
  <2>7. EntriesLabelled'
    <3>1. ASSUME NEW l \in Meters, NEW e \in pendingDlmsRequests'[l]
          PROVE  e = entry \/ e \in pendingDlmsRequests[l]
      BY <2>4, <3>1 DEF SequencesTyped
    <3>2. QED
      BY <2>3, <3>1 DEF EntriesLabelled
  <2>8. QED
    BY <1>1, <1>2, <2>5, <2>6, <2>7 DEF SequencesTyped, PollsInScript
<1>5. QED
  BY <1>3, <1>4

\* The finally block of a sequence releases its lock.
LEMMA FinishKeepsInv ==
  ASSUME SessionInv, NEW t \in Tasks, Finish(t)
  PROVE  SessionInv'
<1> USE SessionAssumption DEF SessionInv
<1>1. IInv'
  BY NextIInv DEF Finish, Next
<1>2. pc[Poller] = "idle" => pc'[Poller] = "idle"
  BY DEF Finish, Release, Wake, IInv, TypeOK
<1>3. /\ UNCHANGED <<round, outstanding, pendingDlmsRequests>>
      /\ phase' = [phase EXCEPT ![t] = "sending"] /\ pos' = [pos EXCEPT ![t] = 0]
  BY DEF Finish
<1>4. SequencesTyped'
  BY <1>2, <1>3 DEF SequencesTyped, Phase
<1>5. PollsInScript'
  BY <1>3, PollScriptShape DEF PollsInScript, SequencesTyped
<1>6. QED
  BY <1>1, <1>3, <1>4, <1>5 DEF EntriesLabelled

--------------------------------------------------------------------------------
(* Receiving.                                                              *)

\* Commands that go on leave the poll where it is.
LEMMA GoOnTyped ==
  ASSUME SessionInv, NEW S \in SUBSET (Tasks \ {Poller}), NEW usable \in BOOLEAN,
         GoOn(S, usable)
  PROVE  /\ phase' \in [Tasks -> Phase] /\ pos' \in [Tasks -> Nat]
         /\ phase'[Poller] = phase[Poller] /\ pos'[Poller] = pos[Poller]
BY SessionAssumption DEF GoOn, SessionInv, SequencesTyped, Phase

\* A queue of requests without the oldest one.
LEMMA OldestAnswered ==
  ASSUME SessionInv, NEW m \in Meters, outstanding[m] # <<>>,
         outstanding' = [outstanding EXCEPT ![m] = Tail(@)]
  PROVE  /\ outstanding' \in [Meters -> Seq(Requests)]
         /\ \A n \in Meters : \A i \in DOMAIN outstanding'[n] :
              outstanding'[n][i].by = Poller => outstanding'[n][i].pos \in 0 .. Len(PollRegisters)
<1> DEFINE s == outstanding[m]
           t == Tail(s)
<1>1. s \in Seq(Requests) /\ s # <<>>
  BY DEF SessionInv, SequencesTyped
<1>2. outstanding' = [outstanding EXCEPT ![m] = t]
  OBVIOUS
<1>3. \A i \in DOMAIN s : s[i].by = Poller => s[i].pos \in 0 .. Len(PollRegisters)
  BY DEF SessionInv, PollsInScript
<1> HIDE DEF s
<1>4. /\ t \in Seq(Requests) /\ Len(t) = Len(s) - 1 /\ Len(s) \in Nat
      /\ \A i \in 1 .. Len(t) : t[i] = s[i + 1]
      /\ DOMAIN t = 1 .. Len(t) /\ DOMAIN s = 1 .. Len(s)
  BY <1>1, HeadTailProperties, LenProperties
<1> HIDE DEF t
<1>5. \A i \in DOMAIN t : i + 1 \in DOMAIN s /\ t[i] = s[i + 1]
  BY <1>4
<1>6. \A n \in Meters : outstanding'[n] = IF n = m THEN t ELSE outstanding[n]
  BY <1>2 DEF SessionInv, SequencesTyped
<1>7. QED
  BY <1>2, <1>3, <1>4, <1>5, <1>6 DEF SessionInv, SequencesTyped, PollsInScript

\* A response arrives, matched or not.
LEMMA ReceivingKeepsInv ==
  ASSUME SessionInv, NEW m \in Meters,
         (\E usable \in BOOLEAN : Response(m, usable)) \/ NoResponse(m)
  PROVE  SessionInv'
<1>1. IInv' /\ pc' = pc /\ UNCHANGED round
  BY NextIInv DEF Response, NoResponse, vars, SessionInv
<1>2. /\ outstanding' \in [Meters -> Seq(Requests)]
      /\ \A n \in Meters : \A i \in DOMAIN outstanding'[n] :
           outstanding'[n][i].by = Poller => outstanding'[n][i].pos \in 0 .. Len(PollRegisters)
  BY OldestAnswered DEF Response, NoResponse
<1>3. /\ phase' \in [Tasks -> Phase] /\ pos' \in [Tasks -> Nat]
      /\ phase'[Poller] = phase[Poller] /\ pos'[Poller] = pos[Poller]
  <2>1. CASE NoResponse(m)
    BY <2>1, SessionAssumption DEF NoResponse, SessionInv, SequencesTyped
  <2>2. ASSUME NEW usable \in BOOLEAN, Response(m, usable)
        PROVE  /\ phase' \in [Tasks -> Phase] /\ pos' \in [Tasks -> Nat]
               /\ phase'[Poller] = phase[Poller] /\ pos'[Poller] = pos[Poller]
    <3>1. Takers(m, Head(outstanding[m])) \in SUBSET (Tasks \ {Poller})
      BY DEF Takers, Commands
    <3>2. GoOn(Takers(m, Head(outstanding[m])), usable)
      BY <2>2 DEF Response
    <3>3. QED
      BY <3>1, <3>2, GoOnTyped
  <2>3. QED
    BY <2>1, <2>2
<1>4. /\ pendingDlmsRequests' \in [Meters -> SUBSET Entries]
      /\ \A n \in Meters : pendingDlmsRequests'[n] \subseteq pendingDlmsRequests[n]
  BY DEF Response, NoResponse, SessionInv, SequencesTyped
<1>5. QED
  BY <1>1, <1>2, <1>3, <1>4 DEF SessionInv, SequencesTyped, PollsInScript, EntriesLabelled

\* The timers of a wait and of a poll.
LEMMA TimersKeepInv ==
  ASSUME SessionInv,
         \/ \E t \in Tasks : ResponseTimeout(t)
         \/ \E m \in Meters, n \in 1 .. MaxPolls : Cleanup(m, n)
  PROVE  SessionInv'
<1>1. IInv' /\ pc' = pc /\ UNCHANGED <<round, outstanding>>
  BY NextIInv DEF ResponseTimeout, Cleanup, vars, SessionInv
<1>2. ASSUME NEW t \in Tasks, ResponseTimeout(t) PROVE SessionInv'
  <2>1. {t} \in SUBSET (Tasks \ {Poller}) /\ GoOn({t}, FALSE)
    BY <1>2 DEF ResponseTimeout, Doing, SessionInv, PollsInScript
  <2>2. UNCHANGED pendingDlmsRequests
    BY <1>2 DEF ResponseTimeout
  <2>3. QED
    BY <1>1, <2>1, <2>2, GoOnTyped DEF SessionInv, SequencesTyped, PollsInScript, EntriesLabelled
<1>3. ASSUME NEW m \in Meters, NEW n \in 1 .. MaxPolls, Cleanup(m, n) PROVE SessionInv'
  <2>1. /\ UNCHANGED <<phase, pos>>
        /\ pendingDlmsRequests' \in [Meters -> SUBSET Entries]
        /\ \A l \in Meters : pendingDlmsRequests'[l] \subseteq pendingDlmsRequests[l]
    BY <1>3 DEF Cleanup, SessionInv, SequencesTyped
  <2>2. QED
    BY <1>1, <2>1 DEF SessionInv, SequencesTyped, PollsInScript, EntriesLabelled
<1>4. QED
  BY <1>2, <1>3

--------------------------------------------------------------------------------
(* Theorems.                                                               *)

\* The invariant holds before anything has started.
LEMMA SessionInitInv == SessionInit => SessionInv
<1> SUFFICES ASSUME SessionInit PROVE SessionInv
  OBVIOUS
<1>1. IInv
  BY InitIInv DEF SessionInit
<1>2. <<>> \in Seq(Requests) /\ DOMAIN <<>> = {}
  OBVIOUS
<1>3. SequencesTyped
  BY <1>2, SessionAssumption DEF SessionInit, Init, SequencesTyped, Phase
<1>4. PollsInScript /\ EntriesLabelled
  BY <1>2, SessionAssumption, PollScriptShape DEF SessionInit, PollsInScript, EntriesLabelled
<1>5. QED
  BY <1>1, <1>3, <1>4 DEF SessionInv

\* Every step of the sequences preserves it.
LEMMA SessionNextInv == SessionInv /\ [SessionNext]_allVars => SessionInv'
<1> SUFFICES ASSUME SessionInv, [SessionNext]_allVars PROVE SessionInv'
  OBVIOUS
<1>1. CASE \E t \in Tasks : Sent(t) \/ SendRefused(t) \/ SendThrows(t)
  BY <1>1, SendingKeepsInv
<1>2. CASE PollNext \/ PollSent
  BY <1>2, PollingKeepsInv
<1>3. CASE \E t \in Tasks : Finish(t)
  BY <1>3, FinishKeepsInv
<1>4. CASE \E m \in Meters : (\E usable \in BOOLEAN : Response(m, usable)) \/ NoResponse(m)
  BY <1>4, ReceivingKeepsInv
<1>5. CASE \/ \E t \in Tasks : ResponseTimeout(t)
           \/ \E m \in Meters, n \in 1 .. MaxPolls : Cleanup(m, n)
  BY <1>5, TimersKeepInv
<1>6. CASE \E m \in Meters : PollDlmsMeter(m)
  BY <1>6, PollStarts
<1>7. CASE \/ \E t \in Tasks, m \in Meters, s \in Scripts : ExecuteCommand(t, m, s)
           \/ \E t \in Tasks : ResumeSession(t) \/ LockTimer(t)
           \/ Restart
           \/ StopPolling
           \/ UNCHANGED allVars
  BY <1>7, LockStepsKeepInv
<1>8. QED
  BY <1>1, <1>2, <1>3, <1>4, <1>5, <1>6, <1>7 DEF SessionNext

\* What polls have asked for and what they wait for stays in their script, whatever
\* is lost, late or thrown.
THEOREM SessionInvariance == SessionSpec => []SessionInv
<1>1. SessionInit => SessionInv
  BY SessionInitInv
<1>2. SessionInv /\ [SessionNext]_allVars => SessionInv'
  BY SessionNextInv
<1>3. QED
  BY <1>1, <1>2, PTL DEF SessionSpec

\* What is published for the answer to a poll carries the register that was read.
LEMMA PollsLabelled ==
  ASSUME SessionInv, NEW m \in Meters, outstanding[m] # <<>>, Head(outstanding[m]).by = Poller
  PROVE  LabelledAsRead(m)
<1> DEFINE q == Head(outstanding[m])
<1>1. q.pos \in 0 .. Len(PollRegisters)
  <2>1. outstanding[m] \in Seq(Requests)
    BY DEF SessionInv, SequencesTyped
  <2>2. 1 \in DOMAIN outstanding[m] /\ q = outstanding[m][1]
    BY <2>1
  <2>3. QED
    BY <2>2 DEF SessionInv, PollsInScript
<1> HIDE DEF q
<1>2. CASE q.pos = 0
  <2>1. Resolved(m, q) = {}
    BY <1>2 DEF Resolved, AnswerTo
  <2>2. QED
    BY <2>1 DEF LabelledAsRead, q
<1>3. CASE q.pos # 0
  <2>1. q.pos \in 1 .. Len(PollRegisters)
    BY <1>1, <1>3, PollScriptShape
  <2>2. /\ AnswerTo(q).invokeId = q.pos
        /\ AnswerTo(q).register = PollRegisters[q.pos]
    BY <1>3, <2>1, PollScriptShape DEF AnswerTo, ScriptOf, q
  <2>3. \A e \in Resolved(m, q) : e.register = AnswerTo(q).register
    BY <2>2 DEF Resolved, SessionInv, EntriesLabelled
  <2>4. QED
    BY <2>3 DEF LabelledAsRead, q
<1>4. QED
  BY <1>2, <1>3

\* No response to a poll is published under another register's name.
THEOREM PollsAlwaysLabelledAsRead == SessionSpec => []PollsLabelledAsRead
<1>1. SessionInv => PollsLabelledAsRead
  BY PollsLabelled DEF PollsLabelledAsRead
<1>2. QED
  BY <1>1, SessionInvariance, PTL

Further(t) ==
  \/ pc'[t] = "idle" /\ phase[t] = "ending"
  \/ /\ pc'[t] = "holding"
     /\ \/ pos'[t] = pos[t] /\ phase'[t] = phase[t]
        \/ pos'[t] = pos[t] /\ PhaseRank[phase'[t]] > PhaseRank[phase[t]]
        \/ pos'[t] > pos[t]

\* The steps of the lock, of the queue of answers and of its cleanups leave a sequence
\* alone.
LEMMA SequencesUndisturbed ==
  ASSUME SessionInv, NEW t \in Tasks, pc[t] = "holding",
         \/ \E u \in Tasks, m \in Meters, s \in Scripts : ExecuteCommand(u, m, s)
         \/ \E m \in Meters : PollDlmsMeter(m) \/ NoResponse(m)
         \/ \E m \in Meters, n \in 1 .. MaxPolls : Cleanup(m, n)
         \/ \E u \in Tasks : ResumeSession(u) \/ LockTimer(u)
         \/ Restart
         \/ StopPolling
  PROVE  pc'[t] = "holding" /\ pos'[t] = pos[t] /\ phase'[t] = phase[t]
<1> USE DEF SessionInv, IInv, TypeOK
<1>1. CASE \/ \E u \in Tasks, m \in Meters, s \in Scripts : ExecuteCommand(u, m, s)
           \/ \E m \in Meters : PollDlmsMeter(m)
  BY <1>1, SessionAssumption
     DEF ExecuteCommand, PollDlmsMeter, AcquireDlmsLock, TakeLock, SetLock, WaitForLock
<1>2. CASE \/ \E m \in Meters : NoResponse(m)
           \/ \E m \in Meters, n \in 1 .. MaxPolls : Cleanup(m, n)
  BY <1>2 DEF NoResponse, Cleanup, vars
<1>3. CASE \E u \in Tasks : ResumeSession(u) \/ LockTimer(u)
  BY <1>3
     DEF ResumeSession, Resume, TakeLock, SetLock, WaitForLock, GiveUp, LockTimer, Deadline,
         LockTimeout, sessionVars
<1>4. CASE Restart \/ StopPolling
  BY <1>4 DEF Restart, Start, StopPolling, Stop, Wake, sessionVars
<1>5. QED
  BY <1>1, <1>2, <1>3, <1>4

\* Going on from a wait leads to the end or to the next request.
LEMMA GoOnAdvances ==
  ASSUME SessionInv, NEW t \in Tasks, NEW S, NEW usable,
         t \in S => phase[t] = "listening", GoOn(S, usable)
  PROVE  \/ pos'[t] = pos[t] /\ phase'[t] = phase[t]
         \/ pos'[t] = pos[t] /\ PhaseRank[phase'[t]] > PhaseRank[phase[t]]
         \/ pos'[t] > pos[t]
<1>1. pos[t] \in Nat /\ pos[t] + 1 > pos[t]
  BY DEF SessionInv, SequencesTyped
<1>2. phase'[t] = IF t \notin S THEN phase[t] ELSE IF Ends(t, usable) THEN "ending" ELSE "sending"
  BY DEF GoOn
<1>3. pos'[t] = IF t \in S /\ ~Ends(t, usable) THEN pos[t] + 1 ELSE pos[t]
  BY DEF GoOn
<1>4. CASE t \notin S
  BY <1>2, <1>3, <1>4
<1>5. CASE t \in S /\ ~Ends(t, usable)
  BY <1>1, <1>3, <1>5
<1>6. CASE t \in S /\ Ends(t, usable)
  <2>1. phase[t] = "listening" /\ phase'[t] = "ending" /\ pos'[t] = pos[t]
    BY <1>2, <1>3, <1>6
  <2>2. PhaseRank["ending"] > PhaseRank["listening"]
    BY DEF PhaseRank
  <2>3. QED
    BY <2>1, <2>2
<1>7. QED
  BY <1>4, <1>5, <1>6

\* A sequence that holds its lock never goes back, and only its finally block ends it.
THEOREM SequencesAlwaysAdvance == SessionSpec => SequencesAdvance
<1>1. ASSUME SessionInv, [SessionNext]_allVars, NEW t \in Tasks, pc[t] = "holding"
      PROVE  Further(t)
  <2> USE <1>1
  <2>1. CASE \/ \E u \in Tasks, m \in Meters, s \in Scripts : ExecuteCommand(u, m, s)
             \/ \E m \in Meters : PollDlmsMeter(m) \/ NoResponse(m)
             \/ \E m \in Meters, n \in 1 .. MaxPolls : Cleanup(m, n)
             \/ \E u \in Tasks : ResumeSession(u) \/ LockTimer(u)
             \/ Restart
             \/ StopPolling
    BY <2>1, SequencesUndisturbed DEF Further
  <2>2. ASSUME NEW u \in Tasks, Sent(u) \/ SendRefused(u) \/ SendThrows(u)
        PROVE  Further(t)
    BY <2>2
       DEF Sent, SendRefused, SendThrows, Doing, vars, Further, PhaseRank, SessionInv,
           SequencesTyped, Phase
  <2>3. CASE PollNext
    BY <2>3, SessionAssumption DEF PollNext, Doing, vars, Further, SessionInv, SequencesTyped
  <2>4. CASE PollSent
    BY <2>4, SessionAssumption
       DEF PollSent, Doing, vars, Further, PhaseRank, SessionInv, SequencesTyped, Phase
  <2>5. ASSUME NEW u \in Tasks, Finish(u) PROVE Further(t)
    <3>1. CASE u = t
      BY <2>5, <3>1 DEF Finish, Doing, Release, Wake, Further, SessionInv, IInv, TypeOK
    <3>2. CASE u # t
      BY <2>5, <3>2
         DEF Finish, Doing, Release, Wake, Further, SessionInv, IInv, TypeOK, SequencesTyped
    <3>3. QED
      BY <3>1, <3>2
  <2>6. ASSUME NEW m \in Meters, NEW usable \in BOOLEAN, Response(m, usable)
        PROVE  Further(t)
    <3>1. /\ pc'[t] = "holding"
          /\ GoOn(Takers(m, Head(outstanding[m])), usable)
          /\ t \in Takers(m, Head(outstanding[m])) => phase[t] = "listening"
      BY <2>6 DEF Response, Takers, Doing, vars
    <3>2. QED
      BY <3>1, GoOnAdvances DEF Further
  <2>7. ASSUME NEW u \in Tasks, ResponseTimeout(u) PROVE Further(t)
    <3>1. /\ pc'[t] = "holding"
          /\ GoOn({u}, FALSE)
          /\ t \in {u} => phase[t] = "listening"
      BY <2>7 DEF ResponseTimeout, Doing, vars
    <3>2. QED
      BY <3>1, GoOnAdvances DEF Further
  <2>8. CASE UNCHANGED allVars
    BY <2>8 DEF allVars, vars, sessionVars, Further
  <2>9. QED
    BY <2>1, <2>2, <2>3, <2>4, <2>5, <2>6, <2>7, <2>8 DEF SessionNext
<1>2. SessionInv /\ [SessionNext]_allVars =>
        [\A t \in Tasks : pc[t] = "holding" => Further(t)]_allVars
  BY <1>1
<1>3. SessionSpec => [][\A t \in Tasks : pc[t] = "holding" => Further(t)]_allVars
  BY <1>2, SessionInvariance, PTL DEF SessionSpec
<1>4. QED
  BY <1>3 DEF SequencesAdvance, Further
--------------------------------------------------------------------------------
(* Answers in step.                                                        *)

\* What the typing of a session adds to that of its steps.
ScriptsTyped ==
  /\ script \in [Commands -> Scripts \cup {<<>>}]
  /\ \A t \in Tasks : pos[t] <= Len(ScriptOf(t))
  /\ \A m \in Meters : \A e, f \in pendingDlmsRequests[m] : e.invokeId = f.invokeId => e = f
  /\ hasPending \subseteq Meters
  /\ detached \in BOOLEAN
  /\ cleanups \in [Meters -> SUBSET (1 .. MaxPolls)]
  /\ inStep \in [Meters -> BOOLEAN]

\* A task that is not in its sequence stands at the start of one.
IdleAtStart == \A t \in Tasks : pc[t] # "holding" => phase[t] = "sending" /\ pos[t] = 0

\* A session in step has its meter for itself.  The meter owes a command the answer to the
\* request the command is listening for and nothing else, and the Map of a meter that a
\* command works on is empty; otherwise all that is outstanding was asked by polls.
InStepWith(m, t) ==
  IF t \in Commands
  THEN /\ pendingDlmsRequests[m] = {}
       /\ phase[t] # "pausing"
       /\ outstanding[m] = IF phase[t] = "listening" THEN <<Current(t)>> ELSE <<>>
  ELSE \A i \in DOMAIN outstanding[m] : outstanding[m][i].by = Poller

Matched(m) ==
  /\ \A t \in evicted : target[t] # m
  /\ InStepWith(m, dlmsAssociationLocks[m])

StepsMatched == \A m \in Meters : inStep[m] => Matched(m)

StepInv ==
  /\ SessionInv
  /\ ScriptsTyped
  /\ IdleAtStart
  /\ StepsMatched

--------------------------------------------------------------------------------
(* Scripts are sequences.                                                  *)

\* What either kind of sequence sends is a list of requests.
LEMMA ScriptsAreSequences ==
  \A s \in Scripts \cup {<<>>, PollScript} : Len(s) \in Nat
<1> DEFINE S == [type : {"get-response"}, register : STRING, invokeId : Nat, required : BOOLEAN]
<1>2. ASSUME NEW registers \in Seq(STRING)
      PROVE  Len(ReadAllScript(registers)) \in Nat
  <2>1. PICK n \in Nat : n = Len(registers)
    BY <1>2, LenProperties
  <2>2. DOMAIN registers = 1 .. n /\ \A i \in 1 .. n : registers[i] \in STRING
    BY <1>2, <2>1, LenProperties, ElementOfSeq
  <2>3. ReadAllScript(registers) = [i \in 1 .. n |-> Get(registers[i], i, FALSE)]
    BY <2>2 DEF ReadAllScript, InvokeId
  <2>4. ReadAllScript(registers) \in [1 .. n -> S]
    BY <2>2, <2>3 DEF Get
  <2> HIDE DEF S
  <2>5. ReadAllScript(registers) \in Seq(S)
    <3>1. Seq(S) = UNION {[1 .. k -> S] : k \in Nat}
      BY SeqDef, Zenon
    <3>2. QED
      BY <2>1, <2>4, <3>1
  <2>6. QED
    BY <2>5, LenProperties
<1>3. Len(PollScript) \in Nat /\ Len(ReadAllScript(ReadAllRegisters)) \in Nat
  BY <1>2, SessionAssumption DEF PollScript
<1>4. \A r : Len(ReadRegisterScript(r)) \in Nat
  BY DEF ReadRegisterScript
<1>5. Len(RelayControlScript) \in Nat /\ Len(ReadRelayStateScript) \in Nat
  BY DEF RelayControlScript, ReadRelayStateScript
<1>6. Len(<<>>) \in Nat
  OBVIOUS
<1>7. QED
  BY <1>3, <1>4, <1>5, <1>6 DEF Scripts

\* The lock of a meter and the sequences on it.
LEMMA OwnerFacts ==
  ASSUME SessionInv, NEW m \in Meters, NEW t \in Tasks
  PROVE  /\ dlmsAssociationLocks[m] = t <=> pc[t] = "holding" /\ target[t] = m /\ t \notin evicted
         /\ dlmsAssociationLocks[m] \in Tasks \cup {NoTask}
         /\ NoTask \notin Tasks
         /\ evicted \subseteq {u \in Tasks : pc[u] = "holding"}
BY LockAssumption DEF SessionInv, IInv, TypeOK, LockMatchesHolder, Holds

\* What a step leaves alone on a meter stays matched.
LEMMA MeterKept ==
  ASSUME SessionInv, NEW m \in Meters, Matched(m),
         UNCHANGED <<dlmsAssociationLocks, target, evicted>>,
         outstanding'[m] = outstanding[m],
         pendingDlmsRequests'[m] \subseteq pendingDlmsRequests[m],
         dlmsAssociationLocks[m] \in Commands =>
            /\ phase'[dlmsAssociationLocks[m]] = phase[dlmsAssociationLocks[m]]
            /\ pos'[dlmsAssociationLocks[m]] = pos[dlmsAssociationLocks[m]]
  PROVE  Matched(m)'
<1>1. PICK t : t = dlmsAssociationLocks[m]
  OBVIOUS
<1>2. t \in Commands => Current(t)' = Current(t)
  BY <1>1 DEF Current, Commands
<1>3. InStepWith(m, t)'
  BY <1>1, <1>2 DEF Matched, InStepWith
<1>4. QED
  BY <1>1, <1>3 DEF Matched

--------------------------------------------------------------------------------
(* The lock.                                                               *)

\* A session begins, or the lock is waited for.
LEMMA LockStepMatches ==
  ASSUME StepInv,
         UNCHANGED <<phase, pos, outstanding, pendingDlmsRequests, evicted>>,
         \A t \in evicted : target'[t] = target[t],
         \A t \in Tasks : pc'[t] # "holding" => pc[t] # "holding",
         \A m \in Meters :
            \/ dlmsAssociationLocks'[m] = dlmsAssociationLocks[m] /\ inStep'[m] = inStep[m]
            \/ /\ dlmsAssociationLocks'[m] \in Tasks
               /\ pc[dlmsAssociationLocks'[m]] # "holding"
               /\ inStep'[m] = Quiet(m)
  PROVE  IdleAtStart' /\ StepsMatched'
<1>1. IdleAtStart'
  BY DEF StepInv, IdleAtStart
<1>2. ASSUME NEW m \in Meters, inStep'[m] PROVE Matched(m)'
  <2>1. CASE dlmsAssociationLocks'[m] = dlmsAssociationLocks[m] /\ inStep'[m] = inStep[m]
    <3>1. Matched(m)
      BY <1>2, <2>1 DEF StepInv, StepsMatched, Matched
    <3>2. PICK t : t = dlmsAssociationLocks[m]
      OBVIOUS
    <3>3. t \in Commands => Current(t)' = Current(t)
      BY DEF Current, Commands
    <3>4. InStepWith(m, t)'
      BY <3>1, <3>2, <3>3 DEF Matched, InStepWith
    <3>5. QED
      BY <2>1, <3>1, <3>2, <3>4 DEF Matched
  <2>2. CASE /\ dlmsAssociationLocks'[m] \in Tasks
             /\ pc[dlmsAssociationLocks'[m]] # "holding"
             /\ inStep'[m] = Quiet(m)
    <3>1. PICK t \in Tasks : t = dlmsAssociationLocks'[m]
      BY <2>2
    <3>2. phase'[t] = "sending"
      BY <2>2, <3>1 DEF StepInv, IdleAtStart
    <3>3. /\ outstanding'[m] = <<>> /\ pendingDlmsRequests'[m] = {}
          /\ \A u \in evicted : target[u] # m
      BY <1>2, <2>2 DEF Quiet
    <3>4. InStepWith(m, t)'
      BY <3>2, <3>3 DEF InStepWith
    <3>5. QED
      BY <3>1, <3>3, <3>4 DEF Matched
  <2>3. QED
    BY <2>1, <2>2
<1>3. QED
  BY <1>1, <1>2 DEF StepsMatched, Matched

\* The other steps of the lock.
LEMMA LockStepsKeepSteps ==
  ASSUME StepInv,
         \/ \E t \in Tasks, m \in Meters, s \in Scripts : ExecuteCommand(t, m, s)
         \/ \E m \in Meters : PollDlmsMeter(m)
         \/ \E t \in Tasks : ResumeSession(t) \/ LockTimer(t)
         \/ Restart
         \/ UNCHANGED allVars
  PROVE  IdleAtStart' /\ StepsMatched'
<1> USE DEF IInv, TypeOK
<1>1. SessionInv /\ inStep \in [Meters -> BOOLEAN] /\ NoTask \notin Tasks
  BY LockAssumption DEF StepInv, ScriptsTyped
<1>2. \A t \in Tasks, m \in Meters : dlmsAssociationLocks[m] # NoTask \/ dlmsAssociationLocks[m] \notin Tasks
  BY <1>1
<1>3. ASSUME NEW t \in Tasks, NEW m \in Meters, AcquireDlmsLock(t, m), NoteSessionStart
      PROVE  /\ UNCHANGED evicted
             /\ \A u \in evicted : target'[u] = target[u]
             /\ \A u \in Tasks : pc'[u] # "holding" => pc[u] # "holding"
             /\ \A n \in Meters :
                  \/ dlmsAssociationLocks'[n] = dlmsAssociationLocks[n] /\ inStep'[n] = inStep[n]
                  \/ /\ dlmsAssociationLocks'[n] \in Tasks
                     /\ pc[dlmsAssociationLocks'[n]] # "holding"
                     /\ inStep'[n] = Quiet(n)
  <2>1. UNCHANGED evicted /\ pc[t] = "idle" /\ t \notin evicted /\ target' = [target EXCEPT ![t] = m]
    BY <1>1, <1>3 DEF AcquireDlmsLock, SessionInv
  <2>2. CASE TakeLock(t, m)
    <3>1. \A u \in Tasks : pc'[u] # "holding" => pc[u] # "holding"
      BY <1>1, <2>1, <2>2 DEF TakeLock, SetLock, SessionInv
    <3>2. \A n \in Meters : dlmsAssociationLocks'[n] = IF n = m THEN t ELSE dlmsAssociationLocks[n]
      BY <1>1, <2>2 DEF TakeLock, SetLock, SessionInv
    <3>3. dlmsAssociationLocks[m] = NoTask
      BY <2>2 DEF TakeLock
    <3>4. \A n \in Meters : inStep'[n] = IF n = m THEN Quiet(n) ELSE inStep[n]
      BY <1>1, <1>3, <3>2, <3>3 DEF NoteSessionStart
    <3>5. QED
      BY <1>1, <2>1, <3>1, <3>2, <3>4 DEF SessionInv
  <2>3. CASE WaitForLock(t, m)
    <3>1. \A u \in Tasks : pc'[u] # "holding" => pc[u] # "holding"
      BY <1>1, <2>1, <2>3 DEF WaitForLock, SessionInv
    <3>2. dlmsAssociationLocks' = dlmsAssociationLocks
      BY <2>3 DEF WaitForLock
    <3>4. \A n \in Meters : inStep'[n] = inStep[n]
      BY <1>1, <1>3, <3>2 DEF NoteSessionStart
    <3>5. QED
      BY <1>1, <2>1, <3>1, <3>2, <3>4 DEF SessionInv
  <2>4. QED
    BY <1>3, <2>2, <2>3 DEF AcquireDlmsLock
<1>4. CASE \/ \E t \in Tasks, m \in Meters, s \in Scripts : ExecuteCommand(t, m, s)
           \/ \E m \in Meters : PollDlmsMeter(m)
  <2>1. UNCHANGED <<phase, pos, outstanding, pendingDlmsRequests>>
    BY <1>4 DEF ExecuteCommand, PollDlmsMeter
  <2>2. PICK t \in Tasks, m \in Meters : AcquireDlmsLock(t, m) /\ NoteSessionStart
    BY <1>4, SessionAssumption DEF ExecuteCommand, PollDlmsMeter
  <2>3. QED
    BY <1>3, <2>1, <2>2, LockStepMatches
<1>5. CASE \E t \in Tasks : ResumeSession(t)
  <2>1. PICK t \in Tasks : ResumeSession(t)
    BY <1>5
  <2>2. /\ UNCHANGED <<phase, pos, outstanding, pendingDlmsRequests, evicted, target>>
        /\ pc[t] = "woken" /\ NoteSessionStart
    BY <2>1 DEF ResumeSession, Resume
  <2> DEFINE m == target[t]
  <2>3. m \in Meters
    BY <1>1 DEF SessionInv
  <2> HIDE DEF m
  <2>4. CASE TakeLock(t, target[t])
    <3>1. \A u \in Tasks : pc'[u] # "holding" => pc[u] # "holding"
      BY <1>1, <2>2, <2>4 DEF TakeLock, SetLock, SessionInv
    <3>2. \A n \in Meters : dlmsAssociationLocks'[n] = IF n = m THEN t ELSE dlmsAssociationLocks[n]
      BY <1>1, <2>4 DEF TakeLock, SetLock, SessionInv, m
    <3>3. dlmsAssociationLocks[m] = NoTask
      BY <2>4 DEF TakeLock, m
    <3>4. \A n \in Meters : inStep'[n] = IF n = m THEN Quiet(n) ELSE inStep[n]
      BY <1>1, <2>2, <3>2, <3>3 DEF NoteSessionStart
    <3>5. \A n \in Meters :
            \/ dlmsAssociationLocks'[n] = dlmsAssociationLocks[n] /\ inStep'[n] = inStep[n]
            \/ /\ dlmsAssociationLocks'[n] \in Tasks
               /\ pc[dlmsAssociationLocks'[n]] # "holding"
               /\ inStep'[n] = Quiet(n)
      BY <2>2, <3>2, <3>4
    <3>6. QED
      BY <2>2, <3>1, <3>5, LockStepMatches
  <2>5. CASE WaitForLock(t, target[t]) \/ GiveUp(t)
    <3>1. \A u \in Tasks : pc'[u] # "holding" => pc[u] # "holding"
      BY <1>1, <2>2, <2>5 DEF WaitForLock, GiveUp, SessionInv
    <3>2. dlmsAssociationLocks' = dlmsAssociationLocks
      BY <2>5 DEF WaitForLock, GiveUp
    <3>4. \A n \in Meters : inStep'[n] = inStep[n]
      BY <1>1, <2>2, <3>2 DEF NoteSessionStart
    <3>6. QED
      BY <2>2, <3>1, <3>2, <3>4, LockStepMatches
  <2>6. QED
    BY <2>1, <2>4, <2>5 DEF ResumeSession, Resume
<1>6. CASE \/ \E t \in Tasks : LockTimer(t)
           \/ Restart
           \/ UNCHANGED allVars
  <2>1. UNCHANGED <<phase, pos, outstanding, pendingDlmsRequests, evicted, target,
                    dlmsAssociationLocks, inStep>>
    BY <1>6 DEF LockTimer, Deadline, LockTimeout, GiveUp, Restart, Start, allVars, vars, sessionVars
  <2>2. \A u \in Tasks : pc'[u] # "holding" => pc[u] # "holding"
    BY <1>1, <1>6
       DEF LockTimer, Deadline, LockTimeout, GiveUp, Restart, Start, allVars, vars, SessionInv
  <2>3. QED
    BY <2>1, <2>2, LockStepMatches
<1>7. QED
  BY <1>4, <1>5, <1>6

\* stop() ends what was in step on every meter with a session.
LEMMA StopKeepsSteps ==
  ASSUME StepInv, StopPolling
  PROVE  IdleAtStart' /\ StepsMatched'
<1>1. UNCHANGED <<phase, pos, outstanding, pendingDlmsRequests, target>>
  BY DEF StopPolling, Stop
<1>2. \A t \in Tasks : pc'[t] # "holding" => pc[t] # "holding"
  BY DEF StopPolling, Stop, Wake, StepInv, SessionInv, IInv, TypeOK
<1>3. IdleAtStart'
  BY <1>1, <1>2 DEF StepInv, IdleAtStart
<1>4. ASSUME NEW m \in Meters, inStep'[m] PROVE Matched(m)'
  <2>1. inStep[m] /\ dlmsAssociationLocks[m] = NoTask
    BY <1>4 DEF StopPolling
  <2>2. /\ dlmsAssociationLocks' = [n \in Meters |-> NoTask]
        /\ evicted' = evicted \cup {t \in Tasks : \E n \in Meters : dlmsAssociationLocks[n] = t}
    BY DEF StopPolling, Stop
  <2>3. Matched(m)
    BY <2>1 DEF StepInv, StepsMatched, Matched
  <2>4. \A t \in evicted' : target'[t] # m
    <3>1. ASSUME NEW t \in Tasks, NEW n \in Meters, dlmsAssociationLocks[n] = t PROVE target[t] # m
      BY <2>1, <3>1, OwnerFacts DEF StepInv
    <3>2. QED
      BY <1>1, <2>2, <2>3, <3>1 DEF Matched
  <2>5. NoTask \notin Commands
    BY LockAssumption DEF Commands
  <2>6. InStepWith(m, NoTask)'
    BY <1>1, <2>1, <2>3, <2>5 DEF Matched, InStepWith
  <2>7. dlmsAssociationLocks'[m] = NoTask
    BY <2>2
  <2>8. QED
    BY <2>4, <2>6, <2>7 DEF Matched
<1>5. QED
  BY <1>3, <1>4 DEF StepsMatched, Matched

--------------------------------------------------------------------------------
(* Steps of a sequence.                                                    *)

\* Whoever is in its sequence on a meter in step owns its lock.
LEMMA OwnerInStep ==
  ASSUME StepInv, NEW m \in Meters, inStep[m], NEW t \in Tasks, pc[t] = "holding", target[t] = m
  PROVE  dlmsAssociationLocks[m] = t /\ InStepWith(m, t)
BY OwnerFacts DEF StepInv, StepsMatched, Matched

\* A step of t leaves the other meters as they were.
LEMMA OtherMeters ==
  ASSUME StepInv, NEW t \in Tasks, pc[t] = "holding", NEW m \in Meters, m # target[t], inStep[m],
         UNCHANGED <<dlmsAssociationLocks, target, evicted>>,
         outstanding'[m] = outstanding[m],
         pendingDlmsRequests'[m] \subseteq pendingDlmsRequests[m],
         \A u \in Tasks \ {t} : phase'[u] = phase[u] /\ pos'[u] = pos[u]
  PROVE  Matched(m)'
<1>1. Matched(m) /\ SessionInv
  BY DEF StepInv, StepsMatched, Matched
<1>2. dlmsAssociationLocks[m] \in Commands => dlmsAssociationLocks[m] \in Tasks \ {t}
  BY <1>1, OwnerFacts DEF Commands
<1>3. QED
  BY <1>1, <1>2, MeterKept

\* A request in step is behind everything the meter owes.
LEMMA SendingKeepsSteps ==
  ASSUME StepInv, NEW t \in Tasks, Sent(t) \/ SendRefused(t) \/ SendThrows(t)
  PROVE  IdleAtStart' /\ StepsMatched'
<1>1. /\ UNCHANGED <<dlmsAssociationLocks, pc, target, evicted, pos, pendingDlmsRequests>>
      /\ pc[t] = "holding" /\ phase[t] = "sending"
      /\ \A u \in Tasks \ {t} : phase'[u] = phase[u]
  BY DEF Sent, SendRefused, SendThrows, Doing, vars, StepInv, SessionInv, SequencesTyped
<1>2. IdleAtStart'
  BY <1>1 DEF StepInv, IdleAtStart
<1>3. /\ target[t] \in Meters
      /\ outstanding \in [Meters -> Seq(Requests)]
      /\ phase \in [Tasks -> Phase]
      /\ inStep \in [Meters -> BOOLEAN]
  BY DEF StepInv, SessionInv, IInv, TypeOK, SequencesTyped, ScriptsTyped
<1>4. CASE SendRefused(t) \/ SendThrows(t)
  <2>1. ASSUME NEW m \in Meters, inStep'[m] PROVE Matched(m)'
    <3>1. m # target[t] /\ inStep[m] /\ UNCHANGED outstanding
      BY <1>3, <1>4, <2>1 DEF SendRefused, SendThrows, OutOfStep
    <3>2. QED
      BY <1>1, <3>1, OtherMeters
  <2>2. QED
    BY <1>2, <2>1 DEF StepsMatched, Matched
<1>5. CASE Sent(t)
  <2>0. PICK l \in Meters : l = target[t]
    BY <1>3
  <2>00. PICK q : q = Current(t)
    OBVIOUS
  <2> DEFINE s == outstanding[l]
  <2>1. /\ outstanding' = [outstanding EXCEPT ![l] = Append(s, q)]
        /\ phase'[t] = IF t = Poller THEN "pausing" ELSE "listening"
        /\ UNCHANGED inStep
        /\ UNCHANGED round
    BY <1>3, <1>5, <2>0, <2>00 DEF Sent
  <2>2. ASSUME NEW m \in Meters, inStep'[m], m # l PROVE Matched(m)'
    <3>1. outstanding'[m] = outstanding[m] /\ inStep[m]
      BY <1>3, <2>1, <2>2
    <3>2. QED
      BY <1>1, <2>0, <2>2, <3>1, OtherMeters
  <2>3. ASSUME inStep'[l] PROVE Matched(l)'
    <3>1. dlmsAssociationLocks[l] = t /\ InStepWith(l, t) /\ \A u \in evicted : target[u] # l
      BY <1>1, <1>3, <2>0, <2>1, <2>3, OwnerInStep DEF StepInv, StepsMatched, Matched
    <3>2. outstanding'[l] = Append(s, q)
      BY <1>3, <2>1
    <3>3. CASE t \in Commands
      <4>1. s = <<>> /\ pendingDlmsRequests[l] = {}
        BY <1>1, <3>1, <3>3 DEF InStepWith
      <4>2. Append(s, q) = <<q>>
        BY <4>1
      <4>3. Current(t)' = q /\ phase'[t] = "listening"
        BY <1>1, <2>1, <2>00, <3>3 DEF Current, Commands
      <4>4. InStepWith(l, t)'
        BY <1>1, <3>2, <3>3, <4>1, <4>2, <4>3 DEF InStepWith
      <4>5. QED
        BY <1>1, <3>1, <4>4 DEF Matched
    <3>4. CASE t \notin Commands
      <4>1. t = Poller /\ q.by = Poller
        BY <2>00, <3>4 DEF Commands, Current
      <4>2. \A i \in DOMAIN s : s[i].by = Poller
        BY <3>1, <3>4 DEF InStepWith
      <4>3. s \in Seq(Requests) /\ q \in Requests
        <5>1. pos \in [Tasks -> Nat] /\ round \in 0 .. MaxPolls
          BY DEF StepInv, SessionInv, SequencesTyped
        <5>2. 0 \in 0 .. MaxPolls
          BY SessionAssumption
        <5>3. q \in Requests
          BY <2>00, <5>1, <5>2 DEF Current, Requests
        <5>4. QED
          BY <1>3, <5>3
      <4> HIDE DEF s
      <4>4. /\ DOMAIN Append(s, q) = 1 .. (Len(s) + 1) /\ DOMAIN s = 1 .. Len(s)
            /\ Len(s) \in Nat
            /\ \A i \in 1 .. Len(s) : Append(s, q)[i] = s[i]
            /\ Append(s, q)[Len(s) + 1] = q
        BY <4>3, AppendProperties, LenProperties
      <4>5. \A i \in DOMAIN Append(s, q) : Append(s, q)[i].by = Poller
        BY <4>1, <4>2, <4>4
      <4>6. InStepWith(l, t)'
        BY <3>2, <3>4, <4>5 DEF InStepWith, Commands
      <4>7. QED
        BY <1>1, <3>1, <4>6 DEF Matched
    <3>5. QED
      BY <3>3, <3>4
  <2>4. QED
    BY <1>2, <2>2, <2>3 DEF StepsMatched, Matched
<1>6. QED
  BY <1>4, <1>5

\* A pause of the poll ends, and nothing is asked for or answered.
LEMMA PollingKeepsSteps ==
  ASSUME StepInv, PollNext \/ PollSent
  PROVE  IdleAtStart' /\ StepsMatched'
<1> DEFINE l == target[Poller]
<1>1. /\ UNCHANGED <<dlmsAssociationLocks, pc, target, evicted, outstanding, inStep>>
      /\ Poller \in Tasks
      /\ pc[Poller] = "holding" /\ phase[Poller] = "pausing"
      /\ \A u \in Tasks \ {Poller} : phase'[u] = phase[u] /\ pos'[u] = pos[u]
      /\ \A m \in Meters \ {l} : pendingDlmsRequests'[m] = pendingDlmsRequests[m]
  BY SessionAssumption DEF PollNext, PollSent, Doing, vars, StepInv, SessionInv, SequencesTyped
<1> HIDE DEF l
<1>2. IdleAtStart'
  BY <1>1 DEF StepInv, IdleAtStart
<1>3. ASSUME NEW m \in Meters, inStep'[m] PROVE Matched(m)'
  <2>1. CASE m # l
    BY <1>1, <1>3, <2>1, OtherMeters DEF l
  <2>2. CASE m = l
    <3>1. dlmsAssociationLocks[m] = Poller /\ InStepWith(m, Poller) /\ \A u \in evicted : target[u] # m
      BY <1>1, <1>3, <2>2, OwnerInStep DEF StepInv, StepsMatched, Matched, l
    <3>2. Poller \notin Commands
      BY DEF Commands
    <3>3. InStepWith(m, Poller)'
      BY <1>1, <3>1, <3>2 DEF InStepWith, Commands
    <3>4. QED
      BY <1>1, <3>1, <3>3 DEF Matched
  <2>3. QED
    BY <2>1, <2>2
<1>4. QED
  BY <1>2, <1>3 DEF StepsMatched, Matched

\* A sequence ends, in step or not.
LEMMA FinishKeepsSteps ==
  ASSUME StepInv, NEW t \in Tasks, Finish(t)
  PROVE  IdleAtStart' /\ StepsMatched'
<1> DEFINE l == target[t]
<1>1. /\ UNCHANGED <<target, outstanding, pendingDlmsRequests, inStep>>
      /\ pc[t] = "holding" /\ phase[t] = "ending"
      /\ evicted' = evicted \ {t}
      /\ phase' = [phase EXCEPT ![t] = "sending"] /\ pos' = [pos EXCEPT ![t] = 0]
      /\ \/ /\ dlmsAssociationLocks[l] = t
            /\ dlmsAssociationLocks' = [dlmsAssociationLocks EXCEPT ![l] = NoTask]
         \/ dlmsAssociationLocks[l] # t /\ UNCHANGED dlmsAssociationLocks
  BY DEF Finish, Doing, Release, OwnLock
<1>2. /\ l \in Meters /\ inStep \in [Meters -> BOOLEAN]
      /\ phase \in [Tasks -> Phase] /\ pos \in [Tasks -> Nat]
      /\ dlmsAssociationLocks \in [Meters -> Tasks \cup {NoTask}]
      /\ pc \in [Tasks -> Place]
      /\ SessionInv
  BY DEF StepInv, SessionInv, IInv, TypeOK, SequencesTyped, ScriptsTyped
<1>3. \A u \in Tasks \ {t} : pc'[u] # "holding" => pc[u] # "holding"
  BY <1>2 DEF Finish, Release, Wake
<1>4. IdleAtStart'
  BY <1>1, <1>2, <1>3 DEF StepInv, IdleAtStart
<1> HIDE DEF l
<1>5. ASSUME NEW m \in Meters, inStep'[m] PROVE Matched(m)'
  <2>1. Matched(m) /\ inStep[m]
    BY <1>1, <1>5 DEF StepInv, StepsMatched, Matched
  <2>2. \A u \in evicted' : target'[u] # m
    BY <1>1, <2>1 DEF Matched
  <2>3. CASE m = l
    <3>1. dlmsAssociationLocks[m] = t /\ InStepWith(m, t)
      BY <1>1, <2>1, <2>3, OwnerInStep DEF l
    <3>2. \A i \in DOMAIN outstanding[m] : outstanding[m][i].by = Poller
      <4>1. CASE t \in Commands
        <5>1. outstanding[m] = <<>>
          BY <1>1, <3>1, <4>1 DEF InStepWith
        <5>2. DOMAIN <<>> = {}
          OBVIOUS
        <5>3. QED
          BY <5>1, <5>2
      <4>2. QED
        BY <3>1, <4>1 DEF InStepWith
    <3>3. dlmsAssociationLocks'[m] = NoTask /\ NoTask \notin Commands
      BY <1>1, <1>2, <2>3, <3>1, LockAssumption DEF Commands
    <3>4. InStepWith(m, NoTask)'
      BY <1>1, <3>2, <3>3 DEF InStepWith, Commands
    <3>5. QED
      BY <2>2, <3>3, <3>4 DEF Matched
  <2>4. CASE m # l
    <3>1. dlmsAssociationLocks'[m] = dlmsAssociationLocks[m]
      BY <1>1, <1>2, <2>4
    <3>2. PICK u : u = dlmsAssociationLocks[m]
      OBVIOUS
    <3>3. ASSUME u \in Commands PROVE u \in Tasks \ {t}
      BY <1>1, <1>2, <2>4, <3>2, <3>3, OwnerFacts DEF Commands, l
    <3>4. u \in Commands => Current(u)' = Current(u) /\ phase'[u] = phase[u]
      BY <1>1, <1>2, <3>3 DEF Current, Commands
    <3>5. InStepWith(m, u)'
      BY <1>1, <2>1, <3>2, <3>4 DEF Matched, InStepWith, Commands
    <3>6. QED
      BY <2>2, <3>1, <3>2, <3>5 DEF Matched
  <2>5. QED
    BY <2>3, <2>4
<1>6. QED
  BY <1>4, <1>5 DEF StepsMatched, Matched

--------------------------------------------------------------------------------
(* Answers.                                                                *)

\* The listeners that the answer to a command's request reaches: the command itself.
LEMMA TakersInStep ==
  ASSUME StepInv, NEW m \in Meters, inStep[m], outstanding[m] # <<>>,
         NEW t \in Takers(m, Head(outstanding[m]))
  PROVE  /\ t \in Commands
         /\ dlmsAssociationLocks[m] = t
         /\ phase[t] = "listening"
         /\ InStepWith(m, t)
BY OwnerInStep DEF Takers, Doing, Commands

\* Commands that go on leave the tasks outside of S alone.
LEMMA GoOnOthers ==
  ASSUME NEW S, NEW usable, GoOn(S, usable), NEW u \in Tasks, u \notin S
  PROVE  phase'[u] = phase[u] /\ pos'[u] = pos[u]
BY DEF GoOn

\* A response takes the oldest request, which is the one waited for.
LEMMA ReceivingKeepsSteps ==
  ASSUME StepInv, NEW m \in Meters,
         (\E usable \in BOOLEAN : Response(m, usable)) \/ NoResponse(m)
  PROVE  IdleAtStart' /\ StepsMatched'
<1> DEFINE Q == Takers(m, Head(outstanding[m]))
<1>1. /\ UNCHANGED <<dlmsAssociationLocks, pc, target, evicted>>
      /\ outstanding[m] # <<>>
      /\ outstanding' = [outstanding EXCEPT ![m] = Tail(@)]
      /\ \A n \in Meters : pendingDlmsRequests'[n] \subseteq pendingDlmsRequests[n]
  BY DEF Response, NoResponse, vars, StepInv, SessionInv, SequencesTyped
<1>2. /\ outstanding \in [Meters -> Seq(Requests)]
      /\ inStep \in [Meters -> BOOLEAN]
  BY DEF StepInv, SessionInv, SequencesTyped, ScriptsTyped
<1>3. \A u \in Q : u \in Commands /\ pc[u] = "holding" /\ target[u] = m /\ phase[u] = "listening"
  BY DEF Takers, Doing
<1>4. \A u \in Tasks \ Q : phase'[u] = phase[u] /\ pos'[u] = pos[u]
  <2>1. CASE NoResponse(m)
    BY <2>1 DEF NoResponse
  <2>2. CASE \E usable \in BOOLEAN : Response(m, usable)
    <3>1. PICK usable \in BOOLEAN : GoOn(Q, usable)
      BY <2>2 DEF Response
    <3> HIDE DEF Q
    <3>2. QED
      BY <3>1, GoOnOthers
  <2>3. QED
    BY <2>1, <2>2
<1>5. IdleAtStart'
  BY <1>1, <1>3, <1>4 DEF StepInv, IdleAtStart
<1>6. ASSUME NEW n \in Meters, n # m, inStep'[n] PROVE Matched(n)'
  <2>1. inStep[n] /\ outstanding'[n] = outstanding[n]
    BY <1>1, <1>2, <1>6 DEF Response, NoResponse, OutOfStep
  <2>2. Matched(n) /\ SessionInv
    BY <2>1 DEF StepInv, StepsMatched, Matched
  <2>3. dlmsAssociationLocks[n] \in Commands => dlmsAssociationLocks[n] \in Tasks \ Q
    BY <1>3, <1>6, <2>2, OwnerFacts DEF Commands
  <2> HIDE DEF Q
  <2>4. QED
    BY <1>1, <1>4, <2>1, <2>2, <2>3, MeterKept
<1>7. ASSUME inStep'[m] PROVE Matched(m)'
  <2>1. PICK usable \in BOOLEAN : Response(m, usable)
    BY <1>2, <1>7 DEF NoResponse, OutOfStep
  <2>2. inStep[m] /\ GoOn(Q, usable) /\ UNCHANGED round
    BY <1>7, <2>1 DEF Response
  <2>3. Matched(m)
    BY <2>2 DEF StepInv, StepsMatched, Matched
  <2>4. PICK t : t = dlmsAssociationLocks[m]
    OBVIOUS
  <2>5. outstanding'[m] = Tail(outstanding[m])
    BY <1>1, <1>2
  <2>6. outstanding[m] \in Seq(Requests)
    BY <1>2
  <2>7. CASE t \in Commands
    <3>1. /\ phase[t] = "listening"
          /\ outstanding[m] = <<Current(t)>>
          /\ pendingDlmsRequests[m] = {}
      BY <1>1, <2>3, <2>4, <2>7 DEF Matched, InStepWith
    <3>2. Head(outstanding[m]) = Current(t) /\ Tail(outstanding[m]) = <<>>
      BY <3>1
    <3>3. pc[t] = "holding" /\ target[t] = m
      BY <2>4, <2>7, OwnerFacts DEF StepInv, Commands
    <3>4. t \in Q
      BY <2>7, <3>1, <3>2, <3>3 DEF Takers, Doing
    <3>5. phase'[t] \in {"sending", "ending"}
      <4>1. t \in Tasks
        BY <2>7 DEF Commands
      <4> HIDE DEF Q
      <4>2. QED
        BY <2>2, <3>4, <4>1 DEF GoOn
    <3>6. InStepWith(m, t)'
      BY <1>1, <2>5, <2>7, <3>1, <3>2, <3>5 DEF InStepWith, Commands
    <3>7. QED
      BY <1>1, <2>3, <2>4, <3>6 DEF Matched
  <2>8. CASE t \notin Commands
    <3>1. \A i \in DOMAIN outstanding[m] : outstanding[m][i].by = Poller
      BY <2>3, <2>4, <2>8 DEF Matched, InStepWith
    <3> DEFINE o == outstanding[m]
    <3>2. o # <<>> /\ o \in Seq(Requests)
      BY <1>1, <2>6
    <3> HIDE DEF o
    <3>3. /\ Len(Tail(o)) = Len(o) - 1 /\ Len(o) \in Nat
          /\ \A i \in 1 .. Len(Tail(o)) : Tail(o)[i] = o[i + 1]
          /\ DOMAIN Tail(o) = 1 .. Len(Tail(o)) /\ DOMAIN o = 1 .. Len(o)
      BY <3>2, HeadTailProperties, LenProperties
    <3>4. \A i \in DOMAIN Tail(o) : i + 1 \in DOMAIN o /\ Tail(o)[i] = o[i + 1]
      BY <3>3
    <3>5. \A i \in DOMAIN Tail(o) : Tail(o)[i].by = Poller
      BY <3>1, <3>4 DEF o
    <3>6. InStepWith(m, t)'
      BY <2>5, <2>8, <3>5 DEF InStepWith, o, Commands
    <3>7. QED
      BY <1>1, <2>3, <2>4, <3>6 DEF Matched
  <2>9. QED
    BY <2>7, <2>8
<1>8. QED
  BY <1>5, <1>6, <1>7 DEF StepsMatched, Matched

\* A timer that fires puts its meter out of step.
LEMMA TimersKeepSteps ==
  ASSUME StepInv,
         \/ \E t \in Tasks : ResponseTimeout(t)
         \/ \E m \in Meters, n \in 1 .. MaxPolls : Cleanup(m, n)
  PROVE  IdleAtStart' /\ StepsMatched'
<1>1. ASSUME NEW t \in Tasks, ResponseTimeout(t) PROVE IdleAtStart' /\ StepsMatched'
  <2>1. /\ UNCHANGED <<dlmsAssociationLocks, pc, target, evicted, outstanding, pendingDlmsRequests>>
        /\ pc[t] = "holding" /\ GoOn({t}, FALSE)
        /\ OutOfStep(target[t])
        /\ inStep \in [Meters -> BOOLEAN] /\ target[t] \in Meters
    BY <1>1 DEF ResponseTimeout, Doing, vars, StepInv, ScriptsTyped, SessionInv, IInv, TypeOK
  <2>2. \A u \in Tasks \ {t} : phase'[u] = phase[u] /\ pos'[u] = pos[u]
    BY <2>1 DEF GoOn
  <2>3. IdleAtStart'
    BY <2>1, <2>2 DEF StepInv, IdleAtStart
  <2>4. ASSUME NEW m \in Meters, inStep'[m] PROVE Matched(m)'
    <3>1. inStep[m] /\ m # target[t]
      BY <2>1, <2>4 DEF OutOfStep
    <3>2. QED
      BY <2>1, <2>2, <3>1, OtherMeters
  <2>5. QED
    BY <2>3, <2>4 DEF StepsMatched, Matched
<1>2. ASSUME NEW l \in Meters, NEW n \in 1 .. MaxPolls, Cleanup(l, n)
      PROVE  IdleAtStart' /\ StepsMatched'
  <2>1. /\ UNCHANGED <<dlmsAssociationLocks, pc, target, evicted, outstanding, phase, pos, inStep>>
        /\ \A m \in Meters : pendingDlmsRequests'[m] \subseteq pendingDlmsRequests[m]
    BY <1>2 DEF Cleanup, vars, StepInv, SessionInv, SequencesTyped
  <2>2. IdleAtStart'
    BY <2>1 DEF StepInv, IdleAtStart
  <2>3. ASSUME NEW m \in Meters, inStep'[m] PROVE Matched(m)'
    BY <2>1, <2>3, MeterKept DEF StepInv, StepsMatched, Matched
  <2>4. QED
    BY <2>2, <2>3 DEF StepsMatched, Matched
<1>3. QED
  BY <1>1, <1>2

--------------------------------------------------------------------------------
(* Types.                                                                  *)

\* A script has a request at each of its places.
LEMMA ScriptLengths ==
  ASSUME ScriptsTyped, NEW t \in Tasks
  PROVE  Len(ScriptOf(t)) \in Nat
<1>1. t # Poller => script[t] \in Scripts \cup {<<>>}
  BY DEF ScriptsTyped, Commands
<1>2. QED
  BY <1>1, ScriptsAreSequences DEF ScriptOf

\* A task goes on only if its script goes on.
LEMMA GoOnTypes ==
  ASSUME StepInv, NEW S \in SUBSET Commands, NEW usable \in BOOLEAN, GoOn(S, usable), UNCHANGED script
  PROVE  \A t \in Tasks : pos'[t] <= Len(ScriptOf(t)')
<1> SUFFICES ASSUME NEW t \in Tasks PROVE pos'[t] <= Len(ScriptOf(t)')
  OBVIOUS
<1>1. PICK n \in Nat : n = Len(ScriptOf(t))
  BY ScriptLengths DEF StepInv
<1>2. ScriptOf(t)' = ScriptOf(t)
  BY DEF ScriptOf
<1>3. pos[t] \in Nat /\ pos[t] <= n
  BY <1>1 DEF StepInv, SessionInv, SequencesTyped, ScriptsTyped
<1>4. pos'[t] = IF t \in S /\ ~Ends(t, usable) THEN pos[t] + 1 ELSE pos[t]
  BY DEF GoOn
<1>5. t \in S /\ ~Ends(t, usable) => pos[t] # n
  BY <1>1 DEF Ends, ScriptOf, Commands
<1>6. QED
  BY <1>1, <1>2, <1>3, <1>4, <1>5

\* The script of a command is one of the scripts.
LEMMA CommandsTyped ==
  ASSUME StepInv, NEW t \in Tasks, NEW m \in Meters, NEW s \in Scripts, ExecuteCommand(t, m, s)
  PROVE  script' \in [Commands -> Scripts \cup {<<>>}] /\ \A u \in Tasks : pos'[u] <= Len(ScriptOf(u)')
<1>1. /\ t \in Commands /\ pc[t] = "idle"
      /\ script' = [script EXCEPT ![t] = s] /\ UNCHANGED pos
  BY DEF ExecuteCommand, AcquireDlmsLock, Commands
<1>2. pos[t] = 0
  BY <1>1 DEF StepInv, IdleAtStart
<1>3. script \in [Commands -> Scripts \cup {<<>>}] /\ \A u \in Tasks : pos[u] <= Len(ScriptOf(u))
  BY DEF StepInv, ScriptsTyped
<1>4. ScriptOf(t)' = s /\ Len(s) \in Nat
  BY <1>1, <1>3, ScriptsAreSequences DEF ScriptOf, Commands
<1>5. \A u \in Tasks \ {t} : ScriptOf(u)' = ScriptOf(u)
  BY <1>1, <1>3 DEF ScriptOf, Commands
<1>6. QED
  BY <1>1, <1>2, <1>3, <1>4, <1>5

\* A step leaves every script a script.
LEMMA ScriptsStayTyped ==
  ASSUME StepInv, [SessionNext]_allVars
  PROVE  ScriptsTyped'
<1> DEFINE Lengths == \A t \in Tasks : pos'[t] <= Len(ScriptOf(t)')
<1>1. ScriptsTyped /\ SessionInv
  BY DEF StepInv
<1>2. /\ pos \in [Tasks -> Nat] /\ round \in 0 .. MaxPolls
      /\ pc[Poller] # "idle" => round # 0
      /\ target \in [Tasks -> Meters]
      /\ pendingDlmsRequests \in [Meters -> SUBSET Entries]
  BY <1>1 DEF SessionInv, SequencesTyped, IInv, TypeOK
<1>3. UNCHANGED <<script, pos>> => Lengths
  <2>1. ASSUME NEW t \in Tasks, UNCHANGED script PROVE ScriptOf(t)' = ScriptOf(t)
    BY <2>1 DEF ScriptOf
  <2>2. QED
    BY <1>1, <2>1 DEF ScriptsTyped
<1> HIDE DEF Lengths
<1>4. CASE \E t \in Tasks, m \in Meters, s \in Scripts : ExecuteCommand(t, m, s)
  <2>1. PICK t \in Tasks, m \in Meters, s \in Scripts : ExecuteCommand(t, m, s)
    BY <1>4
  <2>2. script' \in [Commands -> Scripts \cup {<<>>}] /\ Lengths
    BY <2>1, CommandsTyped DEF Lengths
  <2>3. UNCHANGED <<pendingDlmsRequests, hasPending, detached, cleanups>>
    BY <2>1 DEF ExecuteCommand
  <2>4. inStep' \in [Meters -> BOOLEAN]
    BY <1>1, <2>1 DEF ExecuteCommand, NoteSessionStart, ScriptsTyped, Quiet
  <2>5. QED
    BY <1>1, <2>2, <2>3, <2>4 DEF ScriptsTyped, Lengths
<1>5. CASE (\E m \in Meters : PollDlmsMeter(m)) \/ (\E t \in Tasks : ResumeSession(t))
  <2>1. UNCHANGED <<script, pos, pendingDlmsRequests, hasPending, detached, cleanups>>
    BY <1>5 DEF PollDlmsMeter, ResumeSession
  <2>2. inStep' \in [Meters -> BOOLEAN]
    BY <1>1, <1>5 DEF PollDlmsMeter, ResumeSession, NoteSessionStart, ScriptsTyped, Quiet
  <2>3. QED
    BY <1>1, <1>3, <2>1, <2>2 DEF ScriptsTyped, Lengths
<1>6. CASE \/ \E t \in Tasks : LockTimer(t) \/ Sent(t) \/ SendRefused(t) \/ SendThrows(t)
           \/ \E m \in Meters : NoResponse(m)
           \/ Restart \/ StopPolling \/ UNCHANGED allVars
  <2>1. UNCHANGED <<script, pos, pendingDlmsRequests, hasPending, detached, cleanups>>
    BY <1>6
       DEF LockTimer, Sent, SendRefused, SendThrows, NoResponse, Restart, StopPolling, allVars,
           sessionVars
  <2>2. inStep' \in [Meters -> BOOLEAN]
    BY <1>1, <1>6
       DEF LockTimer, Sent, SendRefused, SendThrows, NoResponse, Restart, StopPolling, allVars,
           sessionVars, OutOfStep, ScriptsTyped
  <2>3. QED
    BY <1>1, <1>3, <2>1, <2>2 DEF ScriptsTyped, Lengths
<1>7. CASE PollNext
  <2> DEFINE l == target[Poller]
             i == pos[Poller] + 1
             next == PollScript[i]
             entry == [invokeId |-> next.invokeId, register |-> next.register, round |-> round]
  <2>1. /\ pos[Poller] < Len(PollScript) /\ pos' = [pos EXCEPT ![Poller] = i]
        /\ UNCHANGED <<script, cleanups, inStep>>
        /\ detached' \in BOOLEAN
        /\ hasPending' = hasPending \/ hasPending' = hasPending \cup {l}
        /\ \/ UNCHANGED pendingDlmsRequests
           \/ pendingDlmsRequests' =
                [pendingDlmsRequests EXCEPT ![l] = {e \in @ : e.invokeId # next.invokeId} \cup {entry}]
    <3>1. detached \in BOOLEAN
      BY <1>1 DEF ScriptsTyped
    <3>2. QED
      BY <1>7, <3>1 DEF PollNext
  <2>2. Poller \in Tasks /\ l \in Meters
    BY <1>2, SessionAssumption
  <2>3. Lengths
    <3>1. ASSUME NEW t \in Tasks PROVE pos'[t] <= Len(ScriptOf(t)')
      <4>1. ScriptOf(t)' = ScriptOf(t) /\ (t = Poller => ScriptOf(t) = PollScript)
        BY <2>1 DEF ScriptOf
      <4>2. pos[t] <= Len(ScriptOf(t))
        BY <1>1 DEF ScriptsTyped
      <4>3. PICK k \in Nat : k = Len(PollScript)
        BY ScriptsAreSequences
      <4>4. CASE t = Poller
        BY <1>2, <2>1, <2>2, <4>1, <4>3, <4>4
      <4>5. CASE t # Poller
        BY <1>2, <2>1, <4>1, <4>2, <4>5
      <4>6. QED
        BY <4>4, <4>5
    <3>2. QED
      BY <3>1 DEF Lengths
  <2>4. entry.invokeId = next.invokeId
    OBVIOUS
  <2> HIDE DEF l, i, next, entry
  <2>5. \A m \in Meters : \A e, f \in pendingDlmsRequests'[m] : e.invokeId = f.invokeId => e = f
    <3>1. \A m \in Meters : \A e, f \in pendingDlmsRequests[m] : e.invokeId = f.invokeId => e = f
      BY <1>1 DEF ScriptsTyped
    <3>2. ASSUME NEW m \in Meters
          PROVE  \/ pendingDlmsRequests'[m] = pendingDlmsRequests[m]
                 \/ pendingDlmsRequests'[m] =
                      {e \in pendingDlmsRequests[m] : e.invokeId # next.invokeId} \cup {entry}
      BY <1>2, <2>1
    <3>3. QED
      BY <2>4, <3>1, <3>2
  <2>6. QED
    BY <1>1, <2>1, <2>2, <2>3, <2>5 DEF ScriptsTyped, Lengths
<1>8. CASE PollSent
  <2>1. UNCHANGED <<script, pos, pendingDlmsRequests, hasPending, detached, inStep>>
    BY <1>8 DEF PollSent
  <2>2. round \in 1 .. MaxPolls
    BY <1>2, <1>8 DEF PollSent, Doing
  <2>3. cleanups' \in [Meters -> SUBSET (1 .. MaxPolls)]
    <3>1. cleanups' = [cleanups EXCEPT ![target[Poller]] = cleanups[target[Poller]] \cup {round}]
      BY <1>8 DEF PollSent
    <3>2. target[Poller] \in Meters
      BY <1>2, SessionAssumption
    <3>3. QED
      BY <1>1, <2>2, <3>1, <3>2 DEF ScriptsTyped
  <2>4. QED
    BY <1>1, <1>3, <2>1, <2>3 DEF ScriptsTyped, Lengths
<1>9. CASE \E t \in Tasks : Finish(t)
  <2>1. PICK t \in Tasks : Finish(t)
    BY <1>9
  <2>2. /\ UNCHANGED <<script, pendingDlmsRequests, hasPending, detached, cleanups, inStep>>
        /\ pos' = [pos EXCEPT ![t] = 0]
    BY <2>1 DEF Finish
  <2>3. ASSUME NEW u \in Tasks PROVE pos'[u] <= Len(ScriptOf(u)')
    <3>1. ScriptOf(u)' = ScriptOf(u)
      BY <2>2 DEF ScriptOf
    <3>2. PICK k \in Nat : k = Len(ScriptOf(u))
      BY <1>1, ScriptLengths
    <3>3. pos[u] <= k
      BY <1>1, <3>2 DEF ScriptsTyped
    <3>4. QED
      BY <1>2, <2>2, <3>1, <3>2, <3>3
  <2>4. QED
    BY <1>1, <2>2, <2>3 DEF ScriptsTyped
<1>10. CASE \/ \E m \in Meters, usable \in BOOLEAN : Response(m, usable)
            \/ \E t \in Tasks : ResponseTimeout(t)
  <2>1. /\ UNCHANGED <<script, hasPending, detached, cleanups>>
        /\ inStep' \in [Meters -> BOOLEAN]
        /\ \A m \in Meters : pendingDlmsRequests'[m] \subseteq pendingDlmsRequests[m]
    <3>1. inStep \in [Meters -> BOOLEAN]
      BY <1>1 DEF ScriptsTyped
    <3>2. CASE \E m \in Meters, usable \in BOOLEAN : Response(m, usable)
      BY <1>2, <3>1, <3>2 DEF Response
    <3>3. CASE \E t \in Tasks : ResponseTimeout(t)
      BY <3>1, <3>3 DEF ResponseTimeout, OutOfStep
    <3>4. QED
      BY <1>10, <3>2, <3>3
  <2>2. \E S \in SUBSET Commands, usable \in BOOLEAN : GoOn(S, usable)
    <3>1. ASSUME NEW m \in Meters, NEW usable \in BOOLEAN, Response(m, usable)
          PROVE  \E S \in SUBSET Commands, b \in BOOLEAN : GoOn(S, b)
      <4>1. Takers(m, Head(outstanding[m])) \in SUBSET Commands
        BY DEF Takers
      <4>2. QED
        BY <3>1, <4>1 DEF Response
    <3>2. ASSUME NEW t \in Tasks, ResponseTimeout(t)
          PROVE  \E S \in SUBSET Commands, b \in BOOLEAN : GoOn(S, b)
      <4>1. t \in Commands
        BY <1>1, <3>2 DEF ResponseTimeout, Doing, SessionInv, PollsInScript, Commands
      <4>2. {t} \in SUBSET Commands /\ GoOn({t}, FALSE)
        BY <3>2, <4>1 DEF ResponseTimeout
      <4>3. QED
        BY <4>2
    <3>3. QED
      BY <1>10, <3>1, <3>2
  <2>3. Lengths
    BY <2>1, <2>2, GoOnTypes DEF Lengths
  <2>4. QED
    BY <1>1, <2>1, <2>3 DEF ScriptsTyped, Lengths
<1>11. CASE \E m \in Meters, n \in 1 .. MaxPolls : Cleanup(m, n)
  <2>1. /\ UNCHANGED <<script, pos, inStep>>
        /\ hasPending' \subseteq hasPending
        /\ detached' \in BOOLEAN
        /\ cleanups' \in [Meters -> SUBSET (1 .. MaxPolls)]
        /\ \A m \in Meters : pendingDlmsRequests'[m] \subseteq pendingDlmsRequests[m]
    BY <1>1, <1>2, <1>11 DEF Cleanup, ScriptsTyped
  <2>2. QED
    BY <1>1, <1>3, <2>1 DEF ScriptsTyped, Lengths
<1>12. QED
  BY <1>4, <1>5, <1>6, <1>7, <1>8, <1>9, <1>10, <1>11 DEF SessionNext

--------------------------------------------------------------------------------

\* The invariant holds before anything has started.
LEMMA StepInitInv == SessionInit => StepInv
<1> SUFFICES ASSUME SessionInit PROVE StepInv
  OBVIOUS
<1>1. SessionInv
  BY SessionInitInv
<1>2. IdleAtStart /\ StepsMatched
  BY DEF SessionInit, IdleAtStart, StepsMatched, Matched
<1>3. ASSUME NEW t \in Tasks PROVE pos[t] <= Len(ScriptOf(t))
  <2>1. t # Poller => script[t] = <<>>
    BY DEF SessionInit, Commands
  <2>2. PICK n \in Nat : n = Len(ScriptOf(t))
    BY <2>1, ScriptsAreSequences DEF ScriptOf
  <2>3. QED
    BY <2>2 DEF SessionInit
<1>4. ScriptsTyped
  BY <1>3 DEF SessionInit, ScriptsTyped
<1>5. QED
  BY <1>1, <1>2, <1>4 DEF StepInv

\* Every step of the sequences preserves it.
LEMMA StepNextInv == StepInv /\ [SessionNext]_allVars => StepInv'
<1> SUFFICES ASSUME StepInv, [SessionNext]_allVars PROVE StepInv'
  OBVIOUS
<1>1. SessionInv' /\ ScriptsTyped'
  BY SessionNextInv, ScriptsStayTyped DEF StepInv
<1>2. IdleAtStart' /\ StepsMatched'
  BY LockStepsKeepSteps, StopKeepsSteps, SendingKeepsSteps, PollingKeepsSteps, FinishKeepsSteps,
     ReceivingKeepsSteps, TimersKeepSteps DEF SessionNext
<1>3. QED
  BY <1>1, <1>2 DEF StepInv

\* A session that began in step and has had every answer has its meter for itself: the
\* meter owes it nothing but what it waits for.
THEOREM StepInvariance == SessionSpec => []StepInv
<1>1. SessionInit => StepInv
  BY StepInitInv
<1>2. StepInv /\ [SessionNext]_allVars => StepInv'
  BY StepNextInv
<1>3. QED
  BY <1>1, <1>2, PTL DEF SessionSpec

\* A session in step gets its own answers, although they are matched by type alone, and
\* none of its readings is published under another register's name.
THEOREM AnswersAlwaysInStep == SessionSpec => []AnswersInStep
<1>1. StepInv => AnswersInStep
  <2> SUFFICES ASSUME StepInv PROVE AnswersInStep
    OBVIOUS
  <2>1. SessionTypeOK
    BY DEF StepInv, SessionInv, IInv, SequencesTyped, ScriptsTyped, SessionTypeOK
  <2>2. ASSUME NEW m \in Meters, inStep[m], outstanding[m] # <<>>
        PROVE  TakenByItsCommand(m) /\ LabelledAsRead(m)
    <3>1. PICK t : t = dlmsAssociationLocks[m]
      OBVIOUS
    <3>2. InStepWith(m, t)
      BY <2>2, <3>1 DEF StepInv, StepsMatched, Matched
    <3>3. CASE t \in Commands
      <4>1. outstanding[m] = <<Current(t)>> /\ pendingDlmsRequests[m] = {}
        BY <2>2, <3>2, <3>3 DEF InStepWith
      <4>2. Head(outstanding[m]) = Current(t)
        BY <4>1
      <4>3. \A u \in Takers(m, Head(outstanding[m])) : u = t
        BY <2>2, <3>1, TakersInStep
      <4>4. QED
        BY <4>1, <4>2, <4>3 DEF TakenByItsCommand, LabelledAsRead, Resolved
    <3>4. CASE t \notin Commands
      <4>1. Takers(m, Head(outstanding[m])) = {}
        BY <2>2, <3>1, <3>4, TakersInStep
      <4>2. outstanding[m] \in Seq(Requests)
        BY DEF StepInv, SessionInv, SequencesTyped
      <4>3. 1 \in DOMAIN outstanding[m] /\ Head(outstanding[m]) = outstanding[m][1]
        BY <2>2, <4>2
      <4>4. Head(outstanding[m]).by = Poller
        BY <3>2, <3>4, <4>3 DEF InStepWith
      <4>5. LabelledAsRead(m)
        BY <2>2, <4>4, PollsLabelled DEF StepInv
      <4>6. QED
        BY <4>1, <4>5 DEF TakenByItsCommand
    <3>5. QED
      BY <3>3, <3>4
  <2>3. QED
    BY <2>1, <2>2 DEF AnswersInStep
<1>2. QED
  BY <1>1, StepInvariance, PTL
================================================================================
