-------------------------- MODULE PollingManager_proofs --------------------------
(***************************************************************************)
(* One poll cycle at a time and one chain of timers, proved for any number *)
(* of meters, registers, retries, timers and commands; and that cycles and *)
(* commands together use the association lock as DlmsLock says.            *)
(***************************************************************************)
EXTENDS PollingManager, FiniteSetTheorems, TLAPS

Cycles == [active : BOOLEAN, left : SUBSET Meters, meter : Meters \cup {NONE},
           register : 0 .. NumRegisters, attempt : 0 .. Retries, errors : 0 .. NumRegisters,
           successful : 0 .. Cardinality(Meters), failed : 0 .. Cardinality(Meters)]

\* Meters of the cycle whose outcome is not counted yet.
Due(c) == Cardinality(c.left) + (IF c.meter = NONE THEN 0 ELSE 1)

\* A cycle counts every meter once, and of the meter it is at no register twice.
CycleSound(c) ==
    /\ c.active \/ c = NoCycle
    /\ c.successful + c.failed + Due(c) <= Cardinality(Meters)
    /\ c.meter # NONE => c.meter \notin c.left
    /\ c.meter # NONE => c.errors < c.register \/ (c.register = 0 /\ c.errors = 0)

CyclesSound == \A r \in Runners : CycleSound(cycle[r])

\* isPolling stands for the one cycle there is, a running timer for its own.
FlagExact ==
    /\ \A r, q \in Runners : cycle[r].active /\ cycle[q].active => r = q
    /\ isPolling <=> \E r \in Runners : cycle[r].active
    /\ \A t \in Chains : timer[t] = "running" <=> cycle[t].active

\* The handle names the one timer that may be armed.
ChainSound ==
    /\ isRunning => \E t \in Chains : timer[t] # "free"
    /\ ~isRunning => pollTimer = NONE
    /\ ~overlapped =>
          /\ \A t \in Chains : timer[t] = "armed" => t = pollTimer
          /\ \A t, u \in Chains : timer[t] # "free" /\ timer[u] # "free" => t = u

IInv == TypeOK /\ CyclesSound /\ FlagExact /\ ChainSound

------------------------------------------------------------------------------
(* Cycles.                                                                 *)

\* The meters can be counted.
LEMMA MeterCount == Cardinality(Meters) \in Nat
BY MetersAssumption, FS_CardinalityType

\* A runner without a cycle is sound.
LEMMA NoCycleSound == NoCycle \in Cycles /\ CycleSound(NoCycle)
<1>1. Cardinality({}) = 0 /\ Cardinality(Meters) \in Nat
  BY FS_EmptySet, MeterCount
<1>2. QED
  BY <1>1, PollAssumption, MetersAssumption DEF NoCycle, Cycles, CycleSound, Due

\* What is left of a cycle is finite, and one meter less is one less.
LEMMA LeftFinite ==
  ASSUME NEW c \in Cycles
  PROVE  /\ IsFiniteSet(c.left) /\ Cardinality(c.left) \in Nat
         /\ \A m \in c.left : Cardinality(c.left \ {m}) = Cardinality(c.left) - 1
<1>1. c.left \subseteq Meters
  BY DEF Cycles
<1>2. IsFiniteSet(c.left) /\ Cardinality(c.left) \in Nat
  BY <1>1, MetersAssumption, FS_Subset, FS_CardinalityType
<1>3. QED
  BY <1>2, FS_RemoveElement

\* A cycle begins with every connected meter due.
LEMMA BegunSound ==
  ASSUME TypeOK
  PROVE  LET c == [NoCycle EXCEPT !.active = TRUE, !.left = Connected]
         IN  c \in Cycles /\ CycleSound(c)
<1>1. Connected \subseteq Meters
  BY DEF Connected
<1>2. Cardinality(Connected) \in Nat /\ Cardinality(Connected) <= Cardinality(Meters)
  BY <1>1, MetersAssumption, FS_Subset, FS_CardinalityType
<1> DEFINE c == [NoCycle EXCEPT !.active = TRUE, !.left = Connected]
<1>3. /\ c.active = TRUE /\ c.left = Connected /\ c.meter = NONE
      /\ c.successful = 0 /\ c.failed = 0
  BY DEF NoCycle
<1>4. c \in Cycles
  BY <1>1, NoCycleSound DEF Cycles
<1> HIDE DEF c
<1>5. CycleSound(c)
  BY <1>2, <1>3, MeterCount DEF CycleSound, Due
<1>6. QED
  BY <1>4, <1>5 DEF c

\* The verdict on a meter takes it from the due ones to the counted ones.
LEMMA CountedSound ==
  ASSUME NEW c \in Cycles, CycleSound(c), c.active, c.meter # NONE, NEW ok \in BOOLEAN
  PROVE  Counted(c, ok) \in Cycles /\ CycleSound(Counted(c, ok)) /\ Counted(c, ok).active
<1>1. /\ c.successful \in Nat /\ c.failed \in Nat /\ Cardinality(c.left) \in Nat
      /\ c.successful + c.failed + Cardinality(c.left) + 1 <= Cardinality(Meters)
  BY LeftFinite DEF Cycles, CycleSound, Due
<1>2. /\ c.successful + 1 \in 0 .. Cardinality(Meters)
      /\ c.failed + 1 \in 0 .. Cardinality(Meters)
  BY <1>1, MeterCount
<1>3. CASE ok
  <2> DEFINE d == [c EXCEPT !.meter = NONE, !.successful = @ + 1]
  <2>1. d \in Cycles /\ d.active
    BY <1>2 DEF Cycles
  <2>2. d.meter = NONE /\ d.left = c.left /\ d.successful = c.successful + 1 /\ d.failed = c.failed
    BY DEF Cycles
  <2> HIDE DEF d
  <2>3. CycleSound(d)
    BY <1>1, <2>1, <2>2, MeterCount DEF CycleSound, Due
  <2>4. QED
    BY <1>3, <2>1, <2>3 DEF Counted, d
<1>4. CASE ~ok
  <2> DEFINE d == [c EXCEPT !.meter = NONE, !.failed = @ + 1]
  <2>1. d \in Cycles /\ d.active
    BY <1>2 DEF Cycles
  <2>2. d.meter = NONE /\ d.left = c.left /\ d.successful = c.successful /\ d.failed = c.failed + 1
    BY DEF Cycles
  <2> HIDE DEF d
  <2>3. CycleSound(d)
    BY <1>1, <2>1, <2>2, MeterCount DEF CycleSound, Due
  <2>4. QED
    BY <1>4, <2>1, <2>3 DEF Counted, d
<1>5. QED
  BY <1>3, <1>4

\* A register is done, with or without an error.
LEMMA NextRegisterSound ==
  ASSUME NEW c \in Cycles, CycleSound(c), c.active, c.meter # NONE, c.register > 0,
         NEW e \in {c.errors, c.errors + 1}
  PROVE  LET d == NextRegister([c EXCEPT !.errors = e])
         IN  d \in Cycles /\ CycleSound(d) /\ d.active
<1> DEFINE b == [c EXCEPT !.errors = e]
<1>1. /\ c.errors \in 0 .. NumRegisters /\ c.register \in 1 .. NumRegisters
      /\ c.errors < c.register
  BY DEF Cycles, CycleSound
<1>2. e \in 0 .. NumRegisters /\ e <= c.register
  BY <1>1, PollAssumption
<1>3. /\ b \in Cycles /\ b.active /\ b.meter = c.meter /\ b.left = c.left /\ b.errors = e
      /\ b.register = c.register /\ b.successful = c.successful /\ b.failed = c.failed
  BY <1>2 DEF Cycles
<1> HIDE DEF b
<1>4. CASE b.register < NumRegisters
  <2> DEFINE d == [b EXCEPT !.register = @ + 1, !.attempt = 0]
  <2>1. b.register + 1 \in 0 .. NumRegisters /\ 0 \in 0 .. Retries
    BY <1>1, <1>3, <1>4, PollAssumption
  <2>2. d \in Cycles
    BY <1>3, <2>1 DEF Cycles
  <2>3. /\ d.active /\ d.meter = b.meter /\ d.left = b.left /\ d.errors = b.errors
        /\ d.register = b.register + 1 /\ d.successful = b.successful /\ d.failed = b.failed
    BY <1>3 DEF Cycles
  <2> HIDE DEF d
  <2>4. CycleSound(d)
    BY <1>1, <1>2, <1>3, <2>3 DEF CycleSound, Due
  <2>5. QED
    BY <1>4, <2>2, <2>3, <2>4 DEF NextRegister, b, d
<1>5. CASE ~(b.register < NumRegisters)
  <2> DEFINE d == [b EXCEPT !.errors = 0]
  <2> DEFINE ok == 2 * b.errors <= NumRegisters
  <2>1. ok \in BOOLEAN
    OBVIOUS
  <2>2. /\ d \in Cycles /\ d.active /\ d.meter # NONE /\ CycleSound(d)
    <3>1. /\ d \in Cycles /\ d.active /\ d.meter = c.meter /\ d.left = c.left /\ d.errors = 0
          /\ d.register = c.register /\ d.successful = c.successful /\ d.failed = c.failed
      BY <1>3, PollAssumption DEF Cycles
    <3>2. QED
      BY <1>1, <3>1 DEF CycleSound, Due
  <2>3. Counted(b, ok) = [Counted(d, ok) EXCEPT !.errors = e]
    BY <1>3 DEF Counted, Cycles
  <2>4. Counted(d, ok) \in Cycles /\ CycleSound(Counted(d, ok)) /\ Counted(d, ok).active
    BY <2>1, <2>2, CountedSound
  <2>5. Counted(d, ok).meter = NONE
    BY <2>2 DEF Counted, Cycles
  <2> DEFINE k == Counted(d, ok)
             n == [k EXCEPT !.errors = e]
  <2> HIDE DEF d, ok, k
  <2>6. /\ n \in Cycles /\ n.active /\ n.meter = NONE /\ n.left = k.left
        /\ n.successful = k.successful /\ n.failed = k.failed
    BY <1>2, <2>4, <2>5 DEF Cycles, k
  <2> HIDE DEF n
  <2>7. CycleSound(n)
    BY <2>4, <2>5, <2>6 DEF CycleSound, Due, k
  <2>8. QED
    BY <1>5, <2>3, <2>6, <2>7 DEF NextRegister, b, n, k, ok
<1>6. QED
  BY <1>4, <1>5

\* A cycle that goes on disturbs neither the flag nor the timers.
LEMMA CycleStepSound ==
  ASSUME IInv, NEW r \in Runners, NEW c \in Cycles, CycleSound(c), c.active, cycle[r].active,
         CycleStep(r, c)
  PROVE  IInv'
<1>1. cycle \in [Runners -> Cycles]
  BY DEF IInv, TypeOK, Cycles
<1>2. cycle' \in [Runners -> Cycles] /\ \A q \in Runners : cycle'[q] = IF q = r THEN c ELSE cycle[q]
  BY <1>1 DEF CycleStep
<1>3. UNCHANGED <<isRunning, isPolling, pollTimer, timer, protocol, passiveOnly, calls, overlapped>>
  BY DEF CycleStep
<1>4. TypeOK'
  BY <1>2, <1>3 DEF IInv, TypeOK, Cycles
<1>5. CyclesSound'
  BY <1>2 DEF IInv, CyclesSound
<1>6. \A q \in Runners : cycle'[q].active = cycle[q].active
  <2>1. c.active = TRUE /\ cycle[r].active = TRUE
    BY <1>1 DEF Cycles
  <2>2. QED
    BY <1>2, <2>1
<1>7. FlagExact'
  BY <1>3, <1>6 DEF IInv, FlagExact, Runners
<1>8. ChainSound'
  BY <1>3 DEF IInv, ChainSound
<1>9. QED
  BY <1>4, <1>5, <1>7, <1>8 DEF IInv

------------------------------------------------------------------------------
(* The steps of a cycle.                                                   *)

\* A cycle goes on to its next meter.
LEMMA PollMeterKeepsInv ==
  ASSUME IInv, NEW r \in Runners, NEW m \in Meters, PollMeter(r, m)
  PROVE  IInv'
<1> DEFINE c == [cycle[r] EXCEPT !.left = @ \ {m}, !.meter = m, !.attempt = 0, !.errors = 0]
           d == [c EXCEPT !.register = 0]
           e == [c EXCEPT !.register = 1]
<1>1. cycle[r] \in Cycles /\ CycleSound(cycle[r]) /\ m \in cycle[r].left /\ cycle[r].meter = NONE
  BY DEF IInv, TypeOK, Cycles, CyclesSound, PollMeter
<1>2. cycle[r].active
  BY <1>1 DEF CycleSound, NoCycle
<1>0. 0 \in 0 .. Retries /\ 0 \in 0 .. NumRegisters /\ 1 \in 0 .. NumRegisters
  BY PollAssumption
<1>3. /\ c \in Cycles /\ c.active /\ c.left = cycle[r].left \ {m} /\ c.meter = m /\ c.errors = 0
      /\ c.successful = cycle[r].successful /\ c.failed = cycle[r].failed
  <2> DEFINE Tries == 0 .. Retries
             Counts == 0 .. NumRegisters
  <2>1. /\ 0 \in Tries /\ 0 \in Counts
        /\ Cycles = [active : BOOLEAN, left : SUBSET Meters, meter : Meters \cup {NONE},
             register : Counts, attempt : Tries, errors : Counts,
             successful : 0 .. Cardinality(Meters), failed : 0 .. Cardinality(Meters)]
    BY <1>0 DEF Cycles
  <2> HIDE DEF Tries, Counts
  <2>2. QED
    BY <1>1, <1>2, <2>1
<1>4. Cardinality(c.left) = Cardinality(cycle[r].left) - 1 /\ Cardinality(cycle[r].left) \in Nat
  BY <1>1, <1>3, LeftFinite
<1>5. m # NONE
  BY MetersAssumption
<1>6. /\ d \in Cycles /\ d.active /\ d.left = c.left /\ d.meter = m /\ d.errors = 0
      /\ d.successful = c.successful /\ d.failed = c.failed /\ d.register = 0
  BY <1>3, PollAssumption DEF Cycles
<1>7. /\ e \in Cycles /\ e.active /\ e.left = c.left /\ e.meter = m /\ e.errors = 0
      /\ e.successful = c.successful /\ e.failed = c.failed /\ e.register = 1
  <2> HIDE DEF c
  <2>1. QED
    BY <1>0, <1>3 DEF Cycles
<1>8. \/ CycleStep(r, Counted(c, TRUE))
      \/ CycleStep(r, d)
      \/ CycleStep(r, e)
  BY DEF PollMeter
<1> HIDE DEF c, d, e
<1>9. CycleSound(d)
  BY <1>1, <1>3, <1>4, <1>5, <1>6 DEF CycleSound, Due, Cycles
<1>10. CycleSound(e)
  BY <1>1, <1>3, <1>4, <1>5, <1>7 DEF CycleSound, Due, Cycles
<1>11. Counted(c, TRUE) \in Cycles /\ CycleSound(Counted(c, TRUE)) /\ Counted(c, TRUE).active
  <2>1. Counted(d, TRUE) \in Cycles /\ CycleSound(Counted(d, TRUE)) /\ Counted(d, TRUE).active
    BY <1>5, <1>6, <1>9, CountedSound
  <2> DEFINE k == Counted(d, TRUE)
             n == [k EXCEPT !.register = c.register]
  <2>2. k.meter = NONE /\ Counted(c, TRUE) = n
    <3>1. d = [c EXCEPT !.register = 0]
      BY DEF d
    <3>2. QED
      BY <1>3, <3>1 DEF Counted, Cycles
  <2> HIDE DEF k
  <2>3. /\ n \in Cycles /\ n.active /\ n.meter = NONE /\ n.left = k.left
        /\ n.successful = k.successful /\ n.failed = k.failed
    BY <1>3, <2>1, <2>2 DEF Cycles, k
  <2> HIDE DEF n
  <2>4. CycleSound(n)
    BY <2>1, <2>2, <2>3 DEF CycleSound, Due, k
  <2>5. QED
    BY <2>2, <2>3, <2>4
<1>12. QED
  BY <1>2, <1>6, <1>7, <1>8, <1>9, <1>10, <1>11, CycleStepSound

\* A meter answers its reads, or fails them.
LEMMA MeterStepsKeepInv ==
  ASSUME IInv, NEW r \in Runners,
         \/ \E ok \in BOOLEAN : DlmsMeterPolled(r, ok)
         \/ RegisterRead(r)
         \/ ReadFailed(r)
  PROVE  IInv'
<1> DEFINE c == cycle[r]
<1>1. c \in Cycles /\ CycleSound(c)
  BY DEF IInv, TypeOK, Cycles, CyclesSound
<1>2. c.active /\ c.meter # NONE
  BY DEF DlmsMeterPolled, RegisterRead, ReadFailed, Polling
<1>3. ASSUME NEW ok \in BOOLEAN, DlmsMeterPolled(r, ok) PROVE IInv'
  BY <1>1, <1>2, <1>3, CountedSound, CycleStepSound DEF DlmsMeterPolled
<1>4. CASE RegisterRead(r)
  <2>1. c.register > 0 /\ CycleStep(r, NextRegister(c))
    BY <1>4 DEF RegisterRead
  <2>2. [c EXCEPT !.errors = c.errors] = c
    BY <1>1 DEF Cycles
  <2>3. NextRegister(c) \in Cycles /\ CycleSound(NextRegister(c)) /\ NextRegister(c).active
    BY <1>1, <1>2, <2>1, <2>2, NextRegisterSound
  <2>4. QED
    BY <1>2, <2>1, <2>3, CycleStepSound
<1>5. CASE ReadFailed(r)
  <2>1. c.register > 0
    BY <1>5 DEF ReadFailed
  <2>2. CASE c.attempt < Retries
    <3> DEFINE d == [c EXCEPT !.attempt = @ + 1]
    <3>1. CycleStep(r, d)
      BY <1>5, <2>2 DEF ReadFailed
    <3>2. c.attempt + 1 \in 0 .. Retries
      BY <1>1, <2>2, PollAssumption DEF Cycles
    <3>3. /\ d \in Cycles /\ d.active /\ d.left = c.left /\ d.meter = c.meter
          /\ d.errors = c.errors /\ d.successful = c.successful /\ d.failed = c.failed
          /\ d.register = c.register
      BY <1>1, <1>2, <3>2 DEF Cycles
    <3> HIDE DEF d
    <3>4. CycleSound(d)
      BY <1>1, <3>3 DEF CycleSound, Due
    <3>5. QED
      BY <1>2, <3>1, <3>3, <3>4, CycleStepSound
  <2>3. CASE ~(c.attempt < Retries)
    <3> DEFINE d == NextRegister([c EXCEPT !.errors = c.errors + 1])
    <3>1. CycleStep(r, d)
      BY <1>5, <2>3 DEF ReadFailed
    <3>2. d \in Cycles /\ CycleSound(d) /\ d.active
      BY <1>1, <1>2, <2>1, NextRegisterSound
    <3> HIDE DEF d
    <3>3. QED
      BY <1>2, <3>1, <3>2, CycleStepSound
  <2>4. QED
    BY <2>2, <2>3
<1>6. QED
  BY <1>3, <1>4, <1>5

\* A cycle ends, and arms the next timer or not.
LEMMA EndCycleKeepsInv ==
  ASSUME IInv, NEW r \in Runners, EndCycle(r)
  PROVE  IInv'
<1>1. /\ cycle \in [Runners -> Cycles] /\ timer \in [Chains -> {"free", "armed", "running"}]
      /\ pollTimer \in Chains \cup {NONE}
  BY DEF IInv, TypeOK, Cycles
<1>2. /\ cycle[r].active /\ isPolling' = FALSE /\ cycle' = [cycle EXCEPT ![r] = NoCycle]
      /\ UNCHANGED <<isRunning, protocol, passiveOnly, calls, overlapped>>
  BY DEF EndCycle
<1>3. \A q \in Runners : cycle'[q] = IF q = r THEN NoCycle ELSE cycle[q]
  BY <1>1, <1>2
<1>4. CyclesSound'
  BY <1>3, NoCycleSound DEF IInv, CyclesSound
<1>5. \A q \in Runners : ~cycle'[q].active
  BY <1>2, <1>3 DEF IInv, FlagExact, NoCycle
<1>6. \/ /\ r \in Chains /\ timer[r] = "running" /\ isRunning
         /\ timer' = [timer EXCEPT ![r] = "armed"] /\ pollTimer' = r
      \/ /\ r \in Chains /\ timer[r] = "running" /\ ~isRunning
         /\ timer' = [timer EXCEPT ![r] = "free"] /\ UNCHANGED pollTimer
      \/ r \notin Chains /\ UNCHANGED <<timer, pollTimer>>
  BY <1>2 DEF EndCycle, Reschedules, IInv, FlagExact
<1>7. TypeOK'
  <2>1. cycle' \in [Runners -> Cycles]
    BY <1>1, <1>2, NoCycleSound
  <2>2. timer' \in [Chains -> {"free", "armed", "running"}] /\ pollTimer' \in Chains \cup {NONE}
    BY <1>1, <1>6
  <2>3. QED
    BY <1>2, <2>1, <2>2 DEF IInv, TypeOK, Cycles
<1>8. FlagExact'
  <2>1. \A t \in Chains : timer[t] = "running" => t = r
    BY <1>2 DEF IInv, FlagExact, Runners
  <2>2. \A t \in Chains : timer'[t] # "running"
    BY <1>1, <1>6, <2>1
  <2>3. QED
    BY <1>2, <1>5, <2>2 DEF FlagExact, Runners
<1>9. ChainSound'
  BY <1>1, <1>2, <1>6 DEF IInv, ChainSound
<1>10. QED
  BY <1>4, <1>7, <1>8, <1>9 DEF IInv

------------------------------------------------------------------------------
(* Timers and calls.                                                       *)

\* The timer of a chain fires.
LEMMA FireKeepsInv ==
  ASSUME IInv, NEW t \in Chains, Fire(t)
  PROVE  IInv'
<1>1. /\ cycle \in [Runners -> Cycles] /\ timer \in [Chains -> {"free", "armed", "running"}]
      /\ pollTimer \in Chains \cup {NONE} /\ t \in Runners
  BY DEF IInv, TypeOK, Cycles, Runners
<1>2. /\ timer[t] = "armed"
      /\ UNCHANGED <<isRunning, protocol, passiveOnly, calls, overlapped>>
  BY DEF Fire
<1>3. CASE MayBegin
  <2> DEFINE c == [NoCycle EXCEPT !.active = TRUE, !.left = Connected]
  <2>1. /\ ~isPolling /\ isPolling' = TRUE /\ cycle' = [cycle EXCEPT ![t] = c]
        /\ timer' = [timer EXCEPT ![t] = "running"] /\ UNCHANGED pollTimer
    BY <1>3 DEF Fire, Begins, MayBegin
  <2>2. c \in Cycles /\ CycleSound(c) /\ c.active
    BY BegunSound DEF IInv, NoCycle
  <2> HIDE DEF c
  <2>3. \A q \in Runners : cycle'[q] = IF q = t THEN c ELSE cycle[q]
    BY <1>1, <2>1
  <2>4. TypeOK'
    BY <1>1, <1>2, <2>1, <2>2 DEF IInv, TypeOK, Cycles
  <2>5. CyclesSound'
    BY <2>2, <2>3 DEF IInv, CyclesSound
  <2>6. FlagExact'
    BY <1>1, <2>1, <2>2, <2>3 DEF IInv, FlagExact, Runners
  <2>7. ChainSound'
    BY <1>1, <1>2, <2>1 DEF IInv, ChainSound
  <2>8. QED
    BY <2>4, <2>5, <2>6, <2>7 DEF IInv
<1>4. CASE ~MayBegin
  <2>1. /\ UNCHANGED <<isPolling, cycle>>
        /\ \/ isRunning /\ timer' = [timer EXCEPT ![t] = "armed"] /\ pollTimer' = t
           \/ ~isRunning /\ timer' = [timer EXCEPT ![t] = "free"] /\ UNCHANGED pollTimer
    BY <1>4 DEF Fire, Skips, Reschedules
  <2>2. TypeOK'
    BY <1>1, <1>2, <2>1 DEF IInv, TypeOK, Cycles
  <2>3. CyclesSound' /\ FlagExact'
    BY <1>1, <1>2, <2>1 DEF IInv, CyclesSound, FlagExact, Runners
  <2>4. ChainSound'
    BY <1>1, <1>2, <2>1 DEF IInv, ChainSound
  <2>5. QED
    BY <2>2, <2>3, <2>4 DEF IInv
<1>5. QED
  BY <1>3, <1>4

\* pollAllNow starts a cycle, or finds one.
LEMMA PollAllNowKeepsInv ==
  ASSUME IInv, PollAllNow
  PROVE  IInv'
<1>1. cycle \in [Runners -> Cycles] /\ Now \in Runners /\ Now \notin Chains
  BY DEF IInv, TypeOK, Cycles, Runners, Now, Chains
<1>2. UNCHANGED <<isRunning, pollTimer, timer, protocol, passiveOnly, calls, overlapped>>
  BY DEF PollAllNow
<1>3. CASE MayBegin
  <2> DEFINE c == [NoCycle EXCEPT !.active = TRUE, !.left = Connected]
  <2>1. ~isPolling /\ isPolling' = TRUE /\ cycle' = [cycle EXCEPT ![Now] = c]
    BY <1>3 DEF PollAllNow, Begins, MayBegin
  <2>2. c \in Cycles /\ CycleSound(c) /\ c.active
    BY BegunSound DEF IInv, NoCycle
  <2> HIDE DEF c
  <2>3. \A q \in Runners : cycle'[q] = IF q = Now THEN c ELSE cycle[q]
    BY <1>1, <2>1
  <2>4. TypeOK'
    BY <1>1, <1>2, <2>1, <2>2 DEF IInv, TypeOK, Cycles
  <2>5. CyclesSound'
    BY <2>2, <2>3 DEF IInv, CyclesSound
  <2>6. FlagExact'
    BY <1>1, <1>2, <2>1, <2>2, <2>3 DEF IInv, FlagExact, Runners
  <2>7. ChainSound'
    BY <1>2 DEF IInv, ChainSound
  <2>8. QED
    BY <2>4, <2>5, <2>6, <2>7 DEF IInv
<1>4. CASE ~MayBegin
  BY <1>2, <1>4 DEF PollAllNow, Skips, IInv, TypeOK, CyclesSound, FlagExact, ChainSound
<1>5. QED
  BY <1>3, <1>4

\* start(), stop() and setInterval() touch the timers and not the cycles.
LEMMA CallsKeepInv ==
  ASSUME IInv, Start \/ Stop \/ SetInterval
  PROVE  IInv'
<1>1. /\ timer \in [Chains -> {"free", "armed", "running"}] /\ pollTimer \in Chains \cup {NONE}
      /\ UNCHANGED <<isPolling, protocol, passiveOnly, cycle>>
      /\ calls' \in 0 .. MaxCalls
  BY PollAssumption DEF IInv, TypeOK, Start, Stop, SetInterval, Called
<1>2. NONE \notin Chains
  BY MetersAssumption DEF Chains
<1>3. Cleared(pollTimer) \in [Chains -> {"free", "armed", "running"}]
      /\ \A t \in Chains : /\ Cleared(pollTimer)[t] # timer[t] => t = pollTimer /\ timer[t] = "armed"
                                                              /\ Cleared(pollTimer)[t] = "free"
                           /\ t = pollTimer => Cleared(pollTimer)[t] # "armed"
  BY <1>1, <1>2 DEF Cleared
<1>4. CASE Stop
  <2>1. timer' = Cleared(pollTimer) /\ pollTimer' = NONE /\ isRunning' = FALSE /\ UNCHANGED overlapped
    BY <1>4 DEF Stop
  <2>2. TypeOK' /\ CyclesSound'
    BY <1>1, <1>3, <2>1 DEF IInv, TypeOK, CyclesSound
  <2>3. FlagExact'
    BY <1>1, <1>3, <2>1 DEF IInv, FlagExact
  <2>4. ChainSound'
    BY <1>1, <1>3, <2>1 DEF IInv, ChainSound
  <2>5. QED
    BY <2>2, <2>3, <2>4 DEF IInv
<1>5. CASE Start
  <2>1. PICK t \in Chains : timer[t] = "free" /\ timer' = [timer EXCEPT ![t] = "armed"]
                            /\ pollTimer' = t
    BY <1>5 DEF Start, Arm
  <2>2. ~isRunning /\ isRunning' = TRUE /\ NoteOverlap
    BY <1>5 DEF Start
  <2>3. TypeOK' /\ CyclesSound'
    BY <1>1, <2>1, <2>2 DEF IInv, TypeOK, CyclesSound, NoteOverlap
  <2>4. FlagExact'
    BY <1>1, <2>1 DEF IInv, FlagExact
  <2>5. ChainSound'
    BY <1>1, <1>2, <2>1, <2>2 DEF IInv, ChainSound, NoteOverlap
  <2>6. QED
    BY <2>3, <2>4, <2>5 DEF IInv
<1>6. CASE SetInterval
  <2> DEFINE cleared == Cleared(pollTimer)
  <2>1. PICK t \in Chains : cleared[t] = "free" /\ timer' = [cleared EXCEPT ![t] = "armed"]
                            /\ pollTimer' = t
    BY <1>6 DEF SetInterval, Arm
  <2>2. isRunning /\ isRunning' = isRunning /\ NoteOverlap
    BY <1>6 DEF SetInterval
  <2> HIDE DEF cleared
  <2>3. /\ cleared \in [Chains -> {"free", "armed", "running"}]
        /\ \A u \in Chains : /\ cleared[u] # timer[u] => timer[u] = "armed" /\ cleared[u] = "free"
                             /\ u = pollTimer => cleared[u] # "armed"
    BY <1>3 DEF cleared
  <2>4. \A u \in Chains : timer'[u] = IF u = t THEN "armed" ELSE cleared[u]
    BY <2>1, <2>3
  <2>5. TypeOK' /\ CyclesSound'
    BY <1>1, <2>1, <2>2, <2>3 DEF IInv, TypeOK, CyclesSound, NoteOverlap
  <2>6. FlagExact'
    BY <1>1, <2>1, <2>3, <2>4 DEF IInv, FlagExact
  <2>7. ChainSound'
    <3>1. \E u \in Chains : timer'[u] # "free"
      BY <2>4
    <3>2. ASSUME ~overlapped' PROVE \A u \in Chains : cleared[u] = "free"
      <4>1. ~overlapped /\ \A u \in Chains : timer[u] # "running"
        BY <3>2, <2>2 DEF NoteOverlap, IInv, TypeOK
      <4>2. \A u \in Chains : timer[u] = "armed" => u = pollTimer
        BY <4>1 DEF IInv, ChainSound
      <4>3. QED
        BY <4>1, <4>2, <2>3
    <3>3. QED
      BY <2>1, <2>2, <2>4, <3>1, <3>2 DEF ChainSound
  <2>8. QED
    BY <2>5, <2>6, <2>7 DEF IInv
<1>7. QED
  BY <1>4, <1>5, <1>6

------------------------------------------------------------------------------
(* The invariant of the scheduler.                                         *)

\* The scheduler starts in the strengthened invariant.
LEMMA InitKeepsInv == Init => IInv
<1> SUFFICES ASSUME Init PROVE IInv
  OBVIOUS
<1>1. TypeOK
  <2>1. 0 \in 0 .. MaxCalls
    BY PollAssumption
  <2>2. cycle \in [Runners -> Cycles]
    BY NoCycleSound DEF Init
  <2>3. QED
    BY <2>1, <2>2 DEF Init, TypeOK, Cycles
<1>2. CyclesSound
  BY NoCycleSound DEF Init, CyclesSound
<1>3. FlagExact /\ ChainSound
  BY DEF Init, FlagExact, ChainSound, NoCycle, Runners
<1>4. QED
  BY <1>1, <1>2, <1>3 DEF IInv

\* Every step of the scheduler preserves it.
LEMMA NextKeepsInv == IInv /\ [Next]_vars => IInv'
<1> SUFFICES ASSUME IInv, [Next]_vars PROVE IInv'
  OBVIOUS
<1>1. ASSUME NEW r \in Runners, Advance(r) PROVE IInv'
  BY <1>1, PollMeterKeepsInv, MeterStepsKeepInv, EndCycleKeepsInv DEF Advance
<1>2. ASSUME NEW m \in Meters, NEW p \in {"down", "dlt645", "ivy_dlms"}, LinkChange(m, p)
      PROVE  IInv'
  BY <1>2 DEF LinkChange, IInv, TypeOK, CyclesSound, FlagExact, ChainSound
<1>3. CASE UNCHANGED vars
  BY <1>3 DEF vars, IInv, TypeOK, CyclesSound, FlagExact, ChainSound
<1>4. QED
  BY <1>1, <1>2, <1>3, FireKeepsInv, PollAllNowKeepsInv, CallsKeepInv DEF Next

------------------------------------------------------------------------------
(* The scheduler and the lock together.                                    *)

\* A cycle that waits for locks takes the scheduler's steps, each with a step of the
\* lock or none.
LEMMA CycleMapped ==
  ASSUME NEW r \in Runners, AdvanceCycle(r)
  PROVE  Advance(r) /\ [Lock!Next]_(Lock!vars)
<1>1. ASSUME NEW m \in Meters, PollMeterLocked(r, m)
      PROVE  Advance(r) /\ [Lock!Next]_(Lock!vars)
  <2>1. PollMeter(r, m) /\ UNCHANGED isRunning
    BY <1>1 DEF PollMeterLocked, PollMeter, CycleStep
  <2>2. CASE Lock!AcquireDlmsLock(Poller, m)
    BY <2>1, <2>2, PollerAssumption DEF Advance, Lock!Next
  <2>3. CASE UNCHANGED lockVars
    BY <2>1, <2>3 DEF Advance, lockVars, Lock!vars
  <2>4. QED
    BY <1>1, <2>2, <2>3 DEF PollMeterLocked
<1>2. ASSUME NEW ok \in BOOLEAN, DlmsMeterReleased(r, ok)
      PROVE  Advance(r) /\ [Lock!Next]_(Lock!vars)
  BY <1>2, PollerAssumption DEF DlmsMeterReleased, Advance, Lock!Next
<1>3. CASE Unlocked(RegisterRead(r)) \/ Unlocked(ReadFailed(r)) \/ Unlocked(EndCycle(r))
  <2>1. Advance(r) /\ UNCHANGED lockVars
    BY <1>3 DEF Unlocked, Advance
  <2>2. UNCHANGED isRunning
    BY <1>3 DEF Unlocked, RegisterRead, ReadFailed, CycleStep, EndCycle
  <2>3. QED
    BY <2>1, <2>2 DEF lockVars, Lock!vars
<1>4. QED
  BY <1>1, <1>2, <1>3 DEF AdvanceCycle

\* A task that has waited takes a step of the lock; a poll that gives up also ends its
\* meter in the cycle.
LEMMA WaitedMapped ==
  ASSUME NEW t \in Tasks, ResumeTask(t) \/ LockTimeoutOf(t)
  PROVE  [Next]_vars /\ Lock!Next
<1>1. Lock!Next
  BY DEF ResumeTask, LockTimeoutOf, Waited, Lock!Next
<1>2. (\E r \in Runners : DlmsMeterPolled(r, FALSE)) \/ UNCHANGED vars
  BY DEF ResumeTask, LockTimeoutOf, Waited
<1>3. ASSUME NEW r \in Runners, DlmsMeterPolled(r, FALSE)
      PROVE  Next
  BY <1>3 DEF Advance, Next
<1>4. QED
  BY <1>1, <1>2, <1>3

\* Every step of the manager is a step of the scheduler or leaves it alone, and a step
\* of the lock or leaves it alone.
LEMMA StepMapped == [ManagerNext]_managerVars => [Next]_vars /\ [Lock!Next]_(Lock!vars)
<1> SUFFICES ASSUME [ManagerNext]_managerVars
             PROVE  [Next]_vars /\ [Lock!Next]_(Lock!vars)
  OBVIOUS
<1>1. CASE StartManager \/ StopManager
  BY <1>1 DEF StartManager, StopManager, Next, Lock!Next
<1>2. CASE \/ Unlocked(SetInterval) \/ Unlocked(PollAllNow)
           \/ \E t \in Chains : Unlocked(Fire(t))
           \/ \E m \in Meters, p \in {"down", "dlt645", "ivy_dlms"} : Unlocked(LinkChange(m, p))
  <2>1. Next /\ UNCHANGED lockVars
    BY <1>2 DEF Unlocked, Next
  <2>2. UNCHANGED isRunning
    BY <1>2 DEF Unlocked, SetInterval, PollAllNow, Fire, LinkChange
  <2>3. QED
    BY <2>1, <2>2 DEF lockVars, Lock!vars
<1>3. ASSUME NEW r \in Runners, AdvanceCycle(r)
      PROVE  [Next]_vars /\ [Lock!Next]_(Lock!vars)
  BY <1>3, CycleMapped DEF Next
<1>4. ASSUME NEW t \in Tasks, ResumeTask(t) \/ LockTimeoutOf(t)
      PROVE  [Next]_vars /\ [Lock!Next]_(Lock!vars)
  BY <1>4, WaitedMapped
<1>5. ASSUME NEW t \in Tasks, DeadlineOf(t) \/ CommandReleases(t)
      PROVE  [Next]_vars /\ [Lock!Next]_(Lock!vars)
  BY <1>5 DEF DeadlineOf, CommandReleases, Lock!Next
<1>6. ASSUME NEW t \in Tasks, NEW m \in Meters, CommandAsks(t, m)
      PROVE  [Next]_vars /\ [Lock!Next]_(Lock!vars)
  BY <1>6 DEF CommandAsks, Lock!Next
<1>7. CASE UNCHANGED managerVars
  BY <1>7 DEF managerVars, vars, lockVars, Lock!vars
<1>8. QED
  BY <1>1, <1>2, <1>3, <1>4, <1>5, <1>6, <1>7 DEF ManagerNext

\* The strengthened invariant: cycles count meters and registers once, the flag and
\* the running timers stand for the cycle there is, the handle for the armed timer;
\* also when a cycle waits for a lock and gives up (acquireDlmsLock in pollDlmsMeter).
THEOREM Invariance == ManagerSpec => []IInv
<1>1. ManagerInit => IInv
  BY InitKeepsInv DEF ManagerInit
<1>2. IInv /\ [ManagerNext]_managerVars => IInv'
  BY StepMapped, NextKeepsInv
<1>3. QED
  BY <1>1, <1>2, PTL DEF ManagerSpec

\* Two poll cycles never overlap, and isPolling says whether there is one
\* (executePollCycle), for any number of meters, timers and commands.
THEOREM AlwaysOneCycle == ManagerSpec => []OneCycle
<1>1. IInv => OneCycle
  <2> SUFFICES ASSUME IInv PROVE OneCycle
    OBVIOUS
  <2> DEFINE Active == {r \in Runners : cycle[r].active}
  <2>1. CASE isPolling
    <3>1. PICK r \in Runners : cycle[r].active
      BY <2>1 DEF IInv, FlagExact
    <3>2. Active = {r}
      BY <3>1 DEF IInv, FlagExact
    <3>3. Cardinality(Active) = 1
      BY <3>2, FS_Singleton
    <3>4. QED
      BY <2>1, <3>3 DEF OneCycle, IInv, FlagExact
  <2>2. CASE ~isPolling
    <3>1. Active = {}
      BY <2>2 DEF IInv, FlagExact
    <3>2. Cardinality(Active) = 0
      BY <3>1, FS_EmptySet
    <3>3. QED
      BY <2>2, <3>2 DEF OneCycle, IInv, FlagExact
  <2>3. QED
    BY <2>1, <2>2
<1>2. QED
  BY <1>1, Invariance, PTL

\* The chain of timers never breaks while the manager runs, and there is one, unless
\* start() or setInterval() came in the middle of a cycle (schedulePoll, setInterval).
THEOREM AlwaysOneTimerChain == ManagerSpec => []OneTimerChain
<1>1. IInv => OneTimerChain
  <2> SUFFICES ASSUME IInv PROVE OneTimerChain
    OBVIOUS
  <2> DEFINE Alive == {t \in Chains : timer[t] # "free"}
  <2>1. isRunning => \E t \in Chains : timer[t] # "free"
    BY DEF IInv, ChainSound
  <2>2. ASSUME ~overlapped
        PROVE  {t \in Chains : timer[t] = "armed"} \subseteq {pollTimer} /\ Cardinality(Alive) <= 1
    <3>1. {t \in Chains : timer[t] = "armed"} \subseteq {pollTimer}
      BY <2>2 DEF IInv, ChainSound
    <3>2. CASE Alive = {}
      BY <3>1, <3>2, FS_EmptySet
    <3>3. CASE Alive # {}
      <4>1. PICK t \in Alive : TRUE
        BY <3>3
      <4>2. Alive = {t}
        BY <2>2, <4>1 DEF IInv, ChainSound
      <4>3. Cardinality(Alive) = 1
        BY <4>2, FS_Singleton
      <4>4. QED
        BY <3>1, <4>3
    <3>4. QED
      BY <3>2, <3>3
  <2>3. QED
    BY <2>1, <2>2 DEF OneTimerChain
<1>2. QED
  BY <1>1, Invariance, PTL

\* The cycles and the commands use the association lock as DlmsLock says, start() and
\* stop() included: what DlmsSession_proofs proves of the lock holds of it here.
THEOREM LockStepsOnly == ManagerSpec => Lock!Init /\ [][Lock!Next]_(Lock!vars)
<1>1. ManagerInit => Lock!Init
  BY DEF ManagerInit
<1>2. QED
  BY <1>1, StepMapped, PTL DEF ManagerSpec
=============================================================================
