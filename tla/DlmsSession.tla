------------------------------ MODULE DlmsSession ------------------------------
(***************************************************************************)
(* DLMS association sequences over one connection per meter: the polls of  *)
(* PollingManager.pollDlmsMeter and the commands of CommandHandler         *)
(* (executeDlms..., executeReadRelayState), serialised by DlmsLock, and    *)
(* the two ways a response finds what it answers: waitForDlmsResponse, by  *)
(* the type of the APDU, and resolveDlmsInvokeId, by the invoke id.        *)
(*                                                                         *)
(* A session sends an AARQ and then the requests of its script.  A poll    *)
(* never waits for a response; a command waits for each one in turn.       *)
(***************************************************************************)
EXTENDS DlmsLock, Sequences, FiniteSets

CONSTANTS
  Poller,            \* the task that polls; every other task is one command
  PollRegisters,     \* the registers a poll reads, in order
  ReadAllRegisters,  \* the registers a read_all command reads, in order
  MaxPolls           \* bound: polls started

ASSUME SessionAssumption ==
  /\ Poller \in Tasks
  /\ PollRegisters \in Seq(STRING) \ {<<>>}
  /\ ReadAllRegisters \in Seq(STRING) \ {<<>>}
  /\ MaxPolls \in Nat

VARIABLES
  script,               \* what each command asks for, <<>> before it is called
  phase,                \* what each task in its sequence is doing
  pos,                  \* its place in its script, 0 while it associates
  round,                \* polls started
  outstanding,          \* requests sent to each meter and not answered, in order
  pendingDlmsRequests,  \* entries of the Map that polls and responses share
  hasPending,           \* meters with a Map in this.pendingDlmsRequests
  detached,             \* the poll in progress holds a Map that is no longer there
  cleanups,             \* polls whose 30-second cleanup timer is armed, per meter
  inStep                \* history: the session on a meter began with nothing open
                        \* and has had every answer so far

sessionVars == <<script, phase, pos, round, outstanding, pendingDlmsRequests, hasPending,
                 detached, cleanups, inStep>>
allVars == <<vars, sessionVars>>

Commands == Tasks \ {Poller}

--------------------------------------------------------------------------------
(* Scripts: the requests after the association, and which must be answered. *)

Get(register, id, must) ==
  [type |-> "get-response", register |-> register, invokeId |-> id, required |-> must]

SameInvokeId(i) == 1 \* mutant: the invoke id is not counted up
InvokeId(i) == i

ReadAllScript(registers) ==
  [i \in DOMAIN registers |-> Get(registers[i], InvokeId(i), FALSE)]

PollScript == ReadAllScript(PollRegisters)

ReadRegisterScript(register) == <<Get(register, 1, TRUE)>>

RelayControlScript ==
  <<[type |-> "action-response", register |-> "control", invokeId |-> 1, required |-> TRUE],
    Get("output_state", 1, FALSE)>>

ReadRelayStateScript == <<Get("output_state", 1, FALSE), Get("control_state", 2, FALSE)>>

Scripts ==
  {ReadRegisterScript(PollRegisters[i]) : i \in DOMAIN PollRegisters}
    \cup {ReadAllScript(ReadAllRegisters), RelayControlScript, ReadRelayStateScript}

ScriptOf(t) == IF t = Poller THEN PollScript ELSE script[t]

\* The request a task is at, and what the APDU that answers a request looks like.
Current(t) == [by |-> t, pos |-> pos[t], round |-> IF t = Poller THEN round ELSE 0]

AnswerTo(q) ==
  IF q.pos = 0 THEN [type |-> "aare", register |-> "none", invokeId |-> 0, required |-> TRUE]
  ELSE ScriptOf(q.by)[q.pos]

Phase == {"sending", "listening", "pausing", "ending"}

Requests == [by : Tasks, pos : Nat, round : 0 .. MaxPolls]

Entries == [invokeId : DOMAIN PollRegisters, register : STRING, round : 1 .. MaxPolls]

SessionTypeOK ==
  /\ TypeOK
  /\ script \in [Commands -> Scripts \cup {<<>>}]
  /\ phase \in [Tasks -> Phase]
  /\ pos \in [Tasks -> Nat]
  /\ \A t \in Tasks : pos[t] <= Len(ScriptOf(t))
  /\ round \in 0 .. MaxPolls
  /\ outstanding \in [Meters -> Seq(Requests)]
  /\ pendingDlmsRequests \in [Meters -> SUBSET Entries]
  /\ \A m \in Meters : \A e, f \in pendingDlmsRequests[m] : e.invokeId = f.invokeId => e = f
  /\ hasPending \subseteq Meters
  /\ detached \in BOOLEAN
  /\ cleanups \in [Meters -> SUBSET (1 .. MaxPolls)]
  /\ inStep \in [Meters -> BOOLEAN]

SessionInit ==
  /\ Init
  /\ script = [t \in Commands |-> <<>>]
  /\ phase = [t \in Tasks |-> "sending"]
  /\ pos = [t \in Tasks |-> 0]
  /\ round = 0
  /\ outstanding = [m \in Meters |-> <<>>]
  /\ pendingDlmsRequests = [m \in Meters |-> {}]
  /\ hasPending = {}
  /\ detached = FALSE
  /\ cleanups = [m \in Meters |-> {}]
  /\ inStep = [m \in Meters |-> FALSE]

--------------------------------------------------------------------------------
(* Asking for the lock.                                                    *)

\* Nothing of an earlier session is left on meter m, and stop() has not left one on.
Quiet(m) ==
  /\ outstanding[m] = <<>>
  /\ pendingDlmsRequests[m] = {}
  /\ \A t \in evicted : target[t] # m

\* A session begins in step if it takes the lock of a quiet meter.
NoteSessionStart ==
  inStep' = [m \in Meters |->
    IF dlmsAssociationLocks'[m] \notin {dlmsAssociationLocks[m], NoTask} THEN Quiet(m)
    ELSE inStep[m]]

ExecuteCommand(t, m, s) ==
  /\ t # Poller
  /\ script[t] = <<>>
  /\ script' = [script EXCEPT ![t] = s]
  /\ AcquireDlmsLock(t, m)
  /\ NoteSessionStart
  /\ UNCHANGED <<phase, pos, round, outstanding, pendingDlmsRequests, hasPending, detached,
                 cleanups>>

PollDlmsMeter(m) ==
  /\ round < MaxPolls
  /\ round' = round + 1
  /\ AcquireDlmsLock(Poller, m)
  /\ NoteSessionStart
  /\ UNCHANGED <<script, phase, pos, outstanding, pendingDlmsRequests, hasPending, detached,
                 cleanups>>

ResumeSession(t) ==
  /\ Resume(t)
  /\ NoteSessionStart
  /\ UNCHANGED <<script, phase, pos, round, outstanding, pendingDlmsRequests, hasPending,
                 detached, cleanups>>

LockTimer(t) ==
  /\ Deadline(t) \/ LockTimeout(t)
  /\ UNCHANGED sessionVars

--------------------------------------------------------------------------------
(* Sending.                                                                *)

Doing(t, p) == pc[t] = "holding" /\ phase[t] = p

OutOfStep(m) == inStep' = [inStep EXCEPT ![m] = FALSE]

\* sendCommandNoWait resolves: only now does a command register its listener.
Sent(t) ==
  /\ Doing(t, "sending")
  /\ outstanding' = [outstanding EXCEPT ![target[t]] = Append(@, Current(t))]
  /\ phase' = [phase EXCEPT ![t] = IF t = Poller THEN "pausing" ELSE "listening"]
  /\ UNCHANGED <<vars, script, pos, round, pendingDlmsRequests, hasPending, detached, cleanups,
                 inStep>>

\* It answers false: commands do not look, and a poll only looks after its AARQ.
SendRefused(t) ==
  /\ Doing(t, "sending")
  /\ phase' = [phase EXCEPT ![t] = IF t # Poller THEN "listening"
                                   ELSE IF pos[t] = 0 THEN "ending" ELSE "pausing"]
  /\ OutOfStep(target[t])
  /\ UNCHANGED <<vars, script, pos, round, outstanding, pendingDlmsRequests, hasPending,
                 detached, cleanups>>

\* It throws, and the session ends in its catch or finally block.
SendThrows(t) ==
  /\ Doing(t, "sending")
  /\ phase' = [phase EXCEPT ![t] = "ending"]
  /\ OutOfStep(target[t])
  /\ UNCHANGED <<vars, script, pos, round, outstanding, pendingDlmsRequests, hasPending,
                 detached, cleanups>>

\* A pause of the poll is over and it goes on to its next GET.  It looks its Map up
\* once, after the association, and fills it from then on.
PollNext ==
  LET m == target[Poller]
      next == PollScript[pos[Poller] + 1]
      lost == detached /\ pos[Poller] > 0
      entry == [invokeId |-> next.invokeId, register |-> next.register, round |-> round]
  IN
  /\ Doing(Poller, "pausing")
  /\ pos[Poller] < Len(PollScript)
  /\ pos' = [pos EXCEPT ![Poller] = @ + 1]
  /\ phase' = [phase EXCEPT ![Poller] = "sending"]
  /\ detached' = lost
  /\ hasPending' = IF lost THEN hasPending ELSE hasPending \cup {m}
  /\ pendingDlmsRequests' =
       IF lost THEN pendingDlmsRequests
       ELSE [pendingDlmsRequests EXCEPT
               ![m] = {e \in @ : e.invokeId # next.invokeId} \cup {entry}]
  /\ UNCHANGED <<vars, script, round, outstanding, cleanups, inStep>>

\* After its last GET the poll arms the cleanup timer, and then only sends a RLRQ.
PollSent ==
  /\ Doing(Poller, "pausing")
  /\ pos[Poller] = Len(PollScript)
  /\ cleanups' = [cleanups EXCEPT ![target[Poller]] = @ \cup {round}]
  /\ phase' = [phase EXCEPT ![Poller] = "ending"]
  /\ UNCHANGED <<vars, script, pos, round, outstanding, pendingDlmsRequests, hasPending,
                 detached, inStep>>

\* The finally block: the lock is released, answered or not.
Finish(t) ==
  /\ Doing(t, "ending")
  /\ Release(t)
  /\ phase' = [phase EXCEPT ![t] = "sending"]
  /\ pos' = [pos EXCEPT ![t] = 0]
  /\ UNCHANGED <<script, round, outstanding, pendingDlmsRequests, hasPending, detached,
                 cleanups, inStep>>

--------------------------------------------------------------------------------
(* Receiving.                                                              *)

\* The listeners that a response to q finds: they compare meter and type.
Takers(m, q) ==
  {t \in Commands : /\ Doing(t, "listening")
                    /\ target[t] = m
                    /\ AnswerTo(Current(t)).type = AnswerTo(q).type}

\* Where a command goes on when its wait ends, with a usable response or without.
Ends(t, usable) ==
  (AnswerTo(Current(t)).required /\ ~usable) \/ pos[t] = Len(script[t])

GoOnRetrying(S, usable) == \* mutant: a request without a usable answer is sent again
  /\ phase' = [t \in Tasks |-> IF t \notin S THEN phase[t]
                               ELSE IF usable /\ Ends(t, usable) THEN "ending" ELSE "sending"]
  /\ pos' = [t \in Tasks |-> IF t \in S /\ usable /\ ~Ends(t, usable) THEN pos[t] + 1 ELSE pos[t]]
GoOn(S, usable) ==
  /\ phase' = [t \in Tasks |-> IF t \notin S THEN phase[t]
                               ELSE IF Ends(t, usable) THEN "ending" ELSE "sending"]
  /\ pos' = [t \in Tasks |-> IF t \in S /\ ~Ends(t, usable) THEN pos[t] + 1 ELSE pos[t]]

\* The entries resolveDlmsInvokeId takes for the response to q (at most one).
Resolved(m, q) ==
  {e \in pendingDlmsRequests[m] : /\ AnswerTo(q).type = "get-response"
                                  /\ e.invokeId = AnswerTo(q).invokeId}

\* The meter answers its oldest request, with a value or with an error.
Response(m, usable) ==
  LET q == Head(outstanding[m]) IN
  /\ outstanding[m] # <<>>
  /\ outstanding' = [outstanding EXCEPT ![m] = Tail(@)]
  /\ GoOn(Takers(m, q), usable)
  /\ pendingDlmsRequests' = [pendingDlmsRequests EXCEPT ![m] = @ \ Resolved(m, q)]
  /\ UNCHANGED <<vars, script, round, hasPending, detached, cleanups, inStep>>

\* The meter leaves a request unanswered, or the answer is lost.
NoResponse(m) ==
  /\ outstanding[m] # <<>>
  /\ outstanding' = [outstanding EXCEPT ![m] = Tail(@)]
  /\ OutOfStep(m)
  /\ UNCHANGED <<vars, script, phase, pos, round, pendingDlmsRequests, hasPending, detached,
                 cleanups>>

\* The timer of waitForDlmsResponse removes the listener.
ResponseTimeout(t) ==
  /\ Doing(t, "listening")
  /\ GoOn({t}, FALSE)
  /\ OutOfStep(target[t])
  /\ UNCHANGED <<vars, script, round, outstanding, pendingDlmsRequests, hasPending, detached,
                 cleanups>>

\* The cleanup timer of poll n: its entries, and those of earlier polls, are older
\* than 30 seconds by now.  A Map left empty is removed, whoever is filling it.
Cleanup(m, n) ==
  LET kept == {e \in pendingDlmsRequests[m] : e.round > n}
      removed == kept = {} /\ m \in hasPending
  IN
  /\ n \in cleanups[m]
  /\ cleanups' = [cleanups EXCEPT ![m] = @ \ {n}]
  /\ pendingDlmsRequests' = [pendingDlmsRequests EXCEPT ![m] = kept]
  /\ hasPending' = IF removed THEN hasPending \ {m} ELSE hasPending
  /\ detached' = (detached \/ (removed /\ Holds(Poller, m) /\ pos[Poller] > 0))
  /\ UNCHANGED <<vars, script, phase, pos, round, outstanding, inStep>>

\* PollingManager.start and stop.
Restart ==
  /\ Start
  /\ UNCHANGED sessionVars

StopPolling ==
  /\ Stop
  /\ inStep' = [m \in Meters |-> inStep[m] /\ dlmsAssociationLocks[m] = NoTask]
  /\ UNCHANGED <<script, phase, pos, round, outstanding, pendingDlmsRequests, hasPending,
                 detached, cleanups>>

SessionNext ==
  \/ \E m \in Meters :
       \/ \E t \in Tasks, s \in Scripts : ExecuteCommand(t, m, s)
       \/ PollDlmsMeter(m)
       \/ \E usable \in BOOLEAN : Response(m, usable)
       \/ NoResponse(m)
       \/ \E n \in 1 .. MaxPolls : Cleanup(m, n)
  \/ \E t \in Tasks :
       \/ ResumeSession(t)
       \/ LockTimer(t)
       \/ Sent(t)
       \/ SendRefused(t)
       \/ SendThrows(t)
       \/ ResponseTimeout(t)
       \/ Finish(t)
  \/ PollNext
  \/ PollSent
  \/ Restart
  \/ StopPolling

SessionSpec == SessionInit /\ [][SessionNext]_allVars

--------------------------------------------------------------------------------
(* Properties.                                                             *)

\* What the next response on m would be taken for is what it is: every listener it
\* reaches waits for this very request, and the reading that index.js publishes
\* carries the name of the register that was read.
TakenByItsCommand(m) ==
  \A t \in Takers(m, Head(outstanding[m])) : Current(t) = Head(outstanding[m])

LabelledAsRead(m) ==
  LET q == Head(outstanding[m]) IN
  \A e \in Resolved(m, q) : e.register = AnswerTo(q).register

\* A session that began on a quiet meter and has had every answer in time gets its own
\* answers, although they are matched by type alone, and none of its readings is
\* published under another register's name (waitForDlmsResponse, index.js).
AnswersInStep ==
  /\ SessionTypeOK
  /\ \A m \in Meters : (inStep[m] /\ outstanding[m] # <<>>) =>
       TakenByItsCommand(m) /\ LabelledAsRead(m)

\* Whatever else goes wrong, a response to a poll is published under the name of the
\* register that was read or not at all, because polls give the same register the same
\* invoke id every time (pollDlmsMeter, resolveDlmsInvokeId).
PollsLabelledAsRead ==
  \A m \in Meters :
    (outstanding[m] # <<>> /\ Head(outstanding[m]).by = Poller) => LabelledAsRead(m)

PhaseRank == [sending |-> 0, pausing |-> 1, listening |-> 1, ending |-> 2]

\* A sequence that holds its lock takes finitely many steps and leaves by releasing it:
\* each of them, an answer, a timeout, a refused or failed send, and what stop() and
\* the other tasks do meanwhile, leaves it where it is or brings it further, and only
\* the finally block takes it out (sendCommandNoWait, waitForDlmsResponse, release).
SequencesAdvance ==
  [][\A t \in Tasks : pc[t] = "holding" =>
       \/ pc'[t] = "idle" /\ phase[t] = "ending"
       \/ /\ pc'[t] = "holding"
          /\ \/ pos'[t] = pos[t] /\ phase'[t] = phase[t]
             \/ pos'[t] = pos[t] /\ PhaseRank[phase'[t]] > PhaseRank[phase[t]]
             \/ pos'[t] > pos[t]]_allVars

\* What the comment at the lock of pollDlmsMeter says: no collision with commands.  A
\* command that is alone in its sequence never takes the value of one register, read
\* for another task, for the value of the register it asked for.
NoCollision ==
  \A m \in Meters : outstanding[m] # <<>> =>
    LET q == Head(outstanding[m]) IN
    \A t \in Takers(m, q) :
      (/\ q.by # t
       /\ \A u \in Tasks : Holds(u, m) => u = t)
        => AnswerTo(q).register = AnswerTo(Current(t)).register
================================================================================
