----------------------------- MODULE ObisProbe -----------------------------
(***************************************************************************)
(* src/debug/dlms-obis-probe.js: associates with a meter by logical names   *)
(* (LN) and asks it for a list of OBIS codes, each under its own class and  *)
(* then under others; where nothing answers it associates by short names    *)
(* (SN) and reads a list of addresses.                                      *)
(*                                                                         *)
(* probe[s] is the run that connection s started, probe[s].pc the await it  *)
(* is in.  The results are variables of the process, which every new        *)
(* connection empties, whoever still writes to them.                       *)
(***************************************************************************)
EXTENDS ProbeServer

CONSTANTS
    ClassesToTry,   \* OBIS_PROBE_LIST: per code, its default class and the others
    SnBaseAddresses \* SN_BASE_ADDRESSES, a sequence

ASSUME ProbeAssumption ==
    \A i \in DOMAIN ClassesToTry : ClassesToTry[i] # <<>>

VARIABLES
    probe,          \* connection -> the run it started
    lnResults, snResults,   \* their order, which is that of the printed rows, is left out
    accepted,       \* connection -> AARQs that were accepted, their AARE not taken yet
    granted,        \* connection -> the associations that the meter holds, by their AARQ
    unheard         \* connection -> history: those whose AARE was not what the run took

associations == <<accepted, granted, unheard>>
probeVars == <<probe, lnResults, snResults, associations>>

\* The AARQs of a run, by the awaits behind them.
Aarqs == {"lnAare", "lnAareRaw", "snAare"}
ProbeAwaits == {"lnAare", "lnAareRaw", "lnGet", "snAare", "snRead"}
ProbeSleeps == {"armed", "lnClassGap", "lnGap", "lnRelease", "snPause", "snGap", "snRelease"}

\* code and class: the probe of lnGet; found: this code has answered; count: the
\* codes that have; address: the probe of snRead.
IdleProbe == [pc |-> "idle", code |-> 1, class |-> 1, found |-> FALSE, count |-> 0,
              address |-> 1]

ProbeInit ==
    /\ probe = [s \in Sockets |-> IdleProbe]
    /\ lnResults = {}
    /\ snResults = {}
    /\ accepted = [s \in Sockets |-> {}]
    /\ granted = [s \in Sockets |-> {}]
    /\ unheard = [s \in Sockets |-> {}]

----------------------------------------------------------------------------
(* From one await to the next *)

NothingAsked == [tag |-> "none", of |-> <<>>]

LnRequest(run) == [tag |-> "get", of |-> <<run.code, run.class>>]

SnRequest(run) == [tag |-> "read", of |-> <<run.address>>]

\* The run reaches its next await and writes a request, if any.
AwaitNext(s, run, rest, request) ==
    /\ probe' = [probe EXCEPT ![s] = run]
    /\ inflight' = [inflight EXCEPT ![s] =
            IF request = NothingAsked THEN rest ELSE Sent(s, rest, request)]
    /\ UNCHANGED serverVars

\* An AARQ, in each of the three places that send one.  A meter that it reaches
\* accepts it or not, whenever the run comes to hear of that.
Associate(s, run, rest, pc) ==
    /\ AwaitNext(s, [run EXCEPT !.pc = pc], rest, [tag |-> "aare", of |-> <<pc>>])
    /\ \/ /\ sock[s] = "open"
          /\ accepted' = [accepted EXCEPT ![s] = @ \cup {pc}]
          /\ granted' = [granted EXCEPT ![s] = @ \cup {pc}]
       \/ UNCHANGED <<accepted, granted>>

Pause(s, run, rest, pc) == AwaitNext(s, [run EXCEPT !.pc = pc], rest, NothingAsked)

\* releaseAssociation: the RLRQ, the wait for its answer, which changes nothing
\* whether it comes or not, and the pause behind it.
ReleaseAssociation(s, run, rest, pc) ==
    /\ Pause(s, run, rest, pc)
    /\ granted' = [granted EXCEPT ![s] = {}]
    /\ unheard' = [unheard EXCEPT ![s] = {}]
    /\ UNCHANGED accepted

KeepGranted == UNCHANGED associations

\* The loop over OBIS_PROBE_LIST from its head, and what runProbes does behind it.
LnProbe(s, run, rest) ==
    \/ /\ ~disconnected
       /\ run.code <= Len(ClassesToTry)
       /\ AwaitNext(s, [run EXCEPT !.pc = "lnGet"], rest, LnRequest(run))
       /\ KeepGranted
    \/ /\ ~disconnected
       /\ run.code > Len(ClassesToTry)
       /\ ReleaseAssociation(s, run, rest, "lnRelease")
    \/ /\ disconnected
       /\ Pause(s, run, rest, "done")
       /\ KeepGranted

SameCode(run) == [run EXCEPT !.class = 1, !.found = FALSE] \* mutant: no way ahead
NextCode(run) == [run EXCEPT !.code = @ + 1, !.class = 1, !.found = FALSE]

MoreClasses(run) ==
    ~disconnected /\ ~run.found /\ run.class < Len(ClassesToTry[run.code])

\* The loop over the classes, behind the sleep at its end.
NextClass(s, run, rest) ==
    \/ /\ MoreClasses(run)
       /\ \E next \in {[run EXCEPT !.class = @ + 1, !.pc = "lnGet"]} :
            AwaitNext(s, next, rest, LnRequest(next))
       /\ KeepGranted
    \/ /\ ~MoreClasses(run)
       /\ run.found
       /\ LnProbe(s, NextCode(run), rest)
    \/ /\ ~MoreClasses(run)
       /\ ~run.found
       /\ Pause(s, run, rest, "lnGap")
       /\ KeepGranted

\* The loop over SN_BASE_ADDRESSES from its head, and the end of runProbes.
SnProbeUnreleased(s, run, rest) == \* mutant: the SN association is not released
    \/ /\ ~disconnected
       /\ run.address <= Len(SnBaseAddresses)
       /\ AwaitNext(s, [run EXCEPT !.pc = "snRead"], rest, SnRequest(run))
       /\ KeepGranted
    \/ /\ disconnected \/ run.address > Len(SnBaseAddresses)
       /\ Pause(s, run, rest, "done")
       /\ KeepGranted
SnProbe(s, run, rest) ==
    \/ /\ ~disconnected
       /\ run.address <= Len(SnBaseAddresses)
       /\ AwaitNext(s, [run EXCEPT !.pc = "snRead"], rest, SnRequest(run))
       /\ KeepGranted
    \/ /\ ~disconnected
       /\ run.address > Len(SnBaseAddresses)
       /\ ReleaseAssociation(s, run, rest, "snRelease")
    \/ /\ disconnected
       /\ Pause(s, run, rest, "done")
       /\ KeepGranted

Ended(s, rest) == Pause(s, probe[s], rest, "done") /\ KeepGranted

LnResult(s, result, of) ==
    lnResults' = lnResults \cup
        {[run |-> s, code |-> probe[s].code, class |-> probe[s].class,
          result |-> result, of |-> of]}

SnResult(s, result, of) ==
    snResults' = snResults \cup
        {[run |-> s, address |-> probe[s].address, result |-> result, of |-> of]}

NoResult == UNCHANGED <<lnResults, snResults>>

----------------------------------------------------------------------------
(* The answers to each request, and their timers *)

\* What an AARE says is what became of the AARQ it answers: its own, or an earlier
\* one whose timer has fired.
Accepted(s, of) == of[1] \in accepted[s]

\* The run goes on without the AARE of the AARQ it sent last.
MissAare(s) == unheard' = [unheard EXCEPT ![s] = @ \cup ({probe[s].pc} \cap granted[s])]

Hear(s, of) ==
    /\ IF of = <<probe[s].pc>> THEN UNCHANGED unheard ELSE MissAare(s)
    /\ accepted' = [accepted EXCEPT ![s] = @ \ {of[1]}]
    /\ UNCHANGED granted

AareReceived(s, rest, of) ==
    /\ probe[s].pc \in {"lnAare", "lnAareRaw"}
    /\ NoResult
    /\ Hear(s, of)
    /\ \/ /\ Accepted(s, of) /\ ~disconnected
          /\ AwaitNext(s, [probe[s] EXCEPT !.pc = "lnGet"], rest, LnRequest(probe[s]))
       \/ Accepted(s, of) /\ disconnected /\ Pause(s, probe[s], rest, "done")
       \/ ~Accepted(s, of) /\ Pause(s, probe[s], rest, "snPause")

\* A success ends the search for this code's class, and so does any error but
\* object-undefined and object-class-inconsistent, and what is neither ("denied").
\* An error without its code throws: the run ends in its catch handler.
GetReceived(s, rest, of) ==
    /\ probe[s].pc = "lnGet"
    /\ UNCHANGED snResults
    /\ \/ /\ LnResult(s, "success", of)
          /\ Pause(s, [probe[s] EXCEPT !.found = TRUE, !.count = @ + 1], rest, "lnClassGap")
       \/ /\ LnResult(s, "undefined", of)
          /\ Pause(s, probe[s], rest, "lnClassGap")
       \/ /\ LnResult(s, "denied", of)
          /\ Pause(s, probe[s], rest, "lnGap")
       \/ /\ UNCHANGED lnResults
          /\ Pause(s, probe[s], rest, "failed")
    /\ KeepGranted

SnAareReceived(s, rest, of) ==
    /\ probe[s].pc = "snAare"
    /\ NoResult
    /\ Hear(s, of)
    /\ \/ /\ Accepted(s, of) /\ ~disconnected
          /\ AwaitNext(s, [probe[s] EXCEPT !.pc = "snRead"], rest, SnRequest(probe[s]))
       \/ /\ ~Accepted(s, of) \/ disconnected
          /\ Pause(s, probe[s], rest, "done")

\* A value or an error: the run goes on in the same way.
ReadReceived(s, rest, of) ==
    /\ probe[s].pc = "snRead"
    /\ UNCHANGED lnResults
    /\ SnResult(s, "answered", of)
    /\ Pause(s, probe[s], rest, "snGap")
    /\ KeepGranted

ProbeExpects(pc) ==
    CASE pc \in Aarqs -> "aare"
      [] pc = "lnGet" -> "get"
      [] pc = "snRead" -> "read"
      [] OTHER -> "nothing"

DeliverToProbe(s) ==
    /\ sock[s] = "open"
    /\ inflight[s] # <<>>
    /\ \E answer \in {Head(inflight[s])}, rest \in {Tail(inflight[s])} :
        \/ /\ answer.tag = ProbeExpects(probe[s].pc)
           /\ \/ AareReceived(s, rest, answer.of) \/ GetReceived(s, rest, answer.of)
              \/ SnAareReceived(s, rest, answer.of) \/ ReadReceived(s, rest, answer.of)
           /\ UNCHANGED late
        \/ /\ answer.tag # ProbeExpects(probe[s].pc)
           /\ Lose(s)
           /\ UNCHANGED probeVars

\* The first AARQ is sent again without the IVY header.
ProbeTimeout(s) ==
    /\ \E rest \in Outstanding(s) :
        /\ MissAnswer(s, rest)
        /\ \/ /\ probe[s].pc = "lnAare"
              /\ Associate(s, probe[s], rest, "lnAareRaw")
              /\ NoResult
           \/ /\ probe[s].pc = "lnAareRaw"
              /\ Pause(s, probe[s], rest, "snPause")
              /\ UNCHANGED <<accepted, granted>>
              /\ NoResult
           \/ /\ probe[s].pc = "lnGet"
              /\ LnResult(s, "timeout", LnRequest(probe[s]).of)
              /\ Pause(s, probe[s], rest, "lnGap")
              /\ UNCHANGED <<accepted, granted, snResults>>
           \/ /\ probe[s].pc = "snAare"
              /\ Pause(s, probe[s], rest, "done")
              /\ UNCHANGED <<accepted, granted>>
              /\ NoResult
           \/ /\ probe[s].pc = "snRead"
              /\ SnResult(s, "timeout", SnRequest(probe[s]).of)
              /\ Pause(s, probe[s], rest, "snGap")
              /\ UNCHANGED <<accepted, granted, lnResults>>
    /\ IF probe[s].pc \in Aarqs THEN MissAare(s) ELSE UNCHANGED unheard

\* runProbes behind the release of the LN association.
LnReleased(s, run, rest) ==
    \/ /\ run.count = 0 /\ ~disconnected
       /\ Pause(s, run, rest, "snPause")
    \/ /\ run.count # 0 \/ disconnected
       /\ Pause(s, run, rest, "done")

\* The end of a sleep.  The first LN association is attempted even if the
\* connection is gone by then, and so is the SN one behind a failed LN one.
WakeProbe(s) ==
    /\ \E run \in {probe[s]}, rest \in {inflight[s]} :
        \/ run.pc = "armed" /\ Associate(s, run, rest, "lnAare") /\ UNCHANGED unheard
        \/ run.pc = "lnClassGap" /\ NextClass(s, run, rest)
        \/ run.pc = "lnGap" /\ LnProbe(s, NextCode(run), rest)
        \/ run.pc = "lnRelease" /\ LnReleased(s, run, rest) /\ KeepGranted
        \/ run.pc = "snPause" /\ Associate(s, run, rest, "snAare") /\ UNCHANGED unheard
        \/ run.pc = "snGap" /\ SnProbe(s, [run EXCEPT !.address = @ + 1], rest)
        \/ run.pc = "snRelease" /\ Ended(s, rest)
    /\ NoResult
    /\ UNCHANGED late

----------------------------------------------------------------------------
(* The server's steps *)

ProbeHeartbeat(s) ==
    /\ sock[s] = "open"
    /\ probe[s].pc = "idle"
    /\ probe' = [probe EXCEPT ![s].pc = "armed"]
    /\ UNCHANGED <<serverVars, wireVars, lnResults, snResults, associations>>

ResultsOf(r) == {x \in lnResults \cup snResults : x.run = r}

AcceptForProbe(s) ==
    /\ Accept(s)
    /\ \A r \in Sockets :
          probe[r].pc \notin {"done", "failed"} => Cardinality(ResultsOf(r)) <= MaxOverlap
    /\ lnResults' = {}
    /\ snResults' = {}
    /\ UNCHANGED <<probe, associations>>

RejectForProbe(s) == Reject(s) /\ UNCHANGED probeVars

\* A meter's associations end with its connection.
Dissociate(s) ==
    /\ accepted' = [accepted EXCEPT ![s] = {}]
    /\ granted' = [granted EXCEPT ![s] = {}]
    /\ unheard' = [unheard EXCEPT ![s] = {}]
    /\ UNCHANGED <<probe, lnResults, snResults>>

CloseForProbe(s) == Close(s) /\ Dissociate(s)

FailForProbe(s) == Fail(s) /\ Dissociate(s)

ProbeNext ==
    \E s \in Sockets :
        \/ AcceptForProbe(s) \/ RejectForProbe(s) \/ CloseForProbe(s) \/ FailForProbe(s)
        \/ ProbeHeartbeat(s) \/ DeliverToProbe(s) \/ ProbeTimeout(s) \/ WakeProbe(s)

ProbeSpec == ServerInit /\ ProbeInit /\ [][ProbeNext]_<<serverVars, wireVars, probeVars>>

----------------------------------------------------------------------------
(* Properties *)

\* A result is the meter's answer to the request it is listed for, unless an
\* answer missed its timer before.
ProbeHonest(s) ==
    /\ \A r \in lnResults : r.run = s => r.of = <<r.code, r.class>> \/ late[s] > 0
    /\ \A r \in snResults : r.run = s => r.of = <<r.address>> \/ late[s] > 0

SnMode == {"snAare", "snRead", "snGap", "snRelease"}

\* Of the associations whose AARE was taken for what it is, or may still be, the
\* meter holds one at a time, and none when the run is over, on every path through
\* the two modes: only a lost connection - of another run, then - keeps the run from
\* releasing it.  Behind stay, on a connection that is up, an association
\* whose AARE missed its timer, or whose run took an older AARE for its own, and
\* that of a run that an error without its code ended ("failed").  A run goes over
\* to short names only if no code has answered.
AssociationsReleased ==
    \A s \in Sockets :
        /\ Cardinality(granted[s] \ unheard[s]) <= 1
        /\ probe[s].pc = "done" =>
                granted[s] \subseteq unheard[s] \/ \E r \in Sockets : sock[r] \in {"failed", "closed"}
        /\ probe[s].pc \in SnMode =>
                ~\E r \in lnResults : r.run = s /\ r.result = "success"

\* How far a run is: the stage of runProbes, and where it is in that stage.
ProbeProgress(run) ==
    CASE run.pc = "idle" -> <<0, 0, 0, 0>>
      [] run.pc = "armed" -> <<1, 0, 0, 0>>
      [] run.pc = "lnAare" -> <<2, 0, 0, 0>>
      [] run.pc = "lnAareRaw" -> <<3, 0, 0, 0>>
      [] run.pc = "lnGet" -> <<4, run.code, run.class, 0>>
      [] run.pc = "lnClassGap" -> <<4, run.code, run.class, 1>>
      [] run.pc = "lnGap" -> <<4, run.code, run.class, 2>>
      [] run.pc = "lnRelease" -> <<5, 0, 0, 0>>
      [] run.pc = "snPause" -> <<6, 0, 0, 0>>
      [] run.pc = "snAare" -> <<7, 0, 0, 0>>
      [] run.pc = "snRead" -> <<8, run.address, 0, 0>>
      [] run.pc = "snGap" -> <<8, run.address, 1, 0>>
      [] run.pc = "snRelease" -> <<9, 0, 0, 0>>
      [] run.pc \in {"done", "failed"} -> <<10, 0, 0, 0>>

ProbeAdvances(s) ==
    probe'[s] = probe[s] \/ Before(ProbeProgress(probe[s]), ProbeProgress(probe'[s]))
=============================================================================
