---------------------------- MODULE MCFieldTools ----------------------------
EXTENDS FieldTools

\* Three codes of one group; one combination in phase 2.
MCPhase1Probes ==
    << [ab |-> "1-0", c |-> 0, v |-> "a"],
       [ab |-> "1-0", c |-> 0, v |-> "b"],
       [ab |-> "1-0", c |-> 0, v |-> "d"] >>

MCPhase2Variants == <<"e">>

\* A code with another class to try, and one with its default class only.
MCClassesToTry == << <<3, 1>>, <<8>> >>

MCSnBaseAddresses == <<1, 2>>

MCDestinations == <<"d1", "raw">>

\* The relay of the destination probe is reached only in a run that two others overlap:
\* they empty the results by which its probes are numbered.
MCMaxConnections == [scan |-> 2, probe |-> 2, dlt645 |-> 3]
=============================================================================
