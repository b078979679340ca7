----------------------------- MODULE MCTcpCommands -----------------------------
(***************************************************************************)
(* Instances of TcpCommands for TLC.                                       *)
(***************************************************************************)
EXTENDS TcpCommands

\* Connections, meters and calls are interchangeable.
Symmetry == Permutations(ConnIds) \cup Permutations(Meters) \cup Permutations(Commands)
================================================================================
