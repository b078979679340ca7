----------------------------- MODULE MCDlmsSession -----------------------------
(***************************************************************************)
(* Instances of DlmsSession for TLC.                                       *)
(***************************************************************************)
EXTENDS DlmsSession

TwoRegisters == <<"energy", "voltage">>
OtherOrder == <<"voltage", "energy">>
================================================================================
