------------------------------ MODULE MCRestore ------------------------------
(***************************************************************************)
(* Instances of Restore for TLC.                                           *)
(***************************************************************************)
EXTENDS Restore

CONSTANTS b1, up1, cr1

OneRow == {b1}
OneUploader == {up1}
OneCreator == {cr1}
NoRequest == {}
NoFault == {}
AllFaults == FaultKinds \ {"flagRead"}
LiveFaults == {"infra", "promote", "cleanup"}
=============================================================================
