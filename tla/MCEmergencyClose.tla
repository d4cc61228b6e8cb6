-------------------------- MODULE MCEmergencyClose --------------------------
(***************************************************************************)
(* EmergencyClose for TLC: the runs choose who closes, and what may fail   *)
(* or come late.                                                           *)
(***************************************************************************)
EXTENDS EmergencyClose

CONSTANT s1

AnyFailure  == AllFails
NotAsked    == AllFails \ {"query"}
NotCancel   == AllFails \ {"cancel"}
AnyListing  == BOOLEAN
=============================================================================
