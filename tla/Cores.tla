------------------------------- MODULE Cores -------------------------------
(* What EptTables, MsrBitmap, VmcsSetup and their composition share.       *)
CONSTANTS
  Core,   \* the logical processors
  NULL    \* a pointer that holds 0

ASSUME CoreAssumption == Core # {} /\ NULL \notin Core
==========================================================================
