------------------------- MODULE MCBackupAutomation -------------------------
(***************************************************************************)
(* Instances of BackupAutomation.                                          *)
(***************************************************************************)
EXTENDS BackupAutomationInv
=============================================================================
