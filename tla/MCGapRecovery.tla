--------------------------- MODULE MCGapRecovery ---------------------------
(***************************************************************************)
(* Small instances of GapRecovery; the configurations give the constants.  *)
(***************************************************************************)
EXTENDS GapRecovery, TLC

ASSUME HoursWhole == (MaxTime + 1) % HourLen = 0
=============================================================================
