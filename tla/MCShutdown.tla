----------------------------- MODULE MCShutdown -----------------------------
(***************************************************************************)
(* Small instances of Shutdown; the configurations give the constants.     *)
(***************************************************************************)
EXTENDS Shutdown, TLC
=============================================================================
