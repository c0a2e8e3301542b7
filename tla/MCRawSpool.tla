----------------------------- MODULE MCRawSpool -----------------------------
(***************************************************************************)
(* Small instances of RawSpool; the configurations give the constants.     *)
(***************************************************************************)
EXTENDS RawSpool, TLC

\* The hours are opaque to the spool: it only compares them for equality.
HourSymmetry == Permutations(Hours)
=============================================================================
