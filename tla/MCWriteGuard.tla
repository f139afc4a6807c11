----------------------------- MODULE MCWriteGuard -----------------------------
(* Small instances of WriteGuard for TLC: 0, 3 and 4 quarters of an ampere.  *)
(* SafetyGuard takes 3 and 4 for the same current, and 4 is above the        *)
(* smaller limit.                                                            *)
EXTENDS WriteGuard, TLC
=============================================================================
