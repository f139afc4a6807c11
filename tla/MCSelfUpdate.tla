---------------------------- MODULE MCSelfUpdate ----------------------------
(* Small instances of SelfUpdate for TLC: two versions, two requests and two *)
(* helpers at a time.                                                       *)
EXTENDS SelfUpdate, TLC
=============================================================================
