---------------------------- MODULE AccessClock ----------------------------
(***************************************************************************)
(* The clock the parts of the HTTP surface read: time.time(), _utc_now()   *)
(* and time.monotonic(), which only differ in where they start.  A tick is *)
(* the unit the code's periods are scaled down to.                         *)
(***************************************************************************)
EXTENDS Naturals

CONSTANT MaxNow     \* bound of the model: the last tick

VARIABLE now

Tick == now < MaxNow /\ now' = now + 1
=============================================================================
