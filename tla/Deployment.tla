------------------------------ MODULE Deployment ------------------------------
(***************************************************************************)
(* What an installation from the dashboard promises: the version in force  *)
(* changes only to a container that serves, and until then the one before  *)
(* it is kept and comes back.  A restore keeps nothing: it replaces what   *)
(* is there.  lost is for what no helper can promise anything about: two   *)
(* of them at work, one that was killed half way, a restore that failed.   *)
(***************************************************************************)
CONSTANTS Images, None

VARIABLES
  phase,    \* serving, offline, trial, replacing or lost
  version   \* the version in force, the one a failed trial goes back to

vars == <<phase, version>>

Init == phase = "serving" /\ version \in Images

(* The service goes off to be exchanged ...                                *)
GoOffline == phase = "serving" /\ phase' = "offline" /\ UNCHANGED version

(* ... a candidate is started and the version in force put aside ...       *)
Try == phase = "offline" /\ phase' = "trial" /\ UNCHANGED version

(* ... and either the candidate takes over, serving, or it goes away.      *)
Accept == phase = "trial" /\ phase' = "serving" /\ version' \in Images
Reject == phase = "trial" /\ phase' = "offline" /\ UNCHANGED version
Resume == phase = "offline" /\ phase' = "serving" /\ UNCHANGED version

Replace  == phase = "serving" /\ phase' = "replacing" /\ version' = None
Replaced == phase = "replacing" /\ phase' = "serving" /\ version' \in Images

Lose == phase # "lost" /\ phase' = "lost" /\ version' = None

Next == \/ GoOffline \/ Try \/ Accept \/ Reject \/ Resume
        \/ Replace \/ Replaced \/ Lose

Spec == Init /\ [][Next]_vars

(* An exchange that was begun ends with the service on, or is lost.        *)
Settles == phase # "serving" ~> phase \in {"serving", "lost"}
=============================================================================
