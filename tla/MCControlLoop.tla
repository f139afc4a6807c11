---------------------------- MODULE MCControlLoop -----------------------------
(* Small instances of ControlLoop for TLC. *)
EXTENDS ControlLoop, TLC

Nothing  == [shadow |-> "keep", pause |-> {}, resume |-> {}, force |-> {}, unforce |-> {}]
PauseAll == [Nothing EXCEPT !.pause = Subsystems]
ResumeShed == [Nothing EXCEPT !.resume = {"shed"}]
ForceShed == [Nothing EXCEPT !.force = {"shed"}]
GoLive    == [Nothing EXCEPT !.shadow = "off"]
GoShadow  == [Nothing EXCEPT !.shadow = "on"]

Pausing   == {PauseAll, ResumeShed, ForceShed, GoLive}
Shadowing == {GoLive, GoShadow}
Live      == {GoLive}
Full      == Features
NoShed    == Features \ {"shed"}
AllConfigs == {Full, NoShed}
OneConfig  == {Full}
Symmetry  == Permutations(Clients) \union Permutations(Streams)
=============================================================================
