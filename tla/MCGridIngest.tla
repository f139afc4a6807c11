---------------------------- MODULE MCGridIngest ----------------------------
(* Instance for TLC: the grid entity says on, off or unavailable. *)
EXTENDS GridIngest

MCReadings == {"on", "off", "unavailable"}
=============================================================================
