----------------------------- MODULE VoiceFieldMC -----------------------------
(* Instances of VoiceField for TLC. *)
EXTENDS VoiceField

CONSTANTS home, office, ana, ben, cleo

\* Two players that share one voice.
Lists == [u \in {home, office} |-> IF u = home THEN <<ana, ben>> ELSE <<ben>>]
=============================================================================
