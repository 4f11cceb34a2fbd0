---------------------------- MODULE SpeechPlayerMC ----------------------------
(* Instances of SpeechPlayer for TLC. *)
EXTENDS SpeechPlayer

CONSTANTS r1, r2, r3, blank, malformed, voices, other

\* Three speeches and one request of every other kind.
Asked ==
  [r \in Request |->
     CASE r = blank -> "blank" [] r = malformed -> "malformed" [] r = voices -> "voices"
       [] r = other -> "other" [] OTHER -> "speech"]
=============================================================================
