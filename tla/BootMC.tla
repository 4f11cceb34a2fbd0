------------------------------- MODULE BootMC -------------------------------
(* Instances of Boot for TLC: two channels, one of them without its key, *)
(* and two profiles.                                                      *)
EXTENDS Boot

CONSTANTS a, b, p, q, t, u

\* CHANNELS_ENABLED, set and left empty.
Listings == {<<a, b>>, <<>>}
Entries == <<[name |-> "P", token |-> t, defaults |-> {a, b}],
             [name |-> "Q", token |-> u, defaults |-> {a}]>>
Slugs == [name \in {"P", "Q"} |-> IF name = "P" THEN p ELSE q]
=============================================================================
