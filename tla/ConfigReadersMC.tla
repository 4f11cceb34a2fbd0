--------------------------- MODULE ConfigReadersMC ---------------------------
(* Instances of ConfigReaders for TLC. *)
EXTENDS ConfigReaders, TLC

CONSTANTS a, b, p, q, t

\* No incomplete instances: a PUT of one is refused, and changes nothing.
MCWanted == {cfg \in Config : \A c \in Channel : cfg.channel[c] # "incomplete"}

Symmetry == Permutations({p, q})
=============================================================================
