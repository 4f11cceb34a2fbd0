----------------------------- MODULE AdminPanelMC -----------------------------
(* Instances of AdminPanel for TLC. *)
EXTENDS AdminPanel, TLC

CONSTANTS a, p, t, g1, g2

\* A tab may PUT anything.
AllConfigs == Config

\* The GETs in flight are alike.
Slots == Permutations(Get)
=============================================================================
