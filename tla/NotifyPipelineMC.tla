--------------------------- MODULE NotifyPipelineMC ---------------------------
(***************************************************************************)
(* Instances of NotifyPipeline for TLC.  Each Init below fixes the starting *)
(* rows or the posts, so that a run spends its states on one question.      *)
(***************************************************************************)
EXTENDS NotifyPipeline

CONSTANTS a, b

OneList == {<<a>>}
RepeatedList == {<<a, a>>}
TwoLists == {<<>>, <<b, a, b>>}
OrderA == <<a>>
OrderAB == <<a, b>>

AllEnabled == \A c \in Channel : instance[c] = "enabled"
DefaultsAll == \A p \in Profile : profiles[p] = Channel

\* Posts of any shape on a full configuration.
PostsInit == Init /\ AllEnabled /\ DefaultsAll

\* Runs about the workers: no dedupKey.
UnkeyedInit == PostsInit /\ \A r \in Request : body[r].key = NoKey
UnkeyedSpec == UnkeyedInit /\ [][Next]_vars
FairUnkeyedSpec == UnkeyedSpec /\ Fairness

\* Their action constraint: the 202 follows at once on the job being stored.
AnswersAtOnce == \A r \in Request : reply[r] = "added" => reply'[r] = "accepted"

\* Posts to the profile's defaults, all with a dedupKey, and fair.
KeyedInit ==
  PostsInit /\ \A r \in Request : body[r].channels = Unspecified /\ body[r].key # NoKey
FairKeyedSpec == KeyedInit /\ [][Next]_vars /\ Fairness
=============================================================================
