---------------------------- MODULE ConfigReaders ----------------------------
(***************************************************************************)
(* The worker's reads of the database while the admin process writes it.   *)
(* handleDispatch (src/dispatch/dispatch-service.ts) lists the enabled     *)
(* instances, then fetches the profile, which is two statements: its row   *)
(* and its default channels.  The writes of AdminConfig, in a process of   *)
(* its own, come between any two of the three.                             *)
(***************************************************************************)
EXTENDS AdminConfig

VARIABLES
  read,    \* the read in progress, or its result
  moments, \* history: what TargetsOf was at each moment since the read began
  writes   \* history: the writes since the read began; 2 stands for more

readVars == <<channel, profile, put, torn, read, moments, writes>>

NoRead == [pc |-> "none"]
Reading == [pc : {"enabled", "row"}, profile : ProfileId, enabled : SUBSET Channel]
Resolved == [pc : {"resolved"}, targets : SUBSET Channel]

DefaultsOf(p) == IF profile[p] = NoProfile THEN {} ELSE profile[p].defaults

ReadEnabled(p) ==
  /\ read = NoRead
  /\ read' = [pc |-> "enabled", profile |-> p, enabled |-> EnabledIn(Current)]
  /\ moments' = {TargetsOf(Current, p)} /\ writes' = 0
  /\ UNCHANGED vars

\* `profileRepo.get`: null means no defaults.
ReadProfileRow ==
  /\ read.pc = "enabled"
  /\ read' = IF profile[read.profile] = NoProfile
             THEN [pc |-> "resolved", targets |-> {}]
             ELSE [read EXCEPT !.pc = "row"]
  /\ UNCHANGED <<vars, moments, writes>>

\* Mutant: `requested ?? defaults` without the intersection.
ReadDefaultsOnly ==
  /\ read.pc = "row"
  /\ read' = [pc |-> "resolved", targets |-> DefaultsOf(read.profile)]
  /\ UNCHANGED <<vars, moments, writes>>

\* `defaultChannelsFor` and resolveChannels.
ReadDefaults ==
  /\ read.pc = "row"
  /\ read' = [pc |-> "resolved", targets |-> DefaultsOf(read.profile) \cap read.enabled]
  /\ UNCHANGED <<vars, moments, writes>>

EndRead ==
  /\ read.pc = "resolved"
  /\ read' = NoRead
  /\ moments' = {} /\ writes' = 0
  /\ UNCHANGED vars

AdminStep ==
  /\ Next
  /\ IF read.pc \in {"enabled", "row"}
     THEN /\ moments' = moments \cup {TargetsOf(Current', read.profile)}
          /\ writes' = IF store' = store THEN writes ELSE IF writes = 0 THEN 1 ELSE 2
     ELSE UNCHANGED <<moments, writes>>
  /\ UNCHANGED read

ReadInit ==
  /\ Init
  /\ read = NoRead
  /\ moments = {} /\ writes = 0

ReadNext ==
  \/ \E p \in ProfileId : ReadEnabled(p)
  \/ ReadProfileRow
  \/ ReadDefaults
  \/ EndRead
  \/ AdminStep

ReadSpec == ReadInit /\ [][ReadNext]_readVars

-----------------------------------------------------------------------------
ReadTypeOK ==
  /\ read \in {NoRead} \cup Reading \cup Resolved
  /\ moments \subseteq SUBSET Channel
  /\ writes \in 0..2

(***************************************************************************)
(* Although the read may mix two configurations (handleDispatch,           *)
(* dispatch-service.ts), it makes nothing up: every channel it resolves    *)
(* was an enabled default of the profile at some moment of the read.  It   *)
(* rests on the admin process writing channels before the profiles that    *)
(* refer to them, and on the validation of a profile's defaults.           *)
(***************************************************************************)
NoPhantomTarget ==
  read.pc = "resolved" => read.targets \subseteq UNION moments

(***************************************************************************)
(* The read (handleDispatch) is atomic as long as at most one row is       *)
(* written during it, whether or not that write completes a PUT: the       *)
(* result is the right answer of some moment.  After two it may be that of *)
(* none: when a save puts a new default channel in place of the old one,   *)
(* the job can find no channel at all.                                     *)
(***************************************************************************)
OneWriteIsAtomic ==
  read.pc = "resolved" /\ writes < 2 => read.targets \in moments

\* What makes them inductive: a default that the listing has was seen, and
\* until the second write so was their intersection.
DefaultsWereSeen ==
  read.pc \in {"enabled", "row"} =>
    LET result == DefaultsOf(read.profile) \cap read.enabled IN
    /\ result \subseteq UNION moments
    /\ writes < 2 => result \in moments
    /\ writes = 0 => read.enabled = EnabledIn(Current)

ReadInv == ReadTypeOK /\ NoPhantomTarget /\ OneWriteIsAtomic /\ DefaultsWereSeen
=============================================================================
