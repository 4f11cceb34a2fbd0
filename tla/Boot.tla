--------------------------------- MODULE Boot ---------------------------------
(***************************************************************************)
(* The start of the api and worker processes (src/container.ts) on one     *)
(* database: both seed it from the environment when they find no channel,  *)
(* and both need the anonymous install id.  Each statement is a step;      *)
(* between two of them the other process may go on, the panel may save,    *)
(* and the process may die.  Docker starts a dead process again.           *)
(***************************************************************************)
EXTENDS AdminConfig, Sequences

CONSTANTS
  Process,       \* the processes that call buildContainer
  ChannelLists,  \* the values of CHANNELS_ENABLED: sequences of channel types
  HasKeys,       \* the types that have all their required keys in the environment
  Tokens,        \* TOKENS: a sequence of [name, token, defaults]
  Slug,          \* the id that each name gives
  MaxCrashes,    \* bound on deaths that are not the program's doing
  MaxEdits       \* bound on edits of the panel

\* The environment loadConfig accepts; malformed TOKENS end every boot.
ASSUME SeedAssumption ==
  /\ Process # {} /\ "none" \notin Process
  /\ ChannelLists \subseteq Seq(Channel)
  /\ Tokens \in Seq([name : DOMAIN Slug, token : Token, defaults : SUBSET Channel])
  /\ \A name \in DOMAIN Slug : Slug[name] \in ProfileId
  /\ MaxCrashes \in Nat /\ MaxEdits \in Nat

VARIABLES
  channelsEnabled,  \* CHANNELS_ENABLED of both processes
  proc,       \* where each process stands, and how many rows it has seeded
  telemetry,  \* the process that generated the stored install id, or "none"
  distinctId, \* the install id each process has
  crashes, edits,
  edited,     \* history: the panel has saved while all were up
  emptied,    \* history: the panel has deleted the last channel
  cut         \* history: a process went down while it was seeding

bootVars == <<channel, profile, put, torn, channelsEnabled, proc, telemetry, distinctId,
              crashes, edits, edited, emptied, cut>>

\* What no booting process writes.
outside == <<put, torn, channelsEnabled>>
saves == <<edited, emptied>>

Seeds == Len(channelsEnabled) + Len(Tokens)
Down == [pc |-> "down", done |-> 0]

-----------------------------------------------------------------------------
(* What loadConfig makes of the environment, row by row *)

\* A type that lacks a required key is seeded disabled.
SeedChannels ==
  [n \in DOMAIN channelsEnabled |->
     [id |-> channelsEnabled[n],
      setting |-> IF channelsEnabled[n] \in HasKeys THEN "enabled" ELSE "disabled"]]

CreatedIds == {channelsEnabled[n] : n \in DOMAIN channelsEnabled}

\* parseTokens; slugify; only instances just created may be defaults.
SeedProfiles ==
  [n \in DOMAIN Tokens |->
     [id |-> Slug[Tokens[n].name],
      row |-> [token |-> Tokens[n].token, defaults |-> Tokens[n].defaults \cap CreatedIds]]]

-----------------------------------------------------------------------------
(* seedFromEnvIfEmpty *)

\* Mutant: seeds on every boot.
CheckEmptyNever(i) ==
  /\ proc[i].pc = "check"
  /\ proc' = [proc EXCEPT ![i] = [pc |-> "seed", done |-> 0]]
  /\ UNCHANGED <<store, outside, telemetry, distinctId, crashes, edits, saves, cut>>

CheckEmpty(i) ==
  /\ proc[i].pc = "check"
  /\ proc' = [proc EXCEPT ![i] = [pc |-> IF Instances(Current) = {} THEN "seed" ELSE "id",
                                  done |-> 0]]
  /\ UNCHANGED <<store, outside, telemetry, distinctId, crashes, edits, saves, cut>>

SeedChannel(n) == UpsertChannel(SeedChannels[n].id, SeedChannels[n].setting)

SeedProfile(n) == UpsertProfile(SeedProfiles[n].id, SeedProfiles[n].row)

\* Mutant: the profiles are seeded first.
SeedProfilesFirst(n) ==
  IF n <= Len(SeedProfiles) THEN SeedProfile(n) ELSE SeedChannel(n - Len(SeedProfiles))

SeedRow(n) ==
  IF n <= Len(SeedChannels) THEN SeedChannel(n) ELSE SeedProfile(n - Len(SeedChannels))

SeedWrite(i) ==
  /\ proc[i].pc = "seed" /\ proc[i].done < Seeds
  /\ SeedRow(proc[i].done + 1)
  /\ proc' = [proc EXCEPT ![i].done = @ + 1]
  /\ UNCHANGED <<outside, telemetry, distinctId, crashes, edits, saves, cut>>

\* Another profile has taken the token: the statement throws and main exits.
SeedClashes(i) ==
  /\ proc[i].pc = "seed" /\ proc[i].done \in Len(SeedChannels)..Seeds - 1
  /\ LET seed == SeedProfiles[proc[i].done + 1 - Len(SeedChannels)]
     IN  ~ TokenFree(seed.id, seed.row.token)
  /\ proc' = [proc EXCEPT ![i] = Down]
  /\ cut' = TRUE
  /\ UNCHANGED <<store, outside, telemetry, distinctId, crashes, edits, saves>>

SeedDone(i) ==
  /\ proc[i].pc = "seed" /\ proc[i].done = Seeds
  /\ proc' = [proc EXCEPT ![i] = [pc |-> "id", done |-> 0]]
  /\ UNCHANGED <<store, outside, telemetry, distinctId, crashes, edits, saves, cut>>

-----------------------------------------------------------------------------
(* getOrCreateInstallId *)

ReadInstallId(i) ==
  /\ proc[i].pc = "id"
  /\ IF telemetry = "none"
     THEN /\ proc' = [proc EXCEPT ![i].pc = "insert"]
          /\ UNCHANGED distinctId
     ELSE /\ proc' = [proc EXCEPT ![i].pc = "up"]
          /\ distinctId' = [distinctId EXCEPT ![i] = telemetry]
  /\ UNCHANGED <<store, outside, telemetry, crashes, edits, saves, cut>>

\* Mutant: INSERT OR REPLACE.
ReplaceInstallId(i) ==
  /\ proc[i].pc = "insert"
  /\ telemetry' = i
  /\ distinctId' = [distinctId EXCEPT ![i] = i]
  /\ proc' = [proc EXCEPT ![i].pc = "up"]
  /\ UNCHANGED <<store, outside, crashes, edits, saves, cut>>

InsertInstallId(i) ==
  /\ proc[i].pc = "insert"
  /\ telemetry = "none"
  /\ telemetry' = i
  /\ distinctId' = [distinctId EXCEPT ![i] = i]
  /\ proc' = [proc EXCEPT ![i].pc = "up"]
  /\ UNCHANGED <<store, outside, crashes, edits, saves, cut>>

\* Mutant: the clash is caught, and the insert tried again.
InsertRetried(i) ==
  /\ proc[i].pc = "insert"
  /\ telemetry # "none"
  /\ UNCHANGED bootVars

\* The row is there by now: the primary key throws and main exits.
InsertClashes(i) ==
  /\ proc[i].pc = "insert"
  /\ telemetry # "none"
  /\ proc' = [proc EXCEPT ![i] = Down]
  /\ UNCHANGED <<store, outside, telemetry, distinctId, crashes, edits, saves, cut>>

-----------------------------------------------------------------------------
(* The surroundings *)

Crash(i) ==
  /\ crashes < MaxCrashes
  /\ proc[i].pc # "down"
  /\ crashes' = crashes + 1
  /\ proc' = [proc EXCEPT ![i] = Down]
  /\ cut' = (cut \/ proc[i].pc = "seed")
  /\ UNCHANGED <<store, outside, telemetry, distinctId, edits, saves>>

\* `restart: unless-stopped`.
Restart(i) ==
  /\ proc[i].pc = "down"
  /\ proc' = [proc EXCEPT ![i].pc = "check"]
  /\ UNCHANGED <<store, outside, telemetry, distinctId, crashes, edits, saves, cut>>

Settled == \A i \in Process : proc[i].pc = "up"

\* The panel or an MCP client, in the admin process.
Edit ==
  /\ edits < MaxEdits
  /\ edits' = edits + 1
  /\ EntityOperation
  /\ edited' = (edited \/ Settled)
  /\ emptied' = (emptied \/ (Instances(Current) # {} /\ Instances(Current)' = {}))
  /\ UNCHANGED <<channelsEnabled, proc, telemetry, distinctId, crashes, cut>>

BootInit ==
  /\ Init
  /\ channelsEnabled \in ChannelLists
  /\ proc = [i \in Process |-> [pc |-> "check", done |-> 0]]
  /\ telemetry = "none"
  /\ distinctId = [i \in Process |-> "none"]
  /\ crashes = 0 /\ edits = 0
  /\ edited = FALSE /\ emptied = FALSE /\ cut = FALSE

BootStep(i) ==
  \/ CheckEmpty(i)
  \/ SeedWrite(i) \/ SeedClashes(i) \/ SeedDone(i)
  \/ ReadInstallId(i) \/ InsertInstallId(i) \/ InsertClashes(i)
  \/ Restart(i)

BootNext ==
  \/ \E i \in Process : BootStep(i) \/ Crash(i)
  \/ Edit

BootSpec == BootInit /\ [][BootNext]_bootVars

\* Docker restarts a process, and a process that runs goes on.
FairBoot == BootSpec /\ \A i \in Process : WF_bootVars(BootStep(i))

-----------------------------------------------------------------------------
(* Properties *)

BootTypeOK ==
  /\ StoreTypeOK /\ put = NoPut /\ torn = FALSE
  /\ channelsEnabled \in ChannelLists
  /\ proc \in [Process -> [pc : {"check", "seed", "id", "insert", "up", "down"},
                           done : 0..Seeds]]
  /\ telemetry \in {"none"} \cup Process
  /\ distinctId \in [Process -> {"none"} \cup Process]
  /\ crashes \in 0..MaxCrashes /\ edits \in 0..MaxEdits
  /\ edited \in BOOLEAN /\ emptied \in BOOLEAN /\ cut \in BOOLEAN

\* What the environment asks for, when its ids and tokens are distinct.
ChannelSeeded(n) == channel[SeedChannels[n].id] = SeedChannels[n].setting
ProfileSeeded(n) ==
  profile[SeedProfiles[n].id] = SeedProfiles[n].row
IsSeeded ==
  /\ \A n \in 1..Len(SeedChannels) : ChannelSeeded(n)
  /\ \A n \in 1..Len(SeedProfiles) : ProfileSeeded(n)

(***************************************************************************)
(* Where the seeders stand while the panel has saved nothing: the rows one *)
(* has written are there, and who skipped the seeding, or is done with it, *)
(* leaves the seed complete or another process at it.                      *)
(***************************************************************************)
SeedProgress ==
  edits = 0 =>
    /\ \A i \in Process : proc[i].pc = "seed" =>
         /\ \A n \in 1..Len(SeedChannels) : n <= proc[i].done => ChannelSeeded(n)
         /\ \A n \in 1..Len(SeedProfiles) :
              n + Len(SeedChannels) <= proc[i].done => ProfileSeeded(n)
    /\ \/ cut
       \/ IsSeeded
       \/ \E i \in Process : proc[i].pc = "seed"
       \/ Instances(Current) = {} /\ \A i \in Process : proc[i].pc \in {"check", "down"}

(***************************************************************************)
(* Two seeders at once (seed-from-env.ts): as long as the panel has saved  *)
(* nothing and no seeder was cut short, the running system has the whole   *)
(* seed, in whatever order the two wrote it and whoever found the other's  *)
(* first rows.                                                             *)
(***************************************************************************)
SeededTogether == Settled /\ edits = 0 /\ ~ cut => IsSeeded

(***************************************************************************)
(* "Never regenerates once a row exists" (sqlite-telemetry-repository.ts): *)
(* processes that run report one install id, the stored one.               *)
(***************************************************************************)
OneInstallId ==
  \A i \in Process : proc[i].pc = "up" => telemetry # "none" /\ distinctId[i] = telemetry

(***************************************************************************)
(* "A no-op the moment the DB already holds any channel, so it never       *)
(* clobbers panel edits" (seed-from-env.ts: 7), as far as the code keeps   *)
(* it: once the panel has saved on the running system, no later boot seeds *)
(* again, unless the panel itself has deleted the last channel; then the   *)
(* deleted rows come back and edited profiles are overwritten.  Without    *)
(* CHANNELS_ENABLED the seed never makes a channel, and every boot repeats *)
(* it.                                                                     *)
(***************************************************************************)
ReseedsOnlyEmptied ==
  edited /\ (\E i \in Process : proc[i].pc = "seed") => emptied \/ channelsEnabled = <<>>

\* What keeps a later boot from seeding: somebody has seen or made a channel.
StartedFull ==
  channelsEnabled # <<>> /\ ~ emptied =>
    /\ edited => Instances(Current) # {}
    /\ \A i \in Process :
         proc[i].pc \in {"id", "insert", "up"} \/ (proc[i].pc = "seed" /\ proc[i].done > 0)
           => Instances(Current) # {}

BootInv ==
  /\ BootTypeOK /\ DefaultsExist /\ TokensUnique
  /\ SeedProgress /\ OneInstallId /\ ReseedsOnlyEmptied /\ StartedFull

\* The panel has given the token of a seed to another profile.
TokenTaken ==
  \E n \in DOMAIN SeedProfiles : ~ TokenFree(SeedProfiles[n].id, SeedProfiles[n].row.token)

(***************************************************************************)
(* Both processes come up and stay up, however they get in each other's    *)
(* way and whatever the panel saves meanwhile, once nothing kills them any *)
(* more (main in bin/api.ts and bin/worker.ts).  The exception is an       *)
(* environment with TOKENS and no CHANNELS_ENABLED: each boot repeats its  *)
(* seed until the panel has made a channel, and ends at a token that the   *)
(* panel has given to another profile (seed-from-env.ts: 62-68), restart   *)
(* after restart.                                                          *)
(***************************************************************************)
ComesUp == <>[]Settled \/ (channelsEnabled = <<>> /\ <>[]TokenTaken)
=============================================================================
