----------------------------- MODULE ConfigStore -----------------------------
(***************************************************************************)
(* The SQLite file (src/db) that the api, worker and admin processes share *)
(* and the writes of its two repositories.  One operator is one statement  *)
(* or one transaction: other processes see the state between two of them,  *)
(* never inside one.  A process that means to write several rows calls     *)
(* several operators (AdminConfig, Boot).                                  *)
(***************************************************************************)
EXTENDS Naturals, FiniteSets

CONSTANTS
  Channel,    \* channel instance ids
  ProfileId,  \* profile ids
  Token,      \* bearer tokens
  NoProfile   \* a profile id with no row

VARIABLES
  channel,  \* channels: the setting of each id, or "absent"
  profile   \* profiles and profile_channels: the row of each id, or NoProfile

store == <<channel, profile>>

\* "incomplete" is an enabled instance that lacks a required config key.
Setting == {"absent", "disabled", "enabled", "incomplete"}
Row == [token : Token, defaults : SUBSET Channel]
Config == [channel : [Channel -> Setting], profile : [ProfileId -> {NoProfile} \cup Row]]

ASSUME NoProfileAssumption == NoProfile \notin Row

Current == [channel |-> channel, profile |-> profile]

Instances(cfg) == {c \in Channel : cfg.channel[c] # "absent"}
EnabledIn(cfg) == {c \in Channel : cfg.channel[c] \in {"enabled", "incomplete"}}
ProfilesOf(cfg) == {p \in ProfileId : cfg.profile[p] # NoProfile}

\* The instances a notification of profile p without `channels` goes to.
TargetsOf(cfg, p) ==
  IF cfg.profile[p] = NoProfile THEN {} ELSE cfg.profile[p].defaults \cap EnabledIn(cfg)

EmptyStore ==
  /\ channel = [c \in Channel |-> "absent"]
  /\ profile = [p \in ProfileId |-> NoProfile]

-----------------------------------------------------------------------------
(* The writes of the repositories *)

UpsertChannel(c, setting) ==
  /\ channel' = [channel EXCEPT ![c] = setting]
  /\ UNCHANGED profile

\* The foreign key takes the id out of every profile's defaults.
DeleteChannel(c) ==
  /\ channel' = [channel EXCEPT ![c] = "absent"]
  /\ profile' = [p \in ProfileId |->
                   IF profile[p] = NoProfile THEN NoProfile
                   ELSE [profile[p] EXCEPT !.defaults = @ \ {c}]]

\* No other row has the token: `token TEXT NOT NULL UNIQUE`.
TokenFree(p, token) ==
  \A q \in ProfileId \ {p} : profile[q] # NoProfile => profile[q].token # token

\* Mutant: the token column without UNIQUE.
UpsertProfileNotUnique(p, row) ==
  /\ profile' = [profile EXCEPT ![p] = [row EXCEPT !.defaults = @ \cap Instances(Current)]]
  /\ UNCHANGED channel

\* Enabled only by a free token; a default without a row is pruned.
UpsertProfile(p, row) ==
  /\ TokenFree(p, row.token)
  /\ profile' = [profile EXCEPT ![p] = [row EXCEPT !.defaults = @ \cap Instances(Current)]]
  /\ UNCHANGED channel

DeleteProfile(p) ==
  /\ profile' = [profile EXCEPT ![p] = NoProfile]
  /\ UNCHANGED channel

-----------------------------------------------------------------------------
(* What the schema is there for *)

StoreTypeOK ==
  /\ channel \in [Channel -> Setting]
  /\ profile \in [ProfileId -> {NoProfile} \cup Row]

(***************************************************************************)
(* Referential integrity (schema-sql.ts, replaceDefaultChannels): at every *)
(* moment, between any two writes of any process, a profile's defaults     *)
(* name rows that exist.                                                   *)
(***************************************************************************)
DefaultsExist ==
  \A p \in ProfileId :
    profile[p] # NoProfile => profile[p].defaults \subseteq Instances(Current)

\* One profile per token, or resolveByToken would pick either.
TokensUnique ==
  \A p, q \in ProfileId :
    /\ profile[p] # NoProfile /\ profile[q] # NoProfile
    /\ profile[p].token = profile[q].token
    => p = q
=============================================================================
