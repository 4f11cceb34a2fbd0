----------------------------- MODULE AdminConfig -----------------------------
(***************************************************************************)
(* The admin process: PUT /api/config (src/admin/routes/config-routes.ts)  *)
(* and the entity operations behind the MCP tools (config-service.ts).     *)
(*                                                                         *)
(* A PUT carries the complete wanted configuration.  It is validated, then *)
(* applied row by row: upsert the channels, upsert the profiles, delete    *)
(* the profiles and then the channels that the payload leaves out.  Node   *)
(* runs the handler without a break, so no other request of the admin      *)
(* process comes in between; the other processes, and a crash, may.        *)
(* The order of the payload's arrays is the client's: any row may be next. *)
(***************************************************************************)
EXTENDS ConfigStore

CONSTANT Wanted  \* the configurations clients PUT

ASSUME WantedAssumption == Wanted \subseteq Config

VARIABLES
  put,   \* the PUT being applied: what it wants, what it has still to do
  torn   \* history: a PUT ended early and none has completed since

vars == <<channel, profile, put, torn>>

NoPut == [pc |-> "none"]
Put == [pc : {"apply"}, want : Config,
        channels : SUBSET Channel, profiles : SUBSET ProfileId,
        dropProfiles : SUBSET ProfileId, dropChannels : SUBSET Channel]

-----------------------------------------------------------------------------

(***************************************************************************)
(* validateConfigPayload: no enabled instance lacks a required key, no two *)
(* profiles share a token, every default exists and is enabled.  Malformed *)
(* ids and unknown types are rejected alike and are not among the          *)
(* payloads; nor is a repeated profile id, which no client sends.          *)
(***************************************************************************)
Valid(cfg) ==
  /\ \A c \in Channel : cfg.channel[c] # "incomplete"
  /\ \A p, q \in ProfilesOf(cfg) :
       cfg.profile[p].token = cfg.profile[q].token => p = q
  /\ \A p \in ProfilesOf(cfg) : cfg.profile[p].defaults \subseteq EnabledIn(cfg)

\* upsertedById: the state with one entry replaced or appended.
WithChannel(cfg, c, setting) == [cfg EXCEPT !.channel[c] = setting]
WithProfile(cfg, p, row) == [cfg EXCEPT !.profile[p] = row]

-----------------------------------------------------------------------------
(* PUT /api/config *)

\* 400: nothing is written.
RejectPut(want) ==
  /\ put = NoPut
  /\ ~ Valid(want)
  /\ UNCHANGED vars

BeginPut(want) ==
  /\ put = NoPut
  /\ Valid(want)
  /\ put' = [pc |-> "apply", want |-> want,
             channels |-> Instances(want), profiles |-> ProfilesOf(want),
             dropProfiles |-> ProfilesOf(Current) \ ProfilesOf(want),
             dropChannels |-> Instances(Current) \ Instances(want)]
  /\ UNCHANGED <<store, torn>>

WriteChannel ==
  /\ put # NoPut
  /\ \E c \in put.channels :
       /\ UpsertChannel(c, put.want.channel[c])
       /\ put' = [put EXCEPT !.channels = @ \ {c}]
  /\ UNCHANGED torn

\* Mutant: the profiles are written before the channels they refer to.
WriteProfileFirst ==
  /\ put # NoPut
  /\ \E p \in put.profiles :
       /\ UpsertProfile(p, put.want.profile[p])
       /\ put' = [put EXCEPT !.profiles = @ \ {p}]
  /\ UNCHANGED torn

WriteProfile ==
  /\ put # NoPut
  /\ put.channels = {}
  /\ \E p \in put.profiles :
       /\ UpsertProfile(p, put.want.profile[p])
       /\ put' = [put EXCEPT !.profiles = @ \ {p}]
  /\ UNCHANGED torn

\* A row still holds the token: the statement throws, the route answers 500.
WriteProfileClashes ==
  /\ put # NoPut
  /\ put.channels = {}
  /\ \E p \in put.profiles : ~ TokenFree(p, put.want.profile[p].token)
  /\ put' = NoPut
  /\ torn' = TRUE
  /\ UNCHANGED store

DropProfile ==
  /\ put # NoPut
  /\ put.channels = {} /\ put.profiles = {}
  /\ \E p \in put.dropProfiles :
       /\ DeleteProfile(p)
       /\ put' = [put EXCEPT !.dropProfiles = @ \ {p}]
  /\ UNCHANGED torn

DropChannel ==
  /\ put # NoPut
  /\ put.channels = {} /\ put.profiles = {} /\ put.dropProfiles = {}
  /\ \E c \in put.dropChannels :
       /\ DeleteChannel(c)
       /\ put' = [put EXCEPT !.dropChannels = @ \ {c}]
  /\ UNCHANGED torn

Applied ==
  /\ put # NoPut
  /\ put.channels = {} /\ put.profiles = {}
  /\ put.dropProfiles = {} /\ put.dropChannels = {}

\* 200.
FinishPut ==
  /\ Applied
  /\ put' = NoPut
  /\ torn' = FALSE
  /\ UNCHANGED store

\* The admin process dies, or a write gives up on the lock (SQLITE_BUSY).
AbortPut ==
  /\ put # NoPut
  /\ ~ Applied
  /\ put' = NoPut
  /\ torn' = TRUE
  /\ UNCHANGED store

-----------------------------------------------------------------------------
(* The entity operations of config-service.ts *)

UpsertChannelEntity(c, setting) ==
  /\ put = NoPut
  /\ Valid(WithChannel(Current, c, setting))
  /\ UpsertChannel(c, setting)
  /\ UNCHANGED <<put, torn>>

\* The delete cascades; the loop that prunes the defaults finds none left.
DeleteChannelEntity(c) ==
  /\ put = NoPut
  /\ channel[c] # "absent"
  /\ DeleteChannel(c)
  /\ UNCHANGED <<put, torn>>

UpsertProfileEntity(p, row) ==
  /\ put = NoPut
  /\ Valid(WithProfile(Current, p, row))
  /\ UpsertProfile(p, row)
  /\ UNCHANGED <<put, torn>>

DeleteProfileEntity(p) ==
  /\ put = NoPut
  /\ profile[p] # NoProfile
  /\ DeleteProfile(p)
  /\ UNCHANGED <<put, torn>>

-----------------------------------------------------------------------------
Init ==
  /\ EmptyStore
  /\ put = NoPut
  /\ torn = FALSE

ApplyPut ==
  \/ WriteChannel
  \/ WriteProfile
  \/ WriteProfileClashes
  \/ DropProfile
  \/ DropChannel
  \/ FinishPut
  \/ AbortPut

EntityOperation ==
  \/ \E c \in Channel, setting \in Setting \ {"absent"} : UpsertChannelEntity(c, setting)
  \/ \E c \in Channel : DeleteChannelEntity(c)
  \/ \E p \in ProfileId, row \in Row : UpsertProfileEntity(p, row)
  \/ \E p \in ProfileId : DeleteProfileEntity(p)

Next ==
  \/ \E want \in Wanted : BeginPut(want) \/ RejectPut(want)
  \/ ApplyPut
  \/ EntityOperation

Spec == Init /\ [][Next]_vars

-----------------------------------------------------------------------------
(* Properties *)

\* The type of every variable.
TypeOK ==
  /\ StoreTypeOK
  /\ put \in {NoPut} \cup Put
  /\ torn \in BOOLEAN

(***************************************************************************)
(* Saved means stored (config-routes.ts): a PUT that answers 200 has made  *)
(* the store exactly what it asked for, whatever was in it before: nothing *)
(* pruned on the way, nothing left over, no row lost to a cascade.         *)
(***************************************************************************)
SavedMeansStored == Applied => Current = put.want

(***************************************************************************)
(* The db-channels spec (line 53), "a profile default is always a subset   *)
(* of existing enabled instances": so it is while no PUT is being applied, *)
(* as long as none ended early; and no enabled instance lacks a required   *)
(* key.  The MCP operations keep it one entity at a time.                  *)
(***************************************************************************)
StoreValid == put = NoPut /\ ~ torn => Valid(Current)

(***************************************************************************)
(* Where a PUT stands: it was validated as a whole, the rows it has left   *)
(* behind are as it wants them, the rows it does not want are still on its *)
(* lists.  It is why the pruning in UpsertProfile and the cascade of       *)
(* DeleteChannel take nothing from a PUT.                                  *)
(***************************************************************************)
PutProgress ==
  put # NoPut =>
    /\ Valid(put.want)
    /\ put.channels \subseteq Instances(put.want)
    /\ put.profiles \subseteq ProfilesOf(put.want)
    /\ put.dropProfiles \cap ProfilesOf(put.want) = {}
    /\ put.dropChannels \cap Instances(put.want) = {}
    /\ \A c \in Instances(put.want) \ put.channels : channel[c] = put.want.channel[c]
    /\ \A c \in Instances(Current) \ put.dropChannels : c \in Instances(put.want)
    /\ \A p \in ProfilesOf(put.want) \ put.profiles : profile[p] = put.want.profile[p]
    /\ \A p \in ProfilesOf(Current) \ put.dropProfiles : p \in ProfilesOf(put.want)
    /\ put.profiles # ProfilesOf(put.want) => put.channels = {}

\* The inductive invariant.
AdminInv == TypeOK /\ DefaultsExist /\ TokensUnique /\ PutProgress /\ StoreValid
=============================================================================
