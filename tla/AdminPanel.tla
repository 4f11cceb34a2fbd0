------------------------------ MODULE AdminPanel ------------------------------
(***************************************************************************)
(* One browser tab of the admin panel (src/admin/ui) over the admin        *)
(* process.  The tab edits a working copy of the configuration in place,   *)
(* keeps a snapshot to discard to and a dirty flag that shows the save     *)
(* bar.  A save PUTs the whole working copy, and its answer makes the tab  *)
(* load again.  Only the Save and Discard buttons wait for the PUT: every  *)
(* card stays editable, and the refresh button works at any time.          *)
(*                                                                         *)
(* The admin process (AdminConfig) handles one request at a time, whose    *)
(* rows other processes see one by one.  Others write through its entity   *)
(* operations.  Requests and answers may be lost or overtake each other.   *)
(***************************************************************************)
EXTENDS AdminConfig

CONSTANTS
  NoConfig,      \* the working copy before the first load
  NewToken,      \* the empty token of a profile just added
  VoiceChannel,  \* the local-tts instances: their voice may be filled in
  Get,           \* slots for the GETs in flight; bounds their number
  MaxEdits,      \* bound on the edits of the user
  MaxWrites      \* bound on the writes of others

ASSUME PanelAssumption ==
  /\ Wanted = Config
  /\ NoConfig \notin Config
  /\ NewToken \in Token
  /\ VoiceChannel \subseteq Channel
  /\ MaxEdits \in Nat /\ MaxWrites \in Nat

VARIABLES
  working,   \* config
  snapshot,  \* savedSnapshot
  dirty,
  save,      \* the PUT of the tab: not sent, sent, being applied, applied
  gets,      \* the GETs of the tab: not sent, sent, answered
  form,      \* the Add channel form: the ids it captured, and whether the
             \* object it captured is still the working copy
  behind,    \* history: the store was written since it was as in snapshot
  touched,   \* history: the ids the user has edited since then, unless raced
  open,      \* history: some edit is neither discarded nor stored
  raced,     \* history: an edit was made, or given up, around a request
  edits,
  writes

tab == <<working, snapshot, dirty, save, gets, form>>
story == <<behind, touched, open, raced>>
bounds == <<edits, writes>>
panelVars == <<vars, tab, story, bounds>>

NoSave == [pc |-> "idle"]
Closed == [pc |-> "closed"]
Idle == [pc |-> "idle"]

Answer(cfg) == [pc |-> "answered", config |-> cfg, old |-> FALSE]
GetsInFlight == {g \in Get : gets[g] # Idle}
InFlight == save # NoSave \/ GetsInFlight # {}

-----------------------------------------------------------------------------
(* Edits: each handler changes the working copy in place and marks it      *)

\* What a renderAll after replacing the working copy leaves of the form.
Detached == IF form = Closed THEN Closed ELSE [form EXCEPT !.live = FALSE]

\* markEdited, after the handler has made `cfg` of the working copy.
Edited(cfg, ids) ==
  /\ working # NoConfig
  /\ edits < MaxEdits
  /\ working' = cfg
  /\ dirty' = TRUE
  /\ open' = TRUE
  /\ raced' = (raced \/ InFlight)
  /\ touched' = IF raced' THEN {} ELSE touched \cup ids
  /\ edits' = edits + 1
  /\ UNCHANGED <<vars, snapshot, save, gets, behind, writes>>

\* pruneDefaultChannelsToEnabled.
Pruned(cfg) ==
  [cfg EXCEPT !.profile = [p \in ProfileId |->
     IF cfg.profile[p] = NoProfile THEN NoProfile
     ELSE [cfg.profile[p] EXCEPT !.defaults = cfg.profile[p].defaults \cap EnabledIn(cfg)]]]

PrunedIds(cfg) == {p \in ProfileId : Pruned(cfg).profile[p] # cfg.profile[p]}

\* The switch of a card; an instance that is enabled may lack a key.
ToggleChannel(c) ==
  /\ working # NoConfig /\ working.channel[c] # "absent"
  /\ \E setting \in IF working.channel[c] = "disabled" THEN {"enabled", "incomplete"}
                                                       ELSE {"disabled"} :
       LET cfg == WithChannel(working, c, setting)
       IN  Edited(Pruned(cfg), {c} \cup PrunedIds(cfg))
  /\ UNCHANGED form

\* The label or a field of a card.
EditCard(c) ==
  /\ working # NoConfig /\ working.channel[c] # "absent"
  /\ \E setting \in IF working.channel[c] = "disabled" THEN {"disabled"}
                                                       ELSE {"enabled", "incomplete"} :
       Edited(WithChannel(working, c, setting), {c})
  /\ UNCHANGED form

DeleteCard(c) ==
  /\ working # NoConfig /\ working.channel[c] # "absent"
  /\ LET cfg == WithChannel(working, c, "absent")
     IN  Edited(Pruned(cfg), {c} \cup PrunedIds(cfg))
  /\ UNCHANGED form

\* A chip of a profile: every instance has one, enabled or not.
ToggleChip(p, c) ==
  /\ working # NoConfig
  /\ working.profile[p] # NoProfile /\ working.channel[c] # "absent"
  /\ LET row == working.profile[p]
         defaults == IF c \in row.defaults THEN row.defaults \ {c} ELSE row.defaults \cup {c}
     IN  Edited(WithProfile(working, p, [row EXCEPT !.defaults = defaults]), {p})
  /\ UNCHANGED form

\* The name or the token of a profile.
EditProfile(p, token) ==
  /\ working # NoConfig /\ working.profile[p] # NoProfile
  /\ Edited(WithProfile(working, p, [working.profile[p] EXCEPT !.token = token]), {p})
  /\ UNCHANGED form

RemoveProfile(p) ==
  /\ working # NoConfig /\ working.profile[p] # NoProfile
  /\ Edited(WithProfile(working, p, NoProfile), {p})
  /\ UNCHANGED form

\* generateProfileId: an id nobody has seen.
AddProfile(p) ==
  /\ working # NoConfig
  /\ \A cfg \in {Current, working, snapshot} : cfg.profile[p] = NoProfile
  /\ Edited(WithProfile(working, p, [token |-> NewToken, defaults |-> {}]), {p})
  /\ UNCHANGED form

\* The button shows the form and captures the configuration, or hides it.
ToggleForm ==
  /\ working # NoConfig
  /\ form' = IF form = Closed
             THEN [pc |-> "open", live |-> TRUE, ids |-> Instances(working)]
             ELSE Closed
  /\ UNCHANGED <<vars, working, snapshot, dirty, save, gets, story, bounds>>

\* Add pushes a disabled instance to the object captured, and clears the form.
AddChannel(c) ==
  /\ form # Closed /\ c \notin form.ids /\ form.live
  /\ Edited(WithChannel(working, c, "disabled"), {c})
  /\ form' = Closed

\* That object was replaced meanwhile: the instance is nowhere, yet all is dirty.
AddChannelNowhere(c) ==
  /\ form # Closed /\ c \notin form.ids /\ ~ form.live
  /\ edits < MaxEdits /\ edits' = edits + 1
  /\ dirty' = TRUE
  /\ open' = TRUE /\ raced' = TRUE /\ touched' = {}
  /\ form' = Closed
  /\ UNCHANGED <<vars, working, snapshot, save, gets, behind, writes>>

\* renderCombobox fills in a blank voice and marks nothing.
DefaultVoice(c) ==
  /\ c \in VoiceChannel /\ working # NoConfig /\ working.channel[c] = "incomplete"
  /\ working' = WithChannel(working, c, "enabled")
  /\ UNCHANGED <<vars, snapshot, dirty, save, gets, form, story, bounds>>

-----------------------------------------------------------------------------
(* Requests of the tab *)

\* loadConfig sends its GET; with no slot left the step waits.
SendGet(slots) == \E g \in Get : gets[g] = Idle /\ slots = [gets EXCEPT ![g] = [pc |-> "sent"]]

\* The refresh button, and the first load.
Refresh ==
  /\ SendGet(gets')
  /\ raced' = (raced \/ dirty)
  /\ touched' = IF raced' THEN {} ELSE touched
  /\ UNCHANGED <<vars, working, snapshot, dirty, save, form, behind, open, bounds>>

\* Mutant: only the channels are restored.
DiscardChannels ==
  /\ dirty /\ save = NoSave
  /\ working' = [snapshot EXCEPT !.profile = working.profile]
  /\ dirty' = FALSE
  /\ form' = Detached
  /\ open' = FALSE
  /\ touched' = {}
  /\ UNCHANGED <<vars, snapshot, save, gets, behind, raced, bounds>>

\* Mutant: the button also works while the PUT is awaited.
DiscardAnytime ==
  /\ dirty
  /\ working' = snapshot
  /\ dirty' = FALSE
  /\ form' = Detached
  /\ open' = FALSE
  /\ touched' = {}
  /\ UNCHANGED <<vars, snapshot, save, gets, behind, raced, bounds>>

\* The button works while dirty and no PUT is awaited.
Discard ==
  /\ dirty /\ save = NoSave
  /\ working' = snapshot
  /\ dirty' = FALSE
  /\ form' = Detached
  /\ open' = FALSE
  /\ touched' = {}
  /\ UNCHANGED <<vars, snapshot, save, gets, behind, raced, bounds>>

\* Mutant: the payload leaves the default channels out.
PayloadWithoutDefaults(cfg) ==
  [cfg EXCEPT !.profile = [p \in ProfileId |->
     IF @[p] = NoProfile THEN NoProfile ELSE [@[p] EXCEPT !.defaults = {}]]]

\* assembleConfigPayload: a copy; keys no type asks for are not in a Setting.
Payload(cfg) == [channel |-> cfg.channel, profile |-> cfg.profile]

\* runSave, up to its PUT.
StartSave ==
  /\ dirty /\ save = NoSave /\ working # NoConfig
  /\ save' = [pc |-> "sent", want |-> Payload(working), old |-> behind]
  /\ UNCHANGED <<vars, working, snapshot, dirty, gets, form, story, bounds>>

\* 200: markSaved, then refreshAll.
SaveSucceeds ==
  /\ save.pc = "applied"
  /\ snapshot' = working
  /\ dirty' = FALSE
  /\ save' = NoSave
  /\ SendGet(gets')
  /\ behind' = save.old
  /\ touched' = {}
  /\ open' = (raced /\ open)
  /\ UNCHANGED <<vars, working, form, raced, bounds>>

\* Mutant: the answer is not looked at.
SaveFailsUnseen ==
  /\ save.pc \in {"sent", "refused", "applied"}
  /\ snapshot' = working /\ dirty' = FALSE
  /\ save' = NoSave
  /\ UNCHANGED <<vars, working, gets, form, story, bounds>>

\* Any other answer, or none: a toast.  The admin process may have applied it.
SaveFails ==
  /\ save.pc \in {"sent", "refused", "applied"}
  /\ save' = NoSave
  /\ UNCHANGED <<vars, working, snapshot, dirty, gets, form, story, bounds>>

\* The answer of a GET: setConfigFromServer and renderAll.
Adopt(g) ==
  /\ gets[g].pc = "answered"
  /\ working' = gets[g].config /\ snapshot' = gets[g].config
  /\ dirty' = FALSE
  /\ form' = Detached
  /\ gets' = [gets EXCEPT ![g] = Idle]
  /\ behind' = gets[g].old
  /\ touched' = {}
  /\ open' = (open /\ ~ raced)
  /\ raced' = (raced /\ (save # NoSave \/ GetsInFlight # {g}))
  /\ UNCHANGED <<vars, save, bounds>>

\* No answer, or an error: a toast.
GetFails(g) ==
  /\ gets[g] # Idle
  /\ gets' = [gets EXCEPT ![g] = Idle]
  /\ UNCHANGED <<vars, working, snapshot, dirty, save, form, story, bounds>>

-----------------------------------------------------------------------------
(* The admin process *)

\* A row was written: whatever shows the store as it was is old now.
Outdated ==
  /\ behind' = TRUE
  /\ gets' = [g \in Get |-> IF gets[g].pc = "answered" THEN [gets[g] EXCEPT !.old = TRUE]
                                                       ELSE gets[g]]

AnswerGet(g) ==
  /\ put = NoPut
  /\ gets[g].pc = "sent"
  /\ gets' = [gets EXCEPT ![g] = Answer(Current)]
  /\ UNCHANGED <<vars, working, snapshot, dirty, save, form, story, bounds>>

TakeSave ==
  /\ save.pc = "sent"
  /\ \/ BeginPut(save.want) /\ save' = [save EXCEPT !.pc = "applying"]
     \/ RejectPut(save.want) /\ save' = [save EXCEPT !.pc = "refused"]
  /\ UNCHANGED <<working, snapshot, dirty, gets, form, story, bounds>>

ApplySaveRow ==
  /\ save.pc = "applying"
  /\ WriteChannel \/ WriteProfile \/ DropProfile \/ DropChannel
  /\ Outdated
  /\ UNCHANGED <<working, snapshot, dirty, save, form, touched, open, raced, bounds>>

\* The store is what the payload asked for.
EndSave ==
  /\ save.pc = "applying"
  /\ FinishPut
  /\ save' = [save EXCEPT !.pc = "applied", !.old = FALSE]
  /\ UNCHANGED <<working, snapshot, dirty, gets, form, story, bounds>>

\* A 500 halfway (what WriteProfileClashes does is an AbortPut), or a dead process.
BreakSave ==
  /\ save.pc = "applying"
  /\ AbortPut
  /\ save' = [save EXCEPT !.pc = "refused"]
  /\ UNCHANGED <<working, snapshot, dirty, gets, form, story, bounds>>

\* An MCP client, or another tab, through the same process.
OthersWrite ==
  /\ writes < MaxWrites /\ writes' = writes + 1
  /\ EntityOperation
  /\ Outdated
  /\ save' = IF save = NoSave THEN save ELSE [save EXCEPT !.old = TRUE]
  /\ UNCHANGED <<working, snapshot, dirty, form, touched, open, raced, edits>>

-----------------------------------------------------------------------------
PanelInit ==
  /\ put = NoPut /\ torn = FALSE
  /\ channel \in [Channel -> Setting]
  /\ profile \in [ProfileId -> {NoProfile} \cup Row]
  /\ Valid(Current)
  /\ working = NoConfig /\ snapshot = NoConfig /\ dirty = FALSE
  /\ save = NoSave /\ gets = [g \in Get |-> Idle] /\ form = Closed
  /\ behind = FALSE /\ touched = {} /\ open = FALSE /\ raced = FALSE
  /\ edits = 0 /\ writes = 0

EditStep ==
  \/ \E c \in Channel : ToggleChannel(c) \/ EditCard(c) \/ DeleteCard(c) \/ DefaultVoice(c)
  \/ \E c \in Channel : AddChannel(c) \/ AddChannelNowhere(c)
  \/ \E p \in ProfileId, c \in Channel : ToggleChip(p, c)
  \/ \E p \in ProfileId, token \in Token : EditProfile(p, token)
  \/ \E p \in ProfileId : RemoveProfile(p) \/ AddProfile(p)
  \/ ToggleForm

RequestStep ==
  \/ Refresh \/ Discard
  \/ StartSave \/ SaveSucceeds \/ SaveFails
  \/ \E g \in Get : Adopt(g) \/ GetFails(g)

ServerStep ==
  \/ \E g \in Get : AnswerGet(g)
  \/ TakeSave \/ ApplySaveRow \/ EndSave \/ BreakSave
  \/ OthersWrite

PanelNext == EditStep \/ RequestStep \/ ServerStep

PanelSpec == PanelInit /\ [][PanelNext]_panelVars

-----------------------------------------------------------------------------
(* Properties *)

SaveType == [pc : {"sent", "applying", "applied", "refused"}, want : Config, old : BOOLEAN]
GetType == {Idle} \cup [pc : {"sent"}] \cup [pc : {"answered"}, config : Config, old : BOOLEAN]

\* No default of cfg is without its instance.
Whole(cfg) == \A p \in ProfilesOf(cfg) : cfg.profile[p].defaults \subseteq Instances(cfg)

SameOutside(ids, cfg, other) ==
  /\ \A c \in Channel \ ids : cfg.channel[c] = other.channel[c]
  /\ \A p \in ProfileId \ ids : cfg.profile[p] = other.profile[p]

PanelTypeOK ==
  /\ TypeOK
  /\ working \in {NoConfig} \cup Config /\ snapshot \in {NoConfig} \cup Config
  /\ dirty \in BOOLEAN
  /\ save \in {NoSave} \cup SaveType
  /\ gets \in [Get -> GetType]
  /\ form \in {Closed} \cup [pc : {"open"}, live : BOOLEAN, ids : SUBSET Channel]
  /\ behind \in BOOLEAN /\ touched \subseteq Channel \cup ProfileId
  /\ open \in BOOLEAN /\ raced \in BOOLEAN
  /\ edits \in 0..MaxEdits /\ writes \in 0..MaxWrites

(***************************************************************************)
(* "Track unsaved changes" (admin-state.js): an edit that is neither       *)
(* stored nor discarded keeps the save bar up, through failed saves, lost  *)
(* answers, refreshes and saves of others.  The exceptions are those of    *)
(* `raced`: an edit while a request is in flight, a refresh of a dirty     *)
(* tab, and an Add form whose configuration was replaced under it.         *)
(***************************************************************************)
NoEditLost == open => dirty \/ raced

(***************************************************************************)
(* With the save bar down the panel shows what is live (admin-state.js,    *)
(* "the in-memory state now matches the server exactly"), until someone    *)
(* writes behind its back: a save answered with an error or not at all     *)
(* counts as such a write from its first row on.                           *)
(***************************************************************************)
CleanIsLive ==
  ~ dirty /\ ~ behind /\ ~ raced /\ working # NoConfig /\ put = NoPut => working = Current

(***************************************************************************)
(* A PUT carries everything, edited or not.  It still changes only what    *)
(* the user has edited, or pruned with it, if nobody has written since the *)
(* tab loaded (admin-save-flow.js, config-routes.ts): a stale tab is the   *)
(* one way in which a save reverts something.                              *)
(***************************************************************************)
SavesOnlyEdits ==
  save.pc = "sent" /\ ~ save.old /\ ~ raced => SameOutside(touched, save.want, Current)

(***************************************************************************)
(* A default names an instance of the same payload, also when answers of   *)
(* earlier requests replace the copy between two edits (admin-defaults.js, *)
(* "when an instance is disabled OR removed it must be deselected").       *)
(***************************************************************************)
DefaultsInCopy ==
  working # NoConfig => Whole(working)

(***************************************************************************)
(* The ids an Add form has captured keep it from adding one twice, however *)
(* long it stays open (admin-add-channel.js, `existingIds`).               *)
(***************************************************************************)
FormKnowsAllIds ==
  form # Closed /\ form.live => Instances(working) \subseteq form.ids

\* A tab that has not raced: what a request in flight can say of the copy.
Overlaps ==
  /\ dirty \/ save # NoSave => working # NoConfig
  /\ working = NoConfig <=> snapshot = NoConfig
  /\ form # Closed => working # NoConfig
  /\ ~ raced => /\ dirty => GetsInFlight = {}
                /\ save # NoSave => dirty
  /\ put # NoPut <=> save # NoSave /\ save.pc = "applying"
  /\ put # NoPut => put.want = save.want

\* While nobody else writes: the snapshot and the answers are the store, and
\* the copy differs from it where the user has edited.
Freshness ==
  /\ ~ behind /\ ~ raced /\ working # NoConfig =>
       /\ snapshot = Current
       /\ ~ dirty => working = Current
       /\ SameOutside(touched, working, Current)
  /\ \A g \in Get : gets[g].pc = "answered" /\ ~ gets[g].old => gets[g].config = Current

\* Whatever may become the working copy names existing defaults only.
CopiesWhole ==
  /\ snapshot # NoConfig => Whole(snapshot)
  /\ \A g \in Get : gets[g].pc = "answered" => Whole(gets[g].config)

(***************************************************************************)
(* No write of the admin process stores an enabled instance without its    *)
(* keys.  So the blank voice that a drawn card fills in by itself is one   *)
(* the user has left, or part of a payload that is refused: a PUT which is *)
(* applied has the working copy in it, unless the tab has raced.           *)
(***************************************************************************)
StoreComplete == \A c \in Channel : channel[c] # "incomplete"

SaveStands ==
  /\ save.pc \in {"applying", "applied"} => Valid(save.want)
  /\ save # NoSave /\ ~ raced /\ Valid(save.want) => working = save.want
  /\ save.pc = "applied" /\ ~ save.old => Current = save.want

\* What the tab knows, over the admin process at work.
TabInv ==
  /\ PanelTypeOK
  /\ CopiesWhole /\ DefaultsInCopy /\ FormKnowsAllIds
  /\ Overlaps /\ NoEditLost /\ SaveStands /\ Freshness

\* The inductive invariant.
PanelInv == AdminInv /\ StoreComplete /\ TabInv

(***************************************************************************)
(* "After a successful Save & Apply, the just-saved config becomes the new *)
(* snapshot" (admin-state.js:58).  What becomes the snapshot is the        *)
(* working copy of that moment, with the edits made during the PUT.        *)
(***************************************************************************)
SnapshotIsSaved == [][SaveSucceeds => snapshot' = save.want]_panelVars
=============================================================================
