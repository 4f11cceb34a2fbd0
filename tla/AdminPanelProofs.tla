--------------------------- MODULE AdminPanelProofs ---------------------------
(***************************************************************************)
(* PanelInv is an invariant of AdminPanel, for every set of channels,      *)
(* profiles, tokens and requests in flight and for every bound.            *)
(***************************************************************************)
EXTENDS AdminPanel, AdminConfigProofs

\* The writes to a copy of the configuration: types, and what they leave alone.
LEMMA WithChannelTyped ==
  ASSUME NEW cfg \in Config, NEW c \in Channel, NEW setting \in Setting
  PROVE  /\ WithChannel(cfg, c, setting) \in Config
         /\ WithChannel(cfg, c, setting).channel[c] = setting
         /\ \A d \in Channel \ {c} : WithChannel(cfg, c, setting).channel[d] = cfg.channel[d]
         /\ WithChannel(cfg, c, setting).profile = cfg.profile
BY DEF WithChannel, Config

LEMMA WithProfileTyped ==
  ASSUME NEW cfg \in Config, NEW p \in ProfileId, NEW row \in {NoProfile} \cup Row
  PROVE  /\ WithProfile(cfg, p, row) \in Config
         /\ WithProfile(cfg, p, row).profile[p] = row
         /\ \A q \in ProfileId \ {p} : WithProfile(cfg, p, row).profile[q] = cfg.profile[q]
         /\ WithProfile(cfg, p, row).channel = cfg.channel
BY DEF WithProfile, Config

\* pruneDefaultChannelsToEnabled leaves no default without its instance.
LEMMA PrunedIsWhole ==
  ASSUME NEW cfg \in Config
  PROVE  /\ Pruned(cfg) \in Config
         /\ Pruned(cfg).channel = cfg.channel
         /\ Whole(Pruned(cfg))
<1> DEFINE cut(p) == [cfg.profile[p] EXCEPT !.defaults = cfg.profile[p].defaults \cap EnabledIn(cfg)]
           rows == [p \in ProfileId |-> IF cfg.profile[p] = NoProfile THEN NoProfile ELSE cut(p)]
<1>1. /\ cfg.channel \in [Channel -> Setting]
      /\ cfg.profile \in [ProfileId -> {NoProfile} \cup Row]
      /\ cfg = [channel |-> cfg.channel, profile |-> cfg.profile]
  BY DEF Config
<1>2. Pruned(cfg) = [channel |-> cfg.channel, profile |-> rows]
  <2>1. \A other : [cfg EXCEPT !.profile = other] = [channel |-> cfg.channel, profile |-> other]
    BY <1>1
  <2>2. Pruned(cfg) = [cfg EXCEPT !.profile = rows]
    BY DEF Pruned
  <2> QED
    BY <2>1, <2>2
<1>3. ASSUME NEW p \in ProfileId, cfg.profile[p] # NoProfile
      PROVE  cut(p) \in Row /\ cut(p).defaults \subseteq EnabledIn(cfg)
  <2>1. cfg.profile[p] \in Row
    BY <1>1, <1>3
  <2>2. PICK row \in Row : row = cfg.profile[p]
    BY <2>1
  <2>3. cut(p) = [row EXCEPT !.defaults = @ \cap EnabledIn(cfg)]
    BY <2>2
  <2>4. /\ [row EXCEPT !.defaults = @ \cap EnabledIn(cfg)] \in Row
        /\ [row EXCEPT !.defaults = @ \cap EnabledIn(cfg)].defaults \subseteq EnabledIn(cfg)
    BY DEF Row
  <2> HIDE DEF cut
  <2> QED
    BY <2>3, <2>4
<1> HIDE DEF cut
<1>4. rows \in [ProfileId -> {NoProfile} \cup Row]
  BY <1>3
<1>5. /\ Pruned(cfg) \in Config
      /\ Pruned(cfg).channel = cfg.channel
      /\ \A p \in ProfilesOf(Pruned(cfg)) : Pruned(cfg).profile[p].defaults \subseteq EnabledIn(cfg)
  BY <1>1, <1>2, <1>3, <1>4 DEF Config, ProfilesOf
<1>6. EnabledIn(cfg) \subseteq Instances(Pruned(cfg))
  BY <1>5 DEF EnabledIn, Instances
<1> QED
  BY <1>5, <1>6 DEF Whole

\* Whole is about instances and profiles only.
LEMMA WholeKept ==
  ASSUME NEW cfg, NEW next, Whole(cfg),
         Instances(cfg) \subseteq Instances(next), next.profile = cfg.profile
  PROVE  Whole(next)
BY DEF Whole, ProfilesOf

-----------------------------------------------------------------------------
\* What the handlers of the cards do to the working copy, one and all.
EditMade ==
  \E cfg \in Config, ids \in SUBSET (Channel \cup ProfileId) :
    /\ Edited(cfg, ids)
    /\ SameOutside(ids, cfg, working)
    /\ Whole(working) => Whole(cfg)
    /\ \/ form' = form /\ Instances(cfg) \subseteq Instances(working)
       \/ form' = Closed

LEMMA CardEdits ==
  ASSUME PanelTypeOK, NEW c \in Channel,
         ToggleChannel(c) \/ EditCard(c) \/ DeleteCard(c) \/ AddChannel(c)
  PROVE  EditMade
<1>0. ASSUME working # NoConfig
      PROVE  working \in Config
  BY <1>0 DEF PanelTypeOK
<1>1. ASSUME NEW setting \in Setting, working \in Config,
             working.channel[c] # "absent", form' = form,
             LET cfg == WithChannel(working, c, setting)
             IN  Edited(Pruned(cfg), {c} \cup PrunedIds(cfg))
      PROVE  EditMade
  <2>1. PICK cfg : cfg = WithChannel(working, c, setting)
    OBVIOUS
  <2>2. PICK ids : ids = {c} \cup PrunedIds(cfg)
    OBVIOUS
  <2>3. Pruned(cfg) \in Config /\ Pruned(cfg).channel = cfg.channel /\ Whole(Pruned(cfg))
    BY <1>1, <2>1, WithChannelTyped, PrunedIsWhole
  <2>4. ids \in SUBSET (Channel \cup ProfileId)
    BY <2>2 DEF PrunedIds
  <2>5. SameOutside(ids, Pruned(cfg), working)
    BY <1>1, <2>1, <2>2, <2>3, WithChannelTyped DEF SameOutside, PrunedIds
  <2>6. Instances(Pruned(cfg)) \subseteq Instances(working)
    BY <1>1, <2>1, <2>3, WithChannelTyped DEF Instances
  <2> QED
    BY <1>1, <2>1, <2>2, <2>3, <2>4, <2>5, <2>6 DEF EditMade
<1>2. ASSUME NEW setting \in Setting \ {"absent"}, working \in Config,
             \/ working.channel[c] # "absent" /\ form' = form
             \/ form' = Closed,
             Edited(WithChannel(working, c, setting), {c})
      PROVE  EditMade
  <2>1. PICK cfg : cfg = WithChannel(working, c, setting)
    OBVIOUS
  <2>2. cfg \in Config /\ {c} \in SUBSET (Channel \cup ProfileId)
    BY <1>2, <2>1, WithChannelTyped
  <2>3. SameOutside({c}, cfg, working)
    BY <1>2, <2>1, WithChannelTyped DEF SameOutside
  <2>4. Whole(working) => Whole(cfg)
    BY <1>2, <2>1, WithChannelTyped, WholeKept DEF Instances
  <2>5. working.channel[c] # "absent" => Instances(cfg) \subseteq Instances(working)
    BY <1>2, <2>1, WithChannelTyped DEF Instances
  <2> QED
    BY <1>2, <2>1, <2>2, <2>3, <2>4, <2>5 DEF EditMade
<1>3. CASE ToggleChannel(c)
  <2>1. PICK setting \in {"enabled", "incomplete", "disabled"} :
          LET cfg == WithChannel(working, c, setting)
          IN  Edited(Pruned(cfg), {c} \cup PrunedIds(cfg))
    BY <1>3 DEF ToggleChannel
  <2>2. setting \in Setting
    BY DEF Setting
  <2> QED
    BY <1>0, <1>1, <1>3, <2>1, <2>2 DEF ToggleChannel
<1>4. CASE EditCard(c)
  <2>1. PICK setting \in {"enabled", "incomplete", "disabled"} :
          Edited(WithChannel(working, c, setting), {c})
    BY <1>4 DEF EditCard
  <2>2. setting \in Setting \ {"absent"}
    BY DEF Setting
  <2> QED
    BY <1>0, <1>2, <1>4, <2>1, <2>2 DEF EditCard
<1>5. CASE DeleteCard(c)
  <2>1. "absent" \in Setting
    BY DEF Setting
  <2> QED
    BY <1>0, <1>1, <1>5, <2>1 DEF DeleteCard
<1>6. CASE AddChannel(c)
  <2>1. "disabled" \in Setting \ {"absent"}
    BY DEF Setting
  <2>2. Edited(WithChannel(working, c, "disabled"), {c}) /\ form' = Closed
    BY <1>6 DEF AddChannel
  <2>3. working \in Config
    BY <1>0, <2>2 DEF Edited
  <2> QED
    BY <1>2, <2>1, <2>2, <2>3
<1> QED
  BY <1>3, <1>4, <1>5, <1>6

LEMMA ProfileEdits ==
  ASSUME PanelTypeOK, NEW p \in ProfileId,
         \/ \E c \in Channel : ToggleChip(p, c)
         \/ \E token \in Token : EditProfile(p, token)
         \/ RemoveProfile(p) \/ AddProfile(p)
  PROVE  EditMade
<1>1. ASSUME NEW row \in {NoProfile} \cup Row, working \in Config, form' = form,
             Whole(working) => row = NoProfile \/ row.defaults \subseteq Instances(working),
             Edited(WithProfile(working, p, row), {p})
      PROVE  EditMade
  <2>1. PICK cfg : cfg = WithProfile(working, p, row)
    OBVIOUS
  <2>2. cfg \in Config /\ {p} \in SUBSET (Channel \cup ProfileId)
    BY <1>1, <2>1, WithProfileTyped
  <2>3. SameOutside({p}, cfg, working)
    BY <1>1, <2>1, WithProfileTyped DEF SameOutside
  <2>4. Instances(cfg) = Instances(working)
    BY <1>1, <2>1, WithProfileTyped DEF Instances
  <2>5. Whole(working) => Whole(cfg)
    BY <1>1, <2>1, <2>4, WithProfileTyped DEF Whole, ProfilesOf
  <2> QED
    BY <1>1, <2>1, <2>2, <2>3, <2>4, <2>5 DEF EditMade
<1>2. ASSUME working # NoConfig
      PROVE  working \in Config /\ working.profile[p] \in {NoProfile} \cup Row
  BY <1>2 DEF PanelTypeOK, Config
<1>3. ASSUME NEW c \in Channel, ToggleChip(p, c)
      PROVE  EditMade
  <2>1. PICK row : row = working.profile[p]
    OBVIOUS
  <2>2. row \in Row /\ c \in Instances(working)
    BY <1>2, <1>3, <2>1 DEF ToggleChip, Instances
  <2>3. PICK defaults : defaults = IF c \in row.defaults THEN row.defaults \ {c} ELSE row.defaults \cup {c}
    OBVIOUS
  <2>4. [row EXCEPT !.defaults = defaults] \in Row /\ [row EXCEPT !.defaults = defaults].defaults = defaults
    BY <2>2, <2>3 DEF Row
  <2>5. Whole(working) => defaults \subseteq Instances(working)
    BY <1>3, <2>1, <2>2, <2>3 DEF Whole, ProfilesOf, ToggleChip
  <2> QED
    BY <1>1, <1>2, <1>3, <2>1, <2>3, <2>4, <2>5 DEF ToggleChip
<1>4. ASSUME NEW token \in Token, EditProfile(p, token)
      PROVE  EditMade
  <2>1. PICK row : row = [working.profile[p] EXCEPT !.token = token]
    OBVIOUS
  <2>2. row \in Row /\ row.defaults = working.profile[p].defaults
    BY <1>2, <1>4, <2>1 DEF EditProfile, Row
  <2>3. Whole(working) => row.defaults \subseteq Instances(working)
    BY <1>4, <2>2 DEF EditProfile, Whole, ProfilesOf
  <2> QED
    BY <1>1, <1>2, <1>4, <2>1, <2>2, <2>3 DEF EditProfile
<1>5. CASE RemoveProfile(p)
  BY <1>1, <1>2, <1>5 DEF RemoveProfile
<1>6. CASE AddProfile(p)
  <2>1. [token |-> NewToken, defaults |-> {}] \in Row
    BY PanelAssumption DEF Row
  <2> QED
    BY <1>1, <1>2, <1>6, <2>1 DEF AddProfile
<1> QED
  BY <1>3, <1>4, <1>5, <1>6

LEMMA EditSteps ==
  ASSUME PanelTypeOK, EditStep
  PROVE  \/ EditMade \/ ToggleForm
         \/ \E c \in Channel : AddChannelNowhere(c) \/ DefaultVoice(c)
BY CardEdits, ProfileEdits DEF EditStep

-----------------------------------------------------------------------------
\* Whatever the tab does, the admin process takes steps of AdminConfig.
LEMMA AdminSteps ==
  ASSUME PanelTypeOK, PanelNext
  PROVE  [Next]_vars
<1>1. ASSUME EditStep
      PROVE  UNCHANGED vars
  BY <1>1, EditSteps DEF EditMade, Edited, ToggleForm, AddChannelNowhere, DefaultVoice
<1>2. ASSUME RequestStep
      PROVE  UNCHANGED vars
  BY <1>2 DEF RequestStep, Refresh, Discard, StartSave, SaveSucceeds, SaveFails, Adopt, GetFails
<1>3. ASSUME ServerStep
      PROVE  [Next]_vars
  <2>1. ASSUME NEW g \in Get, AnswerGet(g)
        PROVE  UNCHANGED vars
    BY <2>1 DEF AnswerGet
  <2>2. CASE TakeSave
    <3>1. save.want \in Wanted
      BY <2>2, PanelAssumption DEF TakeSave, PanelTypeOK, SaveType, NoSave
    <3> QED
      BY <2>2, <3>1 DEF TakeSave, Next
  <2>3. CASE ApplySaveRow \/ EndSave \/ BreakSave \/ OthersWrite
    BY <2>3 DEF ApplySaveRow, EndSave, BreakSave, OthersWrite, Next, ApplyPut
  <2> QED
    BY <1>3, <2>1, <2>2, <2>3 DEF ServerStep
<1> QED
  BY <1>1, <1>2, <1>3 DEF PanelNext

LEMMA AdminStep == AdminInv /\ [Next]_vars => AdminInv'
BY TypeStep, IntegrityStep, ProgressStep, ValidStep DEF AdminInv

\* What a PUT or an entity operation writes was validated: no key is missing.
LEMMA CompleteStep ==
  ASSUME AdminInv, StoreComplete, [Next]_vars
  PROVE  StoreComplete'
<1>0. StoreTypeOK
  BY DEF AdminInv, TypeOK
<1>1. ASSUME NEW c \in Channel, NEW setting \in Setting \ {"incomplete"}, UpsertChannel(c, setting)
      PROVE  StoreComplete'
  BY <1>0, <1>1 DEF StoreTypeOK, UpsertChannel, StoreComplete
<1>2. ASSUME NEW c \in Channel, DeleteChannel(c)
      PROVE  StoreComplete'
  BY <1>0, <1>2 DEF StoreTypeOK, DeleteChannel, StoreComplete
<1>3. ASSUME UNCHANGED channel
      PROVE  StoreComplete'
  BY <1>3 DEF StoreComplete
<1>4. CASE WriteChannel
  <2>1. PICK c \in put.channels : UpsertChannel(c, put.want.channel[c])
    BY <1>4 DEF WriteChannel
  <2>2. c \in Channel /\ put.want.channel[c] \in Setting \ {"incomplete"}
    BY <1>4, <2>1, PutTyped DEF WriteChannel, AdminInv, PutProgress, Valid
  <2> QED
    BY <1>1, <2>1, <2>2
<1>5. CASE DropChannel
  <2>1. PICK c \in put.dropChannels : DeleteChannel(c)
    BY <1>5 DEF DropChannel
  <2> QED
    BY <1>2, <1>5, <2>1, PutTyped DEF DropChannel, AdminInv
<1>6. CASE EntityOperation
  <2>1. ASSUME NEW c \in Channel, NEW setting \in Setting, UpsertChannelEntity(c, setting)
        PROVE  StoreComplete'
    <3>1. setting # "incomplete"
      BY <1>0, <2>1 DEF UpsertChannelEntity, Valid, WithChannel, Current, StoreTypeOK
    <3> QED
      BY <1>1, <2>1, <3>1 DEF UpsertChannelEntity
  <2> QED
    BY <1>2, <1>3, <1>6, <2>1
       DEF EntityOperation, DeleteChannelEntity, UpsertProfileEntity, UpsertProfile,
           DeleteProfileEntity, DeleteProfile
<1>7. CASE \/ UNCHANGED vars
           \/ \E want \in Wanted : BeginPut(want) \/ RejectPut(want)
           \/ WriteProfile \/ WriteProfileClashes \/ DropProfile \/ FinishPut \/ AbortPut
  BY <1>3, <1>7 DEF vars, store, BeginPut, RejectPut, WriteProfile, WriteProfileClashes, DropProfile,
                    FinishPut, AbortPut, UpsertProfile, DeleteProfile
<1> QED
  BY <1>4, <1>5, <1>6, <1>7 DEF Next, ApplyPut

-----------------------------------------------------------------------------
\* The records of the requests: which is which, and what is in them.
LEMMA SaveTyped ==
  ASSUME PanelTypeOK
  PROVE  /\ save # NoSave => save \in SaveType /\ save.want \in Config /\ save.old \in BOOLEAN
         /\ save # NoSave <=> save.pc \in {"sent", "applying", "applied", "refused"}
BY DEF PanelTypeOK, SaveType, NoSave

LEMMA GetsTyped ==
  ASSUME PanelTypeOK, NEW g \in Get, gets[g].pc = "answered"
  PROVE  /\ gets[g] \in [pc : {"answered"}, config : Config, old : BOOLEAN]
         /\ gets[g].config \in Config /\ gets[g].old \in BOOLEAN
         /\ gets[g] # Idle /\ g \in GetsInFlight
<1>1. gets[g] \in GetType
  BY DEF PanelTypeOK
<1>2. gets[g] \in [pc : {"answered"}, config : Config, old : BOOLEAN]
  BY <1>1 DEF GetType, Idle
<1> QED
  BY <1>2 DEF Idle, GetsInFlight

\* Steps that leave the store and a PUT in the admin process alone.
LEMMA TypeKept ==
  ASSUME TypeOK, UNCHANGED vars
  PROVE  TypeOK' /\ Current' = Current
BY DEF vars, TypeOK, StoreTypeOK, Current

-----------------------------------------------------------------------------
(* The edits *)

LEMMA EditsKeep ==
  ASSUME TabInv, EditMade
  PROVE  TabInv'
<1> PICK cfg \in Config, ids \in SUBSET (Channel \cup ProfileId) :
      /\ Edited(cfg, ids)
      /\ SameOutside(ids, cfg, working)
      /\ Whole(working) => Whole(cfg)
      /\ \/ form' = form /\ Instances(cfg) \subseteq Instances(working)
         \/ form' = Closed
  BY DEF EditMade
<1>1. /\ working # NoConfig /\ cfg # NoConfig
      /\ working' = cfg /\ dirty' = TRUE /\ open' = TRUE
      /\ raced' = (raced \/ InFlight)
      /\ touched' = IF raced' THEN {} ELSE touched \cup ids
      /\ edits < MaxEdits /\ edits' = edits + 1
      /\ UNCHANGED vars /\ snapshot' = snapshot /\ save' = save /\ gets' = gets
      /\ behind' = behind /\ writes' = writes
  BY PanelAssumption DEF Edited
<1>2. TypeOK' /\ Current' = Current
  BY <1>1, TypeKept DEF TabInv, PanelTypeOK
<1>3. PanelTypeOK'
  <2>1. edits' \in 0..MaxEdits
    BY <1>1, PanelAssumption DEF TabInv, PanelTypeOK
  <2>2. raced' \in BOOLEAN
    BY <1>1 DEF TabInv, PanelTypeOK, InFlight
  <2>3. touched' \subseteq Channel \cup ProfileId
    BY <1>1 DEF TabInv, PanelTypeOK
  <2> QED
    BY <1>1, <1>2, <2>1, <2>2, <2>3 DEF TabInv, PanelTypeOK
<1>4. CopiesWhole'
  BY <1>1 DEF TabInv, CopiesWhole
<1>5. DefaultsInCopy' /\ FormKnowsAllIds'
  BY <1>1 DEF TabInv, DefaultsInCopy, FormKnowsAllIds, Closed
<1>6. Overlaps' /\ NoEditLost'
  <2>1. put' = put /\ (form' = form \/ form' = Closed)
    BY <1>1 DEF vars
  <2> QED
    BY <1>1, <2>1 DEF TabInv, Overlaps, NoEditLost, InFlight, GetsInFlight, Closed
<1>7. SaveStands' /\ Freshness'
  <2>1. SaveStands'
    BY <1>1, <1>2 DEF TabInv, SaveStands, InFlight
  <2>2. ASSUME ~ raced', SameOutside(touched, working, Current)
        PROVE  SameOutside(touched', cfg, Current)
    BY <1>1, <2>2 DEF SameOutside
  <2> QED
    BY <1>1, <1>2, <2>1, <2>2 DEF TabInv, Freshness
<1> QED
  BY <1>3, <1>4, <1>5, <1>6, <1>7 DEF TabInv

LEMMA NowhereKeeps ==
  ASSUME TabInv, NEW c \in Channel, AddChannelNowhere(c)
  PROVE  TabInv'
<1>1. /\ edits < MaxEdits /\ edits' = edits + 1 /\ form # Closed
      /\ dirty' = TRUE /\ open' = TRUE /\ raced' = TRUE /\ touched' = {} /\ form' = Closed
      /\ UNCHANGED <<vars, working, snapshot, save, gets, behind, writes>>
  BY DEF AddChannelNowhere
<1>2. TypeOK' /\ Current' = Current
  BY <1>1, TypeKept DEF TabInv, PanelTypeOK
<1>3. PanelTypeOK'
  <2>1. edits' \in 0..MaxEdits
    BY <1>1, PanelAssumption DEF TabInv, PanelTypeOK
  <2> QED
    BY <1>1, <1>2, <2>1 DEF TabInv, PanelTypeOK
<1>4. CopiesWhole' /\ DefaultsInCopy' /\ FormKnowsAllIds'
  BY <1>1 DEF TabInv, CopiesWhole, DefaultsInCopy, FormKnowsAllIds
<1>5. Overlaps' /\ NoEditLost'
  BY <1>1 DEF TabInv, Overlaps, NoEditLost, vars
<1>6. SaveStands' /\ Freshness'
  BY <1>1, <1>2 DEF TabInv, SaveStands, Freshness
<1> QED
  BY <1>3, <1>4, <1>5, <1>6 DEF TabInv

\* The voice a card fills in was blanked by the user, who has not saved it yet:
\* the store has no blank one, and a PUT in flight that has it is refused.
LEMMA DefaultVoiceKeeps ==
  ASSUME TabInv, StoreComplete, NEW c \in Channel, DefaultVoice(c)
  PROVE  TabInv'
<1>1. /\ working # NoConfig /\ working.channel[c] = "incomplete"
      /\ working' = WithChannel(working, c, "enabled")
      /\ UNCHANGED <<vars, snapshot, dirty, save, gets, form, story, bounds>>
  BY DEF DefaultVoice
<1>2. TypeOK' /\ Current' = Current
  BY <1>1, TypeKept DEF TabInv, PanelTypeOK
<1>3. /\ working \in Config /\ working' \in Config /\ working' # NoConfig
      /\ working'.profile = working.profile
      /\ \A d \in Channel \ {c} : working'.channel[d] = working.channel[d]
      /\ Instances(working') = Instances(working)
  <2>1. working \in Config /\ "enabled" \in Setting
    BY <1>1 DEF TabInv, PanelTypeOK, Setting
  <2> QED
    BY <1>1, <2>1, WithChannelTyped, PanelAssumption DEF Instances
<1>4. PanelTypeOK'
  BY <1>1, <1>2, <1>3 DEF TabInv, PanelTypeOK, story, bounds
<1>5. CopiesWhole' /\ DefaultsInCopy' /\ FormKnowsAllIds'
  <2>1. Whole(working) => Whole(working')
    BY <1>3, WholeKept
  <2> QED
    BY <1>1, <1>3, <2>1 DEF TabInv, CopiesWhole, DefaultsInCopy, FormKnowsAllIds
<1>6. Overlaps' /\ NoEditLost'
  BY <1>1, <1>3 DEF TabInv, Overlaps, NoEditLost, GetsInFlight, vars, story
<1>7. SaveStands'
  <2>1. save # NoSave /\ ~ raced => ~ Valid(save.want)
    BY <1>1 DEF TabInv, SaveStands, Valid
  <2> QED
    BY <1>1, <1>2, <2>1 DEF TabInv, SaveStands, story
<1>8. Freshness'
  <2>1. ASSUME ~ behind, ~ raced
        PROVE  dirty /\ c \in touched
    BY <1>1, <2>1 DEF TabInv, Freshness, StoreComplete, SameOutside, Current
  <2>2. c \in touched /\ SameOutside(touched, working, Current) => SameOutside(touched, working', Current)
    BY <1>3 DEF SameOutside
  <2> QED
    BY <1>1, <1>2, <2>1, <2>2 DEF TabInv, Freshness, story
<1> QED
  BY <1>4, <1>5, <1>6, <1>7, <1>8 DEF TabInv

LEMMA ToggleFormKeeps ==
  ASSUME TabInv, ToggleForm
  PROVE  TabInv'
<1>1. /\ working # NoConfig
      /\ form' = IF form = Closed THEN [pc |-> "open", live |-> TRUE, ids |-> Instances(working)] ELSE Closed
      /\ UNCHANGED <<vars, working, snapshot, dirty, save, gets, story, bounds>>
  BY DEF ToggleForm
<1>2. TypeOK' /\ Current' = Current
  BY <1>1, TypeKept DEF TabInv, PanelTypeOK
<1>3. PanelTypeOK'
  <2>1. Instances(working) \subseteq Channel
    BY DEF Instances
  <2> QED
    BY <1>1, <1>2, <2>1 DEF TabInv, PanelTypeOK, story, bounds
<1>4. CopiesWhole' /\ DefaultsInCopy'
  BY <1>1 DEF TabInv, CopiesWhole, DefaultsInCopy
<1>5. FormKnowsAllIds'
  BY <1>1 DEF FormKnowsAllIds
<1>6. Overlaps' /\ NoEditLost'
  BY <1>1 DEF TabInv, Overlaps, NoEditLost, GetsInFlight, vars, story
<1>7. SaveStands' /\ Freshness'
  BY <1>1, <1>2 DEF TabInv, SaveStands, Freshness, story
<1> QED
  BY <1>3, <1>4, <1>5, <1>6, <1>7 DEF TabInv

LEMMA EditStepKeeps ==
  ASSUME TabInv, StoreComplete, EditStep
  PROVE  TabInv'
BY EditSteps, EditsKeep, NowhereKeeps, DefaultVoiceKeeps, ToggleFormKeeps DEF TabInv

-----------------------------------------------------------------------------
(* The requests *)

LEMMA RefreshKeeps ==
  ASSUME TabInv, Refresh
  PROVE  TabInv'
<1>1. /\ raced' = (raced \/ dirty)
      /\ touched' = IF raced' THEN {} ELSE touched
      /\ UNCHANGED <<vars, working, snapshot, dirty, save, form, behind, open, bounds>>
  BY DEF Refresh
<1>2. PICK g \in Get : gets[g] = Idle /\ gets' = [gets EXCEPT ![g] = [pc |-> "sent"]]
  BY DEF Refresh, SendGet
<1>3. TypeOK' /\ Current' = Current
  BY <1>1, TypeKept DEF TabInv, PanelTypeOK
<1>4. /\ gets' \in [Get -> GetType]
      /\ \A h \in Get : gets'[h].pc = "answered" => gets'[h] = gets[h]
  BY <1>2 DEF TabInv, PanelTypeOK, GetType
<1>5. PanelTypeOK'
  <2>1. raced' \in BOOLEAN /\ touched' \subseteq Channel \cup ProfileId
    BY <1>1 DEF TabInv, PanelTypeOK
  <2> QED
    BY <1>1, <1>3, <1>4, <2>1 DEF TabInv, PanelTypeOK, bounds
<1>6. CopiesWhole' /\ DefaultsInCopy' /\ FormKnowsAllIds'
  BY <1>1, <1>4 DEF TabInv, CopiesWhole, DefaultsInCopy, FormKnowsAllIds
<1>7. Overlaps' /\ NoEditLost'
  BY <1>1 DEF TabInv, Overlaps, NoEditLost, vars
<1>8. SaveStands' /\ Freshness'
  BY <1>1, <1>3, <1>4 DEF TabInv, SaveStands, Freshness
<1> QED
  BY <1>5, <1>6, <1>7, <1>8 DEF TabInv

\* The form loses its object when the working copy is replaced.
LEMMA DetachedForm ==
  ASSUME PanelTypeOK
  PROVE  /\ Detached \in {Closed} \cup [pc : {"open"}, live : BOOLEAN, ids : SUBSET Channel]
         /\ Detached # Closed => form # Closed /\ ~ Detached.live
BY DEF PanelTypeOK, Detached, Closed

LEMMA DiscardKeeps ==
  ASSUME TabInv, Discard
  PROVE  TabInv'
<1>1. /\ dirty /\ save = NoSave
      /\ working' = snapshot /\ dirty' = FALSE /\ form' = Detached
      /\ open' = FALSE /\ touched' = {}
      /\ UNCHANGED <<vars, snapshot, save, gets, behind, raced, bounds>>
  BY DEF Discard
<1>2. TypeOK' /\ Current' = Current
  BY <1>1, TypeKept DEF TabInv, PanelTypeOK
<1>3. PanelTypeOK'
  BY <1>1, <1>2, DetachedForm DEF TabInv, PanelTypeOK, bounds
<1>4. CopiesWhole' /\ DefaultsInCopy'
  BY <1>1 DEF TabInv, CopiesWhole, DefaultsInCopy
<1>5. FormKnowsAllIds'
  BY <1>1, DetachedForm DEF TabInv, FormKnowsAllIds, Closed
<1>6. Overlaps' /\ NoEditLost'
  BY <1>1, DetachedForm DEF TabInv, Overlaps, NoEditLost, vars, Closed
<1>7. SaveStands'
  BY <1>1, <1>2, SaveTyped DEF TabInv, SaveStands
<1>8. Freshness'
  BY <1>1, <1>2 DEF TabInv, Overlaps, Freshness, SameOutside
<1> QED
  BY <1>3, <1>4, <1>5, <1>6, <1>7, <1>8 DEF TabInv

LEMMA StartSaveKeeps ==
  ASSUME TabInv, StartSave
  PROVE  TabInv'
<1>1. /\ dirty /\ save = NoSave /\ working # NoConfig
      /\ save' = [pc |-> "sent", want |-> Payload(working), old |-> behind]
      /\ UNCHANGED <<vars, working, snapshot, dirty, gets, form, story, bounds>>
  BY DEF StartSave
<1>2. TypeOK' /\ Current' = Current
  BY <1>1, TypeKept DEF TabInv, PanelTypeOK
<1>3. working \in Config /\ Payload(working) = working
  BY <1>1 DEF TabInv, PanelTypeOK, Payload, Config
<1>4. /\ save' \in SaveType /\ save' # NoSave
      /\ save'.pc = "sent" /\ save'.want = working
  BY <1>1, <1>3 DEF TabInv, PanelTypeOK, SaveType, NoSave
<1>5. PanelTypeOK'
  BY <1>1, <1>2, <1>4 DEF TabInv, PanelTypeOK, story, bounds
<1>6. CopiesWhole' /\ DefaultsInCopy' /\ FormKnowsAllIds'
  BY <1>1 DEF TabInv, CopiesWhole, DefaultsInCopy, FormKnowsAllIds
<1>7. Overlaps' /\ NoEditLost'
  BY <1>1, <1>4 DEF TabInv, Overlaps, NoEditLost, GetsInFlight, vars, story
<1>8. SaveStands' /\ Freshness'
  BY <1>1, <1>2, <1>4 DEF TabInv, SaveStands, Freshness, story
<1> QED
  BY <1>5, <1>6, <1>7, <1>8 DEF TabInv

LEMMA SaveSucceedsKeeps ==
  ASSUME TabInv, SaveSucceeds
  PROVE  TabInv'
<1>1. /\ save.pc = "applied"
      /\ snapshot' = working /\ dirty' = FALSE /\ save' = NoSave
      /\ behind' = save.old /\ touched' = {}
      /\ open' = (raced /\ open)
      /\ UNCHANGED <<vars, working, form, raced, bounds>>
  BY DEF SaveSucceeds
<1>2. PICK g \in Get : gets[g] = Idle /\ gets' = [gets EXCEPT ![g] = [pc |-> "sent"]]
  BY DEF SaveSucceeds, SendGet
<1>3. TypeOK' /\ Current' = Current
  BY <1>1, TypeKept DEF TabInv, PanelTypeOK
<1>4. /\ gets' \in [Get -> GetType]
      /\ \A h \in Get : gets'[h].pc = "answered" => gets'[h] = gets[h]
  BY <1>2 DEF TabInv, PanelTypeOK, GetType
<1>5. save # NoSave /\ save.old \in BOOLEAN /\ save.want \in Config /\ working # NoConfig
  BY <1>1, SaveTyped DEF TabInv, Overlaps
<1>6. PanelTypeOK'
  <2>1. open' \in BOOLEAN
    BY <1>1 DEF TabInv, PanelTypeOK
  <2> QED
    BY <1>1, <1>3, <1>4, <1>5, <2>1 DEF TabInv, PanelTypeOK, bounds
<1>7. CopiesWhole' /\ DefaultsInCopy' /\ FormKnowsAllIds'
  BY <1>1, <1>4 DEF TabInv, CopiesWhole, DefaultsInCopy, FormKnowsAllIds
<1>8. Overlaps' /\ NoEditLost'
  BY <1>1, <1>5 DEF TabInv, Overlaps, NoEditLost, vars
<1>9. SaveStands'
  BY <1>1 DEF SaveStands, NoSave
<1>10. Freshness'
  <2>1. ASSUME ~ raced, ~ save.old
        PROVE  working = Current
    BY <1>1, <1>5, <2>1 DEF TabInv, SaveStands
  <2>2. working = Current => SameOutside({}, working, Current)
    BY DEF SameOutside
  <2> QED
    BY <1>1, <1>3, <1>4, <2>1, <2>2 DEF TabInv, Freshness
<1> QED
  BY <1>6, <1>7, <1>8, <1>9, <1>10 DEF TabInv

LEMMA SaveFailsKeeps ==
  ASSUME TabInv, SaveFails
  PROVE  TabInv'
<1>1. /\ save.pc \in {"sent", "refused", "applied"} /\ save' = NoSave
      /\ UNCHANGED <<vars, working, snapshot, dirty, gets, form, story, bounds>>
  BY DEF SaveFails
<1>2. TypeOK' /\ Current' = Current
  BY <1>1, TypeKept DEF TabInv, PanelTypeOK
<1>3. PanelTypeOK'
  BY <1>1, <1>2 DEF TabInv, PanelTypeOK, story, bounds
<1>4. CopiesWhole' /\ DefaultsInCopy' /\ FormKnowsAllIds'
  BY <1>1 DEF TabInv, CopiesWhole, DefaultsInCopy, FormKnowsAllIds
<1>5. Overlaps' /\ NoEditLost'
  BY <1>1 DEF TabInv, Overlaps, NoEditLost, GetsInFlight, vars, story
<1>6. SaveStands' /\ Freshness'
  BY <1>1, <1>2 DEF TabInv, SaveStands, Freshness, NoSave, story
<1> QED
  BY <1>3, <1>4, <1>5, <1>6 DEF TabInv

LEMMA AdoptKeeps ==
  ASSUME TabInv, NEW g \in Get, Adopt(g)
  PROVE  TabInv'
<1>1. /\ gets[g].pc = "answered"
      /\ working' = gets[g].config /\ snapshot' = gets[g].config
      /\ dirty' = FALSE /\ form' = Detached
      /\ gets' = [gets EXCEPT ![g] = Idle]
      /\ behind' = gets[g].old /\ touched' = {}
      /\ open' = (open /\ ~ raced)
      /\ raced' = (raced /\ (save # NoSave \/ GetsInFlight # {g}))
      /\ UNCHANGED <<vars, save, bounds>>
  BY DEF Adopt
<1>2. TypeOK' /\ Current' = Current
  BY <1>1, TypeKept DEF TabInv, PanelTypeOK
<1>3. /\ gets[g].config \in Config /\ gets[g].config # NoConfig
      /\ gets[g].old \in BOOLEAN /\ g \in GetsInFlight
  BY <1>1, GetsTyped, PanelAssumption DEF TabInv
<1>4. /\ gets' \in [Get -> GetType]
      /\ \A h \in Get : gets'[h].pc = "answered" => gets'[h] = gets[h]
  BY <1>1 DEF TabInv, PanelTypeOK, GetType, Idle
\* A tab that has not raced was clean and had no PUT in flight.
<1>5. ~ raced => ~ dirty /\ save = NoSave
  BY <1>3 DEF TabInv, Overlaps
<1>6. PanelTypeOK'
  <2>1. open' \in BOOLEAN /\ raced' \in BOOLEAN
    BY <1>1 DEF TabInv, PanelTypeOK
  <2> QED
    BY <1>1, <1>2, <1>3, <1>4, <2>1, DetachedForm DEF TabInv, PanelTypeOK, bounds
<1>7. CopiesWhole' /\ DefaultsInCopy'
  BY <1>1, <1>4 DEF TabInv, CopiesWhole, DefaultsInCopy
<1>8. FormKnowsAllIds'
  BY <1>1, DetachedForm DEF TabInv, FormKnowsAllIds, Closed
<1>9. Overlaps' /\ NoEditLost'
  BY <1>1, <1>3, <1>5 DEF TabInv, Overlaps, NoEditLost, vars
<1>10. SaveStands'
  BY <1>1, <1>2, <1>5 DEF TabInv, SaveStands
<1>11. Freshness'
  BY <1>1, <1>2, <1>4 DEF TabInv, Freshness, SameOutside
<1> QED
  BY <1>6, <1>7, <1>8, <1>9, <1>10, <1>11 DEF TabInv

LEMMA GetFailsKeeps ==
  ASSUME TabInv, NEW g \in Get, GetFails(g)
  PROVE  TabInv'
<1>1. /\ gets' = [gets EXCEPT ![g] = Idle]
      /\ UNCHANGED <<vars, working, snapshot, dirty, save, form, story, bounds>>
  BY DEF GetFails
<1>2. TypeOK' /\ Current' = Current
  BY <1>1, TypeKept DEF TabInv, PanelTypeOK
<1>3. /\ gets' \in [Get -> GetType]
      /\ \A h \in Get : gets'[h].pc = "answered" => gets'[h] = gets[h]
      /\ \A h \in Get : gets[h] = Idle => gets'[h] = Idle
  BY <1>1 DEF TabInv, PanelTypeOK, GetType, Idle
<1>4. PanelTypeOK'
  BY <1>1, <1>2, <1>3 DEF TabInv, PanelTypeOK, story, bounds
<1>5. CopiesWhole' /\ DefaultsInCopy' /\ FormKnowsAllIds'
  BY <1>1, <1>3 DEF TabInv, CopiesWhole, DefaultsInCopy, FormKnowsAllIds
<1>6. Overlaps' /\ NoEditLost'
  BY <1>1, <1>3 DEF TabInv, Overlaps, NoEditLost, GetsInFlight, vars, story
<1>7. SaveStands' /\ Freshness'
  BY <1>1, <1>2, <1>3 DEF TabInv, SaveStands, Freshness, story
<1> QED
  BY <1>4, <1>5, <1>6, <1>7 DEF TabInv

LEMMA RequestStepKeeps ==
  ASSUME TabInv, RequestStep
  PROVE  TabInv'
BY RefreshKeeps, DiscardKeeps, StartSaveKeeps, SaveSucceedsKeeps, SaveFailsKeeps, AdoptKeeps, GetFailsKeeps
   DEF RequestStep

-----------------------------------------------------------------------------
(* The admin process *)

LEMMA AnswerGetKeeps ==
  ASSUME TabInv, DefaultsExist, NEW g \in Get, AnswerGet(g)
  PROVE  TabInv'
<1>1. /\ gets[g].pc = "sent"
      /\ gets' = [gets EXCEPT ![g] = Answer(Current)]
      /\ UNCHANGED <<vars, working, snapshot, dirty, save, form, story, bounds>>
  BY DEF AnswerGet
<1>2. TypeOK' /\ Current' = Current
  BY <1>1, TypeKept DEF TabInv, PanelTypeOK
<1>3. Current \in Config /\ Whole(Current)
  BY DEF TabInv, PanelTypeOK, TypeOK, StoreTypeOK, Current, Config, Whole, ProfilesOf, DefaultsExist
<1>4. /\ gets' \in [Get -> GetType]
      /\ gets'[g].config = Current
      /\ \A h \in Get \ {g} : gets'[h] = gets[h]
      /\ gets[g] # Idle
  BY <1>1, <1>3 DEF TabInv, PanelTypeOK, GetType, Answer, Idle
<1>5. PanelTypeOK'
  BY <1>1, <1>2, <1>4 DEF TabInv, PanelTypeOK, story, bounds
<1>6. CopiesWhole' /\ DefaultsInCopy' /\ FormKnowsAllIds'
  BY <1>1, <1>3, <1>4 DEF TabInv, CopiesWhole, DefaultsInCopy, FormKnowsAllIds
<1>7. Overlaps' /\ NoEditLost'
  BY <1>1, <1>4 DEF TabInv, Overlaps, NoEditLost, GetsInFlight, vars, story
<1>8. SaveStands' /\ Freshness'
  BY <1>1, <1>2, <1>4 DEF TabInv, SaveStands, Freshness, story
<1> QED
  BY <1>5, <1>6, <1>7, <1>8 DEF TabInv

\* The PUT of the tab moves on, the store and what the tab shows do not.
LEMMA SaveMoves ==
  ASSUME TabInv, TypeOK', StoreTypeOK, UNCHANGED store,
         UNCHANGED <<working, snapshot, dirty, gets, form, story, bounds>>,
         save # NoSave, save' \in SaveType, save'.want = save.want,
         put' # NoPut <=> save'.pc = "applying",
         put' # NoPut => put'.want = save.want,
         save'.pc \in {"applying", "applied"} => Valid(save.want),
         save'.pc = "applied" => Current = save.want
  PROVE  TabInv'
<1>1. save' # NoSave
  BY DEF SaveType, NoSave
<1>2. Current' = Current
  BY DEF store, Current
<1>3. PanelTypeOK'
  BY DEF TabInv, PanelTypeOK, story, bounds
<1>4. CopiesWhole' /\ DefaultsInCopy' /\ FormKnowsAllIds'
  BY DEF TabInv, CopiesWhole, DefaultsInCopy, FormKnowsAllIds
<1>5. Overlaps' /\ NoEditLost'
  BY <1>1 DEF TabInv, Overlaps, NoEditLost, GetsInFlight, story
<1>6. SaveStands' /\ Freshness'
  BY <1>1, <1>2 DEF TabInv, SaveStands, Freshness, story
<1> QED
  BY <1>3, <1>4, <1>5, <1>6 DEF TabInv

LEMMA SaveAtServerKeeps ==
  ASSUME TabInv, AdminInv, TypeOK', TakeSave \/ EndSave \/ BreakSave
  PROVE  TabInv'
<1>0. StoreTypeOK
  BY DEF AdminInv, TypeOK
<1>1. CASE TakeSave
  <2>1. /\ save.pc = "sent"
        /\ \/ BeginPut(save.want) /\ save' = [save EXCEPT !.pc = "applying"]
           \/ RejectPut(save.want) /\ save' = [save EXCEPT !.pc = "refused"]
        /\ UNCHANGED <<working, snapshot, dirty, gets, form, story, bounds>>
    BY <1>1 DEF TakeSave
  <2>2. save # NoSave /\ save \in SaveType
    BY <2>1, SaveTyped DEF TabInv
  <2>3. CASE BeginPut(save.want) /\ save' = [save EXCEPT !.pc = "applying"]
    <3>1. UNCHANGED store /\ Valid(save.want) /\ put' # NoPut /\ put'.want = save.want
      BY <2>3 DEF BeginPut, store, NoPut
    <3>2. save' \in SaveType /\ save'.pc = "applying" /\ save'.want = save.want
      BY <2>2, <2>3 DEF SaveType
    <3> QED
      BY <1>0, <2>1, <2>2, <3>1, <3>2, SaveMoves
  <2>4. CASE RejectPut(save.want) /\ save' = [save EXCEPT !.pc = "refused"]
    <3>1. UNCHANGED store /\ put' = NoPut
      BY <2>4 DEF RejectPut, vars, store
    <3>2. save' \in SaveType /\ save'.pc = "refused" /\ save'.want = save.want
      BY <2>2, <2>4 DEF SaveType
    <3> QED
      BY <1>0, <2>1, <2>2, <3>1, <3>2, SaveMoves
  <2> QED
    BY <2>1, <2>3, <2>4
<1>2. CASE EndSave
  <2>1. /\ save.pc = "applying" /\ FinishPut
        /\ save' = [save EXCEPT !.pc = "applied", !.old = FALSE]
        /\ UNCHANGED <<working, snapshot, dirty, gets, form, story, bounds>>
    BY <1>2 DEF EndSave
  <2>2. save # NoSave /\ save \in SaveType
    BY <2>1, SaveTyped DEF TabInv
  <2>3. UNCHANGED store /\ put' = NoPut /\ Applied
    BY <2>1 DEF FinishPut, store
  <2>4. Current = save.want /\ Valid(save.want)
    BY <2>1, <2>3, AppliedIsWanted DEF AdminInv, SavedMeansStored, Applied, TabInv, Overlaps, SaveStands
  <2>5. save' \in SaveType /\ save'.pc = "applied" /\ save'.want = save.want
    BY <2>1, <2>2 DEF SaveType
  <2> QED
    BY <1>0, <2>1, <2>2, <2>3, <2>4, <2>5, SaveMoves
<1>3. CASE BreakSave
  <2>1. /\ save.pc = "applying" /\ AbortPut
        /\ save' = [save EXCEPT !.pc = "refused"]
        /\ UNCHANGED <<working, snapshot, dirty, gets, form, story, bounds>>
    BY <1>3 DEF BreakSave
  <2>2. save # NoSave /\ save \in SaveType
    BY <2>1, SaveTyped DEF TabInv
  <2>3. UNCHANGED store /\ put' = NoPut
    BY <2>1 DEF AbortPut, store
  <2>4. save' \in SaveType /\ save'.pc = "refused" /\ save'.want = save.want
    BY <2>1, <2>2 DEF SaveType
  <2> QED
    BY <1>0, <2>1, <2>2, <2>3, <2>4, SaveMoves
<1> QED
  BY <1>1, <1>2, <1>3

\* A row was written, by the PUT of the tab or by others: what the tab has seen
\* of the store is old now, and nothing else about it changes.
LEMMA WriteKeeps ==
  ASSUME TabInv, TypeOK', Outdated,
         UNCHANGED <<working, snapshot, dirty, form, touched, open, raced>>,
         edits' \in 0..MaxEdits, writes' \in 0..MaxWrites,
         \/ save = NoSave /\ save' = NoSave
         \/ /\ save # NoSave /\ save' \in SaveType
            /\ save'.pc = save.pc /\ save'.want = save.want
            /\ save.pc = "applied" => save'.old,
         put' # NoPut <=> put # NoPut,
         put' # NoPut => put'.want = put.want
  PROVE  TabInv'
<1>1. behind' = TRUE
  BY DEF Outdated
<1>2. ASSUME NEW g \in Get
      PROVE  /\ gets'[g] \in GetType
             /\ gets'[g] = Idle <=> gets[g] = Idle
             /\ gets'[g].pc = "answered" => /\ gets[g].pc = "answered"
                                            /\ gets'[g].config = gets[g].config /\ gets'[g].old
  <2>1. CASE gets[g].pc = "answered"
    <3>1. gets'[g] = [gets[g] EXCEPT !.old = TRUE]
      BY <2>1 DEF Outdated
    <3>2. gets[g] \in [pc : {"answered"}, config : Config, old : BOOLEAN]
      BY <2>1, GetsTyped DEF TabInv
    <3> QED
      BY <3>1, <3>2 DEF GetType, Idle
  <2>2. CASE gets[g].pc # "answered"
    BY <2>2 DEF Outdated, TabInv, PanelTypeOK
  <2> QED
    BY <2>1, <2>2
<1>3. gets' \in [Get -> GetType]
  BY <1>2 DEF Outdated
<1>4. /\ save' # NoSave <=> save # NoSave
      /\ save' # NoSave => save'.pc = save.pc /\ save'.want = save.want
  BY DEF SaveType, NoSave
<1>5. PanelTypeOK'
  BY <1>1, <1>3 DEF TabInv, PanelTypeOK
<1>6. CopiesWhole' /\ DefaultsInCopy' /\ FormKnowsAllIds'
  BY <1>2 DEF TabInv, CopiesWhole, DefaultsInCopy, FormKnowsAllIds
<1>7. Overlaps' /\ NoEditLost'
  BY <1>2, <1>4 DEF TabInv, Overlaps, NoEditLost, GetsInFlight
<1>8. SaveStands'
  BY <1>4 DEF TabInv, SaveStands, NoSave
<1>9. Freshness'
  BY <1>1, <1>2 DEF Freshness
<1> QED
  BY <1>5, <1>6, <1>7, <1>8, <1>9 DEF TabInv

LEMMA RowsKeep ==
  ASSUME TabInv, AdminInv, TypeOK', ApplySaveRow \/ OthersWrite
  PROVE  TabInv'
<1>1. CASE ApplySaveRow
  <2>1. /\ save.pc = "applying" /\ Outdated
        /\ WriteChannel \/ WriteProfile \/ DropProfile \/ DropChannel
        /\ UNCHANGED <<working, snapshot, dirty, save, form, touched, open, raced, bounds>>
    BY <1>1 DEF ApplySaveRow
  <2>2. save # NoSave /\ save \in SaveType
    BY <2>1, SaveTyped DEF TabInv
  <2>3. put # NoPut /\ put \in Put
    BY <2>1, PutTyped DEF AdminInv, WriteChannel, WriteProfile, DropProfile, DropChannel
  <2>4. put'.pc = "apply" /\ put'.want = put.want
    BY <2>1, <2>3 DEF WriteChannel, WriteProfile, DropProfile, DropChannel, Put
  <2>5. put' # NoPut
    BY <2>4 DEF NoPut
  <2>6. edits' \in 0..MaxEdits /\ writes' \in 0..MaxWrites
    BY <2>1 DEF TabInv, PanelTypeOK, bounds
  <2> QED
    BY <2>1, <2>2, <2>3, <2>4, <2>5, <2>6, WriteKeeps
<1>2. CASE OthersWrite
  <2>1. /\ writes < MaxWrites /\ writes' = writes + 1
        /\ EntityOperation /\ Outdated
        /\ save' = IF save = NoSave THEN save ELSE [save EXCEPT !.old = TRUE]
        /\ UNCHANGED <<working, snapshot, dirty, form, touched, open, raced, edits>>
    BY <1>2 DEF OthersWrite
  <2>2. writes' \in 0..MaxWrites /\ edits' \in 0..MaxEdits
    BY <2>1, PanelAssumption DEF TabInv, PanelTypeOK
  <2>3. put' = put
    BY <2>1 DEF EntityOperation, UpsertChannelEntity, DeleteChannelEntity, UpsertProfileEntity,
                DeleteProfileEntity
  <2>4. save # NoSave => /\ save' \in SaveType /\ save'.old
                         /\ save'.pc = save.pc /\ save'.want = save.want
    BY <2>1, SaveTyped DEF TabInv, SaveType
  <2> QED
    BY <2>1, <2>2, <2>3, <2>4, WriteKeeps
<1> QED
  BY <1>1, <1>2

LEMMA ServerStepKeeps ==
  ASSUME TabInv, AdminInv, TypeOK', ServerStep
  PROVE  TabInv'
BY AnswerGetKeeps, SaveAtServerKeeps, RowsKeep DEF ServerStep, AdminInv

-----------------------------------------------------------------------------
LEMMA InitPanel == PanelInit => PanelInv
<1> SUFFICES ASSUME PanelInit
             PROVE  PanelInv
  OBVIOUS
<1>1. TypeOK
  BY DEF PanelInit, TypeOK, StoreTypeOK
<1>2. AdminInv
  <2>1. DefaultsExist /\ TokensUnique
    BY DEF PanelInit, Valid, DefaultsExist, TokensUnique, ProfilesOf, EnabledIn, Instances, Current
  <2>2. PutProgress /\ StoreValid
    BY DEF PanelInit, PutProgress, StoreValid
  <2> QED
    BY <1>1, <2>1, <2>2 DEF AdminInv
<1>3. StoreComplete
  BY DEF PanelInit, Valid, Current, StoreComplete
<1>4. PanelTypeOK
  <2>1. 0 \in 0..MaxEdits /\ 0 \in 0..MaxWrites
    BY PanelAssumption
  <2>2. gets \in [Get -> GetType]
    BY DEF PanelInit, GetType
  <2> QED
    BY <1>1, <2>1, <2>2 DEF PanelInit, PanelTypeOK
<1>5. CopiesWhole /\ DefaultsInCopy /\ FormKnowsAllIds
  BY DEF PanelInit, CopiesWhole, DefaultsInCopy, FormKnowsAllIds, Idle
<1>6. Overlaps /\ NoEditLost
  BY DEF PanelInit, Overlaps, NoEditLost
<1>7. SaveStands /\ Freshness
  BY DEF PanelInit, SaveStands, Freshness, NoSave, Idle
<1> QED
  BY <1>2, <1>3, <1>4, <1>5, <1>6, <1>7 DEF PanelInv, TabInv

LEMMA StutterKeeps ==
  ASSUME TabInv, UNCHANGED panelVars
  PROVE  TabInv'
<1>1. TypeOK' /\ Current' = Current
  BY TypeKept DEF panelVars, TabInv, PanelTypeOK
<1>2. UNCHANGED <<put, tab, story, bounds>>
  BY DEF panelVars, vars
<1>3. PanelTypeOK'
  BY <1>1, <1>2 DEF TabInv, PanelTypeOK, tab, story, bounds
<1>4. CopiesWhole' /\ DefaultsInCopy' /\ FormKnowsAllIds'
  BY <1>2 DEF TabInv, CopiesWhole, DefaultsInCopy, FormKnowsAllIds, tab
<1>5. Overlaps' /\ NoEditLost'
  BY <1>2 DEF TabInv, Overlaps, NoEditLost, GetsInFlight, tab, story
<1>6. SaveStands' /\ Freshness'
  BY <1>1, <1>2 DEF TabInv, SaveStands, Freshness, tab, story
<1> QED
  BY <1>3, <1>4, <1>5, <1>6 DEF TabInv

(***************************************************************************)
(* What a tab of the panel, the admin process and the requests between     *)
(* them know of each other (admin-state.js, admin-save-flow.js and         *)
(* config-routes.ts): the inductive invariant.                             *)
(***************************************************************************)
THEOREM PanelInvariant == PanelSpec => []PanelInv
<1>1. PanelInv /\ [PanelNext]_panelVars => PanelInv'
  <2> SUFFICES ASSUME PanelInv, [PanelNext]_panelVars
               PROVE  PanelInv'
    OBVIOUS
  <2>1. AdminInv /\ StoreComplete /\ TabInv /\ PanelTypeOK
    BY DEF PanelInv, TabInv
  <2>2. [Next]_vars
    BY <2>1, AdminSteps DEF panelVars
  <2>3. AdminInv' /\ StoreComplete'
    BY <2>1, <2>2, AdminStep, CompleteStep
  <2>4. TypeOK'
    BY <2>3 DEF AdminInv
  <2>5. TabInv'
    BY <2>1, <2>4, EditStepKeeps, RequestStepKeeps, ServerStepKeeps, StutterKeeps DEF PanelNext
  <2> QED
    BY <2>3, <2>5 DEF PanelInv
<1> QED
  BY <1>1, InitPanel, PTL DEF PanelSpec

(***************************************************************************)
(* An edit that is neither stored nor discarded keeps the save bar up      *)
(* ("track unsaved changes", admin-state.js), unless the tab has raced.    *)
(***************************************************************************)
THEOREM EditsAreKept == PanelSpec => []NoEditLost
BY PanelInvariant, PTL DEF PanelInv, TabInv

(***************************************************************************)
(* With the save bar down the panel shows the stored configuration         *)
(* (admin-state.js, markSaved and setConfigFromServer), until others write *)
(* behind its back or it races.                                            *)
(***************************************************************************)
THEOREM CleanPanelIsLive == PanelSpec => []CleanIsLive
<1>1. PanelInv => CleanIsLive
  BY DEF PanelInv, TabInv, Freshness, CleanIsLive
<1> QED
  BY <1>1, PanelInvariant, PTL

(***************************************************************************)
(* A PUT of the whole working copy (admin-save-flow.js) that meets a store *)
(* nobody else has written changes there what the user has edited, or what *)
(* was pruned with it, and nothing else.                                   *)
(***************************************************************************)
THEOREM SavesChangeEditsOnly == PanelSpec => []SavesOnlyEdits
<1>1. PanelInit => SavesOnlyEdits
  BY DEF PanelInit, SavesOnlyEdits, NoSave
<1>2. PanelInv /\ SavesOnlyEdits /\ [PanelNext]_panelVars => SavesOnlyEdits'
  <2> SUFFICES ASSUME TabInv, SavesOnlyEdits, [PanelNext]_panelVars,
                      save'.pc = "sent", ~ save'.old, ~ raced'
               PROVE  SameOutside(touched', save'.want, Current')
    BY DEF PanelInv, SavesOnlyEdits
  <2>1. save # NoSave => /\ save \in SaveType
                         /\ raced \/ dirty
                         /\ raced \/ GetsInFlight = {}
    BY SaveTyped DEF TabInv, Overlaps
  <2>2. ASSUME UNCHANGED <<save, touched, raced, store>>
        PROVE  SameOutside(touched', save'.want, Current')
    BY <2>2 DEF SavesOnlyEdits, store, Current
  <2>3. CASE EditStep
    <3>1. CASE EditMade \/ \E c \in Channel : AddChannelNowhere(c)
      <4>1. /\ raced' \/ save' = NoSave
        BY <3>1 DEF EditMade, Edited, AddChannelNowhere, InFlight
      <4> QED
        BY <4>1 DEF NoSave
    <3>2. CASE ToggleForm \/ \E c \in Channel : DefaultVoice(c)
      BY <2>2, <3>2 DEF ToggleForm, DefaultVoice, story, vars, store
    <3> QED
      BY <2>3, <3>1, <3>2, EditSteps DEF TabInv
  <2>4. CASE RequestStep
    <3>1. CASE Refresh
      <4>1. UNCHANGED <<vars, save>> /\ raced' = (raced \/ dirty)
        BY <3>1 DEF Refresh
      <4>2. save # NoSave
        BY <4>1 DEF NoSave
      <4> QED
        BY <2>1, <4>1, <4>2
    <3>2. CASE StartSave
      <4>1. /\ working # NoConfig /\ ~ behind /\ ~ raced
            /\ save'.want = Payload(working)
            /\ UNCHANGED <<vars, touched>>
        BY <3>2 DEF StartSave, story
      <4>2. Payload(working) = working
        BY <4>1 DEF TabInv, PanelTypeOK, Payload, Config
      <4> QED
        BY <4>1, <4>2, TypeKept DEF TabInv, PanelTypeOK, Freshness
    <3>3. CASE Discard \/ SaveSucceeds \/ SaveFails
      BY <3>3 DEF Discard, SaveSucceeds, SaveFails, NoSave
    <3>4. ASSUME NEW g \in Get, Adopt(g)
          PROVE  FALSE
      <4>1. save' = save /\ raced' = (raced /\ (save # NoSave \/ GetsInFlight # {g}))
        BY <3>4 DEF Adopt
      <4>2. save # NoSave /\ g \in GetsInFlight
        BY <3>4, <4>1, GetsTyped DEF Adopt, TabInv, NoSave
      <4> QED
        BY <2>1, <4>1, <4>2
    <3>5. ASSUME NEW g \in Get, GetFails(g)
          PROVE  SameOutside(touched', save'.want, Current')
      BY <2>2, <3>5 DEF GetFails, story, vars, store
    <3> QED
      BY <2>4, <3>1, <3>2, <3>3, <3>4, <3>5 DEF RequestStep
  <2>5. CASE ServerStep
    <3>1. ASSUME NEW g \in Get, AnswerGet(g)
          PROVE  SameOutside(touched', save'.want, Current')
      BY <2>2, <3>1 DEF AnswerGet, story, vars, store
    <3>2. CASE TakeSave \/ EndSave \/ BreakSave
      <4>1. save \in SaveType
        BY <3>2, SaveTyped DEF TakeSave, EndSave, BreakSave, TabInv
      <4> QED
        BY <3>2, <4>1 DEF TakeSave, EndSave, BreakSave, SaveType
    <3>3. CASE ApplySaveRow
      BY <3>3 DEF ApplySaveRow
    <3>4. CASE OthersWrite
      <4>1. save # NoSave
        BY <3>4 DEF OthersWrite, NoSave
      <4> QED
        BY <2>1, <3>4, <4>1 DEF OthersWrite, SaveType
    <3> QED
      BY <2>5, <3>1, <3>2, <3>3, <3>4 DEF ServerStep
  <2>6. CASE UNCHANGED panelVars
    BY <2>2, <2>6 DEF panelVars, tab, story, vars, store
  <2> QED
    BY <2>3, <2>4, <2>5, <2>6 DEF PanelNext
<1> QED
  BY <1>1, <1>2, PanelInvariant, PTL DEF PanelSpec

(***************************************************************************)
(* A default in the working copy names an instance of it (admin-defaults.js*)
(* prunes, admin-save-flow.js validates it at the server), whatever answers*)
(* replace the copy between two edits.                                     *)
(***************************************************************************)
THEOREM DefaultsStayInCopy == PanelSpec => []DefaultsInCopy
BY PanelInvariant, PTL DEF PanelInv, TabInv
=============================================================================
