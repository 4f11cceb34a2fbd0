--------------------------- MODULE AdminConfigProofs ---------------------------
(***************************************************************************)
(* AdminInv is an invariant of AdminConfig, for every set of channels,     *)
(* profiles, tokens and wanted configurations.                             *)
(***************************************************************************)
EXTENDS AdminConfig, TLAPS

LEMMA InitAdmin == Init => AdminInv
<1>1. Init => TypeOK
  BY DEF Init, TypeOK, StoreTypeOK, EmptyStore, Setting
<1>2. Init => DefaultsExist /\ TokensUnique
  BY DEF Init, DefaultsExist, TokensUnique, EmptyStore
<1>3. Init => PutProgress
  BY DEF Init, PutProgress
<1>4. Init => StoreValid
  BY DEF Init, StoreValid, Valid, EmptyStore, Current, ProfilesOf
<1> QED
  BY <1>1, <1>2, <1>3, <1>4 DEF AdminInv

\* A row whose defaults are cut down is a row.
LEMMA RowCut ==
  ASSUME NEW row \in Row, NEW S
  PROVE  /\ [row EXCEPT !.defaults = @ \cap S] \in Row
         /\ [row EXCEPT !.defaults = @ \ S] \in Row
         /\ [row EXCEPT !.defaults = @ \cap S].token = row.token
         /\ [row EXCEPT !.defaults = @ \cap S].defaults = row.defaults \cap S
         /\ [row EXCEPT !.defaults = @ \ S].token = row.token
         /\ [row EXCEPT !.defaults = @ \ S].defaults = row.defaults \ S
BY DEF Row

\* The writes of the repositories keep the store's type.
LEMMA UpsertChannelTyped ==
  ASSUME StoreTypeOK, NEW c \in Channel, NEW setting \in Setting, UpsertChannel(c, setting)
  PROVE  StoreTypeOK'
BY DEF StoreTypeOK, UpsertChannel

LEMMA DeleteChannelTyped ==
  ASSUME StoreTypeOK, NEW c \in Channel, DeleteChannel(c)
  PROVE  StoreTypeOK'
<1>1. channel' \in [Channel -> Setting]
  BY DEF StoreTypeOK, DeleteChannel, Setting
<1>2. ASSUME NEW p \in ProfileId, profile[p] # NoProfile
      PROVE  [profile[p] EXCEPT !.defaults = @ \ {c}] \in Row
  <2>1. profile[p] \in Row
    BY <1>2 DEF StoreTypeOK
  <2> QED
    BY <2>1, RowCut
<1> QED
  BY <1>1, <1>2 DEF StoreTypeOK, DeleteChannel

LEMMA UpsertProfileTyped ==
  ASSUME StoreTypeOK, NEW p \in ProfileId, NEW row \in Row, UpsertProfile(p, row)
  PROVE  StoreTypeOK'
<1>1. [row EXCEPT !.defaults = @ \cap Instances(Current)] \in Row
  BY RowCut
<1> QED
  BY <1>1 DEF StoreTypeOK, UpsertProfile

LEMMA DeleteProfileTyped ==
  ASSUME StoreTypeOK, NEW p \in ProfileId, DeleteProfile(p)
  PROVE  StoreTypeOK'
BY DEF StoreTypeOK, DeleteProfile

\* What a running PUT is made of.
LEMMA PutTyped ==
  ASSUME TypeOK, put # NoPut
  PROVE  /\ put \in Put
         /\ put.want \in Config
         /\ \A c \in Channel : put.want.channel[c] \in Setting
         /\ \A p \in ProfileId : put.want.profile[p] \in {NoProfile} \cup Row
         /\ put.channels \subseteq Channel /\ put.dropChannels \subseteq Channel
         /\ put.profiles \subseteq ProfileId /\ put.dropProfiles \subseteq ProfileId
<1>1. put \in Put
  BY DEF TypeOK
<1> QED
  BY <1>1 DEF Put, Config

LEMMA PutShrinks ==
  ASSUME put \in Put, NEW S
  PROVE  /\ [put EXCEPT !.channels = @ \ S] \in Put
         /\ [put EXCEPT !.profiles = @ \ S] \in Put
         /\ [put EXCEPT !.dropProfiles = @ \ S] \in Put
         /\ [put EXCEPT !.dropChannels = @ \ S] \in Put
BY DEF Put

-----------------------------------------------------------------------------
\* Every step keeps the types.  A wanted profile has a row because PutProgress
\* says that the list of profiles names only those that do.
LEMMA TypeStep == TypeOK /\ PutProgress /\ [Next]_vars => TypeOK'
<1> SUFFICES ASSUME TypeOK, PutProgress, [Next]_vars
             PROVE  TypeOK'
  OBVIOUS
<1>0. StoreTypeOK
  BY DEF TypeOK
<1>1. ASSUME UNCHANGED vars
      PROVE  TypeOK'
  BY <1>1 DEF vars, TypeOK, StoreTypeOK
<1>2. ASSUME NEW want \in Wanted, BeginPut(want)
      PROVE  TypeOK'
  <2>1. Current \in Config /\ want \in Config
    BY <1>0, WantedAssumption DEF StoreTypeOK, Current, Config
  <2>2. put' \in Put
    BY <1>2, <2>1 DEF BeginPut, Put, Instances, ProfilesOf
  <2> QED
    BY <1>0, <1>2, <2>2 DEF BeginPut, TypeOK, store, StoreTypeOK
<1>3. ASSUME NEW want \in Wanted, RejectPut(want)
      PROVE  TypeOK'
  BY <1>1, <1>3 DEF RejectPut
<1>4. ASSUME WriteChannel
      PROVE  TypeOK'
  <2>1. PICK c \in put.channels : /\ UpsertChannel(c, put.want.channel[c])
                                  /\ put' = [put EXCEPT !.channels = @ \ {c}]
    BY <1>4 DEF WriteChannel
  <2>2. c \in Channel /\ put.want.channel[c] \in Setting /\ put \in Put
    BY <1>4, <2>1, PutTyped DEF WriteChannel
  <2>3. StoreTypeOK'
    BY <1>0, <2>1, <2>2, UpsertChannelTyped
  <2>4. put' \in Put
    BY <2>1, <2>2, PutShrinks
  <2> QED
    BY <1>4, <2>3, <2>4 DEF WriteChannel, TypeOK
<1>5. ASSUME WriteProfile
      PROVE  TypeOK'
  <2>1. PICK p \in put.profiles : /\ UpsertProfile(p, put.want.profile[p])
                                  /\ put' = [put EXCEPT !.profiles = @ \ {p}]
    BY <1>5 DEF WriteProfile
  <2>2. p \in ProfileId /\ put.want.profile[p] \in Row /\ put \in Put
    BY <1>5, <2>1, PutTyped DEF WriteProfile, PutProgress, ProfilesOf
  <2>3. StoreTypeOK'
    BY <1>0, <2>1, <2>2, UpsertProfileTyped
  <2>4. put' \in Put
    BY <2>1, <2>2, PutShrinks
  <2> QED
    BY <1>5, <2>3, <2>4 DEF WriteProfile, TypeOK
<1>6. ASSUME WriteProfileClashes \/ FinishPut \/ AbortPut
      PROVE  TypeOK'
  BY <1>0, <1>6 DEF WriteProfileClashes, FinishPut, AbortPut, store, TypeOK, StoreTypeOK
<1>7. ASSUME DropProfile
      PROVE  TypeOK'
  <2>1. PICK p \in put.dropProfiles : /\ DeleteProfile(p)
                                      /\ put' = [put EXCEPT !.dropProfiles = @ \ {p}]
    BY <1>7 DEF DropProfile
  <2>2. p \in ProfileId /\ put \in Put
    BY <1>7, <2>1, PutTyped DEF DropProfile
  <2>3. StoreTypeOK'
    BY <1>0, <2>1, <2>2, DeleteProfileTyped
  <2>4. put' \in Put
    BY <2>1, <2>2, PutShrinks
  <2> QED
    BY <1>7, <2>3, <2>4 DEF DropProfile, TypeOK
<1>8. ASSUME DropChannel
      PROVE  TypeOK'
  <2>1. PICK c \in put.dropChannels : /\ DeleteChannel(c)
                                      /\ put' = [put EXCEPT !.dropChannels = @ \ {c}]
    BY <1>8 DEF DropChannel
  <2>2. c \in Channel /\ put \in Put
    BY <1>8, <2>1, PutTyped DEF DropChannel
  <2>3. StoreTypeOK'
    BY <1>0, <2>1, <2>2, DeleteChannelTyped
  <2>4. put' \in Put
    BY <2>1, <2>2, PutShrinks
  <2> QED
    BY <1>8, <2>3, <2>4 DEF DropChannel, TypeOK
<1>9. ASSUME EntityOperation
      PROVE  TypeOK'
  <2>1. StoreTypeOK'
    BY <1>0, <1>9, UpsertChannelTyped, DeleteChannelTyped, UpsertProfileTyped, DeleteProfileTyped
       DEF EntityOperation, UpsertChannelEntity, DeleteChannelEntity,
           UpsertProfileEntity, DeleteProfileEntity
  <2>2. UNCHANGED <<put, torn>>
    BY <1>9 DEF EntityOperation, UpsertChannelEntity, DeleteChannelEntity,
                UpsertProfileEntity, DeleteProfileEntity
  <2> QED
    BY <2>1, <2>2 DEF TypeOK
<1> QED
  BY <1>1, <1>2, <1>3, <1>4, <1>5, <1>6, <1>7, <1>8, <1>9 DEF Next, ApplyPut

-----------------------------------------------------------------------------
\* The writes keep defaults and tokens in order, whoever calls them.
LEMMA UpsertChannelKeeps ==
  ASSUME StoreTypeOK, DefaultsExist, TokensUnique,
         NEW c \in Channel, NEW setting \in Setting \ {"absent"}, UpsertChannel(c, setting)
  PROVE  DefaultsExist' /\ TokensUnique'
<1>1. Instances(Current) \subseteq Instances(Current)'
  BY DEF StoreTypeOK, UpsertChannel, Instances, Current
<1> QED
  BY <1>1 DEF UpsertChannel, DefaultsExist, TokensUnique

LEMMA DeleteChannelKeeps ==
  ASSUME StoreTypeOK, DefaultsExist, TokensUnique,
         NEW c \in Channel, DeleteChannel(c)
  PROVE  DefaultsExist' /\ TokensUnique'
<1>1. Instances(Current)' = Instances(Current) \ {c}
  BY DEF StoreTypeOK, DeleteChannel, Instances, Current
<1>2. ASSUME NEW p \in ProfileId, profile'[p] # NoProfile
      PROVE  /\ profile[p] # NoProfile
             /\ profile'[p].token = profile[p].token
             /\ profile'[p].defaults = profile[p].defaults \ {c}
  <2>1. profile[p] # NoProfile
    BY <1>2 DEF DeleteChannel
  <2>2. profile[p] \in Row
    BY <2>1 DEF StoreTypeOK
  <2>3. profile'[p] = [profile[p] EXCEPT !.defaults = @ \ {c}]
    BY <2>1 DEF DeleteChannel
  <2> QED
    BY <2>1, <2>2, <2>3, RowCut
<1>3. DefaultsExist'
  BY <1>1, <1>2 DEF DefaultsExist
<1>4. TokensUnique'
  BY <1>2 DEF TokensUnique
<1> QED
  BY <1>3, <1>4

LEMMA UpsertProfileKeeps ==
  ASSUME StoreTypeOK, DefaultsExist, TokensUnique,
         NEW p \in ProfileId, NEW row \in Row, UpsertProfile(p, row)
  PROVE  DefaultsExist' /\ TokensUnique'
<1>1. Instances(Current)' = Instances(Current)
  BY DEF UpsertProfile, Instances, Current
<1>2. /\ profile'[p].token = row.token
      /\ profile'[p].defaults \subseteq Instances(Current)
  BY RowCut DEF StoreTypeOK, UpsertProfile
<1>3. \A q \in ProfileId \ {p} : profile'[q] = profile[q]
  BY DEF StoreTypeOK, UpsertProfile
<1>4. DefaultsExist'
  BY <1>1, <1>2, <1>3 DEF DefaultsExist
<1>5. TokensUnique'
  BY <1>2, <1>3 DEF UpsertProfile, TokenFree, TokensUnique
<1> QED
  BY <1>4, <1>5

LEMMA DeleteProfileKeeps ==
  ASSUME StoreTypeOK, DefaultsExist, TokensUnique,
         NEW p \in ProfileId, DeleteProfile(p)
  PROVE  DefaultsExist' /\ TokensUnique'
<1>1. Instances(Current)' = Instances(Current)
  BY DEF DeleteProfile, Instances, Current
<1>2. \A q \in ProfileId : profile'[q] # NoProfile => profile'[q] = profile[q]
  BY DEF StoreTypeOK, DeleteProfile
<1> QED
  BY <1>1, <1>2 DEF DefaultsExist, TokensUnique

LEMMA IntegrityStep ==
  TypeOK /\ PutProgress /\ DefaultsExist /\ TokensUnique /\ [Next]_vars
    => DefaultsExist' /\ TokensUnique'
<1> SUFFICES ASSUME TypeOK, PutProgress, DefaultsExist, TokensUnique, [Next]_vars
             PROVE  DefaultsExist' /\ TokensUnique'
  OBVIOUS
<1>0. StoreTypeOK
  BY DEF TypeOK
<1>1. ASSUME UNCHANGED store
      PROVE  DefaultsExist' /\ TokensUnique'
  BY <1>1 DEF store, DefaultsExist, TokensUnique, Instances, Current
<1>2. ASSUME \/ UNCHANGED vars
             \/ \E want \in Wanted : BeginPut(want) \/ RejectPut(want)
             \/ WriteProfileClashes \/ FinishPut \/ AbortPut
      PROVE  DefaultsExist' /\ TokensUnique'
  BY <1>1, <1>2 DEF vars, store, BeginPut, RejectPut, WriteProfileClashes, FinishPut, AbortPut
<1>3. CASE WriteChannel
  <2>1. PICK c \in put.channels : UpsertChannel(c, put.want.channel[c])
    BY <1>3 DEF WriteChannel
  <2>2. c \in Channel /\ put.want.channel[c] \in Setting \ {"absent"}
    BY <1>3, <2>1, PutTyped DEF WriteChannel, PutProgress, Instances
  <2> QED
    BY <1>0, <2>1, <2>2, UpsertChannelKeeps
<1>4. CASE WriteProfile
  <2>1. PICK p \in put.profiles : UpsertProfile(p, put.want.profile[p])
    BY <1>4 DEF WriteProfile
  <2>2. p \in ProfileId /\ put.want.profile[p] \in Row
    BY <1>4, <2>1, PutTyped DEF WriteProfile, PutProgress, ProfilesOf
  <2> QED
    BY <1>0, <2>1, <2>2, UpsertProfileKeeps
<1>5. CASE DropProfile
  <2>1. PICK p \in put.dropProfiles : DeleteProfile(p)
    BY <1>5 DEF DropProfile
  <2> QED
    BY <1>0, <1>5, <2>1, PutTyped, DeleteProfileKeeps DEF DropProfile
<1>6. CASE DropChannel
  <2>1. PICK c \in put.dropChannels : DeleteChannel(c)
    BY <1>6 DEF DropChannel
  <2> QED
    BY <1>0, <1>6, <2>1, PutTyped, DeleteChannelKeeps DEF DropChannel
<1>7. CASE EntityOperation
  BY <1>0, <1>7, UpsertChannelKeeps, DeleteChannelKeeps, UpsertProfileKeeps, DeleteProfileKeeps
     DEF EntityOperation, UpsertChannelEntity, DeleteChannelEntity,
         UpsertProfileEntity, DeleteProfileEntity
<1> QED
  BY <1>2, <1>3, <1>4, <1>5, <1>6, <1>7 DEF Next, ApplyPut

-----------------------------------------------------------------------------
\* A PUT gets on row by row, and no write undoes an earlier one.
LEMMA ProgressStep ==
  TypeOK /\ PutProgress /\ [Next]_vars => PutProgress'
<1> SUFFICES ASSUME TypeOK, PutProgress, [Next]_vars
             PROVE  PutProgress'
  OBVIOUS
<1>0. StoreTypeOK
  BY DEF TypeOK
<1>1. CASE UNCHANGED vars
  BY <1>1 DEF vars, PutProgress, Valid, Instances, ProfilesOf, EnabledIn, Current
<1>2. ASSUME NEW want \in Wanted, RejectPut(want)
      PROVE  PutProgress'
  BY <1>2, <1>1 DEF RejectPut
<1>3. CASE EntityOperation \/ WriteProfileClashes \/ FinishPut \/ AbortPut
  BY <1>3 DEF EntityOperation, UpsertChannelEntity, DeleteChannelEntity, UpsertProfileEntity,
              DeleteProfileEntity, WriteProfileClashes, FinishPut, AbortPut, PutProgress
<1>4. ASSUME NEW want \in Wanted, BeginPut(want)
      PROVE  PutProgress'
  BY <1>4 DEF BeginPut, PutProgress, Valid, Instances, ProfilesOf, EnabledIn, Current, store
<1>5. CASE WriteChannel
  <2>1. PICK c \in put.channels : /\ UpsertChannel(c, put.want.channel[c])
                                  /\ put' = [put EXCEPT !.channels = @ \ {c}]
    BY <1>5 DEF WriteChannel
  <2>2. put # NoPut /\ put \in Put /\ c \in Channel
    BY <1>5, <2>1, PutTyped DEF WriteChannel
  <2> QED
    BY <1>0, <2>1, <2>2 DEF UpsertChannel, StoreTypeOK, Put, PutProgress, Valid, Instances, ProfilesOf, EnabledIn, Current
<1>6. CASE WriteProfile
  <2>1. PICK p \in put.profiles : /\ UpsertProfile(p, put.want.profile[p])
                                  /\ put' = [put EXCEPT !.profiles = @ \ {p}]
    BY <1>6 DEF WriteProfile
  <2>2. /\ put # NoPut /\ put \in Put /\ put.channels = {}
        /\ p \in ProfileId /\ put.want.profile[p] \in Row
    BY <1>6, <2>1, PutTyped DEF WriteProfile, PutProgress, ProfilesOf
  <2>3. put.want.profile[p].defaults \subseteq Instances(Current)
    BY <2>1, <2>2, PutTyped DEF PutProgress, Valid, Instances, ProfilesOf, EnabledIn, Current
  <2>4. profile'[p] = put.want.profile[p]
    BY <1>0, <2>1, <2>2, <2>3 DEF UpsertProfile, StoreTypeOK, Row
  <2>5. channel' = channel /\ \A r \in ProfileId \ {p} : profile'[r] = profile[r]
    BY <1>0, <2>1 DEF UpsertProfile, StoreTypeOK
  <2> QED
    BY <2>1, <2>2, <2>4, <2>5 DEF Put, PutProgress, Valid, Instances, ProfilesOf, EnabledIn, Current
<1>7. CASE DropProfile
  <2>1. PICK p \in put.dropProfiles : /\ DeleteProfile(p)
                                      /\ put' = [put EXCEPT !.dropProfiles = @ \ {p}]
    BY <1>7 DEF DropProfile
  <2>2. put # NoPut /\ put \in Put /\ p \in ProfileId
    BY <1>7, <2>1, PutTyped DEF DropProfile
  <2> QED
    BY <1>0, <1>7, <2>1, <2>2 DEF DropProfile, DeleteProfile, StoreTypeOK, Put, PutProgress,
                                 Valid, Instances, ProfilesOf, EnabledIn, Current
<1>8. CASE DropChannel
  <2>1. PICK c \in put.dropChannels : /\ DeleteChannel(c)
                                      /\ put' = [put EXCEPT !.dropChannels = @ \ {c}]
    BY <1>8 DEF DropChannel
  <2>2. /\ put # NoPut /\ put \in Put /\ c \in Channel /\ c \notin Instances(put.want)
        /\ put.channels = {} /\ put.profiles = {}
    BY <1>8, <2>1, PutTyped DEF DropChannel, PutProgress
  <2>3. \A r \in ProfileId : profile'[r] # NoProfile => profile[r] # NoProfile
    BY <2>1 DEF DeleteChannel
  <2>4. ASSUME NEW r \in ProfilesOf(put.want)
        PROVE  profile'[r] = put.want.profile[r]
    <3>1. /\ profile[r] = put.want.profile[r] /\ profile[r] # NoProfile
          /\ profile[r] \in Row /\ r \in ProfileId
      BY <2>2, <2>4, PutTyped DEF PutProgress, ProfilesOf
    <3>2. c \notin profile[r].defaults
      BY <2>2, <3>1, PutTyped DEF PutProgress, Valid, EnabledIn, Instances
    <3>3. [profile[r] EXCEPT !.defaults = @ \ {c}] = profile[r]
      BY <3>1, <3>2 DEF Row
    <3> QED
      BY <2>1, <3>1, <3>3 DEF DeleteChannel
  <2>5. channel' = [channel EXCEPT ![c] = "absent"]
    BY <2>1 DEF DeleteChannel
  <2> QED
    BY <1>0, <2>1, <2>2, <2>3, <2>4, <2>5 DEF StoreTypeOK, Put, PutProgress,
       Valid, Instances, ProfilesOf, EnabledIn, Current
<1> QED
  BY <1>1, <1>2, <1>3, <1>4, <1>5, <1>6, <1>7, <1>8 DEF Next, ApplyPut

\* When the lists are empty, the store is what the PUT wants.
LEMMA AppliedIsWanted == TypeOK /\ PutProgress => SavedMeansStored
<1> SUFFICES ASSUME TypeOK, PutProgress, Applied
             PROVE  Current = put.want
  BY DEF SavedMeansStored
<1>1. put.want \in Config /\ StoreTypeOK
  BY PutTyped DEF Applied, TypeOK
<1>2. \A c \in Channel : channel[c] = put.want.channel[c]
  BY <1>1, PutTyped DEF Applied, PutProgress, Instances, Current
<1>3. \A p \in ProfileId : profile[p] = put.want.profile[p]
  BY <1>1, PutTyped DEF Applied, PutProgress, ProfilesOf, Current
<1>4. channel = put.want.channel /\ profile = put.want.profile
  BY <1>1, <1>2, <1>3 DEF Config, StoreTypeOK
<1> QED
  BY <1>1, <1>4 DEF Current, Config

-----------------------------------------------------------------------------
\* Deleting an entity from a valid configuration leaves a valid one.
LEMMA DeletesStayValid ==
  ASSUME StoreTypeOK, Valid(Current),
         \/ \E c \in Channel : DeleteChannel(c)
         \/ \E p \in ProfileId : DeleteProfile(p)
  PROVE  Valid(Current)'
<1>1. ASSUME NEW c \in Channel, DeleteChannel(c)
      PROVE  Valid(Current)'
  <2>1. channel' = [channel EXCEPT ![c] = "absent"]
    BY <1>1 DEF DeleteChannel
  <2>2. ASSUME NEW p \in ProfileId, profile'[p] # NoProfile
        PROVE  /\ profile[p] # NoProfile
               /\ profile'[p].token = profile[p].token
               /\ profile'[p].defaults = profile[p].defaults \ {c}
    <3>1. profile[p] # NoProfile
      BY <1>1, <2>2 DEF DeleteChannel
    <3>2. profile[p] \in Row
      BY <3>1 DEF StoreTypeOK
    <3>3. profile'[p] = [profile[p] EXCEPT !.defaults = @ \ {c}]
      BY <1>1, <3>1 DEF DeleteChannel
    <3> QED
      BY <3>1, <3>2, <3>3, RowCut
  <2> QED
    BY <2>1, <2>2 DEF StoreTypeOK, Valid, Current, ProfilesOf, EnabledIn
<1>2. ASSUME NEW p \in ProfileId, DeleteProfile(p)
      PROVE  Valid(Current)'
  BY <1>2 DEF DeleteProfile, StoreTypeOK, Valid, Current, ProfilesOf, EnabledIn
<1> QED
  BY <1>1, <1>2

LEMMA ValidStep ==
  TypeOK /\ DefaultsExist /\ PutProgress /\ StoreValid /\ [Next]_vars => StoreValid'
<1> SUFFICES ASSUME TypeOK, DefaultsExist, PutProgress, StoreValid, [Next]_vars
             PROVE  StoreValid'
  OBVIOUS
<1>0. StoreTypeOK
  BY DEF TypeOK
<1>1. CASE UNCHANGED vars
  BY <1>1 DEF vars, StoreValid, Valid, Current, ProfilesOf, EnabledIn
<1>2. ASSUME NEW want \in Wanted, BeginPut(want) \/ RejectPut(want)
      PROVE  StoreValid'
  <2>1. CASE RejectPut(want)
    BY <2>1, <1>1 DEF RejectPut
  <2>2. CASE BeginPut(want)
    BY <2>2 DEF BeginPut, StoreValid, NoPut
  <2> QED
    BY <1>2, <2>1, <2>2
<1>3. CASE WriteProfileClashes \/ AbortPut
  BY <1>3 DEF WriteProfileClashes, AbortPut, StoreValid
<1>4. CASE WriteChannel \/ WriteProfile \/ DropProfile \/ DropChannel
  <2>1. put # NoPut /\ put \in Put
    BY <1>4, PutTyped DEF WriteChannel, WriteProfile, DropProfile, DropChannel
  <2>2. put'.pc = "apply"
    BY <1>4, <2>1 DEF WriteChannel, WriteProfile, DropProfile, DropChannel, Put
  <2> QED
    BY <2>2 DEF StoreValid, NoPut
<1>5. CASE FinishPut
  <2>1. Valid(Current)
    BY <1>5, AppliedIsWanted DEF FinishPut, SavedMeansStored, Applied, PutProgress
  <2> QED
    BY <1>5, <2>1 DEF FinishPut, store, StoreValid, Valid, Current, ProfilesOf, EnabledIn
<1>6. CASE EntityOperation
  <2>1. put = NoPut /\ UNCHANGED <<put, torn>>
    BY <1>6 DEF EntityOperation, UpsertChannelEntity, DeleteChannelEntity,
               UpsertProfileEntity, DeleteProfileEntity
  <2>2. ASSUME NEW c \in Channel, NEW setting \in Setting, UpsertChannelEntity(c, setting)
        PROVE  Valid(Current)'
    <3>1. Current' = WithChannel(Current, c, setting)
      BY <2>2 DEF UpsertChannelEntity, UpsertChannel, Current, WithChannel
    <3> QED
      BY <2>2, <3>1 DEF UpsertChannelEntity, Valid, ProfilesOf, EnabledIn
  <2>3. ASSUME NEW p \in ProfileId, NEW row \in Row, UpsertProfileEntity(p, row)
        PROVE  Valid(Current)'
    <3>1. p \in ProfilesOf(WithProfile(Current, p, row))
      BY <1>0, NoProfileAssumption DEF StoreTypeOK, Current, WithProfile, ProfilesOf
    <3>2. row.defaults \subseteq Instances(Current)
      BY <1>0, <2>3, <3>1 DEF UpsertProfileEntity, Valid, EnabledIn, Instances, StoreTypeOK, Current, WithProfile
    <3>3. profile' = [profile EXCEPT ![p] = row]
      BY <2>3, <3>2 DEF UpsertProfileEntity, UpsertProfile, Row
    <3>4. Current' = WithProfile(Current, p, row)
      BY <2>3, <3>3 DEF UpsertProfileEntity, UpsertProfile, Current, WithProfile
    <3> QED
      BY <2>3, <3>4 DEF UpsertProfileEntity, Valid, ProfilesOf, EnabledIn
  <2>4. CASE \/ \E c \in Channel : DeleteChannelEntity(c)
             \/ \E p \in ProfileId : DeleteProfileEntity(p)
    BY <1>0, <2>1, <2>4, DeletesStayValid DEF DeleteChannelEntity, DeleteProfileEntity, StoreValid
  <2> QED
    BY <1>6, <2>1, <2>2, <2>3, <2>4 DEF EntityOperation, StoreValid
<1> QED
  BY <1>1, <1>2, <1>3, <1>4, <1>5, <1>6 DEF Next, ApplyPut

-----------------------------------------------------------------------------
(***************************************************************************)
(* The strengthened invariant of the admin process: types, referential     *)
(* integrity, where a PUT stands, and the validity between PUTs.           *)
(***************************************************************************)
THEOREM AdminInvariant == Spec => []AdminInv
<1>1. AdminInv /\ [Next]_vars => AdminInv'
  BY TypeStep, IntegrityStep, ProgressStep, ValidStep DEF AdminInv
<1> QED
  BY <1>1, InitAdmin, PTL DEF Spec

(***************************************************************************)
(* Between any two writes of the shared database (schema-sql.ts), the      *)
(* defaults of a profile name instances that exist.                        *)
(***************************************************************************)
THEOREM DefaultsAlwaysExist == Spec => []DefaultsExist
BY AdminInvariant, PTL DEF AdminInv

(***************************************************************************)
(* A PUT /api/config that answers 200 has stored exactly its payload.      *)
(***************************************************************************)
THEOREM SavedIsStored == Spec => []SavedMeansStored
<1>1. AdminInv => SavedMeansStored
  BY AppliedIsWanted DEF AdminInv
<1> QED
  BY <1>1, AdminInvariant, PTL

(***************************************************************************)
(* While no PUT is being applied and none ended early, the stored          *)
(* configuration is one that validateConfigPayload accepts.                *)
(***************************************************************************)
THEOREM StoreStaysValid == Spec => []StoreValid
BY AdminInvariant, PTL DEF AdminInv
=============================================================================
