-------------------------- MODULE ConfigReadersProofs --------------------------
(***************************************************************************)
(* What a read of the configuration resolves was there, for every set of   *)
(* channels, profiles and tokens and every sequence of writes.             *)
(***************************************************************************)
EXTENDS ConfigReaders, AdminConfigProofs

\* The configuration is written as AdminConfig says: a read writes nothing.
LEMMA ReadersImplementAdmin == ReadSpec => Spec
<1>1. ReadInit => Init
  BY DEF ReadInit
<1>2. [ReadNext]_readVars => [Next]_vars
  BY DEF ReadNext, ReadEnabled, ReadProfileRow, ReadDefaults, EndRead, AdminStep, readVars, vars
<1> QED
  BY <1>1, <1>2, PTL DEF ReadSpec, Spec

(***************************************************************************)
(* A channel that becomes a default of p is enabled at that moment: a PUT  *)
(* has written its channels before, an entity operation validated it.      *)
(***************************************************************************)
LEMMA NewDefaultsAreEnabled ==
  ASSUME AdminInv, Next, NEW p \in ProfileId, profile'[p] # NoProfile,
         NEW c \in profile'[p].defaults, c \notin DefaultsOf(p)
  PROVE  c \in EnabledIn(Current')
<1>0. StoreTypeOK /\ StoreTypeOK' /\ PutProgress
  BY TypeStep DEF AdminInv, TypeOK
<1>1. c \in Channel /\ profile'[p] \in Row
  BY <1>0 DEF StoreTypeOK, Row
<1>2. profile'[p] # profile[p]
  BY DEF DefaultsOf
<1>3. ASSUME NEW q \in ProfileId, NEW row \in Row, UpsertProfile(q, row)
      PROVE  /\ q = p /\ channel' = channel
             /\ c \in row.defaults /\ c \in Instances(Current)
  <2>1. q = p
    BY <1>0, <1>2, <1>3 DEF UpsertProfile, StoreTypeOK
  <2>2. profile'[p].defaults = row.defaults \cap Instances(Current)
    BY <1>0, <1>3, <2>1, RowCut DEF UpsertProfile, StoreTypeOK
  <2> QED
    BY <1>3, <2>1, <2>2 DEF UpsertProfile
<1>4. ASSUME NEW d \in Channel, DeleteChannel(d)
      PROVE  FALSE
  <2>1. profile[p] # NoProfile /\ profile[p] \in Row
    BY <1>0, <1>4 DEF DeleteChannel, StoreTypeOK
  <2>2. profile'[p] = [profile[p] EXCEPT !.defaults = @ \ {d}]
    BY <1>4, <2>1 DEF DeleteChannel
  <2> QED
    BY <2>1, <2>2, RowCut DEF DefaultsOf
<1>5. ASSUME NEW q \in ProfileId, DeleteProfile(q)
      PROVE  FALSE
  BY <1>0, <1>2, <1>5 DEF DeleteProfile, StoreTypeOK
<1>6. CASE WriteProfile
  <2>1. PICK q \in put.profiles : UpsertProfile(q, put.want.profile[q])
    BY <1>6 DEF WriteProfile
  <2>2. put # NoPut /\ put.channels = {} /\ TypeOK
    BY <1>6 DEF WriteProfile, AdminInv
  <2>3. q \in ProfileId /\ q \in ProfilesOf(put.want) /\ put.want.profile[q] \in Row
    BY <1>0, <2>1, <2>2, PutTyped DEF PutProgress, ProfilesOf
  <2>4. c \in put.want.profile[q].defaults /\ channel' = channel
    BY <1>3, <2>1, <2>3
  <2>5. c \in EnabledIn(put.want)
    BY <1>0, <2>2, <2>3, <2>4 DEF PutProgress, Valid
  <2>6. channel[c] = put.want.channel[c]
    BY <1>0, <1>1, <2>2, <2>5 DEF PutProgress, EnabledIn, Instances
  <2> QED
    BY <1>1, <2>4, <2>5, <2>6 DEF EnabledIn, Current
<1>7. ASSUME NEW q \in ProfileId, NEW row \in Row, UpsertProfileEntity(q, row)
      PROVE  c \in EnabledIn(Current')
  <2>1. UpsertProfile(q, row) /\ Valid(WithProfile(Current, q, row))
    BY <1>7 DEF UpsertProfileEntity
  <2>2. c \in row.defaults /\ channel' = channel
    BY <1>3, <2>1
  <2>3. /\ q \in ProfilesOf(WithProfile(Current, q, row))
        /\ WithProfile(Current, q, row).profile[q] = row
    BY <1>0, NoProfileAssumption DEF StoreTypeOK, Current, WithProfile, ProfilesOf
  <2>4. c \in EnabledIn(WithProfile(Current, q, row))
    BY <2>1, <2>2, <2>3 DEF Valid
  <2> QED
    BY <2>2, <2>4 DEF EnabledIn, WithProfile, Current
<1>8. CASE DropProfile \/ DropChannel
  <2>1. put # NoPut /\ TypeOK
    BY <1>8 DEF DropProfile, DropChannel, AdminInv
  <2> QED
    BY <1>4, <1>5, <1>8, <2>1, PutTyped DEF DropProfile, DropChannel
<1>9. CASE EntityOperation
  BY <1>2, <1>4, <1>5, <1>7, <1>9 DEF EntityOperation, UpsertChannelEntity, UpsertChannel,
     DeleteChannelEntity, DeleteProfileEntity
<1>10. CASE \/ WriteChannel \/ WriteProfileClashes \/ FinishPut \/ AbortPut
            \/ \E want \in Wanted : BeginPut(want) \/ RejectPut(want)
  BY <1>2, <1>10 DEF WriteChannel, UpsertChannel, WriteProfileClashes, FinishPut, AbortPut,
     BeginPut, RejectPut, vars, store
<1> QED
  BY <1>6, <1>8, <1>9, <1>10 DEF Next, ApplyPut

\* Every write is one operator of the repositories.
LEMMA EveryWrite ==
  ASSUME AdminInv, Next
  PROVE  \/ UNCHANGED store
         \/ channel' = channel
         \/ \A p \in ProfileId : DefaultsOf(p)' = DefaultsOf(p)
         \/ \E d \in Channel : DeleteChannel(d)
<1>0. StoreTypeOK
  BY DEF AdminInv, TypeOK
<1>1. CASE WriteChannel
  BY <1>1 DEF WriteChannel, UpsertChannel, DefaultsOf
<1>2. CASE WriteProfile \/ DropProfile
  BY <1>2 DEF WriteProfile, DropProfile, UpsertProfile, DeleteProfile
<1>3. CASE DropChannel
  <2>1. put # NoPut /\ TypeOK
    BY <1>3 DEF DropChannel, AdminInv
  <2> QED
    BY <1>3, <2>1, PutTyped DEF DropChannel
<1>4. CASE EntityOperation
  BY <1>4 DEF EntityOperation, UpsertChannelEntity, UpsertChannel, DeleteChannelEntity,
     UpsertProfileEntity, UpsertProfile, DeleteProfileEntity, DeleteProfile, DefaultsOf
<1>5. CASE \/ WriteProfileClashes \/ FinishPut \/ AbortPut
           \/ \E want \in Wanted : BeginPut(want) \/ RejectPut(want)
  BY <1>5 DEF WriteProfileClashes, FinishPut, AbortPut, BeginPut, RejectPut, vars, store
<1> QED
  BY <1>1, <1>2, <1>3, <1>4, <1>5 DEF Next, ApplyPut

(***************************************************************************)
(* One write after the listing, and the defaults as they are now, are the  *)
(* right answer either before the write or after it.                       *)
(***************************************************************************)
LEMMA OneWriteBetween ==
  ASSUME AdminInv, Next, NEW p \in ProfileId
  PROVE  DefaultsOf(p)' \cap EnabledIn(Current)
           \in {DefaultsOf(p) \cap EnabledIn(Current), DefaultsOf(p)' \cap EnabledIn(Current')}
<1>0. StoreTypeOK
  BY DEF AdminInv, TypeOK
<1>1. CASE UNCHANGED store \/ channel' = channel
  BY <1>1 DEF store, EnabledIn, Current
<1>2. CASE \A q \in ProfileId : DefaultsOf(q)' = DefaultsOf(q)
  BY <1>2
<1>3. ASSUME NEW d \in Channel, DeleteChannel(d)
      PROVE  DefaultsOf(p)' \cap EnabledIn(Current) = DefaultsOf(p)' \cap EnabledIn(Current')
  <2>1. EnabledIn(Current') = EnabledIn(Current) \ {d}
    BY <1>0, <1>3 DEF DeleteChannel, EnabledIn, Current, StoreTypeOK
  <2>2. d \notin DefaultsOf(p)'
    <3>1. CASE profile[p] = NoProfile
      BY <1>3, <3>1 DEF DeleteChannel, DefaultsOf
    <3>2. CASE profile[p] # NoProfile
      <4>1. profile[p] \in Row
        BY <1>0, <3>2 DEF StoreTypeOK
      <4>2. profile'[p] = [profile[p] EXCEPT !.defaults = @ \ {d}]
        BY <1>3, <3>2 DEF DeleteChannel
      <4>3. profile'[p].defaults = profile[p].defaults \ {d}
        BY <4>1, <4>2, RowCut
      <4> QED
        BY <4>3 DEF DefaultsOf
    <3> QED
      BY <3>1, <3>2
  <2> QED
    BY <2>1, <2>2
<1> QED
  BY <1>1, <1>2, <1>3, EveryWrite

LEMMA InitRead == ReadInit => ReadInv
BY DEF ReadInit, ReadInv, ReadTypeOK, NoPhantomTarget, OneWriteIsAtomic, DefaultsWereSeen, NoRead

\* What a profile's defaults are.
LEMMA DefaultsTyped ==
  ASSUME StoreTypeOK, NEW p \in ProfileId
  PROVE  /\ DefaultsOf(p) \subseteq Channel
         /\ TargetsOf(Current, p) = DefaultsOf(p) \cap EnabledIn(Current)
BY DEF StoreTypeOK, DefaultsOf, Row, TargetsOf, Current

LEMMA ReadStep == AdminInv /\ ReadInv /\ [ReadNext]_readVars => ReadInv'
<1> SUFFICES ASSUME AdminInv, ReadInv, [ReadNext]_readVars
             PROVE  ReadInv'
  OBVIOUS
<1>0. StoreTypeOK /\ read \in {NoRead} \cup Reading \cup Resolved
  BY DEF AdminInv, TypeOK, ReadInv, ReadTypeOK
<1>1. CASE UNCHANGED readVars
  BY <1>1 DEF readVars, ReadInv, ReadTypeOK, NoPhantomTarget, OneWriteIsAtomic,
                   DefaultsWereSeen, DefaultsOf, EnabledIn, Current
<1>2. ASSUME NEW p \in ProfileId, ReadEnabled(p)
      PROVE  ReadInv'
  <2>1. DefaultsOf(p)' = DefaultsOf(p)
    BY <1>2 DEF ReadEnabled, vars, DefaultsOf
  <2>2. UNION moments' = DefaultsOf(p) \cap EnabledIn(Current)
    BY <1>0, <1>2, DefaultsTyped DEF ReadEnabled
  <2>4. /\ moments' = {DefaultsOf(p) \cap EnabledIn(Current)} /\ writes' = 0
        /\ EnabledIn(Current)' = EnabledIn(Current)
    BY <1>0, <1>2, DefaultsTyped DEF ReadEnabled, vars, EnabledIn, Current
  <2>3. read' \in Reading /\ moments' \subseteq SUBSET Channel
    BY <1>0, <1>2, DefaultsTyped DEF ReadEnabled, Reading, EnabledIn
  <2> QED
    BY <1>2, <2>1, <2>2, <2>3, <2>4 DEF ReadEnabled, ReadInv, ReadTypeOK, NoPhantomTarget,
                                        OneWriteIsAtomic, DefaultsWereSeen
<1>3. CASE ReadProfileRow
  <2>1. /\ read \in Reading /\ read.pc = "enabled" /\ read.profile \in ProfileId
        /\ UNCHANGED <<channel, profile, moments, writes>>
    BY <1>0, <1>3 DEF ReadProfileRow, vars, NoRead, Resolved, Reading
  <2>2. CASE profile[read.profile] = NoProfile
    <3>1. DefaultsOf(read.profile) \cap read.enabled = {}
      BY <2>2 DEF DefaultsOf
    <3>2. read' = [pc |-> "resolved", targets |-> {}]
      BY <1>3, <2>2 DEF ReadProfileRow
    <3> QED
      BY <2>1, <3>1, <3>2 DEF Resolved, ReadInv, ReadTypeOK, NoPhantomTarget,
                              OneWriteIsAtomic, DefaultsWereSeen
  <2>3. CASE profile[read.profile] # NoProfile
    <3>1. /\ read' \in Reading /\ read'.pc = "row"
          /\ read'.profile = read.profile /\ read'.enabled = read.enabled
      BY <1>3, <2>1, <2>3 DEF ReadProfileRow, Reading
    <3>2. /\ DefaultsOf(read.profile)' = DefaultsOf(read.profile)
          /\ EnabledIn(Current)' = EnabledIn(Current)
      BY <2>1, <3>1 DEF DefaultsOf, EnabledIn, Current
    <3> QED
      BY <2>1, <3>1, <3>2 DEF ReadInv, ReadTypeOK, NoPhantomTarget,
                              OneWriteIsAtomic, DefaultsWereSeen
  <2> QED
    BY <2>2, <2>3
<1>4. CASE ReadDefaults
  <2>1. read \in Reading
    BY <1>0, <1>4 DEF ReadDefaults, NoRead, Resolved
  <2> QED
    BY <1>4, <2>1 DEF ReadDefaults, vars, Reading, Resolved, ReadInv, ReadTypeOK,
                      NoPhantomTarget, OneWriteIsAtomic, DefaultsWereSeen
<1>5. CASE EndRead
  BY <1>5 DEF EndRead, NoRead, ReadInv, ReadTypeOK, NoPhantomTarget, OneWriteIsAtomic,
              DefaultsWereSeen
<1>6. CASE AdminStep
  <2>1. CASE read.pc \notin {"enabled", "row"}
    BY <1>6, <2>1 DEF AdminStep, ReadInv, ReadTypeOK, NoPhantomTarget, OneWriteIsAtomic,
                      DefaultsWereSeen
  <2>2. CASE read.pc \in {"enabled", "row"}
    <3>1. read \in Reading /\ read.profile \in ProfileId
      BY <1>0, <2>2 DEF NoRead, Resolved, Reading
    <3>2. StoreTypeOK'
      BY <1>6, TypeStep DEF AdminStep, AdminInv, TypeOK
    <3>3. /\ moments' = moments \cup {TargetsOf(Current', read.profile)}
          /\ read' = read
      BY <1>6, <2>2 DEF AdminStep
    <3>4. /\ DefaultsOf(read.profile)' \subseteq Channel
          /\ TargetsOf(Current', read.profile) = DefaultsOf(read.profile)' \cap EnabledIn(Current')
      BY <3>1, <3>2, <3>3 DEF StoreTypeOK, DefaultsOf, Row, TargetsOf, Current
    <3>5. ASSUME NEW c \in DefaultsOf(read.profile)' \cap read.enabled
          PROVE  c \in UNION moments'
      <4>1. CASE c \in DefaultsOf(read.profile)
        BY <2>2, <3>3, <4>1 DEF ReadInv, DefaultsWereSeen
      <4>2. CASE c \notin DefaultsOf(read.profile)
        <5>1. profile'[read.profile] # NoProfile /\ c \in profile'[read.profile].defaults
          BY <3>3 DEF DefaultsOf
        <5>2. c \in EnabledIn(Current')
          BY <1>6, <3>1, <4>2, <5>1, NewDefaultsAreEnabled DEF AdminStep
        <5> QED
          BY <3>3, <3>4, <5>2
      <4> QED
        BY <4>1, <4>2
    <3>6. writes' = IF store' = store THEN writes ELSE IF writes = 0 THEN 1 ELSE 2
      BY <1>6, <2>2 DEF AdminStep
    <3>7. ReadTypeOK'
      BY <3>1, <3>3, <3>4, <3>6 DEF ReadInv, ReadTypeOK
    <3>8. ASSUME writes' < 2
          PROVE  DefaultsOf(read.profile)' \cap read.enabled \in moments'
      <4>1. CASE store' = store
        <5>1. writes < 2 /\ DefaultsOf(read.profile)' = DefaultsOf(read.profile)
          BY <3>3, <3>6, <3>8, <4>1 DEF store, DefaultsOf
        <5> QED
          BY <2>2, <3>3, <5>1 DEF ReadInv, DefaultsWereSeen
      <4>2. CASE store' # store
        <5>1. writes = 0
          BY <3>6, <3>8, <4>2 DEF ReadInv, ReadTypeOK
        <5>2. /\ read.enabled = EnabledIn(Current)
              /\ DefaultsOf(read.profile) \cap read.enabled \in moments
          BY <2>2, <5>1 DEF ReadInv, DefaultsWereSeen
        <5>3. DefaultsOf(read.profile)' \cap EnabledIn(Current)
                \in {DefaultsOf(read.profile) \cap EnabledIn(Current),
                     DefaultsOf(read.profile)' \cap EnabledIn(Current')}
          <6>1. \A p \in ProfileId :
                  DefaultsOf(p)' \cap EnabledIn(Current)
                    \in {DefaultsOf(p) \cap EnabledIn(Current),
                         DefaultsOf(p)' \cap EnabledIn(Current')}
            BY <1>6, OneWriteBetween DEF AdminStep
          <6> QED
            BY <3>1, <3>3, <6>1 DEF DefaultsOf
        <5> QED
          BY <3>3, <3>4, <5>2, <5>3
      <4> QED
        BY <4>1, <4>2
    <3>9. ASSUME writes' = 0
          PROVE  read.enabled = EnabledIn(Current)'
      <4>1. writes = 0 /\ store' = store
        BY <3>6, <3>9
      <4>2. read.enabled = EnabledIn(Current)
        BY <2>2, <4>1 DEF ReadInv, DefaultsWereSeen
      <4> QED
        BY <4>1, <4>2 DEF store, EnabledIn, Current
    <3>10. DefaultsWereSeen'
      BY <3>3, <3>5, <3>8, <3>9 DEF DefaultsWereSeen
    <3> QED
      BY <2>2, <3>3, <3>7, <3>10 DEF ReadInv, NoPhantomTarget, OneWriteIsAtomic
  <2> QED
    BY <2>1, <2>2
<1> QED
  BY <1>1, <1>2, <1>3, <1>4, <1>5, <1>6 DEF ReadNext

\* The inductive invariant of the reads of handleDispatch.
THEOREM ReadInvariant == ReadSpec => []ReadInv
<1>1. ReadSpec => []AdminInv
  BY ReadersImplementAdmin, AdminInvariant, PTL
<1> QED
  BY <1>1, InitRead, ReadStep, PTL DEF ReadSpec

(***************************************************************************)
(* handleDispatch resolves no channel that was not an enabled default of   *)
(* the profile at some moment of its reads, whatever is saved meanwhile.   *)
(***************************************************************************)
THEOREM ReadsAreReal == ReadSpec => []NoPhantomTarget
<1>1. ReadInv => NoPhantomTarget
  BY DEF ReadInv
<1> QED
  BY <1>1, ReadInvariant, PTL

\* A read of handleDispatch that at most one row is written during is atomic.
THEOREM ReadsAreAtomic == ReadSpec => []OneWriteIsAtomic
<1>1. ReadInv => OneWriteIsAtomic
  BY DEF ReadInv
<1> QED
  BY <1>1, ReadInvariant, PTL
=============================================================================
