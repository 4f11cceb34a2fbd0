------------------------------ MODULE BootProofs ------------------------------
(***************************************************************************)
(* Seeding and the install id, for every environment and any number of     *)
(* processes, crashes and edits.                                           *)
(***************************************************************************)
EXTENDS Boot, AdminConfigProofs, SequenceTheorems

\* No two names of TOKENS give one id: a later one would overwrite the earlier.
SlugsDistinct ==
  \A m, n \in DOMAIN Tokens : Slug[Tokens[m].name] = Slug[Tokens[n].name] => m = n

-----------------------------------------------------------------------------
(* The rows of the environment *)

LEMMA ChannelRows ==
  ASSUME channelsEnabled \in ChannelLists
  PROVE  /\ Len(SeedChannels) \in Nat /\ Len(SeedChannels) = Len(channelsEnabled)
         /\ \A n \in 1..Len(SeedChannels) :
              /\ SeedChannels[n].id \in Channel
              /\ SeedChannels[n].setting \in Setting \ {"absent"}
              /\ SeedChannels[n].id = channelsEnabled[n]
         /\ \A m, n \in 1..Len(SeedChannels) :
              SeedChannels[m].id = SeedChannels[n].id =>
                SeedChannels[m].setting = SeedChannels[n].setting
         /\ CreatedIds = {SeedChannels[n].id : n \in 1..Len(SeedChannels)}
<1> DEFINE L == Len(channelsEnabled)
           e(n) == [id |-> channelsEnabled[n],
                    setting |-> IF channelsEnabled[n] \in HasKeys THEN "enabled" ELSE "disabled"]
           s == [n \in 1..L |-> e(n)]
<1>1. L \in Nat /\ DOMAIN channelsEnabled = 1..L /\ \A n \in 1..L : channelsEnabled[n] \in Channel
  BY SeedAssumption
<1>2. SeedChannels = s
  BY <1>1 DEF SeedChannels
<1>3. s \in [1..L -> [id : Channel, setting : {"enabled", "disabled"}]]
  BY <1>1
<1>4. s \in Seq([id : Channel, setting : {"enabled", "disabled"}])
  BY <1>1, <1>3, SeqDef
<1>5. Len(s) = L
  <2>1. Len(s) \in Nat /\ DOMAIN s = 1..Len(s)
    BY <1>4, LenProperties
  <2>2. DOMAIN s = 1..L
    OBVIOUS
  <2> QED
    BY <1>1, <2>1, <2>2
<1>6. \A n \in 1..L : s[n].id = channelsEnabled[n]
                      /\ s[n].setting = (IF channelsEnabled[n] \in HasKeys THEN "enabled" ELSE "disabled")
  OBVIOUS
<1> HIDE DEF s
<1>7. CreatedIds = {s[n].id : n \in 1..L}
  BY <1>1, <1>6 DEF CreatedIds
<1> QED
  BY <1>1, <1>2, <1>5, <1>6, <1>7 DEF Setting

LEMMA ProfileRows ==
  /\ Len(SeedProfiles) \in Nat /\ Len(SeedProfiles) = Len(Tokens)
  /\ \A n \in 1..Len(SeedProfiles) :
       /\ SeedProfiles[n].id \in ProfileId
       /\ SeedProfiles[n].row \in Row
       /\ SeedProfiles[n].row.defaults \subseteq CreatedIds
       /\ SeedProfiles[n].id = Slug[Tokens[n].name]
  /\ DOMAIN Tokens = 1..Len(SeedProfiles)
<1> DEFINE L == Len(Tokens)
           e(n) == [id |-> Slug[Tokens[n].name],
                    row |-> [token |-> Tokens[n].token, defaults |-> Tokens[n].defaults \cap CreatedIds]]
           s == [n \in 1..L |-> e(n)]
<1>1. L \in Nat /\ DOMAIN Tokens = 1..L
      /\ \A n \in 1..L : Tokens[n] \in [name : DOMAIN Slug, token : Token, defaults : SUBSET Channel]
  <2>1. Tokens \in Seq([name : DOMAIN Slug, token : Token, defaults : SUBSET Channel])
    BY SeedAssumption
  <2> QED
    BY <2>1, LenProperties, ElementOfSeq
<1>2. SeedProfiles = s
  BY <1>1 DEF SeedProfiles
<1>3. \A n \in 1..L : e(n) \in [id : ProfileId, row : Row]
  BY <1>1, SeedAssumption DEF Row
<1>4. s \in [1..L -> [id : ProfileId, row : Row]]
  BY <1>3
<1>5. Len(s) = L
  <2>1. s \in Seq([id : ProfileId, row : Row])
    BY <1>1, <1>4, SeqDef
  <2>2. Len(s) \in Nat /\ DOMAIN s = 1..Len(s)
    BY <2>1, LenProperties
  <2>3. DOMAIN s = 1..L
    OBVIOUS
  <2> QED
    BY <1>1, <2>2, <2>3
<1>6. \A n \in 1..L :
        /\ s[n] \in [id : ProfileId, row : Row]
        /\ s[n].id = Slug[Tokens[n].name]
        /\ s[n].row.defaults = Tokens[n].defaults \cap CreatedIds
  BY <1>3
<1> HIDE DEF s
<1>7. \A n \in 1..L : /\ s[n].id \in ProfileId /\ s[n].row \in Row
                      /\ s[n].row.defaults \subseteq CreatedIds
                      /\ s[n].id = Slug[Tokens[n].name]
  BY <1>6
<1> QED
  BY <1>1, <1>2, <1>5, <1>7

LEMMA SeedsCount ==
  ASSUME channelsEnabled \in ChannelLists
  PROVE  /\ Seeds \in Nat /\ Seeds = Len(SeedChannels) + Len(SeedProfiles)
         /\ channelsEnabled # <<>> => Len(SeedChannels) > 0
<1>1. channelsEnabled \in Seq(Channel)
  BY SeedAssumption
<1>2. Len(channelsEnabled) \in Nat /\ (channelsEnabled = <<>> <=> Len(channelsEnabled) = 0)
  BY <1>1, EmptySeq, LenProperties
<1>3. Len(SeedChannels) = Len(channelsEnabled)
  BY ChannelRows
<1>4. Len(SeedProfiles) = Len(Tokens) /\ Len(Tokens) \in Nat
  BY ProfileRows
<1> QED
  BY <1>2, <1>3, <1>4 DEF Seeds

\* The environment stays, and so does the seed.
LEMMA SameSeed ==
  ASSUME channelsEnabled' = channelsEnabled
  PROVE  /\ SeedChannels' = SeedChannels /\ SeedProfiles' = SeedProfiles
         /\ CreatedIds' = CreatedIds /\ Seeds' = Seeds
BY DEF SeedChannels, SeedProfiles, CreatedIds, Seeds

-----------------------------------------------------------------------------
(* One row of the seed *)

\* What a written row is, and what it leaves as it was.
LEMMA ChannelSeed ==
  ASSUME BootTypeOK, DefaultsExist, TokensUnique, NEW n \in 1..Len(SeedChannels), SeedRow(n),
         channelsEnabled' = channelsEnabled
  PROVE  /\ StoreTypeOK' /\ DefaultsExist' /\ TokensUnique'
         /\ Instances(Current)' # {}
         /\ ChannelSeeded(n)'
         /\ \A m \in 1..Len(SeedChannels) : ChannelSeeded(m) => ChannelSeeded(m)'
         /\ \A m \in 1..Len(SeedProfiles) : ProfileSeeded(m) => ProfileSeeded(m)'
<1>e. channelsEnabled \in ChannelLists
  BY DEF BootTypeOK
<1> USE <1>e
<1>s. /\ SeedChannels' = SeedChannels /\ SeedProfiles' = SeedProfiles
      /\ CreatedIds' = CreatedIds /\ Seeds' = Seeds
  BY SameSeed
<1> USE <1>s
<1> DEFINE c == SeedChannels[n].id
           setting == SeedChannels[n].setting
<1>1. c \in Channel /\ setting \in Setting \ {"absent"}
  BY ChannelRows
<1>2. UpsertChannel(c, setting)
  BY ChannelRows DEF SeedRow, SeedChannel
<1>3. StoreTypeOK' /\ DefaultsExist' /\ TokensUnique'
  BY <1>1, <1>2, UpsertChannelTyped, UpsertChannelKeeps DEF BootTypeOK
<1>4. channel' = [channel EXCEPT ![c] = setting] /\ profile' = profile /\ channel \in [Channel -> Setting]
  BY <1>2 DEF UpsertChannel, BootTypeOK, StoreTypeOK
<1>5. channel'[c] = setting
  BY <1>1, <1>4
<1>6. c \in Instances(Current)'
  BY <1>1, <1>5 DEF Instances, Current
<1>7. \A m \in 1..Len(SeedChannels) : ChannelSeeded(m) => ChannelSeeded(m)'
  BY <1>4, <1>5, ChannelRows DEF ChannelSeeded
<1> QED
  BY <1>3, <1>4, <1>5, <1>6, <1>7 DEF ChannelSeeded, ProfileSeeded

LEMMA ProfileSeed ==
  ASSUME SlugsDistinct, BootTypeOK, DefaultsExist, TokensUnique,
         NEW n \in 1..Len(SeedProfiles), SeedRow(n + Len(SeedChannels)),
         channelsEnabled' = channelsEnabled
  PROVE  /\ StoreTypeOK' /\ DefaultsExist' /\ TokensUnique'
         /\ Instances(Current)' = Instances(Current)
         /\ (\A m \in 1..Len(SeedChannels) : ChannelSeeded(m)) => ProfileSeeded(n)'
         /\ \A m \in 1..Len(SeedChannels) : ChannelSeeded(m) => ChannelSeeded(m)'
         /\ \A m \in 1..Len(SeedProfiles) \ {n} : ProfileSeeded(m) => ProfileSeeded(m)'
<1>e. channelsEnabled \in ChannelLists
  BY DEF BootTypeOK
<1> USE <1>e
<1>s. /\ SeedChannels' = SeedChannels /\ SeedProfiles' = SeedProfiles
      /\ CreatedIds' = CreatedIds /\ Seeds' = Seeds
  BY SameSeed
<1> USE <1>s
<1> DEFINE p == SeedProfiles[n].id
           row == SeedProfiles[n].row
<1>1. p \in ProfileId /\ row \in Row /\ row.defaults \subseteq CreatedIds
  BY ProfileRows
<1>2. UpsertProfile(p, row)
  <2>1. Len(SeedChannels) \in Nat /\ n \in Nat /\ n > 0
    BY ChannelRows, ProfileRows
  <2>2. n + Len(SeedChannels) > Len(SeedChannels) /\ n + Len(SeedChannels) - Len(SeedChannels) = n
    BY <2>1
  <2>3. ~ (n + Len(SeedChannels) <= Len(SeedChannels))
    BY <2>1, <2>2
  <2> QED
    BY <2>2, <2>3 DEF SeedRow, SeedProfile
<1>3. StoreTypeOK' /\ DefaultsExist' /\ TokensUnique'
  BY <1>1, <1>2, UpsertProfileTyped, UpsertProfileKeeps DEF BootTypeOK
<1>4. /\ profile' = [profile EXCEPT ![p] = [row EXCEPT !.defaults = @ \cap Instances(Current)]]
      /\ channel' = channel /\ profile \in [ProfileId -> {NoProfile} \cup Row]
  BY <1>2 DEF UpsertProfile, BootTypeOK, StoreTypeOK
<1>5. ASSUME \A m \in 1..Len(SeedChannels) : ChannelSeeded(m)
      PROVE  ProfileSeeded(n)'
  <2>1. CreatedIds \subseteq Instances(Current)
    BY <1>5, ChannelRows DEF ChannelSeeded, Instances, Current
  <2>2. row.defaults \cap Instances(Current) = row.defaults
    BY <1>1, <2>1
  <2>3. [row EXCEPT !.defaults = @ \cap Instances(Current)] = row
    BY <1>1, <2>2 DEF Row
  <2> QED
    BY <1>1, <1>4, <2>3 DEF ProfileSeeded
<1>6. \A m \in 1..Len(SeedProfiles) \ {n} : SeedProfiles[m].id # p
  BY ProfileRows DEF SlugsDistinct
<1>7. \A m \in 1..Len(SeedProfiles) \ {n} : ProfileSeeded(m) => ProfileSeeded(m)'
  BY <1>4, <1>6 DEF ProfileSeeded
<1> QED
  BY <1>3, <1>4, <1>5, <1>7 DEF ChannelSeeded, Instances, Current

-----------------------------------------------------------------------------
(* The steps *)

LEMMA InitBoot == BootInit => BootInv
<1> SUFFICES ASSUME BootInit
             PROVE  BootInv
  OBVIOUS
<1>e. channelsEnabled \in ChannelLists
  BY DEF BootInit
<1> USE <1>e
<1>1. AdminInv
  BY InitAdmin DEF BootInit
<1>2. BootTypeOK
  <2>1. [pc |-> "check", done |-> 0] \in [pc : {"check", "seed", "id", "insert", "up", "down"}, done : 0..Seeds]
    BY SeedsCount
  <2>2. StoreTypeOK
    BY <1>1 DEF AdminInv, TypeOK
  <2>3. BootTypeOK
    <3>1. proc \in [Process -> [pc : {"check", "seed", "id", "insert", "up", "down"}, done : 0..Seeds]]
      BY <2>1 DEF BootInit
    <3>2. put = NoPut /\ torn = FALSE /\ edited = FALSE /\ emptied = FALSE /\ cut = FALSE
      BY DEF BootInit, Init
    <3>3. crashes \in 0..MaxCrashes /\ edits \in 0..MaxEdits
      BY SeedAssumption DEF BootInit
    <3>4. telemetry \in {"none"} \cup Process /\ distinctId \in [Process -> {"none"} \cup Process]
      BY DEF BootInit
    <3> QED
      BY <2>2, <3>1, <3>2, <3>3, <3>4 DEF BootTypeOK
  <2> QED
    BY <2>3
<1>3. Instances(Current) = {}
  BY DEF BootInit, Init, EmptyStore, Instances, Current
<1> QED
  BY <1>1, <1>2, <1>3 DEF AdminInv, BootInv, BootInit, SeedProgress, OneInstallId,
     ReseedsOnlyEmptied, StartedFull

\* A step of one process that writes no row.
LEMMA QuietStep ==
  ASSUME BootInv, NEW i \in Process,
         NEW r \in [pc : {"check", "seed", "id", "insert", "up", "down"}, done : 0..Seeds],
         proc' = [proc EXCEPT ![i] = r],
         UNCHANGED <<store, outside, edits, saves>>,
         cut' \in BOOLEAN, cut => cut', crashes' \in 0..MaxCrashes,
         telemetry' \in {"none"} \cup Process, distinctId' \in [Process -> {"none"} \cup Process],
         OneInstallId',
         proc[i].pc = "seed" /\ r.pc # "seed" => cut' \/ proc[i].done = Seeds,
         r.pc = "seed" => r.done = 0 /\ Instances(Current) = {},
         r.pc \in {"id", "insert", "up"} =>
           \/ proc[i].pc \in {"id", "insert"}
           \/ proc[i].pc = "seed" /\ proc[i].done = Seeds
           \/ Instances(Current) # {}
  PROVE  BootInv'
<1>e. channelsEnabled \in ChannelLists
  BY DEF BootInv, BootTypeOK
<1> USE <1>e
<1>s. /\ SeedChannels' = SeedChannels /\ SeedProfiles' = SeedProfiles
      /\ CreatedIds' = CreatedIds /\ Seeds' = Seeds /\ channelsEnabled' = channelsEnabled
  BY SameSeed DEF outside
<1> USE <1>s
<1>1. /\ proc \in [Process -> [pc : {"check", "seed", "id", "insert", "up", "down"}, done : 0..Seeds]]
      /\ BootTypeOK /\ DefaultsExist /\ TokensUnique /\ StartedFull
  BY DEF BootInv, BootTypeOK
<1>2. /\ proc' \in [Process -> [pc : {"check", "seed", "id", "insert", "up", "down"}, done : 0..Seeds]]
      /\ proc'[i] = r /\ \A j \in Process \ {i} : proc'[j] = proc[j]
  BY <1>1
<1>3. UNCHANGED <<channel, profile, put, torn, edits, edited, emptied>>
  BY DEF store, outside, saves
<1>4. BootTypeOK' /\ DefaultsExist' /\ TokensUnique'
  BY <1>1, <1>2, <1>3 DEF BootTypeOK, StoreTypeOK, DefaultsExist, TokensUnique, Instances, Current
<1>5. Instances(Current)' = Instances(Current) /\ IsSeeded' = IsSeeded
      /\ \A n : ChannelSeeded(n)' = ChannelSeeded(n) /\ ProfileSeeded(n)' = ProfileSeeded(n)
  BY <1>3 DEF Instances, Current, IsSeeded, ChannelSeeded, ProfileSeeded
<1>6. SeedProgress'
  <2> SUFFICES ASSUME edits = 0
               PROVE  SeedProgress'
    BY <1>3 DEF SeedProgress
  <2>1. \A j \in Process : proc[j].pc = "seed" =>
          /\ \A n \in 1..Len(SeedChannels) : n <= proc[j].done => ChannelSeeded(n)
          /\ \A n \in 1..Len(SeedProfiles) : n + Len(SeedChannels) <= proc[j].done => ProfileSeeded(n)
    BY DEF BootInv, SeedProgress
  <2>2. \A j \in Process : proc'[j].pc = "seed" =>
          /\ \A n \in 1..Len(SeedChannels) : n <= proc'[j].done => ChannelSeeded(n)
          /\ \A n \in 1..Len(SeedProfiles) : n + Len(SeedChannels) <= proc'[j].done => ProfileSeeded(n)
    <3>1. \A n \in 1..Len(SeedChannels) : ~ n <= 0
      BY ChannelRows
    <3>2. \A n \in 1..Len(SeedProfiles) : ~ n + Len(SeedChannels) <= 0
      BY ChannelRows, ProfileRows
    <3> QED
      BY <1>2, <2>1, <3>1, <3>2
  <2>3. \/ cut
        \/ IsSeeded
        \/ \E j \in Process : proc[j].pc = "seed"
        \/ Instances(Current) = {} /\ \A j \in Process : proc[j].pc \in {"check", "down"}
    BY DEF BootInv, SeedProgress
  <2>4. proc[i].pc = "seed" /\ proc[i].done = Seeds => IsSeeded
    <3>1. \A n \in 1..Len(SeedChannels) : n <= Seeds
      BY ChannelRows, ProfileRows, SeedsCount
    <3>2. \A n \in 1..Len(SeedProfiles) : n + Len(SeedChannels) <= Seeds
      BY ChannelRows, ProfileRows, SeedsCount
    <3> QED
      BY <2>1, <3>1, <3>2 DEF IsSeeded
  <2>5. \/ cut'
        \/ IsSeeded
        \/ \E j \in Process : proc'[j].pc = "seed"
        \/ Instances(Current) = {} /\ \A j \in Process : proc'[j].pc \in {"check", "down"}
    <3>1. CASE cut \/ IsSeeded
      BY <3>1
    <3>2. ASSUME NEW j \in Process, proc[j].pc = "seed"
          PROVE  cut' \/ IsSeeded \/ \E k \in Process : proc'[k].pc = "seed"
      BY <1>2, <2>4, <3>2
    <3>3. CASE Instances(Current) = {} /\ \A j \in Process : proc[j].pc \in {"check", "down"}
      <4>1. r.pc \in {"check", "down", "seed"}
        BY <3>3
      <4> QED
        BY <1>2, <3>3, <4>1
    <3> QED
      BY <2>3, <3>1, <3>2, <3>3
  <2> QED
    BY <1>5, <2>2, <2>5 DEF SeedProgress
<1>7. StartedFull'
  <2> SUFFICES ASSUME channelsEnabled # <<>>, ~ emptied
               PROVE  /\ edited => Instances(Current) # {}
                      /\ \A j \in Process :
                           proc'[j].pc \in {"id", "insert", "up"} \/ (proc'[j].pc = "seed" /\ proc'[j].done > 0)
                             => Instances(Current) # {}
    BY <1>3, <1>5 DEF StartedFull
  <2>1. Seeds > 0
    BY SeedsCount, ChannelRows, ProfileRows
  <2> QED
    BY <1>1, <1>2, <2>1 DEF StartedFull
<1>8. ReseedsOnlyEmptied'
  <2>1. ReseedsOnlyEmptied
    BY DEF BootInv
  <2> QED
    BY <1>1, <1>2, <1>3, <2>1 DEF ReseedsOnlyEmptied, StartedFull
<1> QED
  BY <1>4, <1>6, <1>7, <1>8 DEF BootInv

LEMMA QuietActions ==
  ASSUME BootInv, NEW i \in Process,
         \/ CheckEmpty(i) \/ SeedClashes(i) \/ SeedDone(i)
         \/ ReadInstallId(i) \/ InsertInstallId(i) \/ InsertClashes(i)
         \/ Restart(i) \/ Crash(i)
  PROVE  BootInv'
<1>e. channelsEnabled \in ChannelLists
  BY DEF BootInv, BootTypeOK
<1> USE <1>e
<1> DEFINE Proc == [pc : {"check", "seed", "id", "insert", "up", "down"}, done : 0..Seeds]
<1>0. /\ proc \in [Process -> Proc] /\ proc[i] \in Proc /\ 0 \in 0..Seeds
      /\ telemetry \in {"none"} \cup Process
      /\ distinctId \in [Process -> {"none"} \cup Process]
      /\ crashes \in 0..MaxCrashes /\ MaxCrashes \in Nat
      /\ cut \in BOOLEAN /\ OneInstallId
  BY SeedsCount, SeedAssumption DEF BootInv, BootTypeOK
<1>1. UNCHANGED <<store, outside, edits, saves>>
  BY DEF CheckEmpty, SeedClashes, SeedDone, ReadInstallId, InsertInstallId, InsertClashes, Restart,
     Crash
<1>2. CASE CheckEmpty(i)
  <2> DEFINE r == [pc |-> IF Instances(Current) = {} THEN "seed" ELSE "id", done |-> 0]
  <2>1. r \in Proc
    BY <1>0
  <2>2. proc[i].pc = "check" /\ proc' = [proc EXCEPT ![i] = r]
        /\ UNCHANGED <<telemetry, distinctId, crashes, cut>>
    BY <1>2 DEF CheckEmpty
  <2>3. OneInstallId'
    BY <1>0, <2>2 DEF OneInstallId
  <2> QED
    BY <1>0, <1>1, <2>1, <2>2, <2>3, QuietStep
<1>3. CASE SeedClashes(i) \/ InsertClashes(i)
  <2>1. Down \in Proc /\ Down.pc = "down"
    BY <1>0 DEF Down
  <2>2. proc' = [proc EXCEPT ![i] = Down] /\ UNCHANGED <<telemetry, distinctId, crashes>>
        /\ (cut' = TRUE \/ (cut' = cut /\ proc[i].pc = "insert"))
    BY <1>3 DEF SeedClashes, InsertClashes
  <2>3. OneInstallId'
    BY <1>0, <2>1, <2>2 DEF OneInstallId
  <2>4. cut' \in BOOLEAN /\ (cut => cut')
    BY <1>0, <2>2
  <2> QED
    BY <1>0, <1>1, <2>1, <2>2, <2>3, <2>4, QuietStep
<1>4. CASE Crash(i)
  <2>1. Down \in Proc /\ Down.pc = "down"
    BY <1>0 DEF Down
  <2>2. proc' = [proc EXCEPT ![i] = Down] /\ UNCHANGED <<telemetry, distinctId>>
        /\ cut' = (cut \/ proc[i].pc = "seed") /\ crashes' = crashes + 1 /\ crashes < MaxCrashes
    BY <1>4 DEF Crash
  <2>3. OneInstallId'
    BY <1>0, <2>1, <2>2 DEF OneInstallId
  <2>4. cut' \in BOOLEAN /\ (cut => cut') /\ (proc[i].pc = "seed" => cut')
    BY <1>0, <2>2
  <2>5. crashes' \in 0..MaxCrashes
    BY <1>0, <2>2
  <2> QED
    BY <1>0, <1>1, <2>1, <2>2, <2>3, <2>4, <2>5, QuietStep
<1>5. CASE SeedDone(i)
  <2> DEFINE r == [pc |-> "id", done |-> 0]
  <2>1. r \in Proc
    BY <1>0
  <2>2. proc[i].pc = "seed" /\ proc[i].done = Seeds /\ proc' = [proc EXCEPT ![i] = r]
        /\ UNCHANGED <<telemetry, distinctId, crashes, cut>>
    BY <1>5 DEF SeedDone
  <2>3. OneInstallId'
    BY <1>0, <2>2 DEF OneInstallId
  <2> QED
    BY <1>0, <1>1, <2>1, <2>2, <2>3, QuietStep
<1>6. CASE Restart(i)
  <2> DEFINE r == [pc |-> "check", done |-> proc[i].done]
  <2>1. r \in Proc
    BY <1>0
  <2>2. proc[i].pc = "down" /\ proc' = [proc EXCEPT ![i] = r]
        /\ UNCHANGED <<telemetry, distinctId, crashes, cut>>
    <3>1. [proc[i] EXCEPT !.pc = "check"] = r
      BY <1>0
    <3>2. /\ proc[i].pc = "down" /\ proc' = [proc EXCEPT ![i] = [proc[i] EXCEPT !.pc = "check"]]
          /\ UNCHANGED <<telemetry, distinctId, crashes, cut>>
      BY <1>6 DEF Restart
    <3> QED
      BY <3>1, <3>2
  <2>3. OneInstallId'
    BY <1>0, <2>2 DEF OneInstallId
  <2> QED
    BY <1>0, <1>1, <2>1, <2>2, <2>3, QuietStep
<1>7. CASE ReadInstallId(i)
  <2> DEFINE r == [pc |-> IF telemetry = "none" THEN "insert" ELSE "up", done |-> proc[i].done]
  <2>1. r \in Proc
    BY <1>0
  <2>2. proc[i].pc = "id" /\ proc' = [proc EXCEPT ![i] = r] /\ UNCHANGED <<telemetry, crashes, cut>>
    BY <1>0, <1>7 DEF ReadInstallId
  <2>3. distinctId' = IF telemetry = "none" THEN distinctId ELSE [distinctId EXCEPT ![i] = telemetry]
    BY <1>7 DEF ReadInstallId
  <2>4. distinctId' \in [Process -> {"none"} \cup Process]
    BY <1>0, <2>3
  <2>5. OneInstallId'
    BY <1>0, <2>2, <2>3 DEF OneInstallId
  <2> QED
    BY <1>0, <1>1, <2>1, <2>2, <2>4, <2>5, QuietStep
<1>8. CASE InsertInstallId(i)
  <2> DEFINE r == [pc |-> "up", done |-> proc[i].done]
  <2>1. r \in Proc
    BY <1>0
  <2>2. /\ proc[i].pc = "insert" /\ proc' = [proc EXCEPT ![i] = r] /\ UNCHANGED <<crashes, cut>>
        /\ telemetry = "none" /\ telemetry' = i /\ distinctId' = [distinctId EXCEPT ![i] = i]
    <3>1. [proc[i] EXCEPT !.pc = "up"] = r
      BY <1>0
    <3>2. /\ proc[i].pc = "insert" /\ proc' = [proc EXCEPT ![i] = [proc[i] EXCEPT !.pc = "up"]]
          /\ UNCHANGED <<crashes, cut>>
          /\ telemetry = "none" /\ telemetry' = i /\ distinctId' = [distinctId EXCEPT ![i] = i]
      BY <1>8 DEF InsertInstallId
    <3> QED
      BY <3>1, <3>2
  <2>3. OneInstallId'
    BY <1>0, <2>2, SeedAssumption DEF OneInstallId
  <2>4. distinctId' \in [Process -> {"none"} \cup Process] /\ telemetry' \in {"none"} \cup Process
    BY <1>0, <2>2
  <2> QED
    BY <1>0, <1>1, <2>1, <2>2, <2>3, <2>4, QuietStep
<1> QED
  BY <1>2, <1>3, <1>4, <1>5, <1>6, <1>7, <1>8

LEMMA SeedWriteStep ==
  ASSUME SlugsDistinct, BootInv, NEW i \in Process, SeedWrite(i)
  PROVE  BootInv'
<1>e. channelsEnabled \in ChannelLists
  BY DEF BootInv, BootTypeOK
<1> USE <1>e
<1>s. /\ SeedChannels' = SeedChannels /\ SeedProfiles' = SeedProfiles
      /\ CreatedIds' = CreatedIds /\ Seeds' = Seeds /\ channelsEnabled' = channelsEnabled
  BY SameSeed DEF SeedWrite, outside
<1> USE <1>s
<1> DEFINE Proc == [pc : {"check", "seed", "id", "insert", "up", "down"}, done : 0..Seeds]
<1>k. PICK k : k = proc[i].done
  OBVIOUS
<1>0. /\ BootTypeOK /\ DefaultsExist /\ TokensUnique /\ OneInstallId /\ StartedFull
      /\ ReseedsOnlyEmptied /\ SeedProgress
      /\ proc \in [Process -> Proc]
  BY DEF BootInv, BootTypeOK
<1>1. /\ proc[i].pc = "seed" /\ proc[i].done = k /\ k < Seeds /\ SeedRow(k + 1)
      /\ proc' = [proc EXCEPT ![i].done = @ + 1]
      /\ UNCHANGED <<put, torn, telemetry, distinctId, crashes, edits, edited, emptied, cut>>
  BY <1>k DEF SeedWrite, outside, saves
<1>2. k \in Nat /\ k + 1 \in 0..Seeds
  BY <1>0, <1>1, SeedsCount
<1>3. /\ proc' \in [Process -> Proc]
      /\ proc'[i].pc = "seed" /\ proc'[i].done = k + 1
      /\ \A j \in Process : proc'[j].pc = proc[j].pc
      /\ \A j \in Process \ {i} : proc'[j] = proc[j]
  BY <1>0, <1>1, <1>2
<1>4. /\ StoreTypeOK' /\ DefaultsExist' /\ TokensUnique'
      /\ Instances(Current) # {} => Instances(Current)' # {}
      /\ channelsEnabled # <<>> /\ ~ emptied => Instances(Current)' # {}
      /\ edits = 0 =>
           /\ \A m \in 1..Len(SeedChannels) : ChannelSeeded(m) \/ m = k + 1 => ChannelSeeded(m)'
           /\ \A m \in 1..Len(SeedProfiles) :
                ProfileSeeded(m) \/ m + Len(SeedChannels) = k + 1 => ProfileSeeded(m)'
  <2>1. CASE k + 1 <= Len(SeedChannels)
    <3>1. k + 1 \in 1..Len(SeedChannels)
      BY <1>2, <2>1, ChannelRows
    <3>2. /\ StoreTypeOK' /\ DefaultsExist' /\ TokensUnique'
          /\ Instances(Current)' # {}
          /\ ChannelSeeded(k + 1)'
          /\ \A m \in 1..Len(SeedChannels) : ChannelSeeded(m) => ChannelSeeded(m)'
          /\ \A m \in 1..Len(SeedProfiles) : ProfileSeeded(m) => ProfileSeeded(m)'
      BY <1>0, <1>1, <3>1, ChannelSeed
    <3>3. \A m \in 1..Len(SeedProfiles) : m + Len(SeedChannels) # k + 1
      BY <1>2, <2>1, ChannelRows, ProfileRows
    <3> QED
      BY <3>2, <3>3
  <2>2. CASE ~ k + 1 <= Len(SeedChannels)
    <3>0. PICK n : n = k + 1 - Len(SeedChannels)
      OBVIOUS
    <3>1. n \in 1..Len(SeedProfiles) /\ n + Len(SeedChannels) = k + 1 /\ Len(SeedChannels) <= k
      <4>1. /\ Len(SeedChannels) \in Nat /\ Len(SeedProfiles) \in Nat
            /\ k < Len(SeedChannels) + Len(SeedProfiles)
        BY <1>1, ChannelRows, ProfileRows, SeedsCount
      <4> QED
        BY <1>2, <2>2, <3>0, <4>1
    <3>2. SeedRow(n + Len(SeedChannels))
      BY <1>1, <3>1
    <3>3. /\ StoreTypeOK' /\ DefaultsExist' /\ TokensUnique'
          /\ Instances(Current)' = Instances(Current)
          /\ (\A m \in 1..Len(SeedChannels) : ChannelSeeded(m)) => ProfileSeeded(n)'
          /\ \A m \in 1..Len(SeedChannels) : ChannelSeeded(m) => ChannelSeeded(m)'
          /\ \A m \in 1..Len(SeedProfiles) \ {n} : ProfileSeeded(m) => ProfileSeeded(m)'
      BY <1>0, <3>1, <3>2, ProfileSeed
    <3>4. channelsEnabled # <<>> => k > 0
      BY <1>2, <3>1, SeedsCount, ChannelRows
    <3>5. channelsEnabled # <<>> /\ ~ emptied => Instances(Current) # {}
      BY <1>0, <1>1, <3>4 DEF StartedFull
    <3>6. \A m \in 1..Len(SeedChannels) : m <= k
      BY <1>2, <3>1, ChannelRows
    <3>7. edits = 0 => \A m \in 1..Len(SeedChannels) : ChannelSeeded(m)
      BY <1>0, <1>1, <3>6 DEF SeedProgress
    <3>8. \A m \in 1..Len(SeedChannels) : m # k + 1
      BY <1>2, <3>6, ChannelRows
    <3>9. \A m \in 1..Len(SeedProfiles) : m + Len(SeedChannels) = k + 1 => m = n
      BY <3>1, <1>2, ChannelRows, ProfileRows
    <3> QED
      BY <3>3, <3>5, <3>7, <3>8, <3>9
  <2> QED
    BY <2>1, <2>2
<1>5. BootTypeOK'
  BY <1>0, <1>1, <1>3, <1>4 DEF BootTypeOK
<1>6. OneInstallId' /\ ReseedsOnlyEmptied'
  BY <1>0, <1>1, <1>3 DEF OneInstallId, ReseedsOnlyEmptied
<1>7. StartedFull'
  BY <1>0, <1>1, <1>3, <1>4 DEF StartedFull
<1>8. SeedProgress'
  <2> SUFFICES ASSUME edits = 0
               PROVE  SeedProgress'
    BY <1>1 DEF SeedProgress
  <2>1. ASSUME NEW j \in Process, proc'[j].pc = "seed"
        PROVE  /\ \A n \in 1..Len(SeedChannels) : n <= proc'[j].done => ChannelSeeded(n)'
               /\ \A n \in 1..Len(SeedProfiles) : n + Len(SeedChannels) <= proc'[j].done => ProfileSeeded(n)'
    <3>1. /\ \A n \in 1..Len(SeedChannels) : n <= proc[j].done => ChannelSeeded(n)
          /\ \A n \in 1..Len(SeedProfiles) : n + Len(SeedChannels) <= proc[j].done => ProfileSeeded(n)
      BY <1>0, <1>3, <2>1 DEF SeedProgress
    <3>2. /\ \A n \in 1..Len(SeedChannels) : n <= k + 1 => n <= k \/ n = k + 1
          /\ \A n \in 1..Len(SeedProfiles) :
               n + Len(SeedChannels) <= k + 1 => n + Len(SeedChannels) <= k \/ n + Len(SeedChannels) = k + 1
      <4>1. Len(SeedChannels) \in Nat /\ Len(SeedProfiles) \in Nat /\ k \in Nat
        BY <1>2, ChannelRows, ProfileRows
      <4> QED
        BY <4>1
    <3>3. CASE j = i
      <4>1. proc[j].done = k /\ proc'[j].done = k + 1
        BY <1>1, <1>3, <3>3
      <4>2. /\ \A n \in 1..Len(SeedChannels) : ChannelSeeded(n) \/ n = k + 1 => ChannelSeeded(n)'
            /\ \A n \in 1..Len(SeedProfiles) :
                 ProfileSeeded(n) \/ n + Len(SeedChannels) = k + 1 => ProfileSeeded(n)'
        BY <1>4
      <4>3. \A n \in 1..Len(SeedChannels) : n <= k + 1 => ChannelSeeded(n)'
        BY <3>1, <3>2, <4>1, <4>2
      <4>4. \A n \in 1..Len(SeedProfiles) : n + Len(SeedChannels) <= k + 1 => ProfileSeeded(n)'
        BY <3>1, <3>2, <4>1, <4>2
      <4> QED
        BY <4>1, <4>3, <4>4
    <3>4. CASE j # i
      BY <1>3, <1>4, <3>1, <3>4
    <3> QED
      BY <3>3, <3>4
  <2> QED
    BY <1>3, <2>1 DEF SeedProgress
<1> QED
  BY <1>4, <1>5, <1>6, <1>7, <1>8 DEF BootInv

LEMMA EditStep ==
  ASSUME BootInv, Edit
  PROVE  BootInv'
<1>e. channelsEnabled \in ChannelLists
  BY DEF BootInv, BootTypeOK
<1> USE <1>e
<1>s. /\ SeedChannels' = SeedChannels /\ SeedProfiles' = SeedProfiles
      /\ CreatedIds' = CreatedIds /\ Seeds' = Seeds /\ channelsEnabled' = channelsEnabled
  BY SameSeed DEF Edit
<1> USE <1>s
<1>0. /\ BootTypeOK /\ DefaultsExist /\ TokensUnique /\ OneInstallId /\ ReseedsOnlyEmptied
  BY DEF BootInv
<1>1. /\ edits < MaxEdits /\ edits' = edits + 1 /\ EntityOperation
      /\ edited' = (edited \/ Settled)
      /\ emptied' = (emptied \/ (Instances(Current) # {} /\ Instances(Current)' = {}))
      /\ UNCHANGED <<proc, telemetry, distinctId, crashes, cut>>
  BY DEF Edit
<1>2. TypeOK /\ PutProgress /\ put = NoPut /\ torn = FALSE
  BY <1>0 DEF BootTypeOK, TypeOK, PutProgress
<1>3. Next
  BY <1>1 DEF Next
<1>4. TypeOK' /\ DefaultsExist' /\ TokensUnique'
  BY <1>0, <1>2, <1>3, TypeStep, IntegrityStep
<1>5. put' = put /\ torn' = torn
  BY <1>1 DEF EntityOperation, UpsertChannelEntity, DeleteChannelEntity, UpsertProfileEntity,
     DeleteProfileEntity
<1>6. edits' \in 0..MaxEdits /\ edits' # 0
  BY <1>0, <1>1, SeedAssumption DEF BootTypeOK
<1>7. edited' \in BOOLEAN /\ emptied' \in BOOLEAN
  BY <1>0, <1>1 DEF BootTypeOK
<1>8. BootTypeOK'
  BY <1>0, <1>1, <1>2, <1>4, <1>5, <1>6, <1>7 DEF BootTypeOK, TypeOK
<1>9. SeedProgress' /\ StartedFull'
  <2>1. SeedProgress'
    BY <1>1, <1>6 DEF SeedProgress
  <2>2. ASSUME channelsEnabled # <<>>, ~ emptied', Instances(Current) # {}
        PROVE  Instances(Current)' # {}
    BY <1>1, <2>2
  <2>3. ASSUME channelsEnabled # <<>>, ~ emptied'
        PROVE  edited' => Instances(Current)' # {}
    <3>1. StartedFull /\ ~ emptied
      BY <1>1, <2>3 DEF BootInv
    <3>2. Settled => \E i \in Process : proc[i].pc = "up"
      BY SeedAssumption DEF Settled
    <3> QED
      BY <1>1, <2>2, <2>3, <3>1, <3>2 DEF StartedFull
  <2>4. ASSUME channelsEnabled # <<>>, ~ emptied', NEW i \in Process,
               proc'[i].pc \in {"id", "insert", "up"} \/ (proc'[i].pc = "seed" /\ proc'[i].done > 0)
        PROVE  Instances(Current)' # {}
    <3>1. StartedFull /\ ~ emptied /\ proc' = proc
      BY <1>1, <2>4 DEF BootInv
    <3> QED
      BY <2>2, <2>4, <3>1 DEF StartedFull
  <2> QED
    BY <2>1, <2>3, <2>4 DEF StartedFull
<1>10. OneInstallId'
  BY <1>0, <1>1 DEF OneInstallId
<1>11. ReseedsOnlyEmptied'
  <2>1. (\E i \in Process : proc[i].pc = "seed") => ~ Settled
    BY SeedAssumption DEF Settled
  <2> QED
    BY <1>0, <1>1, <2>1 DEF ReseedsOnlyEmptied
<1> QED
  BY <1>4, <1>8, <1>9, <1>10, <1>11 DEF BootInv

-----------------------------------------------------------------------------
(***************************************************************************)
(* How far seeding, install id and restarts have come (seedFromEnvIfEmpty, *)
(* getOrCreateInstallId), for environments without a repeated slug.        *)
(***************************************************************************)
THEOREM BootInvariant ==
  ASSUME SlugsDistinct
  PROVE  BootSpec => []BootInv
<1>1. BootInv /\ [BootNext]_bootVars => BootInv'
  <2> SUFFICES ASSUME BootInv, [BootNext]_bootVars
               PROVE  BootInv'
    OBVIOUS
  <2>1. CASE UNCHANGED bootVars
    BY <2>1, SameSeed DEF bootVars, BootInv, BootTypeOK, StoreTypeOK, DefaultsExist, TokensUnique,
       SeedProgress, OneInstallId, ReseedsOnlyEmptied, StartedFull, IsSeeded, ChannelSeeded,
       ProfileSeeded, Instances, Current
  <2>2. ASSUME NEW i \in Process, BootStep(i) \/ Crash(i)
        PROVE  BootInv'
    BY <2>2, QuietActions, SeedWriteStep DEF BootStep
  <2>3. CASE Edit
    BY <2>3, EditStep
  <2> QED
    BY <2>1, <2>2, <2>3 DEF BootNext
<1> QED
  BY <1>1, InitBoot, PTL DEF BootSpec

(***************************************************************************)
(* Seeders that start together leave the whole seed, unless one was cut    *)
(* short or the panel has saved (seedFromEnvIfEmpty).                      *)
(***************************************************************************)
THEOREM SeedersAgree ==
  ASSUME SlugsDistinct
  PROVE  BootSpec => []SeededTogether
<1>1. BootInv => SeededTogether
  BY SeedAssumption DEF BootInv, SeedProgress, SeededTogether, Settled
<1> QED
  BY <1>1, BootInvariant, PTL

(***************************************************************************)
(* No boot seeds over what the panel has saved, unless the panel has       *)
(* deleted the last channel (seedFromEnvIfEmpty).                          *)
(***************************************************************************)
THEOREM SeedsOnlyOnce ==
  ASSUME SlugsDistinct
  PROVE  BootSpec => []ReseedsOnlyEmptied
<1>1. BootInv => ReseedsOnlyEmptied
  BY DEF BootInv
<1> QED
  BY <1>1, BootInvariant, PTL
=============================================================================
