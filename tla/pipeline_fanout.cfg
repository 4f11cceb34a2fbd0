\* Two channels: the fan-out loop with throws, a crash, expired locks and an edit.
SPECIFICATION UnkeyedSpec
CONSTANTS
  a = a
  b = b
  Request = {r1}
  Channel = {a, b}
  Profile = {p1}
  Key = {k1}
  NoKey = NoKey
  Unspecified = Unspecified
  NoProfile = NoProfile
  ChannelOrder <- OrderAB
  Lists <- TwoLists
  MaxLen = 3
  MaxEdits = 1
  MaxCrashes = 1
  Attempts = 2
  MaxStalls = 0
ACTION_CONSTRAINT AnswersAtOnce
INVARIANTS
  OnlyAskedChannels
  CompleteFanOut
  PipelineInv
