\* One channel: throws, lost acknowledgements, a crash and expired locks.
SPECIFICATION FairUnkeyedSpec
CONSTANTS
  a = a
  b = b
  Request = {r1}
  Channel = {a}
  Profile = {p1}
  Key = {k1}
  NoKey = NoKey
  Unspecified = Unspecified
  NoProfile = NoProfile
  ChannelOrder <- OrderA
  Lists <- RepeatedList
  MaxLen = 2
  MaxEdits = 0
  MaxCrashes = 1
  Attempts = 2
  MaxStalls = 1
ACTION_CONSTRAINT AnswersAtOnce
INVARIANTS
  DeadLetterOnlyWhenExhausted
  SentWasReceived
PROPERTIES
  SettledForGood
  EveryDeliverySettles
