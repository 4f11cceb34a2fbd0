\* Two requests that may share a dedupKey, and a crash.
SPECIFICATION FairKeyedSpec
CONSTANTS
  a = a
  b = b
  Request = {r1, r2}
  Channel = {a}
  Profile = {p1}
  Key = {k1}
  NoKey = NoKey
  Unspecified = Unspecified
  NoProfile = NoProfile
  ChannelOrder <- OrderA
  Lists <- OneList
  MaxLen = 1
  MaxEdits = 0
  MaxCrashes = 1
  Attempts = 2
  MaxStalls = 0
INVARIANTS
  AcceptedIsBacked
PROPERTIES
  ImplementsContract
  NoSilentLoss
