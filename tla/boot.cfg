\* Two processes on one empty database; CHANNELS_ENABLED lists two channels or none.
SPECIFICATION FairBoot
CONSTANTS
  a = a
  b = b
  p = p
  q = q
  t = t
  u = u
  NoProfile = NoProfile
  Channel = {a, b}
  ProfileId = {p, q}
  Token = {t, u}
  Wanted = {}
  Process = {api, worker}
  ChannelLists <- Listings
  HasKeys = {a}
  Tokens <- Entries
  Slug <- Slugs
  MaxCrashes = 2
  MaxEdits = 2
INVARIANTS
  BootInv
  SeededTogether
  ReseedsOnlyEmptied
PROPERTY ComesUp
CHECK_DEADLOCK FALSE
