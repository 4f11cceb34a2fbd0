\* The same tab, for the edit made while its PUT is awaited.
SPECIFICATION PanelSpec
CONSTANTS
  a = a
  p = p
  t = t
  g1 = g1
  g2 = g2
  NoProfile = NoProfile
  NoConfig = NoConfig
  Channel = {a}
  ProfileId = {p}
  Token = {t}
  NewToken = t
  Wanted <- AllConfigs
  VoiceChannel = {a}
  Get = {g1, g2}
  MaxEdits = 2
  MaxWrites = 1
PROPERTY SnapshotIsSaved
CHECK_DEADLOCK FALSE
