\* One instance, one profile: a tab with two requests in flight beside its PUT.
SPECIFICATION PanelSpec
CONSTANTS
  a = a
  p = p
  t = t
  g1 = g1
  g2 = g2
  NoProfile = NoProfile
  NoConfig = NoConfig
  Channel = {a}
  ProfileId = {p}
  Token = {t}
  NewToken = t
  Wanted <- AllConfigs
  VoiceChannel = {a}
  Get = {g1, g2}
  MaxEdits = 2
  MaxWrites = 1
SYMMETRY Slots
INVARIANTS
  PanelInv
  NoEditLost
  CleanIsLive
  SavesOnlyEdits
CHECK_DEADLOCK FALSE
