\* Two players with one voice in common, one of them with a single voice.
SPECIFICATION VoiceSpec
CONSTANTS
  home = home
  office = office
  ana = ana
  ben = ben
  cleo = cleo
  NoUrl = NoUrl
  NoVoice = NoVoice
  Typed = Typed
  Player = {home, office}
  Voice = {ana, ben, cleo}
  VoicesOf <- Lists
  MaxFetches = 3
INVARIANTS
  VoiceIsPicked
  ComboShowsVoice
  ListIsOfUrl
CHECK_DEADLOCK FALSE
