\* Three speeches, and a request of each other kind, in every order.
SPECIFICATION PlayerSpec
CONSTANTS
  r1 = r1
  r2 = r2
  r3 = r3
  blank = blank
  malformed = malformed
  voices = voices
  other = other
  Request = {r1, r2, r3, blank, malformed, voices, other}
  Ask <- Asked
INVARIANTS
  PlayerInv
PROPERTIES
  AnsweredWhileSpeaking
  SpeechIsTried
CHECK_DEADLOCK FALSE
