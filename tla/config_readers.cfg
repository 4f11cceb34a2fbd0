\* Two channels, and two profiles that may hand the one token to each other.
SPECIFICATION ReadSpec
CONSTANTS
  a = a
  b = b
  p = p
  q = q
  t = t
  NoProfile = NoProfile
  Channel = {a, b}
  ProfileId = {p, q}
  Token = {t}
  Wanted <- MCWanted
SYMMETRY Symmetry
INVARIANTS
  AdminInv
  SavedMeansStored
  NoPhantomTarget
  OneWriteIsAtomic
