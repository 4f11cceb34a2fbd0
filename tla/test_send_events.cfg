\* A test on one channel: every attempt of the worker should be an event.
SPECIFICATION SendSpec
CONSTANTS
  phone = phone
  t = t
  MaxLength <- Limits
  Call = {"test"}
  Tool <- Tools
  Instance = {phone}
  Type <- Types
  TargetOf <- Targets
  Note <- Notes
  Token = {t}
  NoToken = NoToken
  Attempts = 1
  MaxPolls = 2
  MaxEvents = 2
  MaxClock = 1
  MaxEdits = 0
  MaxOutages = 0
INVARIANTS
  OneEventPerAttempt
CHECK_DEADLOCK FALSE
