\* A test and an MCP send on one WhatsApp channel, and a status read.
SPECIFICATION SendSpec
CONSTANTS
  phone = phone
  t = t
  MaxLength <- Limits
  Call = {"test", "send", "status"}
  Tool <- Tools
  Instance = {phone}
  Type <- Types
  TargetOf <- Targets
  Note <- Notes
  Token = {t}
  NoToken = NoToken
  Attempts = 1
  MaxPolls = 2
  MaxEvents = 2
  MaxClock = 1
  MaxEdits = 1
  MaxOutages = 1
INVARIANTS
  SendInv
  OkMeansReceived
  QueuedIsOwed
PROPERTY EveryCallEnds
CHECK_DEADLOCK FALSE
