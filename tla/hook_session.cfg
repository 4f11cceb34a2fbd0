\* Five Stops at most, a prompt in any unit of time, one edit of hook.env.
SPECIFICATION SessionSpec
CONSTANTS
  Idle = 2
  MaxClock = 5
  MaxEdits = 1
INVARIANTS
  PromptCancels
  OnePushPerBurst
  SilentOnlyDuringPost
  
CHECK_DEADLOCK FALSE
