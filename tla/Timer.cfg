CONSTANTS
  Hook = {h1, h2}
  Timeouts = {0, 2, 4}
  Unit = 2
  MaxDelay = 2
  MaxTime = 6
  Off = Off
SPECIFICATION FairSpec
INVARIANT HooksKept
PROPERTIES DueHookFires
CHECK_DEADLOCK FALSE
