SPECIFICATION Spec
CONSTANTS
  SqEntries = 2
  CqEntries = 1
  Autosubmit = TRUE
  SqPoll = FALSE
  Supported = {"openat", "read", "write", "close", "socket", "connect", "send", "recv"}
  Calls = {"prep_read", "submit_and_wait", "submit_and_wait_with_timeout", "get_completion_entries"}
  FlagSets <- PlainFlags
  Sizes = {1}
  Wants = {1}
  Faults = {}
  DropBusy = FALSE
  MaxUserData = 3
  MaxPushes = 3
PROPERTIES
  WaitHonoursCount
CHECK_DEADLOCK FALSE
