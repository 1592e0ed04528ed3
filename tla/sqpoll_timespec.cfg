SPECIFICATION Spec
CONSTANTS
  SqEntries = 2
  CqEntries = 1
  Autosubmit = TRUE
  SqPoll = TRUE
  Supported = {"openat", "read", "write", "close", "socket", "connect", "send", "recv"}
  Calls = {"prep_read", "submit_and_wait_with_timeout", "get_completion_entries"}
  FlagSets <- PlainFlags
  Sizes = {1}
  Wants = {1}
  Faults = {}
  DropBusy = FALSE
  MaxUserData = 2
  MaxPushes = 3
INVARIANTS
  TimespecLive
CHECK_DEADLOCK FALSE
