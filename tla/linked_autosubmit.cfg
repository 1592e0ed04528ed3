SPECIFICATION Spec
CONSTANTS
  SqEntries = 1
  CqEntries = 1
  Autosubmit = TRUE
  SqPoll = FALSE
  Supported = {"openat", "read", "write", "close", "socket", "connect", "send", "recv"}
  Calls = {"prep_read", "submit", "get_completion_entries"}
  FlagSets <- LinkFlags
  Sizes = {1}
  Wants = {1}
  Faults = {}
  DropBusy = FALSE
  MaxUserData = 3
  MaxPushes = 3
PROPERTIES
  LinkedRunsAfter
CHECK_DEADLOCK FALSE
