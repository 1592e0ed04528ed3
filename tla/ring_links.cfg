SPECIFICATION Spec
CONSTANTS
  SqEntries = 3
  CqEntries = 1
  Autosubmit = FALSE
  SqPoll = FALSE
  Supported = {"openat", "read", "write", "close", "socket", "connect", "send", "recv"}
  Calls = {"prep_openat", "prep_close", "submit", "get_completion_entries"}
  FlagSets <- LinkFlags
  Sizes = {1}
  Wants = {1}
  Faults = {}
  DropBusy = FALSE
  MaxUserData = 4
  MaxPushes = 3
PROPERTIES
  LinkedRunsAfter
  ImplementsContract
CHECK_DEADLOCK FALSE
