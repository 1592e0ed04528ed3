SPECIFICATION HandleSpec
CONSTANTS
  SqEntries = 2
  CqEntries = 2
  Autosubmit = FALSE
  SqPoll = FALSE
  Supported = {"openat", "socket", "read", "close"}
  Calls = {"prep_openat", "prep_create_socket", "prep_read", "prep_close", "submit", "get_completion_entries", "close"}
  FlagSets <- PlainFlags
  Sizes = {1}
  Wants = {1}
  Faults = {}
  DropBusy = FALSE
  MaxUserData = 3
  MaxPushes = 0
  Fds = {3, 4}
PROPERTY
  ClosedNotUsed
CHECK_DEADLOCK FALSE
