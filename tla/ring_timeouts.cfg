SPECIFICATION TimerSpec
CONSTANTS
  SqEntries = 2
  CqEntries = 1
  Autosubmit = TRUE
  SqPoll = FALSE
  Supported = {"openat", "read", "write", "close", "socket", "connect", "send", "recv"}
  Calls = {"prep_read", "prep_close", "submit_and_wait_with_timeout", "get_completion_entries", "close"}
  FlagSets <- LinkFlags
  Sizes = {1}
  Wants = {1}
  Faults = {"signal"}
  DropBusy = FALSE
  MaxUserData = 2
  MaxPushes = 3
INVARIANTS
  TimespecLive
  IgnoredAreTimeouts
  KernelPointersOwned
PROPERTIES
  TimedWaitReturns
CHECK_DEADLOCK FALSE
