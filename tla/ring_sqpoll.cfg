SPECIFICATION FairSpec
CONSTANTS
  SqEntries = 1
  CqEntries = 1
  Autosubmit = TRUE
  SqPoll = TRUE
  Supported = {"openat", "read", "write", "close", "socket", "connect", "send", "recv"}
  Calls = {"prep_openat", "prep_close", "submit", "submit_and_wait_with_timeout", "get_completion_entries", "register_eventfd", "close"}
  FlagSets <- SkipFlags
  Sizes = {1}
  Wants = {1}
  Faults = {"enter_error"}
  DropBusy = FALSE
  MaxUserData = 2
  MaxPushes = 2
INVARIANTS
  KernelPointersOwned
PROPERTIES
  ImplementsContract
  EveryOperationReaped
CHECK_DEADLOCK FALSE
