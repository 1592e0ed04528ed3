SPECIFICATION Spec
CONSTANTS
  SqEntries = 2
  CqEntries = 1
  Autosubmit = TRUE
  SqPoll = FALSE
  Supported = {"openat", "read", "write", "close", "socket", "connect", "send"}
  Calls = {"prep_openat", "prep_close", "prep_read", "prep_write", "prep_create_socket", "prep_connect_v4", "prep_connect_v6", "prep_recv", "prep_send", "submit", "submit_and_wait", "get_completion_entries", "close"}
  FlagSets <- SkipFlags
  Sizes = {1}
  Wants = {1}
  Faults = {"enter_error", "short", "signal"}
  DropBusy = FALSE
  MaxUserData = 3
  MaxPushes = 3
INVARIANTS
  TypeOK
  KernelPointersOwned
  OwnedIsReapable
  OnePlace
  EventBuffers
  AutosubmitAbsorbsFull
PROPERTIES
  ImplementsContract
CHECK_DEADLOCK FALSE
