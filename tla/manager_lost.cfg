SPECIFICATION ManagerSpec
CONSTANTS
  SqEntries = 1
  CqEntries = 1
  Autosubmit = TRUE
  SqPoll = FALSE
  Supported = {"openat"}
  Calls = {"prep_openat", "submit", "get_completion_entries", "register_eventfd", "close"}
  FlagSets <- PlainFlags
  Sizes = {1}
  Wants = {1}
  Faults = {}
  DropBusy = FALSE
  MaxUserData = 2
  MaxPushes = 0
  Tasks = {t1, t2}
  NoTask = NoTask
  Libs = {"trio", "asyncio"}
INVARIANT
  NobodyWaitsInVain
CHECK_DEADLOCK FALSE
