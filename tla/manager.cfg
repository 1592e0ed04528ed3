SPECIFICATION ManagerFairSpec
CONSTANTS
  SqEntries = 1
  CqEntries = 1
  Autosubmit = TRUE
  SqPoll = FALSE
  Supported = {"openat"}
  Calls = {"prep_openat", "submit", "get_completion_entries", "register_eventfd", "close"}
  FlagSets <- PlainFlags
  Sizes = {1}
  Wants = {1}
  Faults = {"enter_error", "eventfd_error"}
  DropBusy = FALSE
  MaxUserData = 2
  MaxPushes = 0
  Tasks = {t1, t2}
  NoTask = NoTask
  Libs = {"trio", "asyncio"}
INVARIANTS
  ManagerTypeOK
  NoLostWakeup
  WaiterUnanswered
  HookedRingIsOpen
PROPERTIES
  ListeningIsServed
CHECK_DEADLOCK FALSE
