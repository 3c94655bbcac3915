SPECIFICATION FairSpec
CONSTANTS
  Sources = {t1}
  RunAttempts = 2
  PurgeAttempts = 2
  Window = 1
  ScheduleTries = 1
  StoreTries = 2
  MaxPolls = 2
  None = null
INVARIANTS
  SignalNeverMissed
  PurgeKeepsOutput
PROPERTIES
  WorkflowsEnd
CHECK_DEADLOCK FALSE
