SPECIFICATION FairSpec
CONSTANTS
  MAXPROCESSES = 5
  MAXSIGNALS = 2
  NewAge = 1
  MaxMask = 1
  MaxQueued = 1
  Calls <- ServedCalls
  Signals = {0}
  Targets = {3, 4}
  HostSignals = {}
  SleepTimes = {"later"}
PROPERTIES WaiterServed SleeperWakes
