SPECIFICATION Spec
CONSTANTS
  MAXPROCESSES = 4
  MAXSIGNALS = 3
  NewAge = 0
  MaxMask = 1
  MaxQueued = 1
  Calls <- DeadCalls
  Signals = {2}
  Targets = {}
  HostSignals = {2}
  SleepTimes = {"later"}
PROPERTY FatalIsFatal
