SPECIFICATION Spec
CONSTANTS
  MAXPROCESSES = 4
  MAXSIGNALS = 2
  NewAge = 0
  MaxMask = 1
  MaxQueued = 1
  Calls <- SignalCalls
  Signals = {2}
  Targets = {2, 3}
  HostSignals = {2}
  SleepTimes = {"never"}
INVARIANTS TypeOK FamilyOK PwrBrkOK InterceptReturns
PROPERTY MaskHonoured
