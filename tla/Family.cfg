SPECIFICATION Spec
CONSTANTS
  MAXPROCESSES = 5
  MAXSIGNALS = 2
  NewAge = 0
  MaxMask = 1
  MaxQueued = 1
  Calls <- FamilyCalls
  Signals = {0}
  Targets = {2, 3, 4}
  HostSignals = {}
  SleepTimes = {"never"}
INVARIANTS ChildListOK WaitingHasChild
PROPERTY Implements
