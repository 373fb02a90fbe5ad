SPECIFICATION FairSpec
CONSTANTS
  MAXALARMS = 4
  alarms_capacity = 3
  WIDTH = 16
  SecsPerDay = 2
  TICKS_PER_SEC = 1
  Processes = {2, 3}
  BootTime = 1
  MaxClock = 2
  Ticks = {0, 1, 15}
  Dates = {0, 7, 8}
  Times = {0, 1}
  Codes = {0, 2}
INVARIANTS AlarmsTypeOK QueueOrder OneRecordEach NeverEarly
PROPERTY AlarmFires
CHECK_DEADLOCK FALSE
