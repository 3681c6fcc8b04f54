SPECIFICATION Spec
CONSTANTS
  AppIds = {a}
  PoolSize = 1
  MaxSessions = 3
  MaxOutput = 2
  MaxExits = 1
  MaxFailures = 1
INVARIANTS AttendedMissesNothing NoOrphans PoolRefilled
CHECK_DEADLOCK FALSE
