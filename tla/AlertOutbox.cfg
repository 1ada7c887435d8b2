SPECIFICATION Spec
CONSTANTS
  Servers = {s1}
  Kicks = {k1}
  Sweeper = Sweeper
  Alerts <- MCTwoAlerts
  Devices = {d1}
  PageLimit = 1
  MaxAttempts = 2
  MaxFailures = 1
  MaxFaults = 1
  Gone = Gone
INVARIANTS PushedOnce StateIsHonest RequestIsKept
CHECK_DEADLOCK FALSE
