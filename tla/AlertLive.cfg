SPECIFICATION FairSpec
CONSTANTS
  Servers = {s1}
  Kicks = {}
  Sweeper = Sweeper
  Alerts <- MCTwoAlerts
  Devices = {d1}
  PageLimit = 1
  MaxAttempts = 2
  MaxFailures = 2
  MaxFaults = 1
  Gone = Gone
PROPERTY AlertSettles
CHECK_DEADLOCK FALSE
