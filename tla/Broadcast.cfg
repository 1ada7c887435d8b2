SPECIFICATION FairSpec
CONSTANTS
  Servers = {s1, s2}
  Casts <- MCCasts
  Phones <- MCPhones
  Errors = {e1}
  StopAfterSameErrors = 2
  MaxRestarts = 1
  NoCast = NoCast
  NoError = NoError
INVARIANTS OncePerRun DoneIsComplete StopIsHonoured ReportAddsUp
PROPERTY InterruptedIsResumed
CHECK_DEADLOCK FALSE
