SPECIFICATION Spec
CONSTANTS
  p1 = p1
  p2 = p2
  g1 = g1
  g2 = g2
  c1 = c1
  c2 = c2
  NoClient = NoClient
  Plugins = {p1, p2}
  Clients = {g1, g2}
  Callers = {c1, c2}
  Owner <- FirstOwns
  InitialRows <- SomeRows
  DependsOn <- SecondNeedsFirst
  Threshold = 1
  MaxFailures = 1
  MaxRecoveries = 1
  MaxOps = 2
  MaxFaults = 1
CHECK_DEADLOCK FALSE
INVARIANT HalfOpenHasCall
INVARIANT EnabledRuns
 
INVARIANT DataHasOwner
PROPERTY OldResultsStayOld
PROPERTY NoSilentReplacement
