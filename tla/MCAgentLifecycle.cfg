\* Three requests, with the times of the code and of the unit in ticks of two
\* seconds; two failures and two stops. No symmetry, for liveness.
CONSTANTS
  r1 = r1 r2 = r2 r3 = r3
  Requests <- MCRequests
  Deadline = 6
  ShutdownTimeout = 5
  StopTimeout = 10
  MaxFailures = 2
  MaxStops = 2
SPECIFICATION Spec
INVARIANTS TypeOK MutexSpansRestarts AnsweredInTime StopsInTime
PROPERTIES CutIsOld AgentComesBack
