CONSTANTS
  p1 = p1
  p2 = p2
  p3 = p3
  NoPid = NoPid
  Pid <- MCPid
  Commands = {"stop", "kill", "status"}
  MaxInvocations = 2
  Concurrent = TRUE
  Crashes = TRUE
  Foreign = FALSE
SPECIFICATION Spec
INVARIANT StoppedMeansDead
PROPERTY TermEnds
