CONSTANTS
  p1 = p1
  p2 = p2
  p3 = p3
  NoPid = NoPid
  Pid <- MCPid
  Commands = {"run", "start", "status"}
  MaxInvocations = 2
  Concurrent = TRUE
  Crashes = FALSE
  Foreign = FALSE
SPECIFICATION Spec
PROPERTY LauncherEnds
