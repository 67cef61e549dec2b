CONSTANTS
  p1 = p1
  p2 = p2
  p3 = p3
  NoPid = NoPid
  Pid <- MCPid
  Commands = {"run", "start", "stop", "kill", "restart", "status"}
  MaxInvocations = 3
  Concurrent = FALSE
  Crashes = FALSE
  Foreign = FALSE
SPECIFICATION Spec
SYMMETRY MCSymmetry
INVARIANT RecordTracksWorker
