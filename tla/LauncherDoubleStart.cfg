CONSTANTS
  p1 = p1
  p2 = p2
  p3 = p3
  NoPid = NoPid
  Pid <- MCPid
  Commands = {"start"}
  MaxInvocations = 2
  Concurrent = TRUE
  Crashes = FALSE
  Foreign = FALSE
SPECIFICATION Spec
SYMMETRY MCSymmetry
INVARIANT AtMostOneWorker
