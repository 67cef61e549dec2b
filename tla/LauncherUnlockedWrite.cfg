CONSTANTS
  p1 = p1
  p2 = p2
  p3 = p3
  NoPid = NoPid
  Pid <- MCPid
  Commands = {"run"}
  MaxInvocations = 1
  Concurrent = FALSE
  Crashes = FALSE
  Foreign = FALSE
SPECIFICATION Spec
SYMMETRY MCSymmetry
PROPERTY WrittenUnderLock
