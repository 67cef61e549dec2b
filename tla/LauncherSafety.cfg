CONSTANTS
  p1 = p1
  p2 = p2
  p3 = p3
  NoPid = NoPid
  Pid <- MCPid
  Commands = {"run", "start", "stop", "kill", "restart", "status"}
  MaxInvocations = 2
  Concurrent = TRUE
  Crashes = TRUE
  Foreign = TRUE
SPECIFICATION Spec
INVARIANTS TypeOK LockSound
PROPERTIES LockRefined ClearedUnderLock
