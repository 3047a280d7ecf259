SPECIFICATION MCSpec
CONSTANTS
  Clients = {c1, c2}
  MaxOpen = 2
  Timeouts <- OneMinute
  Parts = {"idle"}
  d1 = d1
  d2 = d2
  l1 = l1
  l2 = l2
  p1 = p1
  p2 = p2
  None = None
  Dirs <- MCDirs
  Letters <- MCLetters
  Pids <- MCPids
  MaxKeys = 2
  MaxNested = 2
  Kinds = {"torn"}
PROPERTIES
  IdleUnmounts
