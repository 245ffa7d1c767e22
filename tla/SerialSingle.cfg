CONSTANTS
  Threads = {t1}
  Connections = {c1, c2, c3}
  NoConn = NoConn
  MaxValue = 2
  MaxDepth = 3
  MaxCalls = 5
  MaxFailures = 2
SPECIFICATION Spec
INVARIANTS RecursesOnce
PROPERTIES ImplementsCycle
