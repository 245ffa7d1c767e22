CONSTANTS
  Threads = {t1, t2}
  Connections = {c1, c2}
  NoConn = NoConn
  MaxValue = 2
  MaxDepth = 2
  MaxCalls = 2
  MaxFailures = 0
SPECIFICATION Spec
PROPERTIES RestartsOnlyWhenExhausted
