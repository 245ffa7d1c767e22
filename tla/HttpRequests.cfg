SPECIFICATION Spec
CONSTANTS
  Callers = {t1, t2}
  Connections = {c1}
  NoConn = NoConn
  None = None
  Failed = Failed
  MaxCalls = 3
  MaxFaults = 1
CHECK_DEADLOCK FALSE
INVARIANTS TypeOK OneHolder AnswersOwn 
PROPERTIES CallsEnd
