SPECIFICATION Spec
CONSTANTS
    Conns = {c1, c2}
    NoConn = NoConn
    Backlog = 2
    Limit = 2
    MaxCalls = 2
    MaxInts = 1
INVARIANTS GivesBack AnsweredOnce StopsSoon
PROPERTIES NobodyWaitsForEver StopIsHeard
CHECK_DEADLOCK FALSE
