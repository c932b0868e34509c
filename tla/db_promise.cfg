SPECIFICATION Spec
CONSTANTS
    v1 = v1
    t1 = t1
    p1 = p1
    p2 = p2
    f1 = f1
    f2 = f2
    NoRow = NoRow
    NoTable = NoTable
    NoId = NoId
    Memory = Memory
    Absent = Absent
    Garbage = Garbage
    Free = Free
    Closed = Closed
    Idle = Idle
    MaxId = 1
    Vals = {v1}
    Names = {t1}
    Paths = {p1, p2}
    Files = {f1, f2}
    FileOf <- TwoPaths
    Stmts <- OneStatement
    Failures = {"torn"}
    MaxImages = 2
    MaxRefs = 1
    MaxDepth = 2
INVARIANTS FileIsCurrent
PROPERTIES ImplementsAutocommit
