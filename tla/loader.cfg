SPECIFICATION Spec
CONSTANTS
    d1 = d1
    d2 = d2
    p1 = p1
    p2 = p2
    n1 = n1
    n2 = n2
    Paths = {p1, p2}
    Dirs = {d1, d2}
    Names = {n1, n2}
    MainDir = d1
    DirOf <- Directories
    Resolve <- Lookup
    MaxDepth = 4
    MaxRuns = 3
INVARIANTS DamageEnds ImportedOnce OneDictionary
