SPECIFICATION Spec
CONSTANTS
    Keys <- MCKeys
    Equal <- MCEqual
    Hash <- MCHash
    Vals = {"x", "y"}
    Absent = Absent
    InitCap = 2
    MaxItems = 4
INVARIANTS FreeSlot Findable OneEntry
PROPERTY ImplementsMap
