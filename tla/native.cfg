SPECIFICATION Spec
CONSTANTS
    Top = 3
    MaxDepth = 2
    MaxTurns = 4
    MaxNest = 2
    Prologues <- McPrologues
    Statements <- McStatements
    Heads <- McHeads
INVARIANTS
    SameAnswer
    TextsBalance
    ParsesBack
CHECK_DEADLOCK FALSE
