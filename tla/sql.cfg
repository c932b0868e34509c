SPECIFICATION Spec
CONSTANTS
    Half = 4
    Texts <- McTexts
    NumberIn <- McNumberIn
    Spelling <- McSpelling
    Schema <- McSchema
    Statements <- McStatements
    Idle = Idle
    MaxStatements = 3
    MaxRow = 6
INVARIANTS StoredConverted
PROPERTIES KeepsPromise
CHECK_DEADLOCK FALSE
