SPECIFICATION FairSpec
CONSTANTS
    Modes = {"IR", "BUILD", "RUN", "TRY_RUN", "INTERP"}
    MaxSignals = 2
INVARIANTS StartedOnce NoRunAfterInterrupt NothingLeft StatusIsTrue
PROPERTY Ends
CHECK_DEADLOCK FALSE
