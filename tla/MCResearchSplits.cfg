CONSTANTS
    Calendars <- MCCalendars
    MaxSplits = 5
    MaxGap = 4
    MaxHorizon = 3
    MinFoldDays = 1
CHECK_DEADLOCK FALSE
SPECIFICATION SplitSpec
INVARIANTS
    SplitTypeOK
    TrainingIsBlind
    TestsTile
    RefitMovesForward
