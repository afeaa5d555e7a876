\* Three weeks of five trading days, labels over five rows, a gap of five days.
CONSTANTS
    Calendars <- WeekCalendars
    MaxSplits = 3
    MaxGap = 5
    MaxHorizon = 5
    MinFoldDays = 1
CHECK_DEADLOCK FALSE
SPECIFICATION SplitSpec
INVARIANTS
    LabelsNeverReachTest
