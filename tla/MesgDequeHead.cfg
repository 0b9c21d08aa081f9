\* Two alarms close to each other, and no spurious wakeup.
SPECIFICATION Spec
CONSTANTS
    MaxPuts <- MCMaxPuts
    NumsWidth <- MCNumsWidth
    Spurious = FALSE
    Pace = "afterFirstWait"
INVARIANTS
    HeadNeverTaken
CHECK_DEADLOCK FALSE
