\* The deque at the pace the start order guarantees, with spurious wakeups.
SPECIFICATION FairSpec
CONSTANTS
    MaxPuts <- MCMaxPuts
    NumsWidth <- MCNumsWidth
    Spurious = TRUE
    Pace = "afterFirstWait"
INVARIANTS
    CountMatchesList
    ExactlyOnceInOrder
    NoLostWakeup
PROPERTIES
    HeadOnlyAfterWakeup
    PutReturns
    EveryMessageTaken
\* After MaxPuts messages the file thread waits for ever.
CHECK_DEADLOCK FALSE
