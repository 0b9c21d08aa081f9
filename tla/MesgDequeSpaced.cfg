\* Alarms so far apart that the file thread is waiting at each of them.
SPECIFICATION FairSpec
CONSTANTS
    MaxPuts <- MCMaxPutsSpaced
    NumsWidth <- MCNumsWidth
    Spurious = FALSE
    Pace = "whileWaiting"
PROPERTIES
    ImplementsFifo
\* After MaxPuts messages the file thread waits for ever.
CHECK_DEADLOCK FALSE
