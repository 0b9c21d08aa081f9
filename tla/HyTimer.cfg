\* Single and circular timers of one and two seconds, three at a time.
SPECIFICATION TimerFairSpec
CONSTANTS
    Starters <- MCStarters
    Functions <- MCFunctions
    Times <- MCTimes
    MaxTimers <- MCMaxTimers
    NoTimer = NoTimer
INVARIANTS
    OnSchedule
    NeverOverdue
PROPERTIES
    StartedTimerFires
