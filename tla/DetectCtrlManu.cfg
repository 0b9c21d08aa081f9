\* A manual request against the timer of an earlier automatic one.
SPECIFICATION Spec
CONSTANTS
    Starters <- MCStarters
    Functions <- MCFunctions
    Times <- MCTimes
    MaxTimers <- MCMaxTimers
    DetectDelay <- MCDetectDelay
    HornTime <- MCHornTime
    MaxAutos <- MCMaxAutos
    MaxAlarms <- MCMaxAlarms
    NoTimer = NoTimer
INVARIANTS
    ManuStaysOff
