\* Requests, alarms and timers in every order, with datagrams that are lost.
SPECIFICATION FairSpec
CONSTANTS
    Starters <- MCStarters
    Functions <- MCFunctions
    Times <- MCTimes
    MaxTimers <- MCMaxTimers
    DetectDelay <- MCDetectDelay
    HornTime <- MCHornTime
    MaxAutos <- MCMaxAutos
    MaxAlarms <- MCMaxAlarms
    NoTimer = NoTimer
INVARIANTS
    HornClosePending
    OffOnlyOnRequest
    StaleAutosDieOut
    AtMostOneLateFrame
PROPERTIES
    HornGoesOff
    AutoTurnsDetectionOn
