\* Counters that start again, a database that fails, months and starts.
SPECIFICATION Spec
CONSTANTS
    LastMonth <- MCLastMonth
    Cap <- MCCap
    MaxPassed <- MCMaxPassed
    MaxBoots <- MCMaxBoots
    MaxMonth <- MCMaxMonth
INVARIANTS
    NeverOvercounts
    SampledIsStored
PROPERTIES
    TotalNeverShrinks
