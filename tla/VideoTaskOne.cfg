\* Two tasks record at once.
SPECIFICATION Spec
CONSTANTS
    k1 = k1
    k2 = k2
    k3 = k3
    Tasks <- MCTasks
    MaxSending <- MCMaxSending
    CuntWidth <- MCCuntWidth
SYMMETRY Symmetry
INVARIANTS
    AtMostOneRecording
