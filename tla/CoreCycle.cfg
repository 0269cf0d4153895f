SPECIFICATION Spec
CONSTANTS
    Pids = {p1}
    Scanners = {"modules", "hollowing"}
    Risk <- MCRisk
    Window = 2
    MinSamples = 2
    MinAverage = 55
    MinPeak = 80
    High = 50
    MinHigh = 3
    Settle = 2
    Threshold = 80
    Turn = 6
    MaxStarts = 2
    MaxEdits = 2
    MaxFaults = 1
    Written <- MCWritten
    None = none
    Absent = absent
    Broken = broken
CHECK_DEADLOCK FALSE
INVARIANT TypeOK
PROPERTY EnforcedOnEvidence
PROPERTY CheatIsStopped
PROPERTY EditsTakeEffect
