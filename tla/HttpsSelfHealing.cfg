CONSTANTS
    p1 = p1
    p2 = p2
    k1 = k1
    k2 = k2
    k3 = k3
    k4 = k4
    k5 = k5
    k6 = k6
    k7 = k7
    r1 = r1
    r2 = r2
    Absent = Absent
    Torn = Torn
    NoHosts = NoHosts
    Instances <- OneInstance
    Keys <- SevenKeys
    Requests <- TwoRequests
    Faults <- NoFaults
    CrashPoints <- OutsideCaTruncated
    MaxCrashes = 3
    MayAge = FALSE

SPECIFICATION FairSpec

PROPERTIES
    SelfHealing
