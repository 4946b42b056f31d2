CONSTANTS
    f1 = f1
    f2 = f2
    NoProfile = NoProfile
    Profiles <- TwoProfiles
    Platforms <- OnLinux
    Faults <- NoFaults
    MaxKills = 0

SPECIFICATION Spec

INVARIANTS
    RemovesOnExit
