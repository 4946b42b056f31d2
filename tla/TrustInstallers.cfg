CONSTANTS
    f1 = f1
    f2 = f2
    NoProfile = NoProfile
    Profiles <- TwoProfiles
    Platforms <- AllPlatforms
    Faults <- AllFaults
    MaxKills = 1

SPECIFICATION Spec

INVARIANTS
    TypeOK
    InstallReachesProfiles
    UninstallClears
    UserLinesKept

PROPERTIES
    ImplementsTrustChange
