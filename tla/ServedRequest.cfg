SPECIFICATION ServedSpec
CONSTANTS
    Segments <- SmallSegments
    Settings <- AllSettings
    Followed <- FollowedSettings
    Paths <- SmallPaths
    Canonical <- CanonicalName
    PolicyValues = {"x", "y"}
    MaxHints = 2
INVARIANTS
    TypeOK
    TablesTypeOK
    RoutedToLongestPrefix
    StreamedAsMapped
    MostSpecificHeader
    PolicyOnFirst
    ServerOnFirst
    LogMatchesWire
    WireFollowsSettings
\* a command with settings that are refused ends
CHECK_DEADLOCK FALSE
