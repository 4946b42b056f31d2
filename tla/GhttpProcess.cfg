CONSTANTS
    c1 = c1
    c2 = c2
    Unset = Unset
    Conns <- TwoConns
    MaxSignals = 3
    Settings <- SomeSettings
    Arguments <- AllArguments

SPECIFICATION ProcessSpec

INVARIANTS
    TypeOK
    ProcessTypeOK
    NoRequestCut
    NilMeansAsked
    ConfiguredAsDocumented
    ZeroMeansDone

PROPERTIES
    StopsOnFailure
    SignalEndsProcess

CHECK_DEADLOCK FALSE
