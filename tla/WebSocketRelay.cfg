SPECIFICATION FairSpec
CONSTANTS
    MaxChunks = 3
INVARIANTS
    TypeOK
    NothingSkipped
    RoomToSignal
PROPERTIES
    NoHalfOpen
    EveryChunkArrives
\* the upgrade was refused, or the relay is over
CHECK_DEADLOCK FALSE
