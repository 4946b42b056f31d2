CONSTANTS
    Root = "root"
    Dirs <- RootOnly
    FileNames <- HtmNames
    Configs <- PlainConfigs
    MaxEdits = 0

SPECIFICATION Spec

INVARIANTS
    NoListingWhenDisabled

CHECK_DEADLOCK FALSE
