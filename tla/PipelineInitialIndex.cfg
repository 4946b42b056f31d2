CONSTANTS
    Root = "root"
    Dirs <- RootOnly
    FileNames <- IndexNames
    Configs <- IndexConfigs
    MaxEdits = 0

SPECIFICATION Spec

PROPERTIES
    Answered

CHECK_DEADLOCK FALSE
