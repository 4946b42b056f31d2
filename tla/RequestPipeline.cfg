CONSTANTS
    Root = "root"
    Dirs <- RootAndSub
    FileNames <- SiteNames
    Configs <- SiteConfigs
    MaxEdits = 1

SPECIFICATION Spec

INVARIANTS
    TypeOK
    AnswerAsDocumented
    BrowseListsFolders

PROPERTIES
    Answered

\* an answered request is the end
CHECK_DEADLOCK FALSE
