SPECIFICATION FairSpec
CONSTANTS
    Version <- MCVersion
    File <- MCFile
    Lexical <- MCLexical
    Files <- MCFiles
    ReportFile <- MCReport
    Configs <- MCConfigs
    Host <- MCHost
    Slot = ""
    PageSize = 1
    MaxPages = 1
    FaultKinds = {"list", "objects", "download"}
    MaxFaults = 1
    MaxPublish = 2
    MaxExpiries = 1
INVARIANTS TypeOK ComparesByPrecedence AnswerCoversCall AnswerInstallable AssetFoundAgain StagedAsAnswered
PROPERTIES NoDowngrade LatestTaken
