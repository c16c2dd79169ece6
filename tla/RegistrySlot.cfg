SPECIFICATION FairSpec
CONSTANTS
    Version <- MCBuildVersion
    File <- MCFile
    Lexical <- MCBuilds
    Files <- MCFiles
    ReportFile <- MCReport
    Configs <- MCGitHub
    Host <- MCHost
    Slot = "blue"
    PageSize = 1
    MaxPages = 1
    FaultKinds = {}
    MaxFaults = 0
    MaxPublish = 2
    MaxExpiries = 0
PROPERTIES LatestTaken
