SPECIFICATION FairSpec
CONSTANTS
    MaxPort = 6
    MaxSpan = 3
    Args <- MCArgs
    Releases = {r1, r2}
    Threaded = {r1}
    NoRelease = NoRelease
    Contested = {1, 6}
    MaxAttempts = 2
    MaxNotifyErrors = 2
    MaxErrorCount = 3
    MaxSignals = 2
INVARIANTS
    TypeOK
    ErrorsLimited
    SilentWhileFailing
    MessagesInThread
    ConfiguredAsAsked
PROPERTIES
    StartFailsOnlyIfRefused
    ListFindsInstance
    TermStops
