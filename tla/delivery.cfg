CONSTANTS
    Tasks = {t1, t2, f1, f2}
    f1 = f1
    f2 = f2
    IssueFile <- Files
    NoTask = none
    ClaimLimit = 2
    MaxRows = 2
    FirstTasks = {t1}
    MaxFails = 1
    MaxAsked = 1
    Title <- OneTitle
    MaxIssues = 2
    Repos = {home, lib}
    Home = home
    AtOnce = {lib}
SPECIFICATION FairSpec
INVARIANTS
    DeliveryTypeOK
    OneIssuePerRequest
    TaskIsTakenOnce
    MergedOnlyIfApproved
    NothingLeftBehind
PROPERTIES
    
    RestartNeedsResubmission
    FollowsIssueLife
    InboxDrains
    CompletedAreFinalized
    MergeQueueDrains
CHECK_DEADLOCK FALSE
