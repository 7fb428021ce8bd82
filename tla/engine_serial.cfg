SPECIFICATION FairSpec
CONSTANTS
    ok = ok
    no = no
    NoVerdict = NoVerdict
    Callers = {c1}
    Verdicts = {ok, no}
    N = 6
    Routers <- FeedbackRouters
    Routes <- FeedbackRoutes
    DefaultRoute <- FeedbackDefault
    RunsWhen <- FeedbackRunsWhen
    OnSuccess <- FeedbackOnSuccess
    FinalSteps <- FeedbackFinal
    MaxRetries <- FeedbackRetries
    MaxLoopIterations = 2
INVARIANTS
    TypeOK
    FailureExplained
PROPERTIES
    FollowsLifecycle
    LoopsEnd
CHECK_DEADLOCK FALSE
