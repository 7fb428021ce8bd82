SPECIFICATION CompletionSpec
CONSTANTS
    ok = ok
    no = no
    NoVerdict = NoVerdict
    NoOne = NoOne
    NotLoaded = NotLoaded
    c1 = c1
    Verdicts = {ok, no}
    N = 3
    Routers <- LoopRouters
    Routes <- LoopRoutes
    DefaultRoute <- LoopDefault
    RunsWhen <- LoopRunsWhen
    OnSuccess <- LoopOnSuccess
    FinalSteps = {}
    MaxRetries <- LoopRetries
    MaxLoopIterations = 1
    Callers = {c1, c2}
    Processes = {"processor"}
    Home <- OneProcess
    Deliverers = {c1, c2}
    Operators = {}
    EventsOf <- ProcessorEvents
    MaxReports = 3
    MaxMishaps = 1
INVARIANTS
    CompletionTypeOK
    OneStepInHand
    RecordedOnce
    RecordedIsApplied
PROPERTIES
    FollowsLifecycle
CHECK_DEADLOCK FALSE
