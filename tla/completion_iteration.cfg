SPECIFICATION FairCompletionSpec
CONSTANTS
    ok = ok
    no = no
    NoVerdict = NoVerdict
    NoOne = NoOne
    NotLoaded = NotLoaded
    c1 = c1
    Verdicts = {ok, no}
    N = 3
    Routers <- LoopRouters
    Routes <- LoopRoutes
    DefaultRoute <- LoopDefault
    RunsWhen <- LoopRunsWhen
    OnSuccess <- LoopOnSuccess
    FinalSteps = {}
    MaxRetries <- LoopRetries
    MaxLoopIterations = 1
    Callers = {c1}
    Processes = {"processor"}
    Home <- OneProcess
    Deliverers = {c1}
    Operators = {}
    EventsOf <- ScanEvents
    MaxReports = 3
    MaxMishaps = 0
PROPERTIES
    ReportsCount
CHECK_DEADLOCK FALSE
