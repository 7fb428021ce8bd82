SPECIFICATION CompletionSpec
CONSTANTS
    ok = ok
    no = no
    NoVerdict = NoVerdict
    NoOne = NoOne
    NotLoaded = NotLoaded
    c1 = c1
    Verdicts = {no}
    N = 2
    Routers <- PairRouters
    Routes <- PairRoutes
    DefaultRoute <- PairDefault
    RunsWhen <- PairRunsWhen
    OnSuccess <- PairOnSuccess
    FinalSteps = {}
    MaxRetries <- PairRetries
    MaxLoopIterations = 1
    Callers = {c1, c2}
    Processes = {"processor", "bot"}
    Home <- TwoProcesses
    Deliverers = {c1, c2}
    Operators = {c2}
    EventsOf <- DeploymentEvents
    MaxReports = 1
    MaxMishaps = 1
INVARIANTS
    Accounted
    RecordedIsApplied
    LoopGuardKept
CHECK_DEADLOCK FALSE
