SPECIFICATION StartedSpec
CONSTANTS
    ok = ok
    no = no
    NoVerdict = NoVerdict
    NoOne = NoOne
    NotLoaded = NotLoaded
    c1 = c1
    Verdicts = {ok}
    N = 3
    Routers = {}
    Routes <- LineRoutes
    DefaultRoute <- LineDefault
    RunsWhen <- LineRunsWhen
    OnSuccess <- LineOnSuccess
    FinalSteps = {}
    MaxRetries <- LineRetries
    MaxLoopIterations = 1
    Callers = {c1, c2}
    Processes = {"processor", "bot"}
    Home <- TwoProcesses
    Deliverers = {c1, c2}
    Operators = {}
    EventsOf <- DeploymentEvents
    MaxReports = 1
    MaxMishaps = 0
INVARIANTS
    SingleActiveStep
CHECK_DEADLOCK FALSE
