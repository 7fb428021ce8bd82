SPECIFICATION Spec
CONSTANTS
    ok = ok
    no = no
    NoVerdict = NoVerdict
    Callers = {c1}
    Verdicts = {ok, no}
    N = 3
    Routers <- DetourRouters
    Routes <- DetourRoutes
    DefaultRoute <- DetourDefault
    RunsWhen <- DetourRunsWhen
    OnSuccess <- DetourOnSuccess
    FinalSteps = {}
    MaxRetries <- DetourRetries
    MaxLoopIterations = 1
PROPERTIES
    RoutesOnLatestReport
CHECK_DEADLOCK FALSE
