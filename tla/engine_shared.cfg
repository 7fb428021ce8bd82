SPECIFICATION Spec
CONSTANTS
    ok = ok
    no = no
    NoVerdict = NoVerdict
    Callers = {c1, c2}
    Verdicts = {ok, no}
    N = 3
    Routers <- DetourRouters
    Routes <- DetourRoutes
    DefaultRoute <- DetourDefault
    RunsWhen <- DetourRunsWhen
    OnSuccess <- DetourOnSuccess
    FinalSteps = {}
    MaxRetries <- DetourRetries
    MaxLoopIterations = 1
INVARIANTS
    Inductive
    OneStepInHand
CHECK_DEADLOCK FALSE
