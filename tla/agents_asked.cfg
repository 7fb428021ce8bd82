\* One issue with one failure and one launch, command or comment from outside;
\* both tools are logged and seen.
CONSTANTS
    Issues = {i1}
    NumSteps = 2
    Tools = {copilot, gemini}
    LoggedTools = {copilot, gemini}
    SeenTools = {copilot, gemini}
    FuseMax = 2
    MissMax = 2
    MaxPids = 6
    MaxFaults = 1
    MaxTriggers = 1
SYMMETRY ToolSymmetry
SPECIFICATION Spec
INVARIANTS
    TypeOK
    FuseBoundsRetries
    FinalizedAtMostOnce
CHECK_DEADLOCK FALSE
