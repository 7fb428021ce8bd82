\* One issue, two steps, and two tools of which the timeout scan and the plugin's
\* pgrep know only one; up to two failures, and nobody else asks for launches.
CONSTANTS
    Issues = {i1}
    NumSteps = 2
    Tools = {copilot, ollama}
    LoggedTools = {copilot}
    SeenTools = {copilot}
    FuseMax = 2
    MissMax = 2
    MaxPids = 4
    MaxFaults = 2
    MaxTriggers = 0
SPECIFICATION FairSpec
INVARIANTS
    TypeOK
    OneAgentUnlessAskedFor
    FuseBoundsRetries
    FinalizedAtMostOnce
PROPERTIES
    RetriesAreForTheRunningStep
    StrandedStepIsServed
    HungAgentIsStopped
CHECK_DEADLOCK FALSE
