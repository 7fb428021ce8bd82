\* The processor is restarted once.
CONSTANTS
    Issues = {i1}
    NumSteps = 2
    Tools = {copilot, gemini}
    LoggedTools = {copilot, gemini}
    SeenTools = {copilot, gemini}
    FuseMax = 2
    MissMax = 2
    MaxPids = 5
    MaxFaults = 1
    MaxTriggers = 0
SPECIFICATION FairSpec
PROPERTIES
    CompletedIsFinalized
CHECK_DEADLOCK FALSE
