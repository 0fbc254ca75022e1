SPECIFICATION FairSpec
CONSTANTS
    None = None
    Session = {s1}
    Sub = {}
    Slot = {h1, h2}
    MaxIterations = 2
    MAX_CONSECUTIVE_FAILURES = 3
    MaxRuns = 2
    MaxIdle = 1
    Faults = {"http", "delete", "restart"}
INVARIANT TypeOK
INVARIANT StoppedStaysStopped
INVARIANT LabelsDistinct
INVARIANT SingleFlight
PROPERTY FailureBudget
PROPERTY TrackerReleased
PROPERTY LoopSurvivesRestart
