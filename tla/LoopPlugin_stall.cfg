SPECIFICATION FairSpec
CONSTANTS
    None = None
    Session = {s1}
    Sub = {}
    Slot = {h1, h2}
    MaxIterations = 3
    MAX_CONSECUTIVE_FAILURES = 3
    MaxRuns = 1
    MaxIdle = 1
    Faults = {}
PROPERTY IdleLoopContinues
