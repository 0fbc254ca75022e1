SPECIFICATION FairSpec
CONSTANTS
    None = None
    Tick = {t1, t2, t3}
    Session = {s1}
    Mode = "skip-if-dirty"
INVARIANT TypeOK
INVARIANT OneInitialPrompt
INVARIANT LockReleasedMeansVisible
INVARIANT ContinuationAfterFirstRun
PROPERTY LockReleased
