SPECIFICATION FairSpec
CONSTANTS
    NoProc = NoProc
    Proc = {p1, p2}
    MaxIssue = 2
INVARIANT TypeOK
INVARIANT RefreshExclusive
INVARIANT CacheCurrent
INVARIANT RefreshesWhatItRead
PROPERTY LogoutNotUndone
PROPERTY NotLoggedInIsHonest
PROPERTY EveryCommandReturns
