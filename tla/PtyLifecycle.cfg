SPECIFICATION Spec
CONSTANTS
    Pty = {p1, p2}
    MaxMessages = 4
    MaxMentions = 1
    MaxRestarts = 2
SYMMETRY PtySymmetry
CHECK_DEADLOCK FALSE
INVARIANT TypeOK
INVARIANT RunningIsPending
INVARIANT HealMirrorsParser
INVARIANT KilledIsRecovered
PROPERTY SettledOnce
