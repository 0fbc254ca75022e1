SPECIFICATION Spec
CONSTANTS
    Workspace = {w1}
INVARIANT NoZombieTurns
