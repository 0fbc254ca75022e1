SPECIFICATION Spec
CONSTANTS
    Workspace = {w1, w2, w3}
SYMMETRY WorkspaceSymmetry
INVARIANT TypeOK
INVARIANT ZombiesOnlyUnprobed
INVARIANT OnlyKnownGaps
PROPERTY NudgeOnlyInterrupted
