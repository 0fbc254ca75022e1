SPECIFICATION FairSpec
CONSTANTS
    Session = {"root", "child"}
    Sub = {"child"}
    RawBranch = {"main", "HEAD"}
    ConfigFile <- Files
    MaxEvents = 2
    MaxChanges = 1
CHECK_DEADLOCK FALSE
INVARIANT TypeOK
INVARIANT SendsAsConfigured
INVARIANT SubagentsSilent
INVARIANT IdleOnlyWhenQuiet
INVARIANT BranchLabelCurrent
INVARIANT CoalescedNotLost
PROPERTY Debounced
PROPERTY EventHookReturns
