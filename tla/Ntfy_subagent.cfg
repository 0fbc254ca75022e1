SPECIFICATION Spec
CONSTANTS
    Session = {"root", "child"}
    Sub = {"child"}
    RawBranch = {"main", "HEAD"}
    ConfigFile <- Files
    MaxEvents = 2
    MaxChanges = 1
CHECK_DEADLOCK FALSE
INVARIANT FailsClosed
