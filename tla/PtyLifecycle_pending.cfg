SPECIFICATION Spec
CONSTANTS
    Pty = {p1, p2}
    MaxMessages = 4
    MaxMentions = 1
    MaxRestarts = 2
CHECK_DEADLOCK FALSE
INVARIANT PendingHasMessageToCome
