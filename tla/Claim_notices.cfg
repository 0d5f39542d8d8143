CONSTANTS
    Agents = {a1, a2}
    Readers = {a1}
    Targets = {a1, "broadcast"}
    Calls = {c1, c2}
    ReadLimit = 1
    MaxSize = 1
    MaxMessages = 1
    MaxNotices = 1
    MaxCalls = 2
CHECK_DEADLOCK FALSE
SPECIFICATION Spec
INVARIANT NoticesAreShown
