SPECIFICATION TablesSpec
CONSTANTS
    s1 = s1
    s2 = s2
    s3 = s3
    c1 = c1
    c2 = c2
    c3 = c3
    Socks = {s1, s2, s3}
    Clients = {c1, c2, c3}
    Backlog = 2
    Width = 8
    MaxLate = 1
    McGroups = {"g"}
    General = "any"
    McSockets = 2
    McSources = {"x"}
    McTimers = 1
    McMixed = 2
    TreeSize = 5
SYMMETRY Symmetry
INVARIANTS PendingCounted BacklogKept OnlyItself NoTimerAfterFree McMembership McReportsAhead TreeSound
CHECK_DEADLOCK FALSE
