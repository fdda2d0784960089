CONSTANTS
    Delays = {0, 1}
    Hashes = {1}
    IdSpace = 5
    FirstIds = {4}
    MaxTime = 2
    MaxAdds = 4
    PerBlock = 3
    Blocks = 2
SPECIFICATION Spec
INVARIANTS InsideBlocks NoTimerLeak
PROPERTIES Implements EveryTimerEnds
