\* A prune against a wrapper that was killed around the spawn.
SPECIFICATION Spec
CONSTANTS
    Runs = {r1}
    Pruners = {p1}
    Revokers = {}
    Margin = 1
    Lifetimes = {2}
    MaxClock = 1
    MaxEpoch = 0
    MaxGen = 1
    PidReuse = FALSE
PROPERTY
    PruneNeverInterrupts
