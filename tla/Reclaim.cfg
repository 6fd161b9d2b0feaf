\* One run and one prune that is repeated for ever: is every record reclaimed?
SPECIFICATION FairSpec
CONSTANTS
    Runs = {r1}
    Pruners = {p1}
    Revokers = {}
    Margin = 1
    Lifetimes = {2}
    MaxClock = 2
    MaxEpoch = 0
    MaxGen = 1
    PidReuse = FALSE
PROPERTY
    IdleRunReclaimed
