\* One login; time in units of 5 seconds.
SPECIFICATION Spec
CONSTANTS
    Intervals = {0, 1, 2, 3}
    Step = 1
    Lifetime = 8
    MaxPace = 5
INVARIANTS
    PollsRespectPace
    NoPollAfterToken
PROPERTIES
    ImplementsAuthorization
    FlowEnds
