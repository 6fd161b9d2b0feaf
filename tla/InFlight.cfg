\* A revoke that starts while a wrapper issues its token.
SPECIFICATION Spec
CONSTANTS
    Runs = {r1}
    Pruners = {}
    Revokers = {v1}
    Margin = 1
    Lifetimes = {2}
    MaxClock = 1
    MaxEpoch = 1
    MaxGen = 1
    PidReuse = FALSE
CHECK_DEADLOCK FALSE
PROPERTY
    AdvanceInvalidatesBegunIssuance
