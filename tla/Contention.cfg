\* Two commands with configurations of their own, a command and a login, or two
\* logins: who may replace or return what?
SPECIFICATION MCSpec
CONSTANTS
    Acquirers = {t1, t2}
    Logins = {l1, l2}
    Revokers = {}
    Authorities = {"app"}
    Policies = {"read", "write"}
    Margin = 1
    Window = 2
    Lifetimes = {2}
    MaxTokens = 3
    MaxClock = 1
    MaxEpoch = 0
    Meetings = {{t1, t2}, {t1, l1}, {l1, l2}}
CHECK_DEADLOCK FALSE
INVARIANTS
    WorkingTokensAccounted
    ReturnedTokenFits
PROPERTIES
    OnlyRenewalDisplaces
