\* Two requests refused four times in all, refreshes by timer and by refusal,
\* sign-in and logout.
CONSTANTS
    Requests = {r1, r2}
    Proactive = Proactive
    MaxOrphans = 2
    MaxRefusals = 4
    Workload = {"sign_in", "logout", "timer"}
SPECIFICATION FairSpec
INVARIANTS
    TypeOK
    OneRefreshAtATime
    NoRefreshAfterFailure
PROPERTIES
    RenewalGoesOn
    OnlyTimersStrandRequests
CHECK_DEADLOCK FALSE
