\* Calls that make and end sessions, and calls that need none, two at a time,
\* without a clock.
CONSTANTS
    Tabs = {t1, t2}
    Kinds = {"sign_in", "refresh", "logout", "register", "verify_email"}
    AccessLife = 1
    Buffer = 1
    MinTtl = 0
    MaxRequests = 4
    MaxChanges = 0
    MaxTime = 0
SPECIFICATION FairSpec
CHECK_DEADLOCK FALSE
INVARIANTS
    CookiesFollowTheSession
    LoggedOutMeansGone
    RefusalsKeepTheirStatus
PROPERTIES
    EveryRequestAnswered
