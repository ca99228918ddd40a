\* A verification and a registration at once.
CONSTANTS
    Emails = {e1}
    Tokens = {t1}
    Handlers = {h1, h2}
    NoEmail = NoEmail
    NoToken = NoToken
    TTL = 1
    MaxUsers = 2
    MaxTime = 3
    Workload = {"register", "verify_email"}
SPECIFICATION Spec
SYMMETRY Symmetry
PROPERTIES
    VerifiedAccountsSurvive
CHECK_DEADLOCK FALSE
