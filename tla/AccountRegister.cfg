\* Registrations, verifications and administration, two at a time.
CONSTANTS
    Emails = {e1, e2}
    Tokens = {t1, t2}
    Handlers = {h1, h2}
    NoEmail = NoEmail
    NoToken = NoToken
    TTL = 1
    MaxUsers = 2
    MaxTime = 2
    Workload = {"register", "verify_email", "cleanup", "email", "verify", "unverify", "deactivate", "delete"}
SPECIFICATION Spec
SYMMETRY Symmetry
CHECK_DEADLOCK FALSE
INVARIANTS
    TypeOK
    OneAccountPerAddress
    BlockedMeansVerifiable
PROPERTIES
    FreshAccountsSurvive
    VerifiedByItsLink
