\* One device, two handlers; time passes a token's lifetime twice, and rows
\* disappear under the refreshes in every way they can.
CONSTANTS
    UserIds = {u1}
    Devices = {d1}
    TokenIds = {t1, t2, t3}
    Procs = {p1, p2}
    MaxTokens = 2
    Lifetime = 1
    MaxTime = 2
    Workload = {"sign_in", "refresh", "logout", "logout_all", "soft_delete", "hard_delete", "cron_tokens", "cron_users"}
    Null = Null
SPECIFICATION Spec
SYMMETRY Symmetry
INVARIANTS
    TypeOK
    OneTokenPerSession
    NeverTakenForTheft
    UnusedCleanupSparesLiveSessions
PROPERTIES
    ImplementsLedger
