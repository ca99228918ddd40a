\* Three handlers: sign-ins race with each other and with the ends of their
\* account. The supply of token ids runs out.
CONSTANTS
    UserIds = {u1}
    Devices = {d1, d2}
    TokenIds = {t1, t2, t3, t4}
    Procs = {p1, p2, p3}
    MaxTokens = 1
    Lifetime = 2
    MaxTime = 0
    Workload = {"sign_in", "logout_all", "soft_delete", "hard_delete", "update_user", "cron_users"}
    Null = Null
SPECIFICATION Spec
SYMMETRY Symmetry
INVARIANTS
    SessionLimitUpToRaces
    DeactivatedOnlyKeepsRacingSignIns
CHECK_DEADLOCK FALSE
