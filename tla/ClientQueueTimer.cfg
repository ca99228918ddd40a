\* Two requests and the timer.
CONSTANTS
    Requests = {r1, r2}
    Proactive = Proactive
    MaxOrphans = 2
    MaxRefusals = 2
    Workload = {"timer"}
SPECIFICATION FairSpec
PROPERTIES
    EveryRequestSettles
CHECK_DEADLOCK FALSE
