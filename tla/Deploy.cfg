\* Three deployments, full and selective, with two faults.
CONSTANTS
    Services = {client_mx, server_nest}
    Frontend = client_mx
    Api = server_nest
    Rounds = 2
    MaxDeploys = 3
    MaxFaults = 2
SPECIFICATION FairSpec
CHECK_DEADLOCK FALSE
INVARIANTS
    TypeOK
    AWayThrough
    LinkFollowsTraffic
PROPERTIES
    PagesAreNeverCut
    DeploysTheCommit
    DeployEnds
