\* Two deployments with nothing going wrong.
CONSTANTS
    Services = {client_mx, server_nest}
    Frontend = client_mx
    Api = server_nest
    Rounds = 1
    MaxDeploys = 2
    MaxFaults = 0
SPECIFICATION Spec
CHECK_DEADLOCK FALSE
PROPERTIES
    CallsAreNeverCut
