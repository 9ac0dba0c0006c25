CONSTANTS
    a = a
    b = b
    p = p
    Node = {a, b, p}
    NoNode = NoNode
    NoCtx = NoCtx
    Deployments <- AllDeployments
    MaxBoot <- NoRestart
SPECIFICATION FairSpec
PROPERTIES
    StartupEnds
    StopEnds
CHECK_DEADLOCK FALSE
