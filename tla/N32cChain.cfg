CONSTANTS
    a = a
    b = b
    p = p
    Node = {a, b, p}
    NoNode = NoNode
    NoCtx = NoCtx
    Deployments <- ChainOnly
    MaxBoot <- NoRestart
SPECIFICATION Spec
CHECK_DEADLOCK FALSE
INVARIANT TerminationReachesPeer
