CONSTANTS
    a = a
    b = b
    p = p
    Node = {a, b, p}
    NoNode = NoNode
    NoCtx = NoCtx
    Deployments <- AllDeployments
    MaxBoot <- OneRestart
SPECIFICATION Spec
INVARIANTS
    TypeOK
    ContextParties
    ForwardContextIsOwn
    ForwardContextAdopted
    ForwardMatchesHandshake
    ConfirmedTerminationClears
PROPERTIES
    LiveContextKept
    HalfOpenIsTerminated
CHECK_DEADLOCK FALSE
