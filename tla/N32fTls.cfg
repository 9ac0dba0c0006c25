CONSTANTS
    a = a
    b = b
    q1 = q1
    q2 = q2
    q3 = q3
    Node = {a, b}
    NoNode = NoNode
    Request = {q1, q2, q3}
    NoRequest = NoRequest
    Reply <- TwoReplies
    Deployments <- TlsOnly
SPECIFICATION Spec
INVARIANT AnswerIsProducers
CHECK_DEADLOCK FALSE
