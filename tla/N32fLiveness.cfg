CONSTANTS
    a = a
    b = b
    q1 = q1
    q2 = q2
    q3 = q3
    Node = {a, b}
    NoNode = NoNode
    Request = {q1, q2, q3}
    NoRequest = NoRequest
    Reply <- OneReply
    Deployments <- CircleOnly
SPECIFICATION FairSpec
PROPERTIES
    SbiAnswers
    NbiAnswers
CHECK_DEADLOCK FALSE
