--------------------------- MODULE MCN32fForward ---------------------------
(***************************************************************************)
(* Instances of N32fForward for TLC: two SEPPs and three requests.         *)
(***************************************************************************)
EXTENDS N32fForward, TLC

CONSTANTS a, b, q1, q2, q3

From(n, method, body, parent) ==
    [home |-> n, method |-> method, body |-> body, parent |-> parent]

Both(x) == a :> x @@ b :> x

\* a is a C-SEPP, b a P-SEPP: two requests, and a callback b cannot relay.
OneWay ==
    [peer |-> (a :> b @@ b :> NoNode), cap |-> Both("PRINS"),
     register |-> Both(TRUE),
     call |-> (q1 :> From(a, "POST", "object", NoRequest)
            @@ q2 :> From(a, "GET", "none", NoRequest)
            @@ q3 :> From(b, "PATCH", "object", q1))]

\* Both are C-SEPPs.  The producer of q1 makes q2, the producer of q2 q3.
Circle ==
    [OneWay EXCEPT
        !.peer = (a :> b @@ b :> a),
        !.call = (q1 :> From(a, "POST", "object", NoRequest)
               @@ q2 :> From(b, "POST", "object", q1)
               @@ q3 :> From(a, "DELETE", "none", q2))]

\* One is configured for PRINS, the other for TLS.
Mixed ==
    [Circle EXCEPT
        !.cap = (a :> "PRINS" @@ b :> "TLS"),
        !.call = (q1 :> From(a, "GET", "none", NoRequest)
               @@ q2 :> From(b, "GET", "none", NoRequest)
               @@ q3 :> From(b, "PUT", "object", NoRequest))]

\* b has no forwarding object.
Unregistered == [OneWay EXCEPT !.register = (a :> TRUE @@ b :> FALSE)]

\* Both are configured for TLS.
Tls == [OneWay EXCEPT !.cap = Both("TLS"),
                      !.call = [OneWay.call EXCEPT ![q3].parent = NoRequest,
                                                   ![q3].home = a]]

Ok      == [status |-> 200, body |-> "object"]
Empty   == [status |-> 204, body |-> "none"]
Missing == [status |-> 404, body |-> "object"]

TwoReplies == {Empty, Missing}
OneReply   == {Ok}

Faithful   == {OneWay, Circle, Mixed, Unregistered}
CircleOnly == {Circle}
TlsOnly    == {Tls}
=============================================================================
