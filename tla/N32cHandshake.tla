--------------------------- MODULE N32cHandshake ---------------------------
(***************************************************************************)
(* The N32-c control plane of a set of SEPPs: the capability exchange and  *)
(* the parameter exchange that a C-SEPP runs towards its first roaming     *)
(* partner while it starts, the N32-f context both ends keep, and the      *)
(* termination of that context when the C-SEPP is stopped.                 *)
(*                                                                         *)
(* One process is one node.  Its state is one handshake object             *)
(* (sepp_n32c_handshake), one forwarding object (sepp_n32f_forward) and    *)
(* the point its main thread or signal handler has reached.  Nothing is    *)
(* persisted, so a process that starts again starts from empty strings.    *)
(* Messages are HTTP calls: a call waits for its answer or for the timeout *)
(* of the client, and the server it was sent to may process it after the   *)
(* caller has given up.                                                    *)
(***************************************************************************)
EXTENDS Naturals, FiniteSets

CONSTANTS
    Node,         \* the SEPP processes
    NoNode,       \* "no remote SEPP URL"
    NoCtx,        \* the empty context id
    Deployments,  \* the configurations of the nodes considered
    MaxBoot       \* bound: how many times each process is started

Capability == {"PRINS", "TLS"}

(***************************************************************************)
(* A context id is a random UUID that its creator draws at most once per   *)
(* start: the creator and the number of the start stand for it.            *)
(***************************************************************************)
Ctx == Node \X Nat

Uuid(n, b)     == <<n, b>>
Creator(c)     == c[1]
CreatorBoot(c) == c[2]

(***************************************************************************)
(* peer: the SEPP m_remote_sepp_url names.  A P-SEPP, and a C-SEPP without *)
(* roaming partners, has none.  register: the register_nf switch, without  *)
(* which the constructor of sepp_app creates neither of the two objects.   *)
(***************************************************************************)
Deployment ==
    [peer     : [Node -> Node \cup {NoNode}],
     cap      : [Node -> Capability],
     register : [Node -> BOOLEAN]]

ASSUME NoNodeAssumption == NoNode \notin Node
ASSUME NoCtxAssumption == NoCtx \notin Ctx
ASSUME MaxBootAssumption == MaxBoot \in [Node -> Nat]
ASSUME DeploymentsAssumption ==
    /\ Deployments \subseteq Deployment
    /\ \A d \in Deployments : \A n \in Node : d.peer[n] # n

VARIABLES
    dep,      \* the deployment, fixed at the start
    pc,       \* where each process is
    boot,     \* how often each process was started
    ctx,      \* sepp_n32c_handshake::m_n32c_context_id
    fwd,      \* sepp_n32f_forward::m_n32f_context_id
    reqs,     \* requests on their way, or queued at a server
    answer,   \* the answer to the call a node waits for
    adopted   \* history: the pairs <<p, c>> where p took c from a request

vars == <<dep, pc, boot, ctx, fwd, reqs, answer, adopted>>

Peer(n) == dep.peer[n]

(***************************************************************************)
(* down        no process                                                  *)
(* starting    in the constructor of sepp_app, before the first call       *)
(* capability  waiting for the answer to exchange-capability               *)
(* params      waiting for the answer to exchange-params                   *)
(* up          the servers listen                                          *)
(* terminate   sepp_app::stop waits for the answer to n32f-terminate       *)
(* closing     sepp_app::stop after the termination                        *)
(* released    sepp_app_inst is null, exit is about to be called           *)
(***************************************************************************)
Calling == {"capability", "params", "terminate"}
Phase   == Calling \cup {"down", "starting", "up", "closing", "released"}

Stopping == {"terminate", "closing", "released"}

(***************************************************************************)
(* The signal handler stops the SBI server only: the server on the N32     *)
(* interface answers until the process is gone.                            *)
(***************************************************************************)
Listening == {"up"} \cup Stopping

\* The capability exchange names no context, the other two name one.
Request ==
    [type : {"capability"}, from : Node, boot : Nat, id : {NoCtx}]
      \cup [type : {"params", "terminate"}, from : Node, boot : Nat, id : Ctx]

Answer == [status : {"none", "accepted", "rejected"}, id : Ctx \cup {NoCtx}]

NoAnswer    == [status |-> "none", id |-> NoCtx]
Rejected    == [status |-> "rejected", id |-> NoCtx]
Accepted(c) == [status |-> "accepted", id |-> c]

-----------------------------------------------------------------------------
(***************************************************************************)
(* HTTP.                                                                   *)
(***************************************************************************)

(***************************************************************************)
(* Node n starts a call of the given type with context id c.  A peer that  *)
(* does not listen refuses the connection: nothing is queued, and the call *)
(* can only fail.                                                          *)
(***************************************************************************)
Post(n, type, c) ==
    /\ pc' = [pc EXCEPT ![n] = type]
    /\ reqs' = IF pc[Peer(n)] \in Listening
               THEN reqs \cup {[type |-> type, from |-> n,
                                boot |-> boot[n], id |-> c]}
               ELSE reqs

(***************************************************************************)
(* Does the sender of r still wait for its answer?  Within one start there *)
(* is at most one call of each type.                                       *)
(***************************************************************************)
Waits(r) == pc[r.from] = r.type /\ boot[r.from] = r.boot

(***************************************************************************)
(* A server has processed r with answer a.  The stream of a caller that    *)
(* gave up is closed, and its answer is dropped.                           *)
(***************************************************************************)
Reply(r, a) ==
    /\ reqs' = reqs \ {r}
    /\ answer' = IF Waits(r) THEN [answer EXCEPT ![r.from] = a] ELSE answer

\* Server p takes request r of a type off its queue.
Takes(p, r, type) ==
    /\ pc[p] \in Listening
    /\ Peer(r.from) = p
    /\ r.type = type

(***************************************************************************)
(* Has p its handshake object?  Before: the constructor makes none without *)
(* registration (400).  After: the signal handler has reset sepp_app_inst  *)
(* (503).  Either way the handler changes nothing and the call fails.      *)
(***************************************************************************)
HasHandshake(p) == dep.register[p] /\ pc[p] # "released"

-----------------------------------------------------------------------------
(***************************************************************************)
(* Start: the constructor of sepp_app.                                     *)
(***************************************************************************)

Start(n) ==
    /\ pc[n] = "down"
    /\ boot[n] < MaxBoot[n]
    /\ boot' = [boot EXCEPT ![n] = @ + 1]
    /\ pc' = [pc EXCEPT ![n] =
                 IF dep.register[n] /\ Peer(n) # NoNode
                 THEN "starting" ELSE "up"]
    /\ UNCHANGED <<dep, ctx, fwd, reqs, answer, adopted>>

\* sepp_app::create_exchange_capability, up to the call it blocks in.
CreateExchangeCapability(n) ==
    /\ pc[n] = "starting"
    /\ Post(n, "capability", NoCtx)
    /\ UNCHANGED <<dep, boot, ctx, fwd, answer, adopted>>

(***************************************************************************)
(* The peer's handler of exchange-capability.  What it selects from the    *)
(* list of the request is only logged: it answers with its own configured  *)
(* capability, whatever was offered.                                       *)
(***************************************************************************)
HandleExchangeCapability(p, r) ==
    /\ Takes(p, r, "capability")
    /\ Reply(r, IF HasHandshake(p) THEN Accepted(NoCtx) ELSE Rejected)
    /\ UNCHANGED <<dep, pc, boot, ctx, fwd, adopted>>

(***************************************************************************)
(* The rest of create_exchange_capability, when the answer is 200 or 201.  *)
(* A capability that differs from the configured one is logged, and the    *)
(* configured one is used: PRINS goes on to create_exchange_params, which  *)
(* draws a context id unless there is one already.                         *)
(***************************************************************************)
ContextToOffer(n) == IF ctx[n] = NoCtx THEN Uuid(n, boot[n]) ELSE ctx[n]

\* Variant: the id is stored only when the answer to exchange-params is there.
HandleCapabilityResponseLate(n) ==
    /\ pc[n] = "capability"
    /\ answer[n].status = "accepted"
    /\ answer' = [answer EXCEPT ![n] = NoAnswer]
    /\ \/ /\ dep.cap[n] = "PRINS"
          /\ Post(n, "params", ContextToOffer(n))
       \/ /\ dep.cap[n] # "PRINS"
          /\ pc' = [pc EXCEPT ![n] = "up"]
          /\ UNCHANGED reqs
    /\ UNCHANGED <<dep, boot, ctx, fwd, adopted>>

\* Variant: the forwarding object gets the id when it is offered.
HandleCapabilityResponseEager(n) ==
    /\ pc[n] = "capability"
    /\ answer[n].status = "accepted"
    /\ answer' = [answer EXCEPT ![n] = NoAnswer]
    /\ ctx' = [ctx EXCEPT ![n] = ContextToOffer(n)]
    /\ fwd' = [fwd EXCEPT ![n] = ContextToOffer(n)]
    /\ Post(n, "params", ContextToOffer(n))
    /\ UNCHANGED <<dep, boot, adopted>>

HandleCapabilityResponse(n) ==
    /\ pc[n] = "capability"
    /\ answer[n].status = "accepted"
    /\ answer' = [answer EXCEPT ![n] = NoAnswer]
    /\ \/ /\ dep.cap[n] = "PRINS"
          /\ ctx' = [ctx EXCEPT ![n] = ContextToOffer(n)]
          /\ Post(n, "params", ContextToOffer(n))
       \/ /\ dep.cap[n] # "PRINS"
          /\ pc' = [pc EXCEPT ![n] = "up"]
          /\ UNCHANGED <<ctx, reqs>>
    /\ UNCHANGED <<dep, boot, fwd, adopted>>

(***************************************************************************)
(* The peer's handler of exchange-params: the one context id of the        *)
(* handshake object is overwritten by the id of the request (an empty one  *)
(* is replaced by the current or a new id), and the answer repeats it.     *)
(***************************************************************************)
\* Variant: an id in use is kept.
AdoptedContextKept(p, c) == IF ctx[p] # NoCtx THEN ctx[p] ELSE c

AdoptedContext(p, c) ==
    IF c # NoCtx THEN c
    ELSE IF ctx[p] = NoCtx THEN Uuid(p, boot[p]) ELSE ctx[p]

HandleExchangeParams(p, r) ==
    /\ Takes(p, r, "params")
    /\ \/ /\ HasHandshake(p)
          /\ ctx' = [ctx EXCEPT ![p] = AdoptedContext(p, r.id)]
          /\ adopted' = adopted \cup {<<p, AdoptedContext(p, r.id)>>}
          /\ Reply(r, Accepted(AdoptedContext(p, r.id)))
       \/ /\ ~HasHandshake(p)
          /\ Reply(r, Rejected)
          /\ UNCHANGED <<ctx, adopted>>
    /\ UNCHANGED <<dep, pc, boot, fwd>>

(***************************************************************************)
(* The rest of create_exchange_params, when the answer is 200 or 201: the  *)
(* id of the answer, if it has one, becomes the context, and the           *)
(* forwarding object gets a copy of it.                                    *)
(***************************************************************************)
EstablishedContext(n, c) == IF c # NoCtx THEN c ELSE ctx[n]

HandleParamsResponse(n) ==
    /\ pc[n] = "params"
    /\ answer[n].status = "accepted"
    /\ answer' = [answer EXCEPT ![n] = NoAnswer]
    /\ ctx' = [ctx EXCEPT ![n] = EstablishedContext(n, answer[n].id)]
    /\ fwd' = [fwd EXCEPT ![n] = EstablishedContext(n, answer[n].id)]
    /\ pc' = [pc EXCEPT ![n] = "up"]
    /\ UNCHANGED <<dep, boot, reqs, adopted>>

\* Variant: a call that fails is made again.
CallFailsRetrying(n) ==
    /\ pc[n] \in Calling
    /\ answer' = [answer EXCEPT ![n] = NoAnswer]
    /\ pc' = [pc EXCEPT ![n] = IF @ = "terminate" THEN "up" ELSE "starting"]
    /\ UNCHANGED <<dep, boot, ctx, fwd, reqs, adopted>>

(***************************************************************************)
(* A call ends without a usable answer: refused, rejected, lost, or timed  *)
(* out in the client while the request may still be on its way.  Nothing   *)
(* is retried.  The constructor goes on to the servers, sepp_app::stop to  *)
(* the deregistration.                                                     *)
(***************************************************************************)
CallFails(n) ==
    /\ pc[n] \in Calling
    /\ answer' = [answer EXCEPT ![n] = NoAnswer]
    /\ pc' = [pc EXCEPT ![n] = IF @ = "terminate" THEN "closing" ELSE "up"]
    /\ UNCHANGED <<dep, boot, ctx, fwd, reqs, adopted>>

-----------------------------------------------------------------------------
(***************************************************************************)
(* Stop: the signal handler.  While the constructor runs sepp_app_inst is  *)
(* null and the handler ends the process without sepp_app::stop, which is  *)
(* a Crash here.                                                           *)
(***************************************************************************)

\* Variant: the termination is sent without a look at the context.
StopAlwaysTerminates(n) ==
    /\ pc[n] = "up"
    /\ \/ /\ Peer(n) # NoNode
          /\ Post(n, "terminate", ctx[n])
       \/ /\ Peer(n) = NoNode
          /\ pc' = [pc EXCEPT ![n] = "closing"]
          /\ UNCHANGED reqs
    /\ UNCHANGED <<dep, boot, ctx, fwd, answer, adopted>>

\* Variant: the context is cleared when the termination is sent.
StopClearsFirst(n) ==
    /\ pc[n] = "up"
    /\ \/ /\ Peer(n) # NoNode
          /\ ctx[n] # NoCtx
          /\ Post(n, "terminate", ctx[n])
       \/ /\ Peer(n) = NoNode \/ ctx[n] = NoCtx
          /\ pc' = [pc EXCEPT ![n] = "closing"]
          /\ UNCHANGED reqs
    /\ ctx' = [ctx EXCEPT ![n] = NoCtx]
    /\ UNCHANGED <<dep, boot, fwd, answer, adopted>>

\* sepp_app::stop and send_n32f_terminate, up to the call it blocks in.
Stop(n) ==
    /\ pc[n] = "up"
    /\ \/ /\ Peer(n) # NoNode
          /\ ctx[n] # NoCtx
          /\ Post(n, "terminate", ctx[n])
       \/ /\ Peer(n) = NoNode \/ ctx[n] = NoCtx
          /\ pc' = [pc EXCEPT ![n] = "closing"]
          /\ UNCHANGED reqs
    /\ UNCHANGED <<dep, boot, ctx, fwd, answer, adopted>>

(***************************************************************************)
(* The peer's handler of n32f-terminate: it clears its context only when   *)
(* the id is its own current one, and reports success either way.          *)
(***************************************************************************)
\* Variant: the id of the request is not compared with the current one.
TerminatedContextAny(p, c) == NoCtx

\* Variant: the termination is confirmed and nothing is cleared.
TerminatedContextKept(p, c) == ctx[p]

TerminatedContext(p, c) == IF ctx[p] = c THEN NoCtx ELSE ctx[p]

HandleTerminate(p, r) ==
    /\ Takes(p, r, "terminate")
    /\ \/ /\ HasHandshake(p)
          /\ ctx' = [ctx EXCEPT ![p] = TerminatedContext(p, r.id)]
          /\ Reply(r, Accepted(r.id))
       \/ /\ ~HasHandshake(p)
          /\ Reply(r, Rejected)
          /\ UNCHANGED ctx
    /\ UNCHANGED <<dep, pc, boot, fwd, adopted>>

(***************************************************************************)
(* handle_n32f_terminate_response: whatever the body says, the context of  *)
(* the handshake object is cleared; the copy of the forwarding object      *)
(* stays.                                                                  *)
(***************************************************************************)
HandleTerminateResponse(n) ==
    /\ pc[n] = "terminate"
    /\ answer[n].status = "accepted"
    /\ answer' = [answer EXCEPT ![n] = NoAnswer]
    /\ ctx' = [ctx EXCEPT ![n] = NoCtx]
    /\ pc' = [pc EXCEPT ![n] = "closing"]
    /\ UNCHANGED <<dep, boot, fwd, reqs, adopted>>

\* The deregistration is done and the signal handler resets sepp_app_inst.
Release(n) ==
    /\ pc[n] = "closing"
    /\ pc' = [pc EXCEPT ![n] = "released"]
    /\ UNCHANGED <<dep, boot, ctx, fwd, reqs, answer, adopted>>

(***************************************************************************)
(* The process is gone, and its memory with it: nothing is persisted.      *)
(* What was queued at it is lost with its sockets; what it sent may        *)
(* already be queued at the receiver.                                      *)
(***************************************************************************)
Gone(n) ==
    /\ pc' = [pc EXCEPT ![n] = "down"]
    /\ ctx' = [ctx EXCEPT ![n] = NoCtx]
    /\ fwd' = [fwd EXCEPT ![n] = NoCtx]
    /\ reqs' = {r \in reqs : Peer(r.from) # n}
    /\ answer' = [answer EXCEPT ![n] = NoAnswer]
    /\ UNCHANGED <<dep, boot, adopted>>

Exit(n)  == pc[n] = "released" /\ Gone(n)

Crash(n) == pc[n] # "down" /\ Gone(n)

-----------------------------------------------------------------------------
Init ==
    /\ dep \in Deployments
    /\ pc = [n \in Node |-> "down"]
    /\ boot = [n \in Node |-> 0]
    /\ ctx = [n \in Node |-> NoCtx]
    /\ fwd = [n \in Node |-> NoCtx]
    /\ reqs = {}
    /\ answer = [n \in Node |-> NoAnswer]
    /\ adopted = {}

Serve(p) ==
    \E r \in reqs :
        \/ HandleExchangeCapability(p, r)
        \/ HandleExchangeParams(p, r)
        \/ HandleTerminate(p, r)

Main(n) ==
    \/ CreateExchangeCapability(n)
    \/ HandleCapabilityResponse(n)
    \/ HandleParamsResponse(n)
    \/ HandleTerminateResponse(n)
    \/ CallFails(n)
    \/ Release(n)
    \/ Exit(n)

Next ==
    \E n \in Node :
        Start(n) \/ Main(n) \/ Serve(n) \/ Stop(n) \/ Crash(n)

Spec == Init /\ [][Next]_vars

(***************************************************************************)
(* The thread in the constructor or in the signal handler is scheduled,    *)
(* and the timeout of the client ends every call.  Nothing makes a server  *)
(* process a request, a process start, or a signal arrive.                 *)
(***************************************************************************)
Fairness == \A n \in Node : WF_vars(Main(n))

FairSpec == Spec /\ Fairness

-----------------------------------------------------------------------------
(***************************************************************************)
(* Properties.                                                             *)
(***************************************************************************)

\* The variables hold what the code's fields can hold.
TypeOK ==
    /\ dep \in Deployments
    /\ pc \in [Node -> Phase]
    /\ boot \in [Node -> Nat]
    /\ ctx \in [Node -> Ctx \cup {NoCtx}]
    /\ fwd \in [Node -> Ctx \cup {NoCtx}]
    /\ reqs \subseteq Request
    /\ answer \in [Node -> Answer]
    /\ adopted \subseteq Node \X Ctx

(***************************************************************************)
(* A context id is known only to the SEPP that drew it and to the partner  *)
(* it was offered to, however many SEPPs offer ids to the same partner and *)
(* whichever of them is a partner itself.                                  *)
(***************************************************************************)
ContextParties ==
    \A n \in Node : ctx[n] # NoCtx =>
        n \in {Creator(ctx[n]), Peer(Creator(ctx[n]))}

(***************************************************************************)
(* The context id a SEPP protects its N32-f messages with is the one it    *)
(* drew since it started last, never one of an earlier start or of another *)
(* SEPP, although it is taken from the answer of a partner that keeps a    *)
(* single id for everybody.                                                *)
(***************************************************************************)
ForwardContextIsOwn ==
    \A n \in Node : fwd[n] # NoCtx => fwd[n] = Uuid(n, boot[n])

(***************************************************************************)
(* A SEPP uses a context id for forwarding only after its partner took     *)
(* that id over: a lost request or answer leaves the forwarding object     *)
(* without one.                                                            *)
(***************************************************************************)
ForwardContextAdopted ==
    \A n \in Node : fwd[n] # NoCtx => <<Peer(n), fwd[n]>> \in adopted

\* No SEPP has n as its partner.
NoInbound(n) == \A m \in Node : Peer(m) # n

(***************************************************************************)
(* The handshake object and the forwarding object of a running SEPP agree  *)
(* on the context as long as no other SEPP runs its handshake with it.     *)
(***************************************************************************)
ForwardMatchesHandshake ==
    \A n \in Node :
        fwd[n] # NoCtx /\ pc[n] \in {"up", "terminate"} /\ NoInbound(n) =>
            ctx[n] = fwd[n]

(***************************************************************************)
(* A running partner gives up a context only when the SEPP that drew it is *)
(* stopping, or has been started anew or ended since: neither the          *)
(* termination of another SEPP nor a late one of an earlier start removes  *)
(* the context of a running SEPP.                                          *)
(***************************************************************************)
LiveContextKept ==
    [][\A p \in Node :
         /\ pc[p] = "up" /\ pc'[p] = "up"
         /\ ctx[p] # NoCtx /\ ctx'[p] = NoCtx
         /\ Creator(ctx[p]) # p
         => \/ boot[Creator(ctx[p])] # CreatorBoot(ctx[p])
            \/ pc[Creator(ctx[p])] \in Stopping \cup {"down"}]_vars

(***************************************************************************)
(* sepp_app::stop leaves out the termination only when there is nothing to *)
(* terminate: a SEPP whose handshake broke off half way, after the partner *)
(* took the id over and before the answer arrived, still tries to          *)
(* terminate it.  (For a SEPP that is nobody's partner.)                   *)
(***************************************************************************)
HalfOpenIsTerminated ==
    [][\A n \in Node :
         pc[n] = "up" /\ pc'[n] = "closing" /\ NoInbound(n) =>
             <<Peer(n), Uuid(n, boot[n])>> \notin adopted]_vars

(***************************************************************************)
(* When a SEPP with an established context has got the confirmation of     *)
(* its termination, the partner does not hold the context any more.        *)
(***************************************************************************)
Terminated(n) ==
    /\ pc[n] \in {"closing", "released"}
    /\ fwd[n] # NoCtx
    /\ ctx[n] = NoCtx

ConfirmedTerminationClears ==
    \A n \in Node :
        Terminated(n) /\ NoInbound(n) => ctx[Peer(n)] # fwd[n]

(***************************************************************************)
(* The same for every SEPP.  The description of the n32f-terminate API     *)
(* says that it terminates the context at the remote SEPP, and             *)
(* sepp_app::stop relies on it to end the context it established.          *)
(***************************************************************************)
TerminationReachesPeer ==
    \A n \in Node : Terminated(n) => ctx[Peer(n)] # fwd[n]

(***************************************************************************)
(* The constructor of sepp_app always gives way to the servers: an         *)
(* unreachable partner, a lost answer, or two SEPPs that wait for each     *)
(* other while neither listens, delay the start and do not prevent it.     *)
(***************************************************************************)
StartupEnds ==
    \A n \in Node :
        pc[n] \in {"starting", "capability", "params"} ~>
            pc[n] \in {"up", "down"}

(***************************************************************************)
(* A signalled SEPP that has come to sepp_app::stop ends, also when its    *)
(* partner does not answer the termination.                                *)
(***************************************************************************)
StopEnds ==
    \A n \in Node : pc[n] \in Stopping ~> pc[n] = "down"
=============================================================================
