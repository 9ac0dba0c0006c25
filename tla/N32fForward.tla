---------------------------- MODULE N32fForward ----------------------------
(***************************************************************************)
(* The relay of service requests between the network functions (NF) of two *)
(* PLMNs.  A request takes three HTTP hops:                                *)
(*                                                                         *)
(*   consumer NF  --SBI-->  SEPP of its PLMN  --N32-f-->  remote SEPP      *)
(*                                            --SBI-->  producer NF        *)
(*                                                                         *)
(* and each SEPP has one thread for its SBI server and one for its N32     *)
(* server (NBI).  A thread handles one request at a time and blocks in the *)
(* HTTP client until the next hop has answered or the client times out;    *)
(* what it was sent meanwhile waits in its socket, also when the sender    *)
(* has given up.  While a producer works on a request it may make requests *)
(* of its own, through the SEPP of its own PLMN.                           *)
(*                                                                         *)
(* PRINS carries a request in a message to n32f-process, TLS sends it on   *)
(* as it is.                                                               *)
(***************************************************************************)
EXTENDS Naturals

CONSTANTS
    Node,         \* the SEPPs
    NoNode,       \* "no remote SEPP URL"
    Request,      \* the requests of all consumers
    NoRequest,    \* "made by a consumer of its own accord"
    Reply,        \* the HTTP responses of the NFs
    Deployments   \* the configurations and workloads considered

Capability == {"PRINS", "TLS"}
Method     == {"GET", "POST", "PUT", "PATCH", "DELETE"}

(***************************************************************************)
(* A body is a JSON object, which is what NFs exchange, or absent.  A      *)
(* response has its status and the content of its body abstracted to that. *)
(***************************************************************************)
Body     == {"none", "object"}
Response == [status : 100 .. 599, body : Body]

(***************************************************************************)
(* peer, cap, register: the configuration, as in N32cHandshake.  call: the *)
(* workload.  parent is the request whose producer makes this one.         *)
(***************************************************************************)
Call ==
    [home : Node, method : Method, body : Body,
     parent : Request \cup {NoRequest}]

Deployment ==
    [peer     : [Node -> Node \cup {NoNode}],
     cap      : [Node -> Capability],
     register : [Node -> BOOLEAN],
     call     : [Request -> Call]]

ASSUME NoNodeAssumption == NoNode \notin Node
ASSUME NoRequestAssumption == NoRequest \notin Request
ASSUME DeploymentsAssumption == Deployments \subseteq Deployment

(***************************************************************************)
(* A 204 has no body.                                                      *)
(***************************************************************************)
ASSUME ReplyAssumption ==
    /\ Reply \subseteq Response
    /\ \A o \in Reply : o.status = 204 => o.body = "none"

VARIABLES
    dep,        \* the deployment, fixed at the start
    consumer,   \* the consumer of each request
    sbi,        \* each request at the SBI server of the consumer's SEPP
    nbi,        \* each request at the N32 server of the remote SEPP
    n32answer,  \* the answer of the remote SEPP, until it is used
    nf,         \* the work of the NF the remote SEPP sent each request to
    work,       \* what that NF was asked to do
    outcome,    \* what that NF answered
    result      \* what the consumer was answered

vars == <<dep, consumer, sbi, nbi, n32answer, nf, work, outcome, result>>

Home(q)   == dep.call[q].home
Parent(q) == dep.call[q].parent
Peer(n)   == dep.peer[n]
Remote(q) == Peer(Home(q))

(***************************************************************************)
(* queued: in the socket of a server; calling: its handler waits for the   *)
(* next hop; finished: answered, or lost in a crash.                       *)
(***************************************************************************)
Stage         == {"idle", "queued", "calling", "finished"}
ConsumerState == {"idle", "waiting", "answered", "gaveUp"}
NfState       == {"idle", "executing", "finished"}

Work   == [to : {"producer", "nrf"}, method : Method, body : Body]
NoWork == [to |-> "none", method |-> "none", body |-> "none"]

\* "by" tells an answer that stands for an NF's from a SEPP's own.
Answer    == [status : 100 .. 599, reply : Response, by : {"nf", "sepp"}]
NoReply   == [status |-> 0, body |-> "none"]
NoAnswer  == [status |-> 0, reply |-> NoReply, by |-> "none"]

Problem(s) ==
    [status |-> s, reply |-> [status |-> s, body |-> "object"], by |-> "sepp"]
BadGateway == Problem(502)

-----------------------------------------------------------------------------
(***************************************************************************)
(* What travels on N32-f.                                                  *)
(***************************************************************************)

(***************************************************************************)
(* PRINS: the method, the path and the authority of the request travel in  *)
(* the additional authenticated data of a flattened JWE, the body in its   *)
(* ciphertext, and the message is POSTed to n32f-process, whatever the     *)
(* method.  TLS: the request is sent to the remote SEPP as it came.        *)
(***************************************************************************)
Message(q) ==
    [kind   |-> IF dep.cap[Home(q)] = "PRINS" THEN "process" ELSE "direct",
     method |-> dep.call[q].method,
     body   |-> dep.call[q].body]

(***************************************************************************)
(* The endpoint of a message insists on the capability that belongs to it. *)
(* The endpoint of direct messages handles GET, parses the body of a POST  *)
(* as JSON, and knows no other method.                                     *)
(***************************************************************************)
\* Variant: the capability is not looked at.
AcceptsAnyCapability(p, m) ==
    /\ dep.register[p]
    /\ m.kind = "direct" =>
          m.method = "GET" \/ (m.method = "POST" /\ m.body = "object")

Accepts(p, m) ==
    /\ dep.register[p]
    /\ dep.cap[p] = IF m.kind = "process" THEN "PRINS" ELSE "TLS"
    /\ m.kind = "direct" =>
          m.method = "GET" \/ (m.method = "POST" /\ m.body = "object")

Refusal(m) ==
    IF m.kind = "direct" /\ m.method \notin {"GET", "POST"}
    THEN Problem(405) ELSE Problem(400)

(***************************************************************************)
(* What the remote SEPP asks of which NF.  handle_n32f_process_post        *)
(* restores the request.  handle_n32f_forward always sends a GET without a *)
(* body; what process_post_request gives it is the body of the request,    *)
(* which names no target, and the fallback is the NRF.                     *)
(***************************************************************************)
WorkFor(m) ==
    CASE m.kind = "process" ->
             [to |-> "producer", method |-> m.method, body |-> m.body]
      [] m.kind = "direct" ->
             [to |-> IF m.method = "GET" THEN "producer" ELSE "nrf",
              method |-> "GET", body |-> "none"]

(***************************************************************************)
(* The answer to a message for an NF's response.  n32f-process wraps the   *)
(* response, status included.  The endpoint of direct messages answers 200 *)
(* with a JSON object, whatever the status was.                            *)
(***************************************************************************)
WrappedReply(m, o) ==
    [status |-> 200,
     reply  |-> IF m.kind = "process"
                THEN o ELSE [status |-> 200, body |-> "object"],
     by     |-> "nf"]

(***************************************************************************)
(* What the consumer's SEPP makes of it.  PRINS unwraps a success and      *)
(* makes a 502 of anything else; TLS passes on what it got.  A 204 is      *)
(* given no body.                                                          *)
(***************************************************************************)
UnwrappedReply(m, a) ==
    IF m.kind = "process" /\ a.status \notin {200, 201} THEN BadGateway
    ELSE [status |-> a.reply.status,
          reply  |-> [a.reply EXCEPT !.body =
                          IF a.reply.status = 204 THEN "none" ELSE @],
          by     |-> a.by]

-----------------------------------------------------------------------------
(***************************************************************************)
(* The consumer, an NF: code outside this repository.                      *)
(***************************************************************************)

\* A consumer makes request q, which reaches the SEPP of its PLMN or not.
Send(q) ==
    /\ consumer[q] = "idle"
    /\ Parent(q) # NoRequest => nf[Parent(q)] = "executing"
    /\ consumer' = [consumer EXCEPT ![q] = "waiting"]
    /\ sbi' \in {sbi, [sbi EXCEPT ![q] = "queued"]}
    /\ UNCHANGED <<dep, nbi, n32answer, nf, work, outcome, result>>

\* The consumer stops waiting; nothing tells the SEPP's handler.
GiveUp(q) ==
    /\ consumer[q] = "waiting"
    /\ consumer' = [consumer EXCEPT ![q] = "gaveUp"]
    /\ UNCHANGED <<dep, sbi, nbi, n32answer, nf, work, outcome, result>>

\* The SBI server answers; a consumer that gave up does not get the answer.
AnswerConsumer(q, a) ==
    \/ /\ consumer[q] = "waiting"
       /\ consumer' = [consumer EXCEPT ![q] = "answered"]
       /\ result' = [result EXCEPT ![q] = a]
    \/ /\ consumer[q] # "waiting"
       /\ UNCHANGED <<consumer, result>>

-----------------------------------------------------------------------------
(***************************************************************************)
(* The SBI thread of the consumer's SEPP.                                  *)
(***************************************************************************)

SbiFree(n) == \A q \in Request : Home(q) = n => sbi[q] # "calling"

\* Without the forwarding object or a remote SEPP nothing is forwarded.
CanForward(n) == dep.register[n] /\ Peer(n) # NoNode

(***************************************************************************)
(* handle_nf_service_request, up to the call it blocks in.  The message    *)
(* reaches the remote SEPP or not.                                         *)
(***************************************************************************)
SbiAccept(q) ==
    /\ sbi[q] = "queued"
    /\ SbiFree(Home(q))
    /\ \/ /\ CanForward(Home(q))
          /\ sbi' = [sbi EXCEPT ![q] = "calling"]
          /\ nbi' \in {nbi, [nbi EXCEPT ![q] = "queued"]}
          /\ UNCHANGED <<consumer, result>>
       \/ /\ ~CanForward(Home(q))
          /\ sbi' = [sbi EXCEPT ![q] = "finished"]
          /\ AnswerConsumer(q, BadGateway)
          /\ UNCHANGED nbi
    /\ UNCHANGED <<dep, n32answer, nf, work, outcome>>

\* The rest of it, with the answer of the remote SEPP.
SbiReturn(q) ==
    /\ sbi[q] = "calling"
    /\ n32answer[q] # NoAnswer
    /\ sbi' = [sbi EXCEPT ![q] = "finished"]
    /\ n32answer' = [n32answer EXCEPT ![q] = NoAnswer]
    /\ AnswerConsumer(q, UnwrappedReply(Message(q), n32answer[q]))
    /\ UNCHANGED <<dep, nbi, nf, work, outcome>>

\* Variant: a request whose call fails is sent again.
SbiCallFailsRetrying(q) ==
    /\ sbi[q] = "calling"
    /\ \/ /\ nbi[q] # "finished"
          /\ sbi' = [sbi EXCEPT ![q] = "finished"]
          /\ AnswerConsumer(q, BadGateway)
          /\ UNCHANGED nbi
       \/ /\ nbi[q] = "finished"
          /\ nbi' = [nbi EXCEPT ![q] = "queued"]
          /\ UNCHANGED <<consumer, sbi, result>>
    /\ n32answer' = [n32answer EXCEPT ![q] = NoAnswer]
    /\ UNCHANGED <<dep, nf, work, outcome>>

\* Variant: the client waits for an answer as long as it takes.
SbiCallFailsNever(q) ==
    /\ sbi[q] = "calling"
    /\ nbi[q] = "idle"
    /\ sbi' = [sbi EXCEPT ![q] = "finished"]
    /\ AnswerConsumer(q, BadGateway)
    /\ UNCHANGED <<dep, nbi, n32answer, nf, work, outcome>>

(***************************************************************************)
(* The call to the remote SEPP fails (status 0): refused, reset, or timed  *)
(* out while the request is still queued or worked on.  The consumer is    *)
(* answered 502.  The client drops an answer that comes later.             *)
(***************************************************************************)
SbiCallFails(q) ==
    /\ sbi[q] = "calling"
    /\ sbi' = [sbi EXCEPT ![q] = "finished"]
    /\ n32answer' = [n32answer EXCEPT ![q] = NoAnswer]
    /\ AnswerConsumer(q, BadGateway)
    /\ UNCHANGED <<dep, nbi, nf, work, outcome>>

-----------------------------------------------------------------------------
(***************************************************************************)
(* The NBI thread of the remote SEPP.                                      *)
(***************************************************************************)

NbiFree(p) == \A q \in Request : Remote(q) = p => nbi[q] # "calling"

\* The NBI server answers; a client that gave up does not get the answer.
AnswerN32(q, a) ==
    n32answer' = IF sbi[q] = "calling" THEN [n32answer EXCEPT ![q] = a]
                 ELSE n32answer

(***************************************************************************)
(* handle_n32f_process and handle_n32f_forward, up to the call to the NF,  *)
(* which reaches the NF or not.                                            *)
(***************************************************************************)
NbiAccept(q) ==
    /\ nbi[q] = "queued"
    /\ NbiFree(Remote(q))
    /\ \/ /\ Accepts(Remote(q), Message(q))
          /\ nbi' = [nbi EXCEPT ![q] = "calling"]
          /\ \/ /\ nf' = [nf EXCEPT ![q] = "executing"]
                /\ work' = [work EXCEPT ![q] = WorkFor(Message(q))]
             \/ UNCHANGED <<nf, work>>
          /\ UNCHANGED n32answer
       \/ /\ ~Accepts(Remote(q), Message(q))
          /\ nbi' = [nbi EXCEPT ![q] = "finished"]
          /\ AnswerN32(q, Refusal(Message(q)))
          /\ UNCHANGED <<nf, work>>
    /\ UNCHANGED <<dep, consumer, sbi, outcome, result>>

\* Variant: status 0, "no response", is taken for a response.
NbiReturnUnchecked(q) ==
    /\ nbi[q] = "calling"
    /\ nbi' = [nbi EXCEPT ![q] = "finished"]
    /\ AnswerN32(q, WrappedReply(Message(q), outcome[q]))
    /\ UNCHANGED <<dep, consumer, sbi, nf, work, outcome, result>>

\* The rest of it, with the response of the NF.
NbiReturn(q) ==
    /\ nbi[q] = "calling"
    /\ outcome[q] # NoReply
    /\ nbi' = [nbi EXCEPT ![q] = "finished"]
    /\ AnswerN32(q, WrappedReply(Message(q), outcome[q]))
    /\ UNCHANGED <<dep, consumer, sbi, nf, work, outcome, result>>

\* Variant: an NF that cannot be reached is reported as a success.
NbiCallFailsSilently(q) ==
    /\ nbi[q] = "calling"
    /\ nbi' = [nbi EXCEPT ![q] = "finished"]
    /\ AnswerN32(q, WrappedReply(Message(q), [NoReply EXCEPT !.status = 200]))
    /\ UNCHANGED <<dep, consumer, sbi, nf, work, outcome, result>>

\* Variant: the client waits for an answer as long as it takes.
NbiCallFailsNever(q) ==
    /\ nbi[q] = "calling"
    /\ nf[q] = "idle"
    /\ nbi' = [nbi EXCEPT ![q] = "finished"]
    /\ AnswerN32(q, Problem(400))
    /\ UNCHANGED <<dep, consumer, sbi, nf, work, outcome, result>>

(***************************************************************************)
(* The call to the NF fails (status 0), possibly while the NF still works  *)
(* on the request.                                                         *)
(***************************************************************************)
NbiCallFails(q) ==
    /\ nbi[q] = "calling"
    /\ nbi' = [nbi EXCEPT ![q] = "finished"]
    /\ AnswerN32(q, Problem(400))
    /\ UNCHANGED <<dep, consumer, sbi, nf, work, outcome, result>>

-----------------------------------------------------------------------------
(***************************************************************************)
(* The NF that the request was sent to: code outside this repository.  It  *)
(* waits for the answers to the requests it has made for this one.         *)
(***************************************************************************)
NfAnswer(q) ==
    /\ nf[q] = "executing"
    /\ \A c \in Request : Parent(c) = q => consumer[c] # "waiting"
    /\ nf' = [nf EXCEPT ![q] = "finished"]
    /\ \E o \in Reply : outcome' = [outcome EXCEPT ![q] = o]
    /\ UNCHANGED <<dep, consumer, sbi, nbi, n32answer, work, result>>

(***************************************************************************)
(* A SEPP ends and is started anew: the requests its servers had accepted  *)
(* or not yet read are lost with their connections.                        *)
(***************************************************************************)
Crash(n) ==
    LET Dropped(at, stage) ==
            IF at = n /\ stage \in {"queued", "calling"}
            THEN "finished" ELSE stage
    IN  /\ sbi' = [q \in Request |-> Dropped(Home(q), sbi[q])]
        /\ nbi' = [q \in Request |-> Dropped(Remote(q), nbi[q])]
        /\ UNCHANGED <<dep, consumer, n32answer, nf, work, outcome, result>>

Init ==
    /\ dep \in Deployments
    /\ consumer = [q \in Request |-> "idle"]
    /\ sbi = [q \in Request |-> "idle"]
    /\ nbi = [q \in Request |-> "idle"]
    /\ n32answer = [q \in Request |-> NoAnswer]
    /\ nf = [q \in Request |-> "idle"]
    /\ work = [q \in Request |-> NoWork]
    /\ outcome = [q \in Request |-> NoReply]
    /\ result = [q \in Request |-> NoAnswer]

SbiThread(n) ==
    \E q \in Request :
        Home(q) = n /\ (SbiAccept(q) \/ SbiReturn(q) \/ SbiCallFails(q))

NbiThread(n) ==
    \E q \in Request :
        Remote(q) = n /\ (NbiAccept(q) \/ NbiReturn(q) \/ NbiCallFails(q))

Nf(q) == Send(q) \/ GiveUp(q) \/ NfAnswer(q)

Next ==
    \/ \E q \in Request : Nf(q)
    \/ \E n \in Node : SbiThread(n) \/ NbiThread(n) \/ Crash(n)

Spec == Init /\ [][Next]_vars

(***************************************************************************)
(* The two server threads are scheduled, and their clients time out.       *)
(* Nothing is assumed of the NFs or of the network.                        *)
(***************************************************************************)
Fairness ==
    \A n \in Node : WF_vars(SbiThread(n)) /\ WF_vars(NbiThread(n))

FairSpec == Spec /\ Fairness

-----------------------------------------------------------------------------
(***************************************************************************)
(* Properties.                                                             *)
(***************************************************************************)

\* The variables hold what the code's fields and messages can hold.
TypeOK ==
    /\ dep \in Deployments
    /\ consumer \in [Request -> ConsumerState]
    /\ sbi \in [Request -> Stage]
    /\ nbi \in [Request -> Stage]
    /\ n32answer \in [Request -> Answer \cup {NoAnswer}]
    /\ nf \in [Request -> NfState]
    /\ work \in [Request -> Work \cup {NoWork}]
    /\ outcome \in [Request -> Reply \cup {NoReply}]
    /\ result \in [Request -> Answer \cup {NoAnswer}]

AsAsked(q) ==
    [to |-> "producer", method |-> dep.call[q].method,
     body |-> dep.call[q].body]

(***************************************************************************)
(* An answer other than a SEPP's own failure is what the producer answered *)
(* to the request as the consumer made it.                                 *)
(***************************************************************************)
AnswerIsProducers ==
    \A q \in Request : result[q].by = "nf" =>
        /\ work[q] = AsAsked(q)
        /\ nf[q] = "finished"
        /\ result[q].reply = outcome[q]

(***************************************************************************)
(* Two SEPPs with different capabilities complete the capability exchange  *)
(* (each only logs the other's), and then relay nothing: no NF is ever     *)
(* asked to do anything, in either direction.                              *)
(***************************************************************************)
MixedPairRelaysNothing ==
    \A q \in Request :
        Remote(q) # NoNode /\ dep.cap[Home(q)] # dep.cap[Remote(q)] =>
            nf[q] = "idle" /\ result[q].by # "nf"

(***************************************************************************)
(* The SBI server comes to an end with every request it was sent, also     *)
(* when the SEPPs wait for each other in a circle: a producer that waits   *)
(* for a request back to the consumer's PLMN, whose producer waits for a   *)
(* request that waits for the SBI thread the first one occupies.           *)
(***************************************************************************)
SbiAnswers ==
    \A q \in Request : sbi[q] \in {"queued", "calling"} ~> sbi[q] = "finished"

\* The same for the N32 server, which also serves the handshakes.
NbiAnswers ==
    \A q \in Request : nbi[q] \in {"queued", "calling"} ~> nbi[q] = "finished"

(***************************************************************************)
(* The SEPPs keep the promise of NfRelay although calls time out while the *)
(* request is still worked on, answers come late, SEPPs crash and          *)
(* producers call back.                                                    *)
(***************************************************************************)
Failed == "failed"
Asked  == {q \in Request : consumer[q] # "idle"}

RelayWork(q) ==
    IF nf[q] # "idle" /\ work[q] # AsAsked(q) THEN "other" ELSE nf[q]

Given(a) ==
    CASE a.by = "none" -> NoReply
      [] a.by = "sepp" -> [status |-> 502, body |-> Failed]
      [] a.by = "nf"   -> a.reply

Relay == INSTANCE NfRelay WITH
    Outcome   <- Reply,
    NoOutcome <- NoReply,
    Failed    <- [status |-> 502, body |-> Failed],
    asked     <- Asked,
    work      <- [q \in Request |-> RelayWork(q)],
    outcome   <- outcome,
    result    <- [q \in Request |-> Given(result[q])]

RelaySpec == Relay!Spec
=============================================================================
