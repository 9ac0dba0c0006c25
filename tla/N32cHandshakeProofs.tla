------------------------ MODULE N32cHandshakeProofs ------------------------
(***************************************************************************)
(* Theorems about N32cHandshake, for every set of nodes, every deployment  *)
(* and every number of starts.                                             *)
(***************************************************************************)
EXTENDS N32cHandshake, TLAPS

(***************************************************************************)
(* What is needed of the configuration and of the shapes of the records.   *)
(***************************************************************************)

\* The partner of a node is another node, if it has one.
LEMMA PeerType ==
    ASSUME dep \in Deployments, NEW n \in Node
    PROVE  /\ Peer(n) \in Node \cup {NoNode}
           /\ Peer(n) # n
           /\ Peer(n) # NoNode => Peer(n) \in Node
  BY DeploymentsAssumption DEF Peer, Deployment

\* A context id names its creator and is not the empty id.
LEMMA UuidType ==
    ASSUME NEW n \in Node, NEW k \in Nat
    PROVE  /\ Uuid(n, k) \in Ctx
           /\ Uuid(n, k) # NoCtx
           /\ Creator(Uuid(n, k)) = n
           /\ CreatorBoot(Uuid(n, k)) = k
  BY NoCtxAssumption DEF Uuid, Ctx, Creator, CreatorBoot

\* A context id is the pair of its creator and the creator's start.
LEMMA CtxIsUuid ==
    ASSUME NEW c \in Ctx
    PROVE  /\ Creator(c) \in Node
           /\ CreatorBoot(c) \in Nat
           /\ c = Uuid(Creator(c), CreatorBoot(c))
           /\ c # NoCtx
  BY NoCtxAssumption DEF Uuid, Ctx, Creator, CreatorBoot

LEMMA AnswerType ==
    /\ NoAnswer \in Answer
    /\ Rejected \in Answer
    /\ \A c \in Ctx \cup {NoCtx} : Accepted(c) \in Answer
  BY DEF NoAnswer, Rejected, Accepted, Answer

-----------------------------------------------------------------------------
(***************************************************************************)
(* Type correctness.                                                       *)
(***************************************************************************)

\* A call adds a well-formed request and moves only the caller.
LEMMA PostType ==
    ASSUME TypeOK, NEW n \in Node, NEW type \in Calling,
           NEW c \in Ctx \cup {NoCtx},
           type = "capability" <=> c = NoCtx,
           Post(n, type, c)
    PROVE  /\ pc' \in [Node -> Phase]
           /\ reqs' \subseteq Request
  <1>1. [type |-> type, from |-> n, boot |-> boot[n], id |-> c] \in Request
    BY DEF TypeOK, Request, Calling
  <1>2. pc' \in [Node -> Phase]
    BY DEF Post, TypeOK, Phase
  <1>3. QED
    BY <1>1, <1>2 DEF Post, TypeOK

\* An answer goes to one caller, and the request is off the queue.
LEMMA ReplyType ==
    ASSUME TypeOK, NEW r \in reqs, NEW a \in Answer, Reply(r, a)
    PROVE  /\ reqs' \subseteq Request
           /\ answer' \in [Node -> Answer]
  BY DEF Reply, TypeOK

\* The id of a request for the parameter exchange or the termination.
LEMMA RequestId ==
    ASSUME TypeOK, NEW r \in reqs
    PROVE  /\ r.from \in Node
           /\ r.boot \in Nat
           /\ r.type \in Calling
           /\ r.type # "capability" => r.id \in Ctx
  BY DEF TypeOK, Request, Calling

LEMMA TypeStep == TypeOK /\ [Next]_vars => TypeOK'
  <1> SUFFICES ASSUME TypeOK, [Next]_vars
               PROVE  TypeOK'
    OBVIOUS
  <1> USE AnswerType
  <1>1. ASSUME NEW n \in Node, Start(n)
        PROVE  TypeOK'
    BY <1>1 DEF Start, TypeOK, Phase
  <1>2. ASSUME NEW n \in Node, CreateExchangeCapability(n)
        PROVE  TypeOK'
    <2>1. /\ pc' \in [Node -> Phase]
          /\ reqs' \subseteq Request
      BY <1>2, PostType DEF CreateExchangeCapability, Calling
    <2>2. QED
      BY <1>2, <2>1 DEF CreateExchangeCapability, TypeOK
  <1>3. ASSUME NEW n \in Node, HandleCapabilityResponse(n)
        PROVE  TypeOK'
    <2>1. ContextToOffer(n) \in Ctx /\ ContextToOffer(n) # NoCtx
      BY UuidType, CtxIsUuid DEF ContextToOffer, TypeOK
    <2>2. CASE dep.cap[n] = "PRINS"
      <3>1. Post(n, "params", ContextToOffer(n))
        BY <1>3, <2>2 DEF HandleCapabilityResponse
      <3>2. /\ pc' \in [Node -> Phase]
            /\ reqs' \subseteq Request
        BY <2>1, <3>1, PostType DEF Calling
      <3>3. QED
        BY <1>3, <2>1, <2>2, <3>2 DEF HandleCapabilityResponse, TypeOK
    <2>3. CASE dep.cap[n] # "PRINS"
      BY <1>3, <2>3 DEF HandleCapabilityResponse, TypeOK, Phase
    <2>4. QED
      BY <2>2, <2>3
  <1>4. ASSUME NEW n \in Node, HandleParamsResponse(n)
        PROVE  TypeOK'
    <2>1. EstablishedContext(n, answer[n].id) \in Ctx \cup {NoCtx}
      BY DEF EstablishedContext, TypeOK, Answer
    <2>2. QED
      BY <1>4, <2>1 DEF HandleParamsResponse, TypeOK, Phase
  <1>5. ASSUME NEW n \in Node, HandleTerminateResponse(n)
        PROVE  TypeOK'
    BY <1>5 DEF HandleTerminateResponse, TypeOK, Phase
  <1>6. ASSUME NEW n \in Node, CallFails(n)
        PROVE  TypeOK'
    BY <1>6 DEF CallFails, TypeOK, Phase
  <1>7. ASSUME NEW n \in Node, Release(n)
        PROVE  TypeOK'
    BY <1>7 DEF Release, TypeOK, Phase
  <1>8. ASSUME NEW n \in Node, Gone(n)
        PROVE  TypeOK'
    BY <1>8 DEF Gone, TypeOK, Phase
  <1>9. ASSUME NEW n \in Node, Stop(n)
        PROVE  TypeOK'
    <2>1. CASE Peer(n) # NoNode /\ ctx[n] # NoCtx
      <3>1. Post(n, "terminate", ctx[n])
        BY <1>9, <2>1 DEF Stop
      <3>2. /\ pc' \in [Node -> Phase]
            /\ reqs' \subseteq Request
        BY <2>1, <3>1, PostType DEF Calling, TypeOK
      <3>3. QED
        BY <1>9, <3>2 DEF Stop, TypeOK
    <2>2. CASE ~(Peer(n) # NoNode /\ ctx[n] # NoCtx)
      BY <1>9, <2>2 DEF Stop, TypeOK, Phase
    <2>3. QED
      BY <2>1, <2>2
  <1>10. ASSUME NEW p \in Node, NEW r \in reqs, HandleExchangeCapability(p, r)
         PROVE  TypeOK'
    <2>1. PICK a \in Answer : Reply(r, a)
      BY <1>10 DEF HandleExchangeCapability
    <2>2. QED
      BY <1>10, <2>1, ReplyType DEF HandleExchangeCapability, TypeOK
  <1>11. ASSUME NEW p \in Node, NEW r \in reqs, HandleExchangeParams(p, r)
         PROVE  TypeOK'
    <2>1. AdoptedContext(p, r.id) \in Ctx
      BY <1>11, RequestId, CtxIsUuid
      DEF HandleExchangeParams, Takes, AdoptedContext
    <2>2. PICK a \in Answer : Reply(r, a)
      BY <1>11, <2>1 DEF HandleExchangeParams
    <2>3. QED
      BY <1>11, <2>1, <2>2, ReplyType DEF HandleExchangeParams, TypeOK
  <1>12. ASSUME NEW p \in Node, NEW r \in reqs, HandleTerminate(p, r)
         PROVE  TypeOK'
    <2>1. r.id \in Ctx
      BY <1>12, RequestId DEF HandleTerminate, Takes
    <2>2. PICK a \in Answer : Reply(r, a)
      BY <1>12, <2>1 DEF HandleTerminate
    <2>3. QED
      BY <1>12, <2>2, ReplyType DEF HandleTerminate, TerminatedContext, TypeOK
  <1>13. CASE UNCHANGED vars
    BY <1>13 DEF vars, TypeOK
  <1>14. QED
    BY <1>1, <1>2, <1>3, <1>4, <1>5, <1>6, <1>7, <1>8, <1>9, <1>10, <1>11,
       <1>12, <1>13
    DEF Next, Main, Serve, Exit, Crash

(***************************************************************************)
(* The fields of every process stay well-formed.                           *)
(***************************************************************************)
THEOREM TypeCorrect == Spec => []TypeOK
  <1>1. Init => TypeOK
    BY AnswerType DEF Init, TypeOK, Phase
  <1>2. QED
    BY <1>1, TypeStep, PTL DEF Spec

-----------------------------------------------------------------------------
(***************************************************************************)
(* The inductive invariant.  The safety properties are about ctx and fwd,  *)
(* whose values travel through requests and answers and through the phases *)
(* of the handshake, so it says what each of those carries.                *)
(***************************************************************************)

\* The two SEPPs that may know a context id.
Parties(c) == {Creator(c), Peer(Creator(c))}

(***************************************************************************)
(* A request comes from a SEPP with a partner.  An offered id is the one   *)
(* of the sender's start that sent it; an id to terminate is known to the  *)
(* sender, is of that start if the sender drew it, and the sender is       *)
(* stopping or gone.                                                       *)
(***************************************************************************)
RequestOK(r) ==
    /\ Peer(r.from) # NoNode
    /\ r.boot \in 1 .. boot[r.from]
    /\ r.type = "params" => r.id = Uuid(r.from, r.boot)
    /\ r.type = "terminate" =>
          /\ r.from \in Parties(r.id)
          /\ Creator(r.id) = r.from => CreatorBoot(r.id) = r.boot
          /\ r.boot = boot[r.from] => pc[r.from] \in Stopping \cup {"down"}

RequestInv == \A r \in reqs : RequestOK(r)

\* A SEPP's current context is known to it, and of this start if it drew it.
ContextInv ==
    \A n \in Node : ctx[n] # NoCtx =>
        /\ n \in Parties(ctx[n])
        /\ Creator(ctx[n]) = n => CreatorBoot(ctx[n]) = boot[n]

\* What the phases of the handshake say about the two context ids.
PhaseInv ==
    \A n \in Node :
        /\ pc[n] \in {"down", "starting", "capability"} =>
              ctx[n] = NoCtx /\ fwd[n] = NoCtx
        /\ pc[n] = "params" =>
              ctx[n] = Uuid(n, boot[n]) /\ fwd[n] = NoCtx
        /\ pc[n] \in {"starting", "capability", "params", "terminate"} =>
              Peer(n) # NoNode
        /\ pc[n] # "down" => boot[n] > 0

\* An answer to the parameter exchange repeats the id that was offered.
AnswerInv ==
    \A n \in Node :
        pc[n] = "params" /\ answer[n].status = "accepted" =>
            /\ answer[n].id = Uuid(n, boot[n])
            /\ <<Peer(n), answer[n].id>> \in adopted

ForwardInv == ForwardContextIsOwn /\ ForwardContextAdopted

Inv ==
    /\ TypeOK
    /\ RequestInv
    /\ ContextInv
    /\ PhaseInv
    /\ AnswerInv
    /\ ForwardInv

LEMMA InvInit == Init => Inv
  BY AnswerType
  DEF Init, Inv, TypeOK, Phase, RequestInv, RequestOK, ContextInv, PhaseInv,
      AnswerInv, ForwardInv, ForwardContextIsOwn, ForwardContextAdopted,
      Calling, Stopping, Listening

(***************************************************************************)
(* A step of one process that keeps the deployment and the starts does not *)
(* disturb a request, unless a process that is stopping or gone would come *)
(* back.                                                                   *)
(***************************************************************************)
LEMMA RequestKept ==
    ASSUME Inv, NEW n \in Node, NEW r \in reqs,
           dep' = dep, boot' = boot,
           \A m \in Node : m # n => pc'[m] = pc[m],
           pc[n] \in Stopping \cup {"down"} =>
               pc'[n] \in Stopping \cup {"down"}
    PROVE  RequestOK(r)'
  <1>1. RequestOK(r) /\ r.from \in Node
    BY RequestId DEF Inv, RequestInv
  <1>2. pc[r.from] \in Stopping \cup {"down"} =>
            pc'[r.from] \in Stopping \cup {"down"}
    BY <1>1
  <1>3. QED
    BY <1>1, <1>2 DEF RequestOK, Parties, Peer

(***************************************************************************)
(* What a step has to re-establish besides the types.                      *)
(***************************************************************************)
Rest == RequestInv /\ ContextInv /\ PhaseInv /\ AnswerInv /\ ForwardInv

LEMMA StartInv ==
    ASSUME Inv, NEW n \in Node, Start(n)
    PROVE  Rest'
  <1> USE UuidType, CtxIsUuid, PeerType, NoNodeAssumption, NoCtxAssumption
      DEF Inv, TypeOK, Peer, Phase, Calling, Stopping, Listening, NoAnswer
  <1>1. RequestInv'
    BY DEF Start, RequestInv, RequestOK, Parties
  <1>2. ContextInv'
    BY DEF Start, ContextInv, PhaseInv, Parties
  <1>3. PhaseInv'
    BY DEF Start, PhaseInv
  <1>4. AnswerInv'
    BY DEF Start, AnswerInv
  <1>5. ForwardInv'
    BY
    DEF Start, PhaseInv, ForwardInv, ForwardContextIsOwn, ForwardContextAdopted
  <1>6. QED
    BY <1>1, <1>2, <1>3, <1>4, <1>5 DEF Rest

LEMMA CreateExchangeCapabilityInv ==
    ASSUME Inv, NEW n \in Node, CreateExchangeCapability(n)
    PROVE  Rest'
  <1> USE UuidType, CtxIsUuid, PeerType, NoNodeAssumption, NoCtxAssumption
      DEF Inv, TypeOK, Peer, Phase, Calling, Stopping, Listening, NoAnswer
  <1>1. RequestInv'
    BY
    DEF CreateExchangeCapability, Post, RequestInv, RequestOK, PhaseInv,
        Parties
  <1>2. ContextInv'
    BY DEF CreateExchangeCapability, ContextInv, Parties
  <1>3. PhaseInv'
    BY DEF CreateExchangeCapability, Post, PhaseInv
  <1>4. AnswerInv'
    BY DEF CreateExchangeCapability, Post, AnswerInv
  <1>5. ForwardInv'
    BY
    DEF CreateExchangeCapability, ForwardInv, ForwardContextIsOwn,
        ForwardContextAdopted
  <1>6. QED
    BY <1>1, <1>2, <1>3, <1>4, <1>5 DEF Rest

LEMMA HandleCapabilityResponseInv ==
    ASSUME Inv, NEW n \in Node, HandleCapabilityResponse(n)
    PROVE  Rest'
  <1> USE UuidType, CtxIsUuid, PeerType, NoNodeAssumption, NoCtxAssumption
      DEF Inv, TypeOK, Peer, Phase, Calling, Stopping, Listening, NoAnswer
  <1>0. /\ ContextToOffer(n) = Uuid(n, boot[n])
        /\ boot[n] \in 1 .. boot[n]
        /\ Peer(n) # NoNode
    BY DEF HandleCapabilityResponse, ContextToOffer, PhaseInv
  <1>1. RequestInv'
    <2> SUFFICES ASSUME NEW r \in reqs'
                 PROVE  RequestOK(r)'
      BY DEF RequestInv
    <2>1. CASE r \in reqs
      BY <2>1, RequestKept DEF HandleCapabilityResponse, Post
    <2>2. CASE r \notin reqs
      <3>1. r = [type |-> "params", from |-> n, boot |-> boot[n],
                 id |-> Uuid(n, boot[n])]
        BY <1>0, <2>2 DEF HandleCapabilityResponse, Post
      <3>2. dep' = dep /\ boot' = boot
        BY DEF HandleCapabilityResponse
      <3>3. /\ r.type = "params" /\ r.from = n /\ r.boot = boot[n]
            /\ r.id = Uuid(n, boot[n])
        BY <3>1
      <3>4. QED
        BY <1>0, <3>2, <3>3 DEF RequestOK
    <2>3. QED
      BY <2>1, <2>2
  <1>2. ContextInv'
    BY <1>0 DEF HandleCapabilityResponse, Post, ContextInv, Parties
  <1>3. PhaseInv'
    BY <1>0 DEF HandleCapabilityResponse, Post, PhaseInv
  <1>4. AnswerInv'
    BY DEF HandleCapabilityResponse, Post, AnswerInv
  <1>5. ForwardInv'
    BY
    DEF HandleCapabilityResponse, ForwardInv, ForwardContextIsOwn,
        ForwardContextAdopted
  <1>6. QED
    BY <1>1, <1>2, <1>3, <1>4, <1>5 DEF Rest

LEMMA HandleParamsResponseInv ==
    ASSUME Inv, NEW n \in Node, HandleParamsResponse(n)
    PROVE  Rest'
  <1> USE UuidType, CtxIsUuid, PeerType, NoNodeAssumption, NoCtxAssumption
      DEF Inv, TypeOK, Peer, Phase, Calling, Stopping, Listening, NoAnswer
  <1>0. /\ EstablishedContext(n, answer[n].id) = Uuid(n, boot[n])
        /\ <<Peer(n), Uuid(n, boot[n])>> \in adopted
    BY DEF HandleParamsResponse, EstablishedContext, AnswerInv
  <1>1. RequestInv'
    BY RequestKept DEF HandleParamsResponse, RequestInv
  <1>2. ContextInv'
    BY <1>0 DEF HandleParamsResponse, ContextInv, Parties
  <1>3. PhaseInv'
    BY DEF HandleParamsResponse, PhaseInv
  <1>4. AnswerInv'
    BY DEF HandleParamsResponse, AnswerInv
  <1>5. ForwardInv'
    BY <1>0
    DEF HandleParamsResponse, ForwardInv, ForwardContextIsOwn,
        ForwardContextAdopted
  <1>6. QED
    BY <1>1, <1>2, <1>3, <1>4, <1>5 DEF Rest

LEMMA HandleTerminateResponseInv ==
    ASSUME Inv, NEW n \in Node, HandleTerminateResponse(n)
    PROVE  Rest'
  <1> USE UuidType, CtxIsUuid, PeerType, NoNodeAssumption, NoCtxAssumption
      DEF Inv, TypeOK, Peer, Phase, Calling, Stopping, Listening, NoAnswer
  <1>1. RequestInv'
    BY DEF HandleTerminateResponse, RequestInv, RequestOK, Parties
  <1>2. ContextInv'
    BY DEF HandleTerminateResponse, ContextInv, Parties
  <1>3. PhaseInv'
    BY DEF HandleTerminateResponse, PhaseInv
  <1>4. AnswerInv'
    BY DEF HandleTerminateResponse, AnswerInv
  <1>5. ForwardInv'
    BY
    DEF HandleTerminateResponse, ForwardInv, ForwardContextIsOwn,
        ForwardContextAdopted
  <1>6. QED
    BY <1>1, <1>2, <1>3, <1>4, <1>5 DEF Rest

LEMMA CallFailsInv ==
    ASSUME Inv, NEW n \in Node, CallFails(n)
    PROVE  Rest'
  <1> USE UuidType, CtxIsUuid, PeerType, NoNodeAssumption, NoCtxAssumption
      DEF Inv, TypeOK, Peer, Phase, Calling, Stopping, Listening, NoAnswer
  <1>1. RequestInv'
    BY DEF CallFails, RequestInv, RequestOK, Parties
  <1>2. ContextInv'
    BY DEF CallFails, ContextInv, Parties
  <1>3. PhaseInv'
    BY DEF CallFails, PhaseInv
  <1>4. AnswerInv'
    BY DEF CallFails, AnswerInv
  <1>5. ForwardInv'
    BY DEF CallFails, ForwardInv, ForwardContextIsOwn, ForwardContextAdopted
  <1>6. QED
    BY <1>1, <1>2, <1>3, <1>4, <1>5 DEF Rest

LEMMA ReleaseInv ==
    ASSUME Inv, NEW n \in Node, Release(n)
    PROVE  Rest'
  <1> USE UuidType, CtxIsUuid, PeerType, NoNodeAssumption, NoCtxAssumption
      DEF Inv, TypeOK, Peer, Phase, Calling, Stopping, Listening, NoAnswer
  <1>1. RequestInv'
    BY DEF Release, RequestInv, RequestOK, Parties
  <1>2. ContextInv'
    BY DEF Release, ContextInv, Parties
  <1>3. PhaseInv'
    BY DEF Release, PhaseInv
  <1>4. AnswerInv'
    BY DEF Release, AnswerInv
  <1>5. ForwardInv'
    BY DEF Release, ForwardInv, ForwardContextIsOwn, ForwardContextAdopted
  <1>6. QED
    BY <1>1, <1>2, <1>3, <1>4, <1>5 DEF Rest

LEMMA GoneInv ==
    ASSUME Inv, NEW n \in Node, Gone(n)
    PROVE  Rest'
  <1> USE UuidType, CtxIsUuid, PeerType, NoNodeAssumption, NoCtxAssumption
      DEF Inv, TypeOK, Peer, Phase, Calling, Stopping, Listening, NoAnswer
  <1>1. RequestInv'
    BY DEF Gone, RequestInv, RequestOK, Parties
  <1>2. ContextInv'
    BY DEF Gone, ContextInv, Parties
  <1>3. PhaseInv'
    BY DEF Gone, PhaseInv
  <1>4. AnswerInv'
    BY DEF Gone, AnswerInv
  <1>5. ForwardInv'
    BY DEF Gone, ForwardInv, ForwardContextIsOwn, ForwardContextAdopted
  <1>6. QED
    BY <1>1, <1>2, <1>3, <1>4, <1>5 DEF Rest

LEMMA StopInv ==
    ASSUME Inv, NEW n \in Node, Stop(n)
    PROVE  Rest'
  <1> USE UuidType, CtxIsUuid, PeerType, NoNodeAssumption, NoCtxAssumption
      DEF Inv, TypeOK, Peer, Phase, Calling, Stopping, Listening, NoAnswer
  <1>0. boot[n] \in 1 .. boot[n]
    BY DEF Stop, PhaseInv
  <1>1. RequestInv'
    <2> SUFFICES ASSUME NEW r \in reqs'
                 PROVE  RequestOK(r)'
      BY DEF RequestInv
    <2>1. CASE r \in reqs
      BY <2>1, RequestKept DEF Stop, Post
    <2>2. CASE r \notin reqs
      <3>1. /\ Peer(n) # NoNode
            /\ ctx[n] # NoCtx
            /\ r = [type |-> "terminate", from |-> n, boot |-> boot[n],
                    id |-> ctx[n]]
            /\ pc'[n] = "terminate"
        BY <2>2 DEF Stop, Post
      <3>2. /\ n \in Parties(r.id)
            /\ Creator(r.id) = n => CreatorBoot(r.id) = boot[n]
        BY <3>1 DEF ContextInv
      <3>3. dep' = dep /\ boot' = boot
        BY DEF Stop
      <3>4. r.from = n /\ r.boot = boot[n] /\ r.type = "terminate"
        BY <3>1
      <3>5. QED
        BY <1>0, <3>1, <3>2, <3>3, <3>4 DEF Parties, RequestOK
    <2>3. QED
      BY <2>1, <2>2
  <1>2. ContextInv'
    BY DEF Stop, ContextInv, Parties
  <1>3. PhaseInv'
    BY DEF Stop, Post, PhaseInv
  <1>4. AnswerInv'
    BY DEF Stop, Post, AnswerInv
  <1>5. ForwardInv'
    BY DEF Stop, ForwardInv, ForwardContextIsOwn, ForwardContextAdopted
  <1>6. QED
    BY <1>1, <1>2, <1>3, <1>4, <1>5 DEF Rest

LEMMA HandleExchangeCapabilityInv ==
    ASSUME Inv, NEW p \in Node, NEW r \in reqs, HandleExchangeCapability(p, r)
    PROVE  Rest'
  <1> USE UuidType, CtxIsUuid, PeerType, NoNodeAssumption, NoCtxAssumption
      DEF Inv, TypeOK, Peer, Phase, Calling, Stopping, Listening, NoAnswer
  <1>1. RequestInv'
    BY DEF HandleExchangeCapability, Reply, RequestInv, RequestOK, Parties
  <1>2. ContextInv'
    BY DEF HandleExchangeCapability, ContextInv, Parties
  <1>3. PhaseInv'
    BY DEF HandleExchangeCapability, PhaseInv
  <1>4. AnswerInv'
    BY DEF HandleExchangeCapability, Takes, Reply, Waits, AnswerInv
  <1>5. ForwardInv'
    BY
    DEF HandleExchangeCapability, ForwardInv, ForwardContextIsOwn,
        ForwardContextAdopted
  <1>6. QED
    BY <1>1, <1>2, <1>3, <1>4, <1>5 DEF Rest

LEMMA HandleExchangeParamsInv ==
    ASSUME Inv, NEW p \in Node, NEW r \in reqs, HandleExchangeParams(p, r)
    PROVE  Rest'
  <1> USE UuidType, CtxIsUuid, PeerType, NoNodeAssumption, NoCtxAssumption
      DEF Inv, TypeOK, Peer, Phase, Calling, Stopping, Listening, NoAnswer
  <1>0. /\ r.from \in Node /\ r.boot \in Nat
        /\ r.id = Uuid(r.from, r.boot)
        /\ r.id \in Ctx
        /\ Peer(r.from) = p /\ r.from # p
        /\ AdoptedContext(p, r.id) = r.id
    BY RequestId
    DEF HandleExchangeParams, Takes, RequestInv, RequestOK, AdoptedContext
  <1>1. RequestInv'
    <2>1. /\ reqs' \subseteq reqs
          /\ dep' = dep /\ boot' = boot /\ pc' = pc
      BY DEF HandleExchangeParams, Reply
    <2>2. QED
      BY <2>1, RequestKept DEF RequestInv
  <1>2. ContextInv'
    BY <1>0 DEF HandleExchangeParams, ContextInv, Parties
  <1>3. PhaseInv'
    BY DEF HandleExchangeParams, Takes, PhaseInv
  <1>4. AnswerInv'
    BY <1>0
    DEF HandleExchangeParams, Reply, Waits, Accepted, Rejected, AnswerInv
  <1>5. ForwardInv'
    BY
    DEF HandleExchangeParams, ForwardInv, ForwardContextIsOwn,
        ForwardContextAdopted
  <1>6. QED
    BY <1>1, <1>2, <1>3, <1>4, <1>5 DEF Rest

LEMMA HandleTerminateInv ==
    ASSUME Inv, NEW p \in Node, NEW r \in reqs, HandleTerminate(p, r)
    PROVE  Rest'
  <1> USE UuidType, CtxIsUuid, PeerType, NoNodeAssumption, NoCtxAssumption
      DEF Inv, TypeOK, Peer, Phase, Calling, Stopping, Listening, NoAnswer
  <1>1. RequestInv'
    BY DEF HandleTerminate, Reply, RequestInv, RequestOK, Parties
  <1>2. ContextInv'
    BY DEF HandleTerminate, TerminatedContext, ContextInv, Parties
  <1>3. PhaseInv'
    BY DEF HandleTerminate, Takes, PhaseInv
  <1>4. AnswerInv'
    BY DEF HandleTerminate, Takes, Reply, Waits, AnswerInv
  <1>5. ForwardInv'
    BY
    DEF HandleTerminate, ForwardInv, ForwardContextIsOwn, ForwardContextAdopted
  <1>6. QED
    BY <1>1, <1>2, <1>3, <1>4, <1>5 DEF Rest

LEMMA InvStep == Inv /\ [Next]_vars => Inv'
  <1> SUFFICES ASSUME Inv, [Next]_vars
               PROVE  Inv'
    OBVIOUS
  <1>1. TypeOK'
    BY TypeStep DEF Inv
  <1>2. ASSUME NEW n \in Node, Main(n)
        PROVE  Rest'
    <2>1. CASE CreateExchangeCapability(n)
      BY <2>1, CreateExchangeCapabilityInv
    <2>2. CASE HandleCapabilityResponse(n)
      BY <2>2, HandleCapabilityResponseInv
    <2>3. CASE HandleParamsResponse(n)
      BY <2>3, HandleParamsResponseInv
    <2>4. CASE HandleTerminateResponse(n)
      BY <2>4, HandleTerminateResponseInv
    <2>5. CASE CallFails(n)
      BY <2>5, CallFailsInv
    <2>6. CASE Release(n)
      BY <2>6, ReleaseInv
    <2>7. CASE Exit(n)
      BY <2>7, GoneInv DEF Exit
    <2>8. QED
      BY <1>2, <2>1, <2>2, <2>3, <2>4, <2>5, <2>6, <2>7 DEF Main
  <1>3. ASSUME NEW p \in Node, Serve(p)
        PROVE  Rest'
    <2>1. PICK r \in reqs : \/ HandleExchangeCapability(p, r)
                            \/ HandleExchangeParams(p, r)
                            \/ HandleTerminate(p, r)
      BY <1>3 DEF Serve
    <2>2. CASE HandleExchangeCapability(p, r)
      BY <2>2, HandleExchangeCapabilityInv
    <2>3. CASE HandleExchangeParams(p, r)
      BY <2>3, HandleExchangeParamsInv
    <2>4. CASE HandleTerminate(p, r)
      BY <2>4, HandleTerminateInv
    <2>5. QED
      BY <2>1, <2>2, <2>3, <2>4
  <1>4. ASSUME NEW n \in Node, Start(n)
        PROVE  Rest'
    BY <1>4, StartInv
  <1>5. ASSUME NEW n \in Node, Stop(n)
        PROVE  Rest'
    BY <1>5, StopInv
  <1>6. ASSUME NEW n \in Node, Crash(n)
        PROVE  Rest'
    BY <1>6, GoneInv DEF Crash
  <1>7. UNCHANGED vars => Rest'
    BY DEF vars, Rest, Inv, RequestInv, RequestOK, Parties, Peer, ContextInv,
        PhaseInv, AnswerInv, ForwardInv, ForwardContextIsOwn,
        ForwardContextAdopted
  <1>8. Rest'
    BY <1>2, <1>3, <1>4, <1>5, <1>6, <1>7 DEF Next
  <1>9. QED
    BY <1>1, <1>8 DEF Inv, Rest

THEOREM Invariance == Spec => []Inv
  BY InvInit, InvStep, PTL DEF Spec

(***************************************************************************)
(* A context id is known to its two parties only.                          *)
(***************************************************************************)
THEOREM ContextPartiesHolds == Spec => []ContextParties
  <1>1. Inv => ContextParties
    BY DEF Inv, ContextInv, ContextParties, Parties
  <1>2. QED
    BY <1>1, Invariance, PTL

(***************************************************************************)
(* The forwarding context of a SEPP is the one it drew in this start.      *)
(***************************************************************************)
THEOREM ForwardContextIsOwnHolds == Spec => []ForwardContextIsOwn
  <1>1. Inv => ForwardContextIsOwn
    BY DEF Inv, ForwardInv
  <1>2. QED
    BY <1>1, Invariance, PTL

(***************************************************************************)
(* The partner took over the context a SEPP forwards with.                 *)
(***************************************************************************)
THEOREM ForwardContextAdoptedHolds == Spec => []ForwardContextAdopted
  <1>1. Inv => ForwardContextAdopted
    BY DEF Inv, ForwardInv
  <1>2. QED
    BY <1>1, Invariance, PTL

(***************************************************************************)
(* No termination, of another SEPP or left over from an earlier start,     *)
(* removes the context of a running SEPP at its partner.  Only the handler *)
(* of n32f-terminate clears the context of a running process.  The id it   *)
(* compares is known to the sender, so the sender drew it (the receiver is *)
(* the other party), in the start that sent it.                            *)
(***************************************************************************)
THEOREM LiveContextKeptHolds == Spec => LiveContextKept
  <1> DEFINE
        Lost(p) ==
            /\ pc[p] = "up" /\ pc'[p] = "up"
            /\ ctx[p] # NoCtx /\ ctx'[p] = NoCtx
            /\ Creator(ctx[p]) # p
        Ended(c) == \/ boot[Creator(c)] # CreatorBoot(c)
                    \/ pc[Creator(c)] \in Stopping \cup {"down"}
  <1>1. ASSUME Inv, [Next]_vars, NEW p \in Node, Lost(p)
        PROVE  Ended(ctx[p])
    <2>1. PICK r \in reqs :
              Takes(p, r, "terminate") /\ ctx[p] = r.id
      BY <1>1, UuidType, CtxIsUuid, RequestId
      DEF Next, Main, Serve, Start, CreateExchangeCapability,
          HandleCapabilityResponse, HandleParamsResponse,
          HandleTerminateResponse, CallFails, Release, Exit, Crash, Gone, Stop,
          HandleExchangeCapability, HandleExchangeParams, HandleTerminate,
          Takes, TerminatedContext, AdoptedContext, vars, Inv, TypeOK
    <2>2. RequestOK(r) /\ r.from \in Node /\ Peer(r.from) = p
      BY <1>1, <2>1, RequestId DEF Inv, RequestInv, Takes
    <2>3. p = Peer(Creator(r.id))
      BY <1>1, <2>1 DEF Inv, ContextInv, Parties
    <2>4. r.from = Creator(r.id)
      <3>1. Peer(p) # p
        BY <1>1, PeerType DEF Inv, TypeOK
      <3>2. QED
        BY <2>1, <2>2, <2>3, <3>1 DEF RequestOK, Parties, Takes
    <2>5. QED
      BY <2>1, <2>2, <2>4 DEF RequestOK, Takes
  <1>2. Inv /\ [Next]_vars =>
          [\A p \in Node : Lost(p) => Ended(ctx[p])]_vars
    BY <1>1
  <1>3. QED
    BY <1>2, Invariance, PTL DEF Spec, LiveContextKept
=============================================================================
