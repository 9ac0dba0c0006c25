----------------------- MODULE N32cTerminationProofs -----------------------
(***************************************************************************)
(* Theorems about N32cHandshake that need more than the invariant of       *)
(* N32cHandshakeProofs: which requests and adoptions of a context can      *)
(* still come, and what is left of it when it is terminated.               *)
(***************************************************************************)
EXTENDS N32cHandshakeProofs

(***************************************************************************)
(* The id a SEPP draws in its present start, if it draws one.              *)
(***************************************************************************)
Fresh(n) == Uuid(n, boot[n])

\* The id of n's present start is on its way to no partner ...
Unoffered(n) == \A r \in reqs : r.type = "params" => r.id # Fresh(n)

\* ... and no partner has taken it over.
Unadopted(n) == \A a \in adopted : a[2] # Fresh(n)

\* Only ids of starts there were have been taken over.
AdoptedInv == \A a \in adopted : CreatorBoot(a[2]) <= boot[Creator(a[2])]

(***************************************************************************)
(* Before it offers its id, a SEPP has not offered it in this start; one   *)
(* that came up without a context never has.  Once the offer is answered   *)
(* it is on its way no more, and it is not made again.                     *)
(***************************************************************************)
OfferOK(n) ==
    /\ pc[n] \in {"starting", "capability"} => Unoffered(n) /\ Unadopted(n)
    /\ NoInbound(n) /\ pc[n] = "up" /\ ctx[n] = NoCtx =>
          Unoffered(n) /\ Unadopted(n)
    /\ pc[n] = "params" /\ answer[n].status = "accepted" => Unoffered(n)
    /\ fwd[n] # NoCtx => Unoffered(n)

OfferInv == \A n \in Node : OfferOK(n)

(***************************************************************************)
(* A SEPP with an established context that is nobody's partner terminates  *)
(* that context, and when this is confirmed the partner has given it up.   *)
(***************************************************************************)
TerminateOK(n) ==
    NoInbound(n) /\ fwd[n] # NoCtx =>
        /\ \A r \in reqs :
              r.type = "terminate" /\ r.from = n /\ r.boot = boot[n] =>
                  r.id = fwd[n]
        /\ pc[n] = "terminate" /\ answer[n].status = "accepted" =>
              ctx[Peer(n)] # fwd[n]

TerminateInv == \A n \in Node : TerminateOK(n)

\* An answer is kept only as long as the call it belongs to.
AnswerIdleInv == \A n \in Node : pc[n] \notin Calling => answer[n] = NoAnswer

ContextEndInv ==
    /\ AnswerIdleInv
    /\ AdoptedInv
    /\ OfferInv
    /\ TerminateInv
    /\ ForwardMatchesHandshake
    /\ ConfirmedTerminationClears

-----------------------------------------------------------------------------
\* An id of the present start names its SEPP and its start.
LEMMA FreshType ==
    ASSUME TypeOK, NEW n \in Node
    PROVE  /\ Fresh(n) \in Ctx
           /\ Fresh(n) # NoCtx
           /\ Creator(Fresh(n)) = n
           /\ CreatorBoot(Fresh(n)) = boot[n]
  BY UuidType DEF Fresh, TypeOK

\* An offered id is the one of the start it is sent from.
LEMMA OfferedId ==
    ASSUME Inv, NEW r \in reqs, r.type = "params"
    PROVE  /\ r.from \in Node
           /\ r.boot \in Nat
           /\ r.boot <= boot[r.from]
           /\ r.id = Uuid(r.from, r.boot)
           /\ r.id \in Ctx
           /\ Creator(r.id) = r.from
           /\ CreatorBoot(r.id) = r.boot
  BY RequestId, UuidType DEF Inv, RequestInv, RequestOK

\* A step that adds no offer, adopts nothing and starts nothing leaves alone
\* what has been offered and adopted.
LEMMA OfferKept ==
    ASSUME boot' = boot, adopted' = adopted,
           \A r \in reqs' : r \in reqs \/ r.type # "params"
    PROVE  /\ AdoptedInv => AdoptedInv'
           /\ \A n \in Node : Unoffered(n) => Unoffered(n)'
           /\ \A n \in Node : Unadopted(n) => Unadopted(n)'
  BY DEF AdoptedInv, Unoffered, Unadopted, Fresh

\* The deployment fixes who is whose partner.
LEMMA DepKept ==
    ASSUME dep' = dep, NEW n
    PROVE  Peer(n)' = Peer(n) /\ NoInbound(n)' = NoInbound(n)
  BY DEF Peer, NoInbound

\* The first call of the handshake names no context.
LEMMA CreateExchangeCapabilityEnd ==
    ASSUME Inv, ContextEndInv, NEW n \in Node, CreateExchangeCapability(n)
    PROVE  ContextEndInv'
  <1> USE DEF Inv, TypeOK, ContextEndInv
  <1>0. /\ dep' = dep /\ boot' = boot /\ adopted' = adopted
        /\ \A r \in reqs' : r \in reqs \/ r.type # "params"
    BY DEF CreateExchangeCapability, Post
  <1>1. AdoptedInv'
    BY <1>0, OfferKept
  <1>2. OfferInv'
    BY <1>0, OfferKept, DepKept, NoCtxAssumption
    DEF CreateExchangeCapability, Post, OfferInv, OfferOK, PhaseInv, NoAnswer
  <1>3. TerminateInv'
    BY <1>0, DepKept
    DEF CreateExchangeCapability, Post, TerminateInv, TerminateOK,
        ForwardMatchesHandshake, PhaseInv, NoAnswer
  <1>4. ForwardMatchesHandshake'
    BY <1>0, DepKept
    DEF CreateExchangeCapability, Post, ForwardMatchesHandshake, PhaseInv
  <1>5. ConfirmedTerminationClears'
    BY <1>0, DepKept, PeerType
    DEF CreateExchangeCapability, Post, ConfirmedTerminationClears, Terminated,
        PhaseInv, TerminateInv, TerminateOK, ForwardMatchesHandshake
  <1>6. AnswerIdleInv'
    BY DEF CreateExchangeCapability, Post, AnswerIdleInv, Calling
  <1>7. QED
    BY <1>1, <1>2, <1>3, <1>4, <1>5, <1>6

\* The confirmation of a termination says that the partner has cleared it.
LEMMA HandleTerminateResponseEnd ==
    ASSUME Inv, ContextEndInv, NEW n \in Node, HandleTerminateResponse(n)
    PROVE  ContextEndInv'
  <1> USE DEF Inv, TypeOK, ContextEndInv
  <1>0. /\ dep' = dep /\ boot' = boot /\ adopted' = adopted
        /\ \A r \in reqs' : r \in reqs \/ r.type # "params"
    BY DEF HandleTerminateResponse
  <1>1. AdoptedInv'
    BY <1>0, OfferKept
  <1>2. OfferInv'
    BY <1>0, OfferKept, DepKept, NoCtxAssumption
    DEF HandleTerminateResponse, OfferInv, OfferOK, PhaseInv, NoAnswer
  <1>3. TerminateInv'
    BY <1>0, DepKept
    DEF HandleTerminateResponse, TerminateInv, TerminateOK,
        ForwardMatchesHandshake, PhaseInv, NoAnswer
  <1>4. ForwardMatchesHandshake'
    BY <1>0, DepKept
    DEF HandleTerminateResponse, ForwardMatchesHandshake, PhaseInv
  <1>5. ConfirmedTerminationClears'
    BY <1>0, DepKept, PeerType
    DEF HandleTerminateResponse, ConfirmedTerminationClears, Terminated,
        PhaseInv, TerminateInv, TerminateOK, ForwardMatchesHandshake
  <1>6. AnswerIdleInv'
    BY DEF HandleTerminateResponse, AnswerIdleInv, Calling
  <1>7. QED
    BY <1>1, <1>2, <1>3, <1>4, <1>5, <1>6

\* A failed call leaves the contexts as they are, whatever the partner did.
LEMMA CallFailsEnd ==
    ASSUME Inv, ContextEndInv, NEW n \in Node, CallFails(n)
    PROVE  ContextEndInv'
  <1> USE DEF Inv, TypeOK, ContextEndInv
  <1>0. /\ dep' = dep /\ boot' = boot /\ adopted' = adopted
        /\ \A r \in reqs' : r \in reqs \/ r.type # "params"
    BY DEF CallFails, Calling
  <1>1. AdoptedInv'
    BY <1>0, OfferKept
  <1>2. OfferInv'
    <2>1. Fresh(n) = Uuid(n, boot[n]) /\ Fresh(n) # NoCtx
      BY FreshType DEF Fresh
    <2>2. pc[n] = "params" => ctx[n] # NoCtx
      BY <2>1 DEF PhaseInv
    <2>3. QED
      BY <1>0, <2>2, OfferKept, DepKept
      DEF CallFails, OfferInv, OfferOK, NoAnswer, Calling
  <1>3. TerminateInv'
    BY <1>0, DepKept
    DEF CallFails, Calling, TerminateInv, TerminateOK, ForwardMatchesHandshake,
        PhaseInv, NoAnswer
  <1>4. ForwardMatchesHandshake'
    BY <1>0, DepKept DEF CallFails, Calling, ForwardMatchesHandshake, PhaseInv
  <1>5. ConfirmedTerminationClears'
    BY <1>0, DepKept, PeerType
    DEF CallFails, Calling, ConfirmedTerminationClears, Terminated, PhaseInv,
        TerminateInv, TerminateOK, ForwardMatchesHandshake
  <1>6. AnswerIdleInv'
    BY DEF CallFails, AnswerIdleInv, Calling
  <1>7. QED
    BY <1>1, <1>2, <1>3, <1>4, <1>5, <1>6

\* Releasing the objects changes no context.
LEMMA ReleaseEnd ==
    ASSUME Inv, ContextEndInv, NEW n \in Node, Release(n)
    PROVE  ContextEndInv'
  <1> USE DEF Inv, TypeOK, ContextEndInv
  <1>0. /\ dep' = dep /\ boot' = boot /\ adopted' = adopted
        /\ \A r \in reqs' : r \in reqs \/ r.type # "params"
    BY DEF Release
  <1>1. AdoptedInv'
    BY <1>0, OfferKept
  <1>2. OfferInv'
    BY <1>0, OfferKept, DepKept, NoCtxAssumption
    DEF Release, OfferInv, OfferOK, PhaseInv, NoAnswer
  <1>3. TerminateInv'
    BY <1>0, DepKept
    DEF Release, TerminateInv, TerminateOK, ForwardMatchesHandshake, PhaseInv,
        NoAnswer
  <1>4. ForwardMatchesHandshake'
    BY <1>0, DepKept DEF Release, ForwardMatchesHandshake, PhaseInv
  <1>5. ConfirmedTerminationClears'
    BY <1>0, DepKept, PeerType
    DEF Release, ConfirmedTerminationClears, Terminated, PhaseInv,
        TerminateInv, TerminateOK, ForwardMatchesHandshake
  <1>6. AnswerIdleInv'
    BY DEF Release, AnswerIdleInv, Calling
  <1>7. QED
    BY <1>1, <1>2, <1>3, <1>4, <1>5, <1>6

\* The end of a process takes its contexts and its queue with it.
LEMMA GoneEnd ==
    ASSUME Inv, ContextEndInv, NEW n \in Node, Gone(n)
    PROVE  ContextEndInv'
  <1> USE DEF Inv, TypeOK, ContextEndInv
  <1>0. /\ dep' = dep /\ boot' = boot /\ adopted' = adopted
        /\ \A r \in reqs' : r \in reqs \/ r.type # "params"
    BY DEF Gone
  <1>1. AdoptedInv'
    BY <1>0, OfferKept
  <1>2. OfferInv'
    BY <1>0, OfferKept, DepKept, NoCtxAssumption
    DEF Gone, OfferInv, OfferOK, PhaseInv, NoAnswer
  <1>3. TerminateInv'
    BY <1>0, DepKept
    DEF Gone, TerminateInv, TerminateOK, ForwardMatchesHandshake, PhaseInv,
        NoAnswer
  <1>4. ForwardMatchesHandshake'
    BY <1>0, DepKept DEF Gone, ForwardMatchesHandshake, PhaseInv
  <1>5. ConfirmedTerminationClears'
    BY <1>0, DepKept, PeerType
    DEF Gone, ConfirmedTerminationClears, Terminated, PhaseInv, TerminateInv,
        TerminateOK, ForwardMatchesHandshake
  <1>6. AnswerIdleInv'
    BY DEF Gone, AnswerIdleInv, Calling
  <1>7. QED
    BY <1>1, <1>2, <1>3, <1>4, <1>5, <1>6

\* A SEPP that is nobody's partner terminates the id it forwards with.
LEMMA StopEnd ==
    ASSUME Inv, ContextEndInv, NEW n \in Node, Stop(n)
    PROVE  ContextEndInv'
  <1> USE DEF Inv, TypeOK, ContextEndInv
  <1>0. /\ dep' = dep /\ boot' = boot /\ adopted' = adopted
        /\ \A r \in reqs' : r \in reqs \/ r.type # "params"
    BY DEF Stop, Post
  <1>1. AdoptedInv'
    BY <1>0, OfferKept
  <1>2. OfferInv'
    BY <1>0, OfferKept, DepKept, NoCtxAssumption
    DEF Stop, Post, OfferInv, OfferOK, PhaseInv, NoAnswer
  <1>3. TerminateInv'
    <2> SUFFICES ASSUME NEW m \in Node, NoInbound(m)', fwd'[m] # NoCtx
                 PROVE  TerminateOK(m)'
      BY DEF TerminateInv, TerminateOK
    <2>1. /\ NoInbound(m) /\ fwd' = fwd /\ ctx' = ctx /\ answer' = answer
          /\ Peer(m)' = Peer(m)
      BY <1>0, DepKept DEF Stop
    <2>2. TerminateOK(m)
      BY DEF TerminateInv
    <2>3. ASSUME NEW r \in reqs', r.type = "terminate", r.from = m,
                 r.boot = boot[m]
          PROVE  r.id = fwd[m]
      <3>1. CASE r \in reqs
        BY <2>1, <2>2, <2>3, <3>1 DEF TerminateOK
      <3>2. CASE r \notin reqs
        <4>1. /\ r = [type |-> "terminate", from |-> n, boot |-> boot[n],
                      id |-> ctx[n]]
              /\ pc[n] = "up"
          BY <3>2 DEF Stop, Post
        <4>2. r.from = n /\ r.id = ctx[n]
          BY <4>1
        <4>3. ctx[n] = fwd[n]
          BY <2>1, <2>3, <4>1, <4>2 DEF ForwardMatchesHandshake
        <4>4. QED
          BY <2>3, <4>2, <4>3
      <3>3. QED
        BY <3>1, <3>2
    <2>4. pc'[m] = "terminate" /\ answer[m].status = "accepted" =>
              ctx[Peer(m)] # fwd[m]
      <3>1. CASE m # n
        BY <2>1, <2>2, <3>1 DEF TerminateOK, Stop, Post
      <3>2. CASE m = n
        BY <3>2 DEF Stop, AnswerIdleInv, Calling, NoAnswer
      <3>3. QED
        BY <3>1, <3>2
    <2>5. QED
      BY <1>0, <2>1, <2>3, <2>4 DEF TerminateOK
  <1>4. ForwardMatchesHandshake'
    BY <1>0, DepKept DEF Stop, Post, ForwardMatchesHandshake, PhaseInv
  <1>5. ConfirmedTerminationClears'
    BY <1>0, DepKept, PeerType
    DEF Stop, Post, ConfirmedTerminationClears, Terminated, PhaseInv,
        TerminateInv, TerminateOK, ForwardMatchesHandshake
  <1>6. AnswerIdleInv'
    BY DEF Stop, Post, AnswerIdleInv, Calling
  <1>7. QED
    BY <1>1, <1>2, <1>3, <1>4, <1>5, <1>6

\* The answer brings the id that was offered, so both objects hold it.
LEMMA HandleParamsResponseEnd ==
    ASSUME Inv, ContextEndInv, NEW n \in Node, HandleParamsResponse(n)
    PROVE  ContextEndInv'
  <1> USE DEF Inv, TypeOK, ContextEndInv
  <1>0. /\ dep' = dep /\ boot' = boot /\ adopted' = adopted
        /\ \A r \in reqs' : r \in reqs \/ r.type # "params"
    BY DEF HandleParamsResponse, EstablishedContext, AnswerInv
  <1>. /\ pc[n] = "params" /\ fwd[n] = NoCtx
       /\ answer[n].status = "accepted" /\ ctx' = ctx
    <2>1. /\ pc[n] = "params" /\ answer[n].status = "accepted"
          /\ ctx' = [ctx EXCEPT ![n] = EstablishedContext(n, answer[n].id)]
      BY DEF HandleParamsResponse
    <2>2. fwd[n] = NoCtx /\ ctx[n] = EstablishedContext(n, answer[n].id)
      BY <2>1 DEF PhaseInv, AnswerInv, EstablishedContext
    <2>3. QED
      BY <2>1, <2>2
  <1>1. AdoptedInv'
    BY <1>0, OfferKept
  <1>2. OfferInv'
    BY <1>0, OfferKept, DepKept, NoCtxAssumption
    DEF HandleParamsResponse, EstablishedContext, AnswerInv, OfferInv, OfferOK,
        PhaseInv, NoAnswer
  <1>3. TerminateInv'
    <2> SUFFICES ASSUME NEW m \in Node, NoInbound(m)', fwd'[m] # NoCtx
                 PROVE  TerminateOK(m)'
      BY DEF TerminateInv, TerminateOK
    <2>1. NoInbound(m) /\ Peer(m)' = Peer(m) /\ reqs' = reqs
      BY <1>0, DepKept DEF HandleParamsResponse
    <2>2. CASE m = n
      <3>1. pc'[m] = "up"
        BY <2>2 DEF HandleParamsResponse
      <3>2. \A r \in reqs : r.type = "terminate" /\ r.from = m =>
                                r.boot # boot[m]
        BY <2>2 DEF RequestInv, RequestOK, Stopping
      <3>3. QED
        BY <1>0, <2>1, <3>1, <3>2 DEF TerminateOK
    <2>3. CASE m # n
      <3>1. pc'[m] = pc[m] /\ answer'[m] = answer[m] /\ fwd'[m] = fwd[m]
        BY <2>3 DEF HandleParamsResponse
      <3>2. TerminateOK(m)
        BY DEF TerminateInv
      <3>3. QED
        BY <1>0, <2>1, <3>1, <3>2 DEF TerminateOK
    <2>4. QED
      BY <2>2, <2>3
  <1>4. ForwardMatchesHandshake'
    BY <1>0, DepKept
    DEF HandleParamsResponse, EstablishedContext, AnswerInv,
        ForwardMatchesHandshake, PhaseInv
  <1>5. ConfirmedTerminationClears'
    <2>1. \A m \in Node : Terminated(m)' => Terminated(m) /\ fwd'[m] = fwd[m]
      BY DEF HandleParamsResponse, Terminated
    <2>2. QED
      BY <1>0, <2>1, DepKept DEF ConfirmedTerminationClears
  <1>6. AnswerIdleInv'
    BY DEF HandleParamsResponse, AnswerIdleInv, Calling
  <1>7. QED
    BY <1>1, <1>2, <1>3, <1>4, <1>5, <1>6

\* The handler of exchange-capability touches no context.
LEMMA HandleExchangeCapabilityEnd ==
    ASSUME Inv, ContextEndInv,
           NEW p \in Node, NEW r \in reqs, HandleExchangeCapability(p, r)
    PROVE  ContextEndInv'
  <1> USE DEF Inv, TypeOK, ContextEndInv
  <1>0. /\ dep' = dep /\ boot' = boot /\ adopted' = adopted
        /\ \A q \in reqs' : q \in reqs \/ q.type # "params"
    BY DEF HandleExchangeCapability, Reply, Waits, Takes
  <1>1. AdoptedInv'
    BY <1>0, OfferKept
  <1>2. OfferInv'
    BY <1>0, OfferKept, DepKept, NoCtxAssumption
    DEF HandleExchangeCapability, Reply, Waits, Takes, OfferInv, OfferOK,
        PhaseInv, NoAnswer
  <1>3. TerminateInv'
    BY <1>0, DepKept
    DEF HandleExchangeCapability, Reply, Waits, Takes, TerminateInv,
        TerminateOK, ForwardMatchesHandshake, PhaseInv, NoAnswer
  <1>4. ForwardMatchesHandshake'
    BY <1>0, DepKept
    DEF HandleExchangeCapability, Reply, Waits, Takes, ForwardMatchesHandshake,
        PhaseInv
  <1>5. ConfirmedTerminationClears'
    BY <1>0, DepKept, PeerType
    DEF HandleExchangeCapability, Reply, Waits, Takes,
        ConfirmedTerminationClears, Terminated, PhaseInv, TerminateInv,
        TerminateOK, ForwardMatchesHandshake
  <1>6. AnswerIdleInv'
    BY
    DEF HandleExchangeCapability, Reply, Waits, Takes, AnswerIdleInv, Calling
  <1>7. QED
    BY <1>1, <1>2, <1>3, <1>4, <1>5, <1>6

\* A confirmed termination means that the receiver does not hold the id.
LEMMA HandleTerminateEnd ==
    ASSUME Inv, ContextEndInv,
           NEW p \in Node, NEW r \in reqs, HandleTerminate(p, r)
    PROVE  ContextEndInv'
  <1> USE DEF Inv, TypeOK, ContextEndInv
  <1>0. /\ dep' = dep /\ boot' = boot /\ adopted' = adopted
        /\ pc' = pc /\ fwd' = fwd
        /\ reqs' \subseteq reqs
    BY DEF HandleTerminate, Reply
  <1>1. AdoptedInv'
    BY <1>0, OfferKept
  <1>2. /\ r.from \in Node /\ Peer(r.from) = p /\ r.type = "terminate"
        /\ ~NoInbound(p)
    BY RequestId DEF HandleTerminate, Takes, NoInbound
  <1>3. /\ \A n \in Node : ctx'[n] = ctx[n] \/ (n = p /\ ctx'[n] = NoCtx)
        /\ \A n \in Node : answer'[n] # answer[n] =>
              /\ n = r.from /\ pc[n] = "terminate" /\ r.boot = boot[n]
              /\ answer'[n].status = "accepted" => ctx'[p] # r.id
    <2>1. r.id # NoCtx
      BY <1>2, RequestId, CtxIsUuid
    <2>2. CASE HasHandshake(p)
      <3>1. ctx' = [ctx EXCEPT ![p] = TerminatedContext(p, r.id)]
        BY <2>2 DEF HandleTerminate
      <3>2. ctx'[p] # r.id
        BY <2>1, <3>1 DEF TerminatedContext
      <3>3. QED
        BY <1>2, <2>2, <3>1, <3>2
        DEF HandleTerminate, Reply, Waits, TerminatedContext
    <2>3. CASE ~HasHandshake(p)
      BY <1>2, <2>3 DEF HandleTerminate, Reply, Waits, Rejected
    <2>4. QED
      BY <2>2, <2>3
  <1>4. OfferInv'
    <2> SUFFICES ASSUME NEW n \in Node
                 PROVE  OfferOK(n)'
      BY DEF OfferInv
    <2>1. OfferOK(n) /\ (NoInbound(n)' <=> NoInbound(n))
      BY <1>0, DepKept DEF OfferInv
    <2>2. NoInbound(n) => ctx'[n] = ctx[n]
      BY <1>2, <1>3
    <2>3. pc[n] = "params" => answer'[n] = answer[n]
      BY <1>3
    <2>4. /\ Unoffered(n) => Unoffered(n)'
          /\ Unadopted(n) => Unadopted(n)'
      BY <1>0, OfferKept
    <2>5. QED
      BY <1>0, <2>1, <2>2, <2>3, <2>4 DEF OfferOK
  <1>5. TerminateInv'
    <2> SUFFICES ASSUME NEW n \in Node, NoInbound(n)', fwd'[n] # NoCtx
                 PROVE  TerminateOK(n)'
      BY DEF TerminateInv, TerminateOK
    <2>1. NoInbound(n) /\ Peer(n)' = Peer(n) /\ fwd[n] # NoCtx
      BY <1>0, DepKept
    <2>2. TerminateOK(n)
      BY DEF TerminateInv
    <2>3. ASSUME pc[n] = "terminate", answer'[n].status = "accepted"
          PROVE  ctx'[Peer(n)] # fwd[n]
      <3>1. Peer(n) \in Node
        BY <2>3, PeerType DEF PhaseInv
      <3>2. CASE answer'[n] = answer[n]
        BY <1>3, <2>1, <2>2, <2>3, <3>1, <3>2 DEF TerminateOK
      <3>3. CASE answer'[n] # answer[n]
        <4>1. r.from = n /\ r.boot = boot[n] /\ ctx'[p] # r.id
          BY <1>3, <2>3, <3>3
        <4>2. r.id = fwd[n] /\ Peer(n) = p
          BY <1>2, <2>1, <2>2, <4>1 DEF TerminateOK
        <4>3. QED
          BY <4>1, <4>2
      <3>4. QED
        BY <3>2, <3>3
    <2>4. QED
      BY <1>0, <2>1, <2>2, <2>3 DEF TerminateOK
  <1>6. ForwardMatchesHandshake'
    BY <1>0, <1>2, <1>3, DepKept DEF ForwardMatchesHandshake
  <1>7. ConfirmedTerminationClears'
    <2> SUFFICES ASSUME NEW n \in Node, Terminated(n)', NoInbound(n)'
                 PROVE  ctx'[Peer(n)'] # fwd'[n]
      BY DEF ConfirmedTerminationClears
    <2>1. NoInbound(n) /\ Peer(n)' = Peer(n)
      BY <1>0, DepKept
    <2>2. Terminated(n)
      BY <1>0, <1>2, <1>3, <2>1 DEF Terminated
    <2>3. fwd[n] # NoCtx /\ fwd[n] \in Ctx /\ <<Peer(n), fwd[n]>> \in adopted
      BY <2>2 DEF Terminated, ForwardInv, ForwardContextAdopted
    <2>4. Peer(n) \in Node
      BY <2>3
    <2>5. QED
      BY <1>0, <1>3, <2>1, <2>2, <2>3, <2>4 DEF ConfirmedTerminationClears
  <1>8. AnswerIdleInv'
    BY <1>0, <1>3 DEF AnswerIdleInv, Calling
  <1>9. QED
    BY <1>1, <1>4, <1>5, <1>6, <1>7, <1>8

\* A start draws an id no earlier request and no partner knows.
LEMMA StartEnd ==
    ASSUME Inv, ContextEndInv, NEW n \in Node, Start(n)
    PROVE  ContextEndInv'
  <1> USE DEF Inv, TypeOK, ContextEndInv
  <1>0. /\ dep' = dep /\ adopted' = adopted /\ reqs' = reqs
        /\ ctx' = ctx /\ fwd' = fwd /\ answer' = answer
        /\ boot' = [boot EXCEPT ![n] = @ + 1]
        /\ pc[n] = "down" /\ pc'[n] \in {"starting", "up"}
        /\ \A m \in Node : m # n => pc'[m] = pc[m]
    BY DEF Start
  <1>1. ctx[n] = NoCtx /\ fwd[n] = NoCtx /\ answer[n] = NoAnswer
    BY <1>0 DEF PhaseInv, AnswerIdleInv, Calling
  <1>2. \A m \in Node : m # n => boot'[m] = boot[m]
    BY <1>0
  <1>3. boot'[n] = boot[n] + 1 /\ boot'[n] \in Nat
    BY <1>0
  <1>4. AdoptedInv'
    BY <1>0, <1>2, <1>3, CtxIsUuid DEF AdoptedInv
  <1>5. Unoffered(n)'
    <2>1. Fresh(n)' = Uuid(n, boot'[n])
      BY DEF Fresh
    <2>2. ASSUME NEW r \in reqs, r.type = "params"
          PROVE  r.id # Uuid(n, boot'[n])
      <3>1. /\ Creator(r.id) = r.from /\ CreatorBoot(r.id) = r.boot
            /\ r.boot <= boot[r.from] /\ r.boot \in Nat
        BY <2>2, OfferedId
      <3>2. /\ Creator(Uuid(n, boot'[n])) = n
            /\ CreatorBoot(Uuid(n, boot'[n])) = boot[n] + 1
        BY <1>3, UuidType
      <3>3. QED
        BY <3>1, <3>2
    <2>3. QED
      BY <1>0, <2>1, <2>2 DEF Unoffered
  <1>6. Unadopted(n)'
    <2>1. Fresh(n)' = Uuid(n, boot'[n])
      BY DEF Fresh
    <2>2. /\ Creator(Uuid(n, boot'[n])) = n
          /\ CreatorBoot(Uuid(n, boot'[n])) = boot[n] + 1
      BY <1>3, UuidType
    <2>3. QED
      BY <1>0, <2>1, <2>2, CtxIsUuid DEF Unadopted, AdoptedInv
  <1>7. OfferInv'
    <2> SUFFICES ASSUME NEW m \in Node
                 PROVE  OfferOK(m)'
      BY DEF OfferInv
    <2>1. CASE m = n
      BY <1>0, <1>1, <1>5, <1>6, <2>1 DEF OfferOK
    <2>2. CASE m # n
      <3>1. Fresh(m)' = Fresh(m)
        BY <1>2, <2>2 DEF Fresh
      <3>2. /\ Unoffered(m)' <=> Unoffered(m)
            /\ Unadopted(m)' <=> Unadopted(m)
        BY <1>0, <3>1 DEF Unoffered, Unadopted
      <3>3. OfferOK(m) /\ (NoInbound(m)' <=> NoInbound(m)) /\ pc'[m] = pc[m]
        BY <1>0, <2>2, DepKept DEF OfferInv
      <3>4. QED
        BY <1>0, <3>2, <3>3 DEF OfferOK
    <2>3. QED
      BY <2>1, <2>2
  <1>8. TerminateInv'
    <2> SUFFICES ASSUME NEW m \in Node, NoInbound(m)', fwd'[m] # NoCtx
                 PROVE  TerminateOK(m)'
      BY DEF TerminateInv, TerminateOK
    <2>1. m # n /\ TerminateOK(m) /\ NoInbound(m) /\ Peer(m)' = Peer(m)
      BY <1>0, <1>1, DepKept DEF TerminateInv
    <2>2. QED
      BY <1>0, <1>2, <2>1 DEF TerminateOK
  <1>9. ForwardMatchesHandshake'
    BY <1>0, <1>1, DepKept DEF ForwardMatchesHandshake
  <1>10. ConfirmedTerminationClears'
    BY <1>0, <1>1, DepKept DEF ConfirmedTerminationClears, Terminated
  <1>11. AnswerIdleInv'
    BY <1>0, <1>1 DEF AnswerIdleInv
  <1>12. QED
    BY <1>4, <1>7, <1>8, <1>9, <1>10, <1>11

\* The id is offered once, by the SEPP that drew it.
LEMMA HandleCapabilityResponseEnd ==
    ASSUME Inv, ContextEndInv, NEW n \in Node, HandleCapabilityResponse(n)
    PROVE  ContextEndInv'
  <1> USE DEF Inv, TypeOK, ContextEndInv
  <1>0. /\ dep' = dep /\ boot' = boot /\ adopted' = adopted /\ fwd' = fwd
        /\ answer' = [answer EXCEPT ![n] = NoAnswer]
        /\ pc[n] = "capability" /\ fwd[n] = NoCtx
        /\ pc'[n] \in {"params", "up"}
        /\ \A m \in Node : m # n => pc'[m] = pc[m] /\ ctx'[m] = ctx[m]
        /\ pc'[n] = "up" => ctx'[n] = ctx[n] /\ reqs' = reqs
    BY DEF HandleCapabilityResponse, Post, PhaseInv
  <1>1. \A r \in reqs' :
            r \notin reqs => r.type = "params" /\ r.id = Fresh(n)
    <2>1. ContextToOffer(n) = Fresh(n)
      BY <1>0 DEF ContextToOffer, PhaseInv, Fresh
    <2>2. ASSUME NEW r \in reqs', r \notin reqs
          PROVE  r.type = "params" /\ r.id = Fresh(n)
      <3>1. r = [type |-> "params", from |-> n, boot |-> boot[n],
                 id |-> Fresh(n)]
        BY <2>1, <2>2 DEF HandleCapabilityResponse, Post
      <3>2. QED
        BY <3>1
    <2>3. QED
      BY <2>2
  <1>2. AdoptedInv'
    BY <1>0 DEF AdoptedInv
  <1>3. OfferInv'
    <2> SUFFICES ASSUME NEW m \in Node
                 PROVE  OfferOK(m)'
      BY DEF OfferInv
    <2>1. /\ OfferOK(m) /\ (NoInbound(m)' <=> NoInbound(m))
          /\ Unadopted(m)' <=> Unadopted(m)
      BY <1>0, DepKept DEF OfferInv, Unadopted, Fresh
    <2>2. CASE m # n
      <3>1. Fresh(m) # Fresh(n) /\ Fresh(m)' = Fresh(m)
        BY <1>0, <2>2, FreshType DEF Fresh
      <3>2. Unoffered(m) => Unoffered(m)'
        BY <1>1, <3>1 DEF Unoffered
      <3>3. QED
        BY <1>0, <2>1, <2>2, <3>2 DEF OfferOK
    <2>3. CASE m = n
      <3>1. CASE pc'[n] = "params"
        BY <1>0, <2>3, <3>1 DEF OfferOK, NoAnswer
      <3>2. CASE pc'[n] = "up"
        <4>1. Unoffered(n) /\ Unadopted(n)
          BY <1>0, <2>1, <2>3 DEF OfferOK
        <4>2. Unoffered(n)'
          BY <1>0, <3>2, <4>1 DEF Unoffered, Fresh
        <4>3. QED
          BY <2>1, <2>3, <3>2, <4>1, <4>2 DEF OfferOK
      <3>3. QED
        BY <1>0, <3>1, <3>2
    <2>4. QED
      BY <2>2, <2>3
  <1>4. TerminateInv'
    <2> SUFFICES ASSUME NEW m \in Node, NoInbound(m)', fwd'[m] # NoCtx
                 PROVE  TerminateOK(m)'
      BY DEF TerminateInv, TerminateOK
    <2>1. m # n /\ TerminateOK(m) /\ NoInbound(m) /\ Peer(m)' = Peer(m)
      BY <1>0, DepKept DEF TerminateInv
    <2>2. \A r \in reqs' : r.type = "terminate" => r \in reqs
      BY <1>1
    <2>3. Peer(m) = n => fwd[m] # ctx'[n]
      <3>1. CASE pc'[n] = "up"
        <4>1. ctx'[n] = NoCtx
          BY <1>0, <3>1 DEF PhaseInv
        <4>2. QED
          BY <1>0, <4>1
      <3>2. CASE pc'[n] = "params"
        <4>1. ctx'[n] = Fresh(n)
          BY <1>0, <3>2
          DEF HandleCapabilityResponse, ContextToOffer, PhaseInv, Fresh
        <4>2. fwd[m] = Fresh(m)
          BY <1>0 DEF ForwardInv, ForwardContextIsOwn, Fresh
        <4>3. QED
          BY <2>1, <4>1, <4>2, FreshType
      <3>3. QED
        BY <1>0, <3>1, <3>2
    <2>4. pc[m] = "terminate" => Peer(m) \in Node
      BY PeerType DEF PhaseInv
    <2>5. QED
      BY <1>0, <2>1, <2>2, <2>3, <2>4 DEF TerminateOK
  <1>5. ForwardMatchesHandshake'
    BY <1>0, DepKept DEF ForwardMatchesHandshake
  <1>6. ConfirmedTerminationClears'
    <2> SUFFICES ASSUME NEW m \in Node, Terminated(m)', NoInbound(m)'
                 PROVE  ctx'[Peer(m)'] # fwd'[m]
      BY DEF ConfirmedTerminationClears
    <2>1. m # n /\ Terminated(m) /\ NoInbound(m) /\ Peer(m)' = Peer(m)
      BY <1>0, DepKept DEF Terminated
    <2>2. fwd[m] # NoCtx /\ fwd[m] = Fresh(m) /\ Peer(m) \in Node
      BY <2>1
      DEF Terminated, ForwardInv, ForwardContextIsOwn, ForwardContextAdopted,
          Fresh
    <2>3. ctx[Peer(m)] # fwd[m]
      BY <2>1 DEF ConfirmedTerminationClears
    <2>4. CASE Peer(m) # n
      BY <1>0, <2>1, <2>2, <2>3, <2>4
    <2>5. CASE Peer(m) = n
      <3>1. ctx'[n] = ctx[n] \/ ctx'[n] = Fresh(n)
        BY <1>0 DEF HandleCapabilityResponse, ContextToOffer, PhaseInv, Fresh
      <3>2. Fresh(m) # Fresh(n)
        BY <2>1, FreshType
      <3>3. QED
        BY <1>0, <2>1, <2>2, <2>3, <2>5, <3>1, <3>2
    <2>6. QED
      BY <2>4, <2>5
  <1>7. AnswerIdleInv'
    BY <1>0 DEF AnswerIdleInv, Calling
  <1>8. QED
    BY <1>2, <1>3, <1>4, <1>5, <1>6, <1>7

\* The receiver of an offer is a partner, and the offer is used up with it.
LEMMA HandleExchangeParamsEnd ==
    ASSUME Inv, ContextEndInv,
           NEW p \in Node, NEW r \in reqs, HandleExchangeParams(p, r)
    PROVE  ContextEndInv'
  <1> USE DEF Inv, TypeOK, ContextEndInv
  <1>0. /\ dep' = dep /\ boot' = boot /\ pc' = pc /\ fwd' = fwd
        /\ reqs' = reqs \ {r}
        /\ r.type = "params" /\ Peer(r.from) = p
    BY DEF HandleExchangeParams, Takes, Reply
  <1>1. /\ r.from \in Node /\ r.boot \in Nat /\ r.boot <= boot[r.from]
        /\ r.id = Uuid(r.from, r.boot) /\ r.id \in Ctx /\ r.id # NoCtx
        /\ Creator(r.id) = r.from /\ CreatorBoot(r.id) = r.boot
    BY <1>0, OfferedId, CtxIsUuid
  <1>2. ~NoInbound(p)
    BY <1>0, <1>1 DEF NoInbound
  <1>3. /\ \A n \in Node : ctx'[n] = ctx[n] \/ (n = p /\ ctx'[n] = r.id)
        /\ \A a \in adopted' : a \in adopted \/ a = <<p, r.id>>
        /\ \A n \in Node : answer'[n] # answer[n] =>
              n = r.from /\ pc[n] = "params" /\ r.boot = boot[n]
    <2>1. AdoptedContext(p, r.id) = r.id
      BY <1>1 DEF AdoptedContext
    <2>2. /\ \A n \in Node : ctx'[n] = ctx[n] \/ (n = p /\ ctx'[n] = r.id)
          /\ \A a \in adopted' : a \in adopted \/ a = <<p, r.id>>
      BY <2>1 DEF HandleExchangeParams
    <2>3. PICK a : answer' = IF Waits(r)
                             THEN [answer EXCEPT ![r.from] = a] ELSE answer
      BY DEF HandleExchangeParams, Reply
    <2>4. \A n \in Node : answer'[n] # answer[n] =>
              n = r.from /\ pc[n] = "params" /\ r.boot = boot[n]
      BY <1>0, <2>3 DEF Waits
    <2>5. QED
      BY <2>2, <2>4
  <1>4. AdoptedInv'
    <2>1. CreatorBoot(r.id) <= boot[Creator(r.id)]
      BY <1>1
    <2>2. QED
      BY <1>0, <1>3, <2>1 DEF AdoptedInv
  <1>5. \A n \in Node : Unoffered(n) => Unoffered(n)' /\ r.id # Fresh(n)
    BY <1>0 DEF Unoffered, Fresh
  <1>6. \A n \in Node : Unoffered(n) /\ Unadopted(n) => Unadopted(n)'
    BY <1>0, <1>3, <1>5 DEF Unadopted, Fresh
  <1>7. r.boot = boot[r.from] => Unoffered(r.from)'
    <2> SUFFICES ASSUME r.boot = boot[r.from],
                        NEW q \in reqs, q # r, q.type = "params"
                 PROVE  q.id # Fresh(r.from)
      BY <1>0 DEF Unoffered, Fresh
    <2>1. /\ q.id = Uuid(q.from, q.boot) /\ Creator(q.id) = q.from
          /\ CreatorBoot(q.id) = q.boot
      BY OfferedId
    <2>2. /\ Creator(Fresh(r.from)) = r.from
          /\ CreatorBoot(Fresh(r.from)) = r.boot
      BY <1>1, FreshType
    <2>3. ASSUME q.from = r.from, q.boot = r.boot
          PROVE  q = r
      <3>1. q.id = r.id
        BY <1>1, <2>1, <2>3
      <3>2. q \in Request /\ r \in Request /\ q.type = r.type
        BY <1>0
      <3>3. QED
        BY <2>3, <3>1, <3>2 DEF Request
    <2>4. QED
      BY <2>1, <2>2, <2>3
  <1>8. OfferInv'
    <2> SUFFICES ASSUME NEW n \in Node
                 PROVE  OfferOK(n)'
      BY DEF OfferInv
    <2>1. OfferOK(n) /\ (NoInbound(n)' <=> NoInbound(n))
      BY <1>0, DepKept DEF OfferInv
    <2>2. NoInbound(n) => ctx'[n] = ctx[n]
      BY <1>2, <1>3
    <2>3. CASE answer'[n] = answer[n]
      BY <1>0, <1>5, <1>6, <2>1, <2>2, <2>3 DEF OfferOK
    <2>4. CASE answer'[n] # answer[n]
      <3>1. pc[n] = "params" /\ Unoffered(n)'
        BY <1>3, <1>7, <2>4
      <3>2. QED
        BY <1>0, <3>1 DEF OfferOK
    <2>5. QED
      BY <2>3, <2>4
  <1>9. ASSUME NEW n \in Node, fwd[n] # NoCtx
        PROVE  r.id # fwd[n]
    <2>1. fwd[n] = Fresh(n)
      BY <1>9 DEF ForwardInv, ForwardContextIsOwn, Fresh
    <2>2. Unoffered(n)
      BY <1>9 DEF OfferInv, OfferOK
    <2>3. QED
      BY <1>5, <2>1, <2>2
  <1>10. TerminateInv'
    <2> SUFFICES ASSUME NEW n \in Node, NoInbound(n)', fwd'[n] # NoCtx
                 PROVE  TerminateOK(n)'
      BY DEF TerminateInv, TerminateOK
    <2>1. /\ NoInbound(n) /\ Peer(n)' = Peer(n) /\ fwd[n] # NoCtx
          /\ TerminateOK(n)
      BY <1>0, DepKept DEF TerminateInv
    <2>2. pc[n] = "terminate" => Peer(n) \in Node /\ answer'[n] = answer[n]
      BY <1>3, PeerType DEF PhaseInv
    <2>3. QED
      BY <1>0, <1>3, <1>9, <2>1, <2>2 DEF TerminateOK
  <1>11. ForwardMatchesHandshake'
    BY <1>0, <1>2, <1>3, DepKept DEF ForwardMatchesHandshake
  <1>12. ConfirmedTerminationClears'
    <2> SUFFICES ASSUME NEW n \in Node, Terminated(n)', NoInbound(n)'
                 PROVE  ctx'[Peer(n)'] # fwd'[n]
      BY DEF ConfirmedTerminationClears
    <2>1. NoInbound(n) /\ Peer(n)' = Peer(n)
      BY <1>0, DepKept
    <2>2. Terminated(n)
      BY <1>0, <1>2, <1>3, <2>1 DEF Terminated
    <2>3. fwd[n] # NoCtx /\ Peer(n) \in Node
      BY <2>2 DEF Terminated, ForwardInv, ForwardContextAdopted
    <2>4. QED
      BY <1>0, <1>3, <1>9, <2>1, <2>2, <2>3 DEF ConfirmedTerminationClears
  <1>13. AnswerIdleInv'
    BY <1>0, <1>3 DEF AnswerIdleInv, Calling
  <1>14. QED
    BY <1>4, <1>8, <1>10, <1>11, <1>12, <1>13

-----------------------------------------------------------------------------
\* At the beginning nothing is offered and nothing is adopted.
LEMMA ContextEndInit == Init => ContextEndInv
  BY AnswerType
  DEF Init, ContextEndInv, AnswerIdleInv, AdoptedInv, OfferInv, OfferOK,
      Unoffered, Unadopted, TerminateInv, TerminateOK,
      ForwardMatchesHandshake, ConfirmedTerminationClears, Terminated, Calling

\* Every step of every process keeps the strengthened invariant.
LEMMA ContextEndStep == Inv /\ ContextEndInv /\ [Next]_vars => ContextEndInv'
  <1> SUFFICES ASSUME Inv, ContextEndInv, [Next]_vars
               PROVE  ContextEndInv'
    OBVIOUS
  <1>1. ASSUME NEW n \in Node, Main(n)
        PROVE  ContextEndInv'
    <2>1. CASE CreateExchangeCapability(n)
      BY <2>1, CreateExchangeCapabilityEnd
    <2>2. CASE HandleCapabilityResponse(n)
      BY <2>2, HandleCapabilityResponseEnd
    <2>3. CASE HandleParamsResponse(n)
      BY <2>3, HandleParamsResponseEnd
    <2>4. CASE HandleTerminateResponse(n)
      BY <2>4, HandleTerminateResponseEnd
    <2>5. CASE CallFails(n)
      BY <2>5, CallFailsEnd
    <2>6. CASE Release(n)
      BY <2>6, ReleaseEnd
    <2>7. CASE Exit(n)
      BY <2>7, GoneEnd DEF Exit
    <2>8. QED
      BY <1>1, <2>1, <2>2, <2>3, <2>4, <2>5, <2>6, <2>7 DEF Main
  <1>2. ASSUME NEW p \in Node, Serve(p)
        PROVE  ContextEndInv'
    <2>1. PICK r \in reqs : \/ HandleExchangeCapability(p, r)
                            \/ HandleExchangeParams(p, r)
                            \/ HandleTerminate(p, r)
      BY <1>2 DEF Serve
    <2>2. CASE HandleExchangeCapability(p, r)
      BY <2>2, HandleExchangeCapabilityEnd
    <2>3. CASE HandleExchangeParams(p, r)
      BY <2>3, HandleExchangeParamsEnd
    <2>4. CASE HandleTerminate(p, r)
      BY <2>4, HandleTerminateEnd
    <2>5. QED
      BY <2>1, <2>2, <2>3, <2>4
  <1>3. ASSUME NEW n \in Node, Start(n)
        PROVE  ContextEndInv'
    BY <1>3, StartEnd
  <1>4. ASSUME NEW n \in Node, Stop(n)
        PROVE  ContextEndInv'
    BY <1>4, StopEnd
  <1>5. ASSUME NEW n \in Node, Crash(n)
        PROVE  ContextEndInv'
    BY <1>5, GoneEnd DEF Crash
  <1>6. CASE UNCHANGED vars
    BY <1>6
    DEF vars, ContextEndInv, AnswerIdleInv, AdoptedInv, OfferInv, OfferOK,
        Unoffered, Unadopted, Fresh, TerminateInv, TerminateOK,
        ForwardMatchesHandshake, ConfirmedTerminationClears, Terminated,
        NoInbound, Peer
  <1>7. QED
    BY <1>1, <1>2, <1>3, <1>4, <1>5, <1>6 DEF Next

(***************************************************************************)
(* The life of an offered context id, from the drawing to the termination. *)
(***************************************************************************)
THEOREM ContextEndInvariance == Spec => [](Inv /\ ContextEndInv)
  <1>1. Init => Inv /\ ContextEndInv
    BY InvInit, ContextEndInit
  <1>2. Inv /\ ContextEndInv /\ [Next]_vars => (Inv /\ ContextEndInv)'
    BY InvStep, ContextEndStep
  <1>3. QED
    BY <1>1, <1>2, PTL DEF Spec

(***************************************************************************)
(* The two objects of a running SEPP that is nobody's partner agree on the *)
(* context: nothing but its own handshake and its own termination writes   *)
(* the id of its handshake object.                                         *)
(***************************************************************************)
THEOREM ForwardMatchesHandshakeHolds == Spec => []ForwardMatchesHandshake
  <1>1. ContextEndInv => ForwardMatchesHandshake
    BY DEF ContextEndInv
  <1>2. QED
    BY <1>1, ContextEndInvariance, PTL

(***************************************************************************)
(* The confirmation of a termination means that the partner has given the  *)
(* context up, and it is not given a second time: the offer was answered   *)
(* before the context was established, so no copy of it is on its way.     *)
(***************************************************************************)
THEOREM ConfirmedTerminationClearsHolds ==
    Spec => []ConfirmedTerminationClears
  <1>1. ContextEndInv => ConfirmedTerminationClears
    BY DEF ContextEndInv
  <1>2. QED
    BY <1>1, ContextEndInvariance, PTL

(***************************************************************************)
(* sepp_app::stop leaves the termination out only when no partner took     *)
(* over the id of this start, whatever became of the answer.               *)
(***************************************************************************)
THEOREM HalfOpenIsTerminatedHolds == Spec => HalfOpenIsTerminated
  <1> DEFINE
        Omitted(n) == pc[n] = "up" /\ pc'[n] = "closing" /\ NoInbound(n)
  <1>1. ASSUME Inv, ContextEndInv, [Next]_vars, NEW n \in Node, Omitted(n)
        PROVE  <<Peer(n), Uuid(n, boot[n])>> \notin adopted
    <2>1. Peer(n) = NoNode \/ ctx[n] = NoCtx
      BY <1>1
      DEF Next, Main, Serve, Start, CreateExchangeCapability, Post,
          HandleCapabilityResponse, HandleParamsResponse,
          HandleTerminateResponse, CallFails, Release, Exit, Crash, Gone,
          Stop, HandleExchangeCapability, HandleExchangeParams,
          HandleTerminate, vars, Inv, TypeOK
    <2>2. CASE Peer(n) = NoNode
      BY <1>1, <2>2, NoNodeAssumption DEF Inv, TypeOK
    <2>3. CASE ctx[n] = NoCtx
      <3>1. Unadopted(n)
        BY <1>1, <2>3 DEF ContextEndInv, OfferInv, OfferOK
      <3>2. QED
        BY <3>1 DEF Unadopted, Fresh
    <2>4. QED
      BY <2>1, <2>2, <2>3
  <1>2. Inv /\ ContextEndInv /\ [Next]_vars =>
          [\A n \in Node :
             Omitted(n) => <<Peer(n), Uuid(n, boot[n])>> \notin adopted]_vars
    BY <1>1
  <1>3. QED
    BY <1>2, ContextEndInvariance, PTL DEF Spec, HalfOpenIsTerminated
=============================================================================
