------------------------- MODULE N32fForwardProofs -------------------------
(***************************************************************************)
(* Theorems about N32fForward, for every set of SEPPs, every workload and  *)
(* every set of NF responses.                                              *)
(***************************************************************************)
EXTENDS N32fForward, TLAPS

-----------------------------------------------------------------------------
(***************************************************************************)
(* Type correctness.                                                       *)
(***************************************************************************)

\* A request has a home, and the remote SEPP is a SEPP if there is one.
LEMMA CallType ==
    ASSUME dep \in Deployments, NEW q \in Request
    PROVE  /\ Home(q) \in Node
           /\ Remote(q) \in Node \cup {NoNode}
           /\ dep.call[q].method \in Method
           /\ dep.call[q].body \in Body
           /\ \A n \in Node : dep.cap[n] \in Capability
  BY DeploymentsAssumption
  DEF Deployment, Call, Home, Remote, Peer

\* The answers a SEPP makes of itself.
LEMMA ProblemType ==
    /\ \A s \in {400, 405, 502} :
          Problem(s) \in Answer /\ Problem(s).by = "sepp"
    /\ BadGateway \in Answer
    /\ BadGateway.by = "sepp"
    /\ \A m : Refusal(m) \in Answer /\ Refusal(m).by = "sepp"
  BY DEF Problem, BadGateway, Refusal, Answer, Response, Body

\* The two ends of N32-f turn responses into answers and answers into answers.
LEMMA ReplyType ==
    ASSUME NEW m, NEW o \in Reply
    PROVE  /\ WrappedReply(m, o) \in Answer
           /\ WrappedReply(m, o).by = "nf"
           /\ WrappedReply(m, o).status = 200
           /\ m.kind = "process" => WrappedReply(m, o).reply = o
  BY ReplyAssumption DEF WrappedReply, Answer, Response, Body

\* A response with another body.
LEMMA WithBody ==
    ASSUME NEW r \in Response, NEW b \in Body
    PROVE  /\ [r EXCEPT !.body = b] \in Response
           /\ b = r.body => [r EXCEPT !.body = b] = r
  BY DEF Response

LEMMA UnwrappedType ==
    ASSUME NEW m, NEW a \in Answer
    PROVE  /\ UnwrappedReply(m, a) \in Answer
           /\ UnwrappedReply(m, a).by = "nf" => a.by = "nf"
           /\ /\ UnwrappedReply(m, a).by = "nf"
              /\ a.reply \in Reply
              => UnwrappedReply(m, a).reply = a.reply
  <1>1. CASE m.kind = "process" /\ a.status \notin {200, 201}
    BY <1>1, ProblemType DEF UnwrappedReply
  <1>2. CASE ~(m.kind = "process" /\ a.status \notin {200, 201})
    <2> DEFINE body == IF a.reply.status = 204 THEN "none" ELSE a.reply.body
    <2>1. UnwrappedReply(m, a) =
            [status |-> a.reply.status,
             reply  |-> [a.reply EXCEPT !.body = body],
             by     |-> a.by]
      BY <1>2, Zenon DEF UnwrappedReply
    <2>2. /\ a.reply \in Response
          /\ a.reply.status \in 100 .. 599
          /\ a.reply.body \in Body
          /\ a.by \in {"nf", "sepp"}
      <3>1. a.reply \in Response /\ a.by \in {"nf", "sepp"}
        BY DEF Answer
      <3>2. QED
        BY <3>1 DEF Response
    <2>3. body \in Body
      BY <2>2 DEF Body
    <2>4. a.reply \in Reply => body = a.reply.body
      BY ReplyAssumption
    <2> HIDE DEF body
    <2>5. /\ [a.reply EXCEPT !.body = body] \in Response
          /\ a.reply \in Reply => [a.reply EXCEPT !.body = body] = a.reply
      BY <2>2, <2>3, <2>4, WithBody
    <2> DEFINE reply == [a.reply EXCEPT !.body = body]
    <2>6. UnwrappedReply(m, a) =
            [status |-> a.reply.status, reply |-> reply, by |-> a.by]
      BY <2>1, Zenon
    <2>7. reply \in Response /\ (a.reply \in Reply => reply = a.reply)
      BY <2>5
    <2> HIDE DEF reply
    <2>8. QED
      BY <2>2, <2>6, <2>7 DEF Answer
  <1>3. QED
    BY <1>1, <1>2

\* An NF is asked something a request can be.
LEMMA WorkType ==
    ASSUME dep \in Deployments, NEW q \in Request
    PROVE  WorkFor(Message(q)) \in Work
  <1>1. /\ Message(q).kind \in {"process", "direct"}
        /\ Message(q).method \in Method
        /\ Message(q).body \in Body
    BY CallType DEF Message
  <1>2. QED
    BY <1>1 DEF WorkFor, Work, Method, Body

LEMMA TypeInit == Init => TypeOK
  BY DEF Init, TypeOK, ConsumerState, Stage, NfState

\* Answering a consumer keeps the types of what it changes.
LEMMA AnswerConsumerType ==
    ASSUME TypeOK, NEW q \in Request, NEW a \in Answer, AnswerConsumer(q, a)
    PROVE  /\ consumer' \in [Request -> ConsumerState]
           /\ result' \in [Request -> Answer \cup {NoAnswer}]
  BY DEF AnswerConsumer, TypeOK, ConsumerState

LEMMA TypeStep == TypeOK /\ [Next]_vars => TypeOK'
  <1> SUFFICES ASSUME TypeOK, [Next]_vars
               PROVE  TypeOK'
    OBVIOUS
  <1> USE DEF TypeOK
  <1>1. ASSUME NEW q \in Request, Send(q)
        PROVE  TypeOK'
    BY <1>1 DEF Send, ConsumerState, Stage
  <1>2. ASSUME NEW q \in Request, GiveUp(q)
        PROVE  TypeOK'
    BY <1>2 DEF GiveUp, ConsumerState
  <1>3. ASSUME NEW q \in Request, SbiAccept(q)
        PROVE  TypeOK'
    <2>1. /\ sbi' \in [Request -> Stage]
          /\ nbi' \in [Request -> Stage]
      BY <1>3 DEF SbiAccept, Stage
    <2>2. /\ consumer' \in [Request -> ConsumerState]
          /\ result' \in [Request -> Answer \cup {NoAnswer}]
      BY <1>3, AnswerConsumerType, ProblemType DEF SbiAccept
    <2>3. QED
      BY <1>3, <2>1, <2>2 DEF SbiAccept
  <1>4. ASSUME NEW q \in Request, SbiReturn(q)
        PROVE  TypeOK'
    <2>1. UnwrappedReply(Message(q), n32answer[q]) \in Answer
      BY <1>4, UnwrappedType DEF SbiReturn
    <2>2. /\ consumer' \in [Request -> ConsumerState]
          /\ result' \in [Request -> Answer \cup {NoAnswer}]
      BY <1>4, <2>1, AnswerConsumerType DEF SbiReturn
    <2>3. QED
      BY <1>4, <2>2 DEF SbiReturn, Stage
  <1>5. ASSUME NEW q \in Request, SbiCallFails(q)
        PROVE  TypeOK'
    <2>1. /\ consumer' \in [Request -> ConsumerState]
          /\ result' \in [Request -> Answer \cup {NoAnswer}]
      BY <1>5, AnswerConsumerType, ProblemType DEF SbiCallFails
    <2>2. QED
      BY <1>5, <2>1 DEF SbiCallFails, Stage
  <1>6. ASSUME NEW q \in Request, NbiAccept(q)
        PROVE  TypeOK'
    <2>1. n32answer' \in [Request -> Answer \cup {NoAnswer}]
      BY <1>6, ProblemType DEF NbiAccept, AnswerN32
    <2>2. /\ nf' \in [Request -> NfState]
          /\ work' \in [Request -> Work \cup {NoWork}]
          /\ nbi' \in [Request -> Stage]
      BY <1>6, WorkType DEF NbiAccept, NfState, Stage
    <2>3. QED
      BY <1>6, <2>1, <2>2 DEF NbiAccept
  <1>7. ASSUME NEW q \in Request, NbiReturn(q)
        PROVE  TypeOK'
    <2>1. n32answer' \in [Request -> Answer \cup {NoAnswer}]
      BY <1>7, ReplyType DEF NbiReturn, AnswerN32
    <2>2. QED
      BY <1>7, <2>1 DEF NbiReturn, Stage
  <1>8. ASSUME NEW q \in Request, NbiCallFails(q)
        PROVE  TypeOK'
    BY <1>8, ProblemType DEF NbiCallFails, AnswerN32, Stage
  <1>9. ASSUME NEW q \in Request, NfAnswer(q)
        PROVE  TypeOK'
    BY <1>9 DEF NfAnswer, NfState
  <1>10. ASSUME NEW n \in Node, Crash(n)
         PROVE  TypeOK'
    BY <1>10 DEF Crash, Stage
  <1>11. CASE UNCHANGED vars
    BY <1>11 DEF vars
  <1>12. QED
    BY <1>1, <1>2, <1>3, <1>4, <1>5, <1>6, <1>7, <1>8, <1>9, <1>10, <1>11
    DEF Next, Nf, SbiThread, NbiThread

(***************************************************************************)
(* The servers' and the NFs' views of every request stay well-formed.      *)
(***************************************************************************)
THEOREM TypeCorrect == Spec => []TypeOK
  BY TypeInit, TypeStep, PTL DEF Spec

-----------------------------------------------------------------------------
(***************************************************************************)
(* The inductive invariant.  A request leaves its traces hop by hop: the   *)
(* remote SEPP knows it only from the SBI thread, the NF only from the     *)
(* NBI thread, and what travels back is the NF's response to the request   *)
(* as it was asked, unless a SEPP made the answer itself.                  *)
(***************************************************************************)

(***************************************************************************)
(* No SEPP and its remote SEPP are both configured for TLS, whose endpoint *)
(* does not restore the request.                                           *)
(***************************************************************************)
NoTlsPair ==
    \A n \in Node : Peer(n) # NoNode /\ dep.cap[n] = "TLS" =>
        dep.cap[Peer(n)] # "TLS"

\* A hop is taken only after the one before it.
HopsInv ==
    \A q \in Request :
        /\ consumer[q] = "idle" => sbi[q] = "idle"
        /\ sbi[q] \in {"idle", "queued"} => nbi[q] = "idle"
        /\ nbi[q] # "idle" => Remote(q) # NoNode
        /\ nbi[q] = "calling" => Accepts(Remote(q), Message(q))
        /\ nbi[q] \in {"idle", "queued"} => nf[q] = "idle"

\* The NF is asked what the consumer asked, and answers when it is done.
NfInv ==
    \A q \in Request :
        /\ nf[q] # "idle" => work[q] = AsAsked(q)
        /\ nf[q] # "finished" => outcome[q] = NoReply
        /\ nf[q] = "finished" => outcome[q] \in Reply

\* What stands for an NF's response on the way back is that response.
AnswerInv ==
    \A q \in Request :
        /\ n32answer[q].by = "nf" =>
              /\ Message(q).kind = "process"
              /\ n32answer[q].status = 200
              /\ nf[q] = "finished"
              /\ n32answer[q].reply = outcome[q]
        /\ consumer[q] # "answered" => result[q] = NoAnswer
        /\ result[q].by = "nf" =>
              /\ nf[q] = "finished"
              /\ result[q].reply = outcome[q]

Inv ==
    /\ NoTlsPair
    /\ TypeOK
    /\ HopsInv
    /\ NfInv
    /\ AnswerInv

Rest == HopsInv /\ NfInv /\ AnswerInv

LEMMA InvInit == Init /\ NoTlsPair => Inv
  BY TypeInit
  DEF Inv, Init, HopsInv, NfInv, AnswerInv, NoAnswer

\* A message that is accepted came from a PRINS SEPP, and is restored.
LEMMA AcceptedIsRestored ==
    ASSUME dep \in Deployments, NoTlsPair, NEW q \in Request,
           Remote(q) # NoNode, Accepts(Remote(q), Message(q))
    PROVE  /\ Message(q).kind = "process"
           /\ WorkFor(Message(q)) = AsAsked(q)
  <1>1. Message(q).kind = "process"
    <2>1. dep.cap[Home(q)] # "PRINS" => dep.cap[Home(q)] = "TLS"
      BY CallType DEF Capability
    <2>2. QED
      BY <2>1, CallType DEF NoTlsPair, Remote, Accepts, Message
  <1>2. QED
    BY <1>1 DEF WorkFor, AsAsked, Message

\* The deployment is fixed, and with it the route and the fate of a message.
LEMMA FixedRoute ==
    ASSUME dep' = dep
    PROVE  \A x \in Request :
               /\ Remote(x)' = Remote(x)
               /\ Accepts(Remote(x), Message(x))'
                      <=> Accepts(Remote(x), Message(x))
               /\ Message(x)' = Message(x)
               /\ AsAsked(x)' = AsAsked(x)
  BY DEF Remote, Home, Peer, Accepts, Message, AsAsked

LEMMA SendInv ==
    ASSUME Inv, NEW q \in Request, Send(q)
    PROVE  Rest'
  <1> USE DEF Inv, TypeOK
  <1>1. HopsInv'
    BY FixedRoute DEF Send, HopsInv
  <1>2. NfInv'
    BY FixedRoute DEF Send, NfInv
  <1>3. AnswerInv'
    BY FixedRoute DEF Send, AnswerInv
  <1>4. QED
    BY <1>1, <1>2, <1>3 DEF Rest

LEMMA GiveUpInv ==
    ASSUME Inv, NEW q \in Request, GiveUp(q)
    PROVE  Rest'
  <1> USE DEF Inv, TypeOK
  <1>1. HopsInv'
    BY FixedRoute DEF GiveUp, HopsInv
  <1>2. NfInv'
    BY FixedRoute DEF GiveUp, NfInv
  <1>3. AnswerInv'
    BY FixedRoute DEF GiveUp, AnswerInv
  <1>4. QED
    BY <1>1, <1>2, <1>3 DEF Rest

(***************************************************************************)
(* An answer to a consumer is the SEPP's own, or the NF's.                 *)
(***************************************************************************)
LEMMA AnswerConsumerInv ==
    ASSUME Inv, NEW q \in Request, NEW a \in Answer, AnswerConsumer(q, a),
           dep' = dep, nf' = nf, outcome' = outcome,
           a.by = "nf" => nf[q] = "finished" /\ a.reply = outcome[q],
           \A x \in Request : n32answer'[x] \in {n32answer[x], NoAnswer}
    PROVE  AnswerInv'
  <1> USE DEF Inv, TypeOK
  <1>1. \A x \in Request : n32answer'[x].by = "nf" =>
            n32answer'[x] = n32answer[x]
    BY DEF NoAnswer
  <1>2. CASE consumer[q] = "waiting"
    <2>1. /\ consumer' = [consumer EXCEPT ![q] = "answered"]
          /\ result' = [result EXCEPT ![q] = a]
      BY <1>2 DEF AnswerConsumer
    <2>2. QED
      BY <1>1, <2>1, FixedRoute DEF AnswerInv
  <1>3. CASE consumer[q] # "waiting"
    <2>1. consumer' = consumer /\ result' = result
      BY <1>3 DEF AnswerConsumer
    <2>2. QED
      BY <1>1, <2>1, FixedRoute DEF AnswerInv
  <1>4. QED
    BY <1>2, <1>3

\* The consumer that is answered had made its request.
LEMMA AnswerConsumerState ==
    ASSUME TypeOK, NEW q \in Request, NEW a, AnswerConsumer(q, a)
    PROVE  \A x \in Request : consumer'[x] = "idle" <=> consumer[x] = "idle"
  BY DEF AnswerConsumer, TypeOK

LEMMA SbiAcceptInv ==
    ASSUME Inv, NEW q \in Request, SbiAccept(q)
    PROVE  Rest'
  <1> USE DEF Inv, TypeOK
  <1>1. NfInv'
    BY FixedRoute DEF SbiAccept, NfInv
  <1>2. CASE CanForward(Home(q))
    <2>1. /\ sbi' = [sbi EXCEPT ![q] = "calling"]
          /\ nbi' \in {nbi, [nbi EXCEPT ![q] = "queued"]}
          /\ UNCHANGED <<dep, consumer, n32answer, nf, outcome, result>>
      BY <1>2 DEF SbiAccept
    <2>2. Remote(q) # NoNode /\ sbi[q] = "queued" /\ nf[q] = "idle"
      BY <1>2 DEF SbiAccept, CanForward, Remote, HopsInv
    <2>3. HopsInv'
      BY <2>1, <2>2, FixedRoute DEF HopsInv
    <2>4. AnswerInv'
      BY <2>1, FixedRoute DEF AnswerInv
    <2>5. QED
      BY <1>1, <2>3, <2>4 DEF Rest
  <1>3. CASE ~CanForward(Home(q))
    <2>1. /\ sbi' = [sbi EXCEPT ![q] = "finished"]
          /\ AnswerConsumer(q, BadGateway)
          /\ UNCHANGED <<dep, nbi, n32answer, nf, outcome>>
      BY <1>3 DEF SbiAccept
    <2>2. sbi[q] = "queued"
      BY DEF SbiAccept
    <2>3. HopsInv'
      BY <2>1, <2>2, AnswerConsumerState, FixedRoute
      DEF HopsInv
    <2>4. AnswerInv'
      BY <2>1, AnswerConsumerInv, ProblemType
    <2>5. QED
      BY <1>1, <2>3, <2>4 DEF Rest
  <1>4. QED
    BY <1>2, <1>3

LEMMA SbiReturnInv ==
    ASSUME Inv, NEW q \in Request, SbiReturn(q)
    PROVE  Rest'
  <1> USE DEF Inv, TypeOK
  <1> DEFINE a == UnwrappedReply(Message(q), n32answer[q])
  <1>1. NfInv'
    BY FixedRoute DEF SbiReturn, NfInv
  <1>2. a \in Answer /\ AnswerConsumer(q, a)
    BY UnwrappedType DEF SbiReturn
  <1>3. HopsInv'
    BY <1>2, AnswerConsumerState, FixedRoute
    DEF SbiReturn, HopsInv
  <1>4. a.by = "nf" => nf[q] = "finished" /\ a.reply = outcome[q]
    BY UnwrappedType DEF SbiReturn, AnswerInv, NfInv
  <1>5. AnswerInv'
    <2>1. /\ dep' = dep /\ nf' = nf /\ outcome' = outcome
          /\ \A x \in Request : n32answer'[x] \in {n32answer[x], NoAnswer}
      BY DEF SbiReturn
    <2> HIDE DEF a
    <2>2. QED
      BY <1>2, <1>4, <2>1, AnswerConsumerInv
  <1>6. QED
    BY <1>1, <1>3, <1>5 DEF Rest

LEMMA SbiCallFailsInv ==
    ASSUME Inv, NEW q \in Request, SbiCallFails(q)
    PROVE  Rest'
  <1> USE DEF Inv, TypeOK
  <1>1. NfInv'
    BY FixedRoute DEF SbiCallFails, NfInv
  <1>2. HopsInv'
    BY AnswerConsumerState, FixedRoute
    DEF SbiCallFails, HopsInv
  <1>3. AnswerInv'
    <2>1. /\ dep' = dep /\ nf' = nf /\ outcome' = outcome
          /\ AnswerConsumer(q, BadGateway)
          /\ \A x \in Request : n32answer'[x] \in {n32answer[x], NoAnswer}
      BY DEF SbiCallFails
    <2>2. QED
      BY <2>1, AnswerConsumerInv, ProblemType
  <1>4. QED
    BY <1>1, <1>2, <1>3 DEF Rest

LEMMA NbiAcceptInv ==
    ASSUME Inv, NEW q \in Request, NbiAccept(q)
    PROVE  Rest'
  <1> USE DEF Inv, TypeOK
  <1>1. /\ nbi[q] = "queued" /\ Remote(q) # NoNode /\ nf[q] = "idle"
        /\ sbi[q] \notin {"idle", "queued"}
    BY DEF NbiAccept, HopsInv
  <1>2. CASE Accepts(Remote(q), Message(q))
    <2>1. /\ nbi' = [nbi EXCEPT ![q] = "calling"]
          /\ \/ /\ nf' = [nf EXCEPT ![q] = "executing"]
                /\ work' = [work EXCEPT ![q] = WorkFor(Message(q))]
             \/ nf' = nf /\ work' = work
          /\ UNCHANGED <<dep, consumer, sbi, n32answer, outcome, result>>
      BY <1>2 DEF NbiAccept
    <2>2. WorkFor(Message(q)) = AsAsked(q)
      BY <1>1, <1>2, AcceptedIsRestored
    <2>3. HopsInv'
      BY <1>1, <1>2, <2>1, FixedRoute
      DEF HopsInv
    <2>4. NfInv'
      BY <1>1, <2>1, <2>2, FixedRoute DEF NfInv
    <2>5. AnswerInv'
      BY <1>1, <2>1, FixedRoute DEF AnswerInv
    <2>6. QED
      BY <2>3, <2>4, <2>5 DEF Rest
  <1>3. CASE ~Accepts(Remote(q), Message(q))
    <2>1. /\ nbi' = [nbi EXCEPT ![q] = "finished"]
          /\ AnswerN32(q, Refusal(Message(q)))
          /\ UNCHANGED <<dep, consumer, sbi, nf, work, outcome, result>>
      BY <1>3 DEF NbiAccept
    <2>2. HopsInv'
      BY <1>1, <2>1, FixedRoute DEF HopsInv
    <2>3. NfInv'
      BY <2>1, FixedRoute DEF NfInv
    <2>4. AnswerInv'
      BY <2>1, ProblemType, FixedRoute DEF AnswerInv, AnswerN32
    <2>5. QED
      BY <2>2, <2>3, <2>4 DEF Rest
  <1>4. QED
    BY <1>2, <1>3

LEMMA NbiReturnInv ==
    ASSUME Inv, NEW q \in Request, NbiReturn(q)
    PROVE  Rest'
  <1> USE DEF Inv, TypeOK
  <1>1. /\ nf[q] = "finished" /\ outcome[q] \in Reply
        /\ nbi[q] = "calling" /\ sbi[q] \notin {"idle", "queued"}
        /\ Remote(q) # NoNode
        /\ Accepts(Remote(q), Message(q))
    BY DEF NbiReturn, NfInv, HopsInv
  <1>2. Message(q).kind = "process"
    BY <1>1, AcceptedIsRestored
  <1>3. HopsInv'
    BY <1>1, FixedRoute DEF NbiReturn, HopsInv
  <1>4. NfInv'
    BY FixedRoute DEF NbiReturn, NfInv
  <1>5. AnswerInv'
    <2> DEFINE a == WrappedReply(Message(q), outcome[q])
    <2>1. a.by = "nf" /\ a.status = 200 /\ a.reply = outcome[q]
      BY <1>1, <1>2, ReplyType
    <2>2. n32answer' \in {n32answer, [n32answer EXCEPT ![q] = a]}
      BY DEF NbiReturn, AnswerN32
    <2>3. UNCHANGED <<dep, consumer, nf, outcome, result>>
      BY DEF NbiReturn
    <2> HIDE DEF a
    <2>4. \A x \in Request : Message(x)' = Message(x)
      BY <2>3 DEF Message, Home
    <2>5. QED
      BY <1>1, <1>2, <2>1, <2>2, <2>3, <2>4, FixedRoute DEF AnswerInv
  <1>6. QED
    BY <1>3, <1>4, <1>5 DEF Rest

LEMMA NbiCallFailsInv ==
    ASSUME Inv, NEW q \in Request, NbiCallFails(q)
    PROVE  Rest'
  <1> USE DEF Inv, TypeOK
  <1>1. HopsInv'
    BY FixedRoute DEF NbiCallFails, HopsInv
  <1>2. NfInv'
    BY FixedRoute DEF NbiCallFails, NfInv
  <1>3. AnswerInv'
    BY ProblemType, FixedRoute DEF NbiCallFails, AnswerInv, AnswerN32
  <1>4. QED
    BY <1>1, <1>2, <1>3 DEF Rest

LEMMA NfAnswerInv ==
    ASSUME Inv, NEW q \in Request, NfAnswer(q)
    PROVE  Rest'
  <1> USE DEF Inv, TypeOK
  <1>1. HopsInv'
    BY FixedRoute DEF NfAnswer, HopsInv
  <1>2. NfInv'
    BY FixedRoute DEF NfAnswer, NfInv
  <1>3. AnswerInv'
    BY FixedRoute DEF NfAnswer, AnswerInv
  <1>4. QED
    BY <1>1, <1>2, <1>3 DEF Rest

LEMMA CrashInv ==
    ASSUME Inv, NEW n \in Node, Crash(n)
    PROVE  Rest'
  <1> USE DEF Inv, TypeOK
  <1>1. /\ sbi' = [q \in Request |->
                     IF Home(q) = n /\ sbi[q] \in {"queued", "calling"}
                     THEN "finished" ELSE sbi[q]]
        /\ nbi' = [q \in Request |->
                     IF Remote(q) = n /\ nbi[q] \in {"queued", "calling"}
                     THEN "finished" ELSE nbi[q]]
    BY DEF Crash
  <1>2. UNCHANGED <<dep, consumer, n32answer, nf, work, outcome, result>>
    BY DEF Crash
  <1>3. HopsInv'
    BY <1>1, <1>2, FixedRoute DEF HopsInv
  <1>4. NfInv'
    BY <1>2, FixedRoute DEF NfInv
  <1>5. AnswerInv'
    BY <1>2, FixedRoute DEF AnswerInv
  <1>6. QED
    BY <1>3, <1>4, <1>5 DEF Rest

LEMMA InvStep == Inv /\ [Next]_vars => Inv'
  <1> SUFFICES ASSUME Inv, [Next]_vars
               PROVE  Inv'
    OBVIOUS
  <1>1. TypeOK'
    BY TypeStep DEF Inv
  <1>2. dep' = dep
    BY DEF Next, Nf, SbiThread, NbiThread, Send, GiveUp, NfAnswer, SbiAccept,
           SbiReturn, SbiCallFails, NbiAccept, NbiReturn, NbiCallFails, Crash,
           vars
  <1>3. NoTlsPair'
    BY <1>2 DEF Inv, NoTlsPair, Peer
  <1>4. ASSUME NEW q \in Request, Nf(q)
        PROVE  Rest'
    BY <1>4, SendInv, GiveUpInv, NfAnswerInv DEF Nf
  <1>5. ASSUME NEW n \in Node, SbiThread(n)
        PROVE  Rest'
    BY <1>5, SbiAcceptInv, SbiReturnInv, SbiCallFailsInv DEF SbiThread
  <1>6. ASSUME NEW n \in Node, NbiThread(n)
        PROVE  Rest'
    BY <1>6, NbiAcceptInv, NbiReturnInv, NbiCallFailsInv DEF NbiThread
  <1>7. ASSUME NEW n \in Node, Crash(n)
        PROVE  Rest'
    BY <1>7, CrashInv
  <1>8. UNCHANGED vars => Rest'
    BY FixedRoute DEF vars, Inv, Rest, HopsInv, NfInv, AnswerInv
  <1>9. Rest'
    BY <1>4, <1>5, <1>6, <1>7, <1>8 DEF Next
  <1>10. QED
    BY <1>1, <1>3, <1>9 DEF Inv, Rest

(***************************************************************************)
(* An answer that is not the SEPPs' own is the producer's answer to the    *)
(* request as it was asked, whatever was lost, late, repeated by a caller  *)
(* or in the way, unless two SEPPs configured for TLS relay it.            *)
(***************************************************************************)
THEOREM AnswerIsProducersHolds == Spec /\ NoTlsPair => []AnswerIsProducers
  <1>1. Inv => AnswerIsProducers
    BY DEF Inv, NfInv, AnswerInv, AnswerIsProducers
  <1>2. QED
    BY <1>1, InvInit, InvStep, PTL DEF Spec
-----------------------------------------------------------------------------
(***************************************************************************)
(* The relay implements NfRelay.  The invariant reduces the producer's     *)
(* work to the state of the NF, and says which of the abstract actions a   *)
(* step is when the request has got to the NF and back.                    *)
(***************************************************************************)

\* What a consumer was given, as NfRelay sees it.
Results == [q \in Request |-> Given(result[q])]

LEMMA GivenCases ==
    ASSUME NEW a
    PROVE  /\ a.by = "none" => Given(a) = NoReply
           /\ a.by = "sepp" => Given(a) = [status |-> 502, body |-> Failed]
           /\ a.by = "nf" => Given(a) = a.reply
  BY DEF Given

LEMMA RelayInit == Init => Relay!Init
  BY GivenCases DEF Init, Relay!Init, Asked, RelayWork, NoAnswer

\* A consumer's requests and what it was given change with two variables only.
LEMMA ResultsUnchanged ==
    /\ consumer' = consumer => Asked' = Asked
    /\ result' = result => Results' = Results
  BY DEF Asked, Results

\* Giving the consumer an answer is Answer, Fail, or nothing at all.
LEMMA AnswerConsumerRelays ==
    ASSUME Inv, NEW q \in Request, NEW a \in Answer, AnswerConsumer(q, a),
           a.by = "nf" => nf[q] = "finished" /\ a.reply = outcome[q]
    PROVE  /\ Asked' = Asked
           /\ \/ Results' = Results
              \/ /\ q \in Asked
                 /\ Results[q] = NoReply
                 /\ \/ /\ nf[q] = "finished"
                       /\ Results' = [Results EXCEPT ![q] = outcome[q]]
                    \/ Results' = [Results EXCEPT ![q] =
                                      [status |-> 502, body |-> Failed]]
  <1> USE DEF Inv, TypeOK
  <1>1. CASE consumer[q] # "waiting"
    BY <1>1, ResultsUnchanged DEF AnswerConsumer
  <1>2. CASE consumer[q] = "waiting"
    <2>1. /\ consumer' = [consumer EXCEPT ![q] = "answered"]
          /\ result' = [result EXCEPT ![q] = a]
      BY <1>2 DEF AnswerConsumer
    <2>2. Asked' = Asked /\ q \in Asked
      BY <1>2, <2>1 DEF Asked
    <2>3. Results[q] = NoReply
      BY <1>2, GivenCases DEF AnswerInv, Results, NoAnswer
    <2>4. CASE a.by = "nf"
      <3>1. Results' = [Results EXCEPT ![q] = outcome[q]]
        BY <2>1, <2>4, GivenCases DEF Results
      <3>2. QED
        BY <2>2, <2>3, <2>4, <3>1
    <2>5. CASE a.by = "sepp"
      <3>1. Results' = [Results EXCEPT ![q] =
                            [status |-> 502, body |-> Failed]]
        <4>1. Given(a) = [status |-> 502, body |-> Failed]
          BY <2>5, GivenCases
        <4>2. QED
          BY <2>1, <4>1 DEF Results
      <3>2. QED
        BY <2>2, <2>3, <3>1
    <2>6. QED
      BY <2>4, <2>5 DEF Answer
  <1>3. QED
    BY <1>1, <1>2

LEMMA RelayStep ==
    ASSUME Inv, Inv', [Next]_vars
    PROVE  [Relay!Next]_(Relay!vars)
  <1> DEFINE Works == [q \in Request |-> RelayWork(q)]
  <1>1. Works = nf /\ Works' = nf'
    BY DEF Inv, TypeOK, NfInv, RelayWork
  <1> HIDE DEF Works
  <1>2. ASSUME NEW q \in Request, Send(q)
        PROVE  Relay!Ask(q)
    <2>1. q \notin Asked /\ Asked' = Asked \cup {q}
      BY <1>2 DEF Send, Asked, Inv, TypeOK
    <2>2. QED
      BY <1>1, <1>2, <2>1, ResultsUnchanged
      DEF Send, Relay!Ask, Works, Results
  <1>3. ASSUME NEW q \in Request, GiveUp(q)
        PROVE  UNCHANGED Relay!vars
    <2>1. Asked' = Asked
      BY <1>3 DEF GiveUp, Asked, Inv, TypeOK
    <2>2. QED
      BY <1>1, <1>3, <2>1, ResultsUnchanged
      DEF GiveUp, Relay!vars, Works, Results
  <1>4. ASSUME NEW q \in Request, NfAnswer(q)
        PROVE  Relay!Produce(q)
    <2>1. Asked' = Asked /\ Results' = Results
      BY <1>4, ResultsUnchanged DEF NfAnswer
    <2>2. /\ nf[q] = "executing"
          /\ nf' = [nf EXCEPT ![q] = "finished"]
          /\ \E o \in Reply : outcome' = [outcome EXCEPT ![q] = o]
      BY <1>4 DEF NfAnswer
    <2>3. QED
      BY <1>1, <2>1, <2>2 DEF Relay!Produce, Works, Results
  <1>5. ASSUME NEW q \in Request, NEW a \in Answer, AnswerConsumer(q, a),
               UNCHANGED <<nf, outcome>>,
               a.by = "nf" => nf[q] = "finished" /\ a.reply = outcome[q]
        PROVE  Relay!Answer(q) \/ Relay!Fail(q) \/ UNCHANGED Relay!vars
    <2>1. /\ Asked' = Asked
          /\ \/ Results' = Results
             \/ /\ q \in Asked
                /\ Results[q] = NoReply
                /\ \/ /\ nf[q] = "finished"
                      /\ Results' = [Results EXCEPT ![q] = outcome[q]]
                   \/ Results' = [Results EXCEPT ![q] =
                                     [status |-> 502, body |-> Failed]]
      BY <1>5, AnswerConsumerRelays
    <2>2. nf' = nf /\ outcome' = outcome
      BY <1>5
    <2>3. CASE Results' = Results
      BY <1>1, <2>1, <2>2, <2>3 DEF Relay!vars, Works, Results
    <2>4. CASE /\ Results[q] = NoReply /\ nf[q] = "finished"
               /\ Results' = [Results EXCEPT ![q] = outcome[q]]
      BY <1>1, <2>1, <2>2, <2>4 DEF Relay!Answer, Works, Results
    <2>5. CASE /\ q \in Asked /\ Results[q] = NoReply
               /\ Results' = [Results EXCEPT ![q] =
                                 [status |-> 502, body |-> Failed]]
      BY <1>1, <2>1, <2>2, <2>5 DEF Relay!Fail, Works, Results
    <2>6. QED
      BY <2>1, <2>3, <2>4, <2>5
  <1>6. ASSUME NEW q \in Request, SbiAccept(q)
        PROVE  Relay!Fail(q) \/ Relay!Answer(q) \/ UNCHANGED Relay!vars
    <2>1. CASE UNCHANGED <<consumer, result>>
      BY <1>1, <1>6, <2>1, ResultsUnchanged
      DEF SbiAccept, Relay!vars, Works, Results
    <2>2. CASE AnswerConsumer(q, BadGateway)
      BY <1>5, <1>6, <2>2, ProblemType DEF SbiAccept
    <2>3. QED
      BY <1>6, <2>1, <2>2 DEF SbiAccept
  <1>7. ASSUME NEW q \in Request, SbiReturn(q)
        PROVE  Relay!Answer(q) \/ Relay!Fail(q) \/ UNCHANGED Relay!vars
    <2> DEFINE a == UnwrappedReply(Message(q), n32answer[q])
    <2>1. n32answer[q] \in Answer /\ AnswerConsumer(q, a)
      BY <1>7 DEF SbiReturn, Inv, TypeOK
    <2>2. a \in Answer
      BY <2>1, UnwrappedType
    <2>3. a.by = "nf" => nf[q] = "finished" /\ a.reply = outcome[q]
      BY <2>1, UnwrappedType DEF Inv, AnswerInv, NfInv
    <2>4. UNCHANGED <<nf, outcome>>
      BY <1>7 DEF SbiReturn
    <2> HIDE DEF a
    <2>5. QED
      BY <1>5, <2>1, <2>2, <2>3, <2>4
  <1>8. ASSUME NEW q \in Request, SbiCallFails(q)
        PROVE  Relay!Answer(q) \/ Relay!Fail(q) \/ UNCHANGED Relay!vars
    BY <1>5, <1>8, ProblemType DEF SbiCallFails
  <1>9. ASSUME NEW q \in Request, NbiAccept(q)
        PROVE  Relay!Perform(q) \/ UNCHANGED Relay!vars
    <2>1. q \in Asked /\ nf[q] = "idle"
      BY <1>9 DEF NbiAccept, Inv, HopsInv, Asked
    <2>2. nf' = nf \/ nf' = [nf EXCEPT ![q] = "executing"]
      BY <1>9 DEF NbiAccept
    <2>3. UNCHANGED <<consumer, outcome, result>>
      BY <1>9 DEF NbiAccept
    <2>4. QED
      BY <1>1, <2>1, <2>2, <2>3, ResultsUnchanged
      DEF Relay!Perform, Relay!vars, Works, Results
  <1>10. ASSUME NEW q \in Request, NbiReturn(q) \/ NbiCallFails(q)
         PROVE  UNCHANGED Relay!vars
    BY <1>1, <1>10, ResultsUnchanged
    DEF NbiReturn, NbiCallFails, Relay!vars, Works, Results
  <1>11. ASSUME NEW n \in Node, Crash(n)
         PROVE  UNCHANGED Relay!vars
    BY <1>1, <1>11, ResultsUnchanged DEF Crash, Relay!vars, Works, Results
  <1>12. CASE UNCHANGED vars
    BY <1>1, <1>12, ResultsUnchanged DEF vars, Relay!vars, Works, Results
  <1>13. QED
    BY <1>2, <1>3, <1>4, <1>6, <1>7, <1>8, <1>9, <1>10, <1>11, <1>12
    DEF Next, Nf, SbiThread, NbiThread, Relay!Next

(***************************************************************************)
(* Whatever the network, the crashes and the timeouts do, each request is  *)
(* performed at most once and as it was asked, and the consumer is given   *)
(* the producer's answer or a failure, unless two SEPPs configured for TLS *)
(* relay it.                                                               *)
(***************************************************************************)
THEOREM RelayImplementsNfRelay == Spec /\ NoTlsPair => RelaySpec
  BY RelayInit, RelayStep, InvInit, InvStep, PTL
  DEF Spec, RelaySpec, Relay!Spec

-----------------------------------------------------------------------------
(***************************************************************************)
(* SEPPs with different capabilities.  What keeps the NFs out of it is the *)
(* check of the endpoint, which a request meets before it gets to "calling"*)
(* at the remote SEPP; the answers of the SEPPs themselves are never taken *)
(* for an NF's.                                                            *)
(***************************************************************************)
MixedPair(q) == Remote(q) # NoNode /\ dep.cap[Home(q)] # dep.cap[Remote(q)]

MixedInv ==
    \A q \in Request : MixedPair(q) =>
        /\ nbi[q] # "calling"
        /\ nf[q] = "idle"
        /\ n32answer[q].by # "nf"
        /\ result[q].by # "nf"

\* A message between the two is not accepted, in either direction.
LEMMA MixedRefused ==
    ASSUME dep \in Deployments, NEW q \in Request, MixedPair(q)
    PROVE  ~Accepts(Remote(q), Message(q))
  <1>1. dep.cap[Home(q)] \in Capability /\ dep.cap[Remote(q)] \in Capability
    BY CallType DEF MixedPair
  <1>2. QED
    BY <1>1 DEF MixedPair, Capability, Accepts, Message

LEMMA MixedStep ==
    ASSUME TypeOK, MixedInv, [Next]_vars
    PROVE  MixedInv'
  <1> USE DEF TypeOK
  <1> DEFINE Same(x) == dep' = dep => (MixedPair(x)' <=> MixedPair(x))
  <1>1. \A x \in Request : Same(x)
    BY DEF MixedPair, Remote, Home, Peer
  <1>2. ASSUME NEW q \in Request, Nf(q)
        PROVE  MixedInv'
    BY <1>1, <1>2 DEF Nf, Send, GiveUp, NfAnswer, MixedInv
  <1>3. ASSUME NEW q \in Request, NEW a \in Answer, AnswerConsumer(q, a),
               a.by = "nf" => ~MixedPair(q), UNCHANGED <<dep, nf>>,
               \A x \in Request :
                   /\ n32answer'[x] \in {n32answer[x], NoAnswer}
                   /\ nbi'[x] \in {nbi[x], "queued"}
        PROVE  MixedInv'
    <2>1. \A x \in Request : n32answer'[x].by = "nf" =>
              n32answer[x].by = "nf"
      BY <1>3 DEF NoAnswer
    <2>2. \A x \in Request :
              result'[x] = result[x] \/ (x = q /\ result'[x] = a)
      BY <1>3 DEF AnswerConsumer
    <2>3. QED
      BY <1>1, <1>3, <2>1, <2>2 DEF MixedInv
  <1>4. ASSUME NEW q \in Request, SbiAccept(q)
        PROVE  MixedInv'
    <2>1. CASE CanForward(Home(q))
      BY <1>1, <1>4, <2>1 DEF SbiAccept, MixedInv
    <2>2. CASE ~CanForward(Home(q))
      BY <1>3, <1>4, <2>2, ProblemType DEF SbiAccept
    <2>3. QED
      BY <2>1, <2>2
  <1>5. ASSUME NEW q \in Request, SbiReturn(q)
        PROVE  MixedInv'
    <2> DEFINE a == UnwrappedReply(Message(q), n32answer[q])
    <2>1. /\ n32answer[q] \in Answer
          /\ AnswerConsumer(q, a)
          /\ UNCHANGED <<dep, nf, nbi>>
          /\ \A x \in Request : n32answer'[x] \in {n32answer[x], NoAnswer}
      BY <1>5 DEF SbiReturn
    <2>2. a \in Answer /\ (a.by = "nf" => ~MixedPair(q))
      BY <2>1, UnwrappedType DEF MixedInv
    <2> HIDE DEF a
    <2>3. QED
      BY <1>3, <2>1, <2>2
  <1>6. ASSUME NEW q \in Request, SbiCallFails(q)
        PROVE  MixedInv'
    BY <1>3, <1>6, ProblemType DEF SbiCallFails
  <1>7. ASSUME NEW q \in Request, NbiAccept(q)
        PROVE  MixedInv'
    <2>1. CASE MixedPair(q)
      BY <1>1, <1>7, <2>1, MixedRefused, ProblemType
      DEF NbiAccept, AnswerN32, MixedInv
    <2>2. CASE ~MixedPair(q)
      <3>1. \A x \in Request \ {q} :
                /\ nbi'[x] = nbi[x]
                /\ nf'[x] = nf[x]
                /\ n32answer'[x] = n32answer[x]
        BY <1>7 DEF NbiAccept, AnswerN32
      <3>2. UNCHANGED <<dep, result>>
        BY <1>7 DEF NbiAccept
      <3>3. QED
        BY <1>1, <2>2, <3>1, <3>2 DEF MixedInv
    <2>3. QED
      BY <2>1, <2>2
  <1>8. ASSUME NEW q \in Request, NbiReturn(q) \/ NbiCallFails(q)
        PROVE  MixedInv'
    <2>1. ~MixedPair(q)
      BY <1>8 DEF NbiReturn, NbiCallFails, MixedInv
    <2>2. QED
      BY <1>1, <1>8, <2>1 DEF NbiReturn, NbiCallFails, AnswerN32, MixedInv
  <1>9. ASSUME NEW n \in Node, Crash(n)
        PROVE  MixedInv'
    BY <1>1, <1>9 DEF Crash, MixedInv
  <1>10. CASE UNCHANGED vars
    BY <1>1, <1>10 DEF vars, MixedInv
  <1>11. QED
    BY <1>2, <1>4, <1>5, <1>6, <1>7, <1>8, <1>9, <1>10
    DEF Next, SbiThread, NbiThread

(***************************************************************************)
(* Two SEPPs with different capabilities relay nothing to any NF: what the *)
(* handshake lets pass, every endpoint refuses.                            *)
(***************************************************************************)
THEOREM MixedPairRelaysNothingHolds == Spec => []MixedPairRelaysNothing
  <1>1. Init => MixedInv
    BY DEF Init, MixedInv, NoAnswer
  <1>2. MixedInv => MixedPairRelaysNothing
    BY DEF MixedInv, MixedPair, MixedPairRelaysNothing
  <1>3. QED
    BY <1>1, <1>2, MixedStep, TypeInit, TypeStep, PTL DEF Spec
=============================================================================
