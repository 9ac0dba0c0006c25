---------------------------- MODULE NrfClientProofs ---------------------------
(***************************************************************************)
(* Theorems about NrfClient, for every interval, delay and horizon.        *)
(***************************************************************************)
EXTENDS NrfClient, TLAPS

(***************************************************************************)
(* Multiples of the interval.                                              *)
(***************************************************************************)

\* Quotient and remainder.
LEMMA DivMod ==
    ASSUME NEW a \in Int, NEW n \in Nat \ {0}
    PROVE  /\ a = n * (a \div n) + (a % n)
           /\ a \div n \in Int
           /\ a % n \in 0 .. (n - 1)
  OBVIOUS

\* A multiple leaves no remainder.
LEMMA MultipleMod ==
    ASSUME NEW k \in Nat, NEW n \in Nat \ {0}
    PROVE  (n * k) % n = 0
  OBVIOUS

\* Two multiples of n are n apart.
LEMMA MultiplesApart ==
    ASSUME NEW a \in Nat, NEW b \in Nat, NEW n \in Nat \ {0},
           a % n = 0, b % n = 0, a < b
    PROVE  a + n <= b
  <1> DEFINE j == a \div n
             k == b \div n
  <1>1. /\ a = n * j /\ b = n * k
        /\ j \in Int /\ k \in Int
    BY DivMod
  <1> HIDE DEF j, k
  <1>2. j < k
    <2>1. CASE k <= j
      <3>1. n * k <= n * j
        BY <1>1, <2>1
      <3>2. QED
        BY <1>1, <3>1
    <2>2. QED
      BY <1>1, <2>1
  <1>3. k - j >= 1
    BY <1>1, <1>2
  <1>4. n * (k - j) >= n
    BY <1>1, <1>3
  <1>5. QED
    BY <1>1, <1>4

\* After a multiple comes another, n later.
LEMMA NextMultiple ==
    ASSUME NEW a \in Nat, NEW n \in Nat \ {0}, a % n = 0
    PROVE  (a + n) % n = 0
  <1> DEFINE q == a \div n
  <1>1. a = n * q /\ q \in Nat
    BY DivMod
  <1>2. a + n = n * (q + 1) /\ q + 1 \in Nat
    BY <1>1
  <1> HIDE DEF q
  <1>3. QED
    BY <1>2, MultipleMod

\* Between a number and the n numbers after it there is a multiple.
LEMMA MultipleAhead ==
    ASSUME NEW a \in Nat, NEW n \in Nat \ {0}
    PROVE  \E b \in Nat : a <= b /\ b < a + n /\ b % n = 0
  <1> DEFINE q == a \div n
  <1>1. a = n * q + (a % n) /\ q \in Nat /\ a % n \in 0 .. (n - 1)
    <2>1. a = n * q + (a % n) /\ q \in Int /\ a % n \in 0 .. (n - 1)
      BY DivMod
    <2>2. q >= 0
      OBVIOUS
    <2>3. QED
      BY <2>1, <2>2
  <1>2. CASE a % n = 0
    BY <1>2
  <1>3. CASE a % n # 0
    <2> DEFINE b == a + n - (a % n)
    <2>1. b = n * (q + 1) /\ q + 1 \in Nat
      BY <1>1
    <2>2. b \in Nat /\ a <= b /\ b < a + n
      BY <1>1, <1>3
    <2> HIDE DEF q, b
    <2>3. b % n = 0
      BY <2>1, MultipleMod
    <2>4. QED
      BY <2>2, <2>3
  <1>4. QED
    BY <1>2, <1>3

-----------------------------------------------------------------------------
(***************************************************************************)
(* Types, and which thread waits for what.                                 *)
(***************************************************************************)

\* The task thread lives from the end of the constructor to the end of the
\* process.  The main thread waits for its registration or deregistration,
\* the task thread for its heartbeat, and for nothing else.
WireInv ==
    /\ task = "unborn" <=> main \in {"start", "registering", "building"}
    /\ task = "gone" <=> main \in {"exited", "killed"}
    /\ main = "registering" => wire["main"].method = "PUT"
    /\ main = "deregistering" => wire["main"].method = "DELETE"
    /\ main \notin {"registering", "deregistering"} =>
          wire["main"] = NoRequest
    /\ task = "beating" => wire["task"].method = "PATCH"
    /\ task # "beating" => wire["task"] = NoRequest

\* The requests of the program are well-formed.
LEMMA RequestType ==
    ASSUME TypeOK
    PROVE  /\ NoRequest \in Requests
           /\ Send("PUT") \in Requests /\ Send("PUT").method = "PUT"
           /\ Send("DELETE") \in Requests /\ Send("DELETE").method = "DELETE"
           /\ Beat \in Requests /\ Beat.method = "PATCH"
           /\ Beat.sent = clock /\ Beat.answer = "pending"
  BY DEF NoRequest, Send, Beat, Requests, Methods, Answers, TypeOK

\* What becomes of the entry when the NRF processes a request.
LEMMA Applied ==
    ASSUME TypeOK, NEW m \in Methods, NrfApplies(m)
    PROVE  /\ entry' \in {entry, "REGISTERED", "absent"}
           /\ seen' \in {seen, clock}
           /\ m = "PUT" => entry' = "REGISTERED" /\ seen' = clock
           /\ m = "PATCH" => IF entry = "absent"
                             THEN entry' = "absent"
                             ELSE entry' = "REGISTERED" /\ seen' = clock
           /\ m = "DELETE" => entry' = "absent" /\ seen' = seen
  BY DEF NrfApplies, Methods, TypeOK

\* The answer to a request changes nothing else of it.
LEMMA AnsweredType ==
    ASSUME TypeOK, NEW th \in ThreadIds, NEW a \in Answers,
           wire' = [wire EXCEPT ![th].answer = a]
    PROVE  /\ wire' \in [ThreadIds -> Requests]
           /\ \A x \in ThreadIds : x # th => wire'[x] = wire[x]
           /\ wire'[th].method = wire[th].method
           /\ wire'[th].sent = wire[th].sent
           /\ wire'[th].answer = a
  BY DEF TypeOK, Requests

\* A request that is waited for has a method.
LEMMA WaitsMethod ==
    ASSUME TypeOK, WireInv, NEW th \in ThreadIds, Waits(th)
    PROVE  wire[th].method \in Methods
  BY DEF WireInv, Waits, ThreadIds, Methods

\* A thread starts a request, or is done with one.
LEMMA WireSet ==
    ASSUME TypeOK, NEW th \in ThreadIds, NEW r \in Requests,
           wire' = [wire EXCEPT ![th] = r]
    PROVE  /\ wire' \in [ThreadIds -> Requests]
           /\ wire'[th] = r
           /\ \A x \in ThreadIds : x # th => wire'[x] = wire[x]
  BY DEF TypeOK

\* Every step of the program, the NRF and the clock keeps the types.
LEMMA TypeStep ==
    ASSUME TypeOK, WireInv, [Next]_vars
    PROVE  TypeOK'
  <1> USE ConstantsAssumption, RequestType DEF Methods, Never
  <1>1. CASE Register
    <2>1. /\ wire' = [wire EXCEPT !["main"] = Send("PUT")]
          /\ "main" \in ThreadIds
      BY <1>1 DEF Register, ThreadIds
    <2>2. wire' \in [ThreadIds -> Requests]
      BY <2>1, WireSet
    <2>3. QED
      BY <1>1, <2>2 DEF Register, TypeOK
  <1>2. CASE RegisterAnswered
    <2>1. wire' = [wire EXCEPT !["main"] = NoRequest] /\ "main" \in ThreadIds
      BY <1>2 DEF RegisterAnswered, ThreadIds
    <2>2. wire' \in [ThreadIds -> Requests]
      BY <2>1, WireSet
    <2>3. connected' \in BOOLEAN
      <3>1. CASE wire["main"].answer = "ok"
        BY <1>2, <3>1, Zenon DEF RegisterAnswered
      <3>2. CASE wire["main"].answer # "ok"
        BY <1>2, <3>2, Zenon DEF RegisterAnswered, TypeOK
      <3>3. QED
        BY <3>1, <3>2
    <2>4. due' \in Nat
      BY <1>2 DEF RegisterAnswered, FirstBeat, TypeOK
    <2>5. /\ main' = "building"
          /\ UNCHANGED <<clock, task, t, exp, late, unanswered, entry, seen,
                         beatAt>>
      BY <1>2 DEF RegisterAnswered
    <2>6. QED
      BY <2>2, <2>3, <2>4, <2>5 DEF TypeOK
  <1>3. CASE StartTask
    BY <1>3 DEF StartTask, TypeOK
  <1>4. CASE Deregister
    <2>1. /\ wire' = [wire EXCEPT !["main"] = Send("DELETE")]
          /\ "main" \in ThreadIds
      BY <1>4 DEF Deregister, ThreadIds
    <2>2. wire' \in [ThreadIds -> Requests]
      BY <2>1, WireSet
    <2>3. QED
      BY <1>4, <2>2 DEF Deregister, TypeOK
  <1>5. CASE DeregisterAnswered
    <2>1. /\ wire' = [wire EXCEPT !["main"] = NoRequest]
          /\ "main" \in ThreadIds
      BY <1>5 DEF DeregisterAnswered, ThreadIds
    <2>2. wire' \in [ThreadIds -> Requests]
      BY <2>1, WireSet
    <2>3. QED
      BY <1>5, <2>2 DEF DeregisterAnswered, TypeOK
  <1>6. CASE MainTimeout
    <2>1. late' \subseteq Methods
      BY <1>6, WaitsMethod DEF MainTimeout, TypeOK, ThreadIds
    <2>2. wire' = [wire EXCEPT !["main"] = NoRequest] /\ "main" \in ThreadIds
      BY <1>6 DEF MainTimeout, ThreadIds
    <2>3. wire' \in [ThreadIds -> Requests]
      BY <2>2, WireSet
    <2>4. wire["main"].method \in Methods
      BY <1>6, <2>2, WaitsMethod DEF MainTimeout
    <2>5. QED
      BY <1>6, <2>1, <2>3, <2>4 DEF MainTimeout, TypeOK
  <1>7. CASE Exit
    <2>1. late' \subseteq Methods
      BY <1>7, WaitsMethod DEF Exit, Leave, TypeOK
    <2>2. QED
      BY <1>7, <2>1 DEF Exit, Leave, TypeOK
  <1>8. CASE Killed
    <2>1. late' \subseteq Methods
      BY <1>8, WaitsMethod DEF Killed, Leave, TypeOK
    <2>2. QED
      BY <1>8, <2>1 DEF Killed, Leave, TypeOK
  <1>9. CASE Tick
    BY <1>9 DEF Tick, TypeOK
  <1>10. CASE Heartbeat
    <2>1. /\ wire' = [wire EXCEPT !["task"] = Beat]
          /\ "task" \in ThreadIds
      BY <1>10 DEF Heartbeat, ThreadIds
    <2>2. wire' \in [ThreadIds -> Requests]
      BY <2>1, WireSet
    <2>3. QED
      BY <1>10, <2>2 DEF Heartbeat, TypeOK
  <1>11. CASE HeartbeatAnswered
    <2>1. wire' = [wire EXCEPT !["task"] = NoRequest] /\ "task" \in ThreadIds
      BY <1>11 DEF HeartbeatAnswered, ThreadIds
    <2>2. wire' \in [ThreadIds -> Requests]
      BY <2>1, WireSet
    <2>3. connected' \in BOOLEAN
      BY <1>11, Zenon DEF HeartbeatAnswered
    <2>4. /\ task' = "cycle" /\ t' = t + 1
          /\ UNCHANGED <<clock, main, exp, due, late, unanswered, entry, seen,
                         beatAt>>
      BY <1>11 DEF HeartbeatAnswered
    <2>5. QED
      BY <2>2, <2>3, <2>4 DEF TypeOK
  <1>12. CASE HeartbeatTimeout
    <2>1. wire' = [wire EXCEPT !["task"] = NoRequest] /\ "task" \in ThreadIds
      BY <1>12 DEF HeartbeatTimeout, ThreadIds
    <2>2. wire' \in [ThreadIds -> Requests]
      BY <2>1, WireSet
    <2>3. /\ task' = "cycle" /\ t' = t + 1
          /\ late' = late \cup {"PATCH"}
          /\ UNCHANGED <<clock, main, exp, due, unanswered, entry, seen,
                         beatAt>>
      BY <1>12 DEF HeartbeatTimeout
    <2>4. late' \subseteq Methods
      BY <2>3 DEF TypeOK
    <2>5. connected' \in BOOLEAN
      BY <1>12 DEF HeartbeatTimeout
    <2>6. QED
      BY <2>2, <2>3, <2>4, <2>5 DEF TypeOK
  <1>13. CASE Cycle
    BY <1>13 DEF Cycle, TypeOK
  <1>14. ASSUME NEW th \in ThreadIds, NrfAnswers(th)
        PROVE  TypeOK'
    <2>1. PICK a \in Answers : wire' = [wire EXCEPT ![th].answer = a]
      BY <1>14 DEF NrfAnswers, Answers
    <2>2. wire' \in [ThreadIds -> Requests]
      BY <2>1, AnsweredType
    <2>3. /\ wire[th].method \in Methods
          /\ NrfApplies(wire[th].method) \/ UNCHANGED <<entry, seen>>
      BY <1>14, WaitsMethod DEF NrfAnswers
    <2>4. entry' \in {entry, "REGISTERED", "absent"} /\ seen' \in {seen, clock}
      BY <2>3, Applied
    <2>5. UNCHANGED <<clock, main, task, t, exp, due, connected, late,
                      unanswered, beatAt>>
      BY <1>14 DEF NrfAnswers
    <2>6. QED
      BY <2>2, <2>4, <2>5 DEF TypeOK
  <1>15. ASSUME NEW m \in late, NrfGetsLate(m)
        PROVE  TypeOK'
    <2>1. m \in Methods
      BY <1>15 DEF TypeOK
    <2>2. entry' \in {entry, "REGISTERED", "absent"} /\ seen' \in {seen, clock}
      BY <1>15, <2>1, Applied DEF NrfGetsLate
    <2>3. QED
      BY <1>15, <2>2 DEF NrfGetsLate, TypeOK
  <1>16. ASSUME NEW m \in late, LateIsLost(m)
        PROVE  TypeOK'
    BY <1>16 DEF LateIsLost, TypeOK
  <1>17. CASE NrfSuspends
    BY <1>17 DEF NrfSuspends, TypeOK
  <1>18. CASE NrfForgets
    BY <1>18 DEF NrfForgets, TypeOK
  <1>19. CASE Elapse
    BY <1>19 DEF Elapse, TypeOK
  <1>20. CASE UNCHANGED vars
    BY <1>20 DEF vars, TypeOK
  <1>21. QED
    BY <1>1, <1>2, <1>3, <1>4, <1>5, <1>6, <1>7, <1>8, <1>9, <1>10, <1>11,
       <1>12, <1>13, <1>14, <1>15, <1>16, <1>17, <1>18, <1>19, <1>20
    DEF Next, MainNext, TaskNext, NrfNext

\* Every step keeps which thread waits for what.
LEMMA WireStep ==
    ASSUME TypeOK, WireInv, [Next]_vars
    PROVE  WireInv'
  <1> USE RequestType
  <1>1. CASE Register
    <2>1. /\ wire' = [wire EXCEPT !["main"] = Send("PUT")]
          /\ "main" \in ThreadIds
          /\ main = "start" /\ main' = "registering"
          /\ task' = task
      BY <1>1 DEF Register, ThreadIds
    <2>2. wire'["main"] = Send("PUT") /\ wire'["task"] = wire["task"]
      BY <2>1, WireSet DEF ThreadIds
    <2>3. QED
      BY <2>1, <2>2 DEF WireInv
  <1>2. CASE RegisterAnswered
    <2>1. /\ wire' = [wire EXCEPT !["main"] = NoRequest]
          /\ "main" \in ThreadIds
          /\ main = "registering" /\ main' = "building"
          /\ task' = task
      BY <1>2 DEF RegisterAnswered, ThreadIds
    <2>2. wire'["main"] = NoRequest /\ wire'["task"] = wire["task"]
      BY <2>1, WireSet DEF ThreadIds
    <2>3. QED
      BY <2>1, <2>2 DEF WireInv
  <1>3. CASE StartTask
    BY <1>3 DEF StartTask, WireInv
  <1>4. CASE Deregister
    <2>1. /\ wire' = [wire EXCEPT !["main"] = Send("DELETE")]
          /\ "main" \in ThreadIds
          /\ main = "serving" /\ main' = "deregistering"
          /\ task' = task
      BY <1>4 DEF Deregister, ThreadIds
    <2>2. wire'["main"] = Send("DELETE") /\ wire'["task"] = wire["task"]
      BY <2>1, WireSet DEF ThreadIds
    <2>3. QED
      BY <2>1, <2>2 DEF WireInv
  <1>5. CASE DeregisterAnswered
    <2>1. /\ wire' = [wire EXCEPT !["main"] = NoRequest]
          /\ "main" \in ThreadIds
          /\ main = "deregistering" /\ main' = "freeing"
          /\ task' = task
      BY <1>5 DEF DeregisterAnswered, ThreadIds
    <2>2. wire'["main"] = NoRequest /\ wire'["task"] = wire["task"]
      BY <2>1, WireSet DEF ThreadIds
    <2>3. QED
      BY <2>1, <2>2 DEF WireInv
  <1>6. CASE MainTimeout
    <2>1. /\ wire' = [wire EXCEPT !["main"] = NoRequest]
          /\ "main" \in ThreadIds /\ task' = task
          /\ \/ main = "registering" /\ main' = "building"
             \/ main = "deregistering" /\ main' = "freeing"
      BY <1>6 DEF MainTimeout, WireInv, Waits, ThreadIds
    <2>2. wire'["main"] = NoRequest /\ wire'["task"] = wire["task"]
      BY <2>1, WireSet DEF ThreadIds
    <2>3. QED
      BY <2>1, <2>2 DEF WireInv
  <1>7. CASE Exit
    BY <1>7 DEF Exit, Leave, WireInv, ThreadIds
  <1>8. CASE Killed
    BY <1>8 DEF Killed, Leave, WireInv, ThreadIds
  <1>9. CASE Tick
    BY <1>9 DEF Tick, WireInv
  <1>10. CASE Heartbeat
    <2>1. /\ wire' = [wire EXCEPT !["task"] = Beat]
          /\ "task" \in ThreadIds
          /\ task = "tick" /\ task' = "beating"
          /\ main' = main
      BY <1>10 DEF Heartbeat, ThreadIds
    <2>2. wire'["task"] = Beat /\ wire'["main"] = wire["main"]
      BY <2>1, WireSet DEF ThreadIds
    <2>3. QED
      BY <2>1, <2>2 DEF WireInv
  <1>11. CASE HeartbeatAnswered
    <2>1. /\ wire' = [wire EXCEPT !["task"] = NoRequest]
          /\ "task" \in ThreadIds
          /\ task = "beating" /\ task' = "cycle"
          /\ main' = main
      BY <1>11 DEF HeartbeatAnswered, ThreadIds
    <2>2. wire'["task"] = NoRequest /\ wire'["main"] = wire["main"]
      BY <2>1, WireSet DEF ThreadIds
    <2>3. QED
      BY <2>1, <2>2 DEF WireInv
  <1>12. CASE HeartbeatTimeout
    <2>1. /\ wire' = [wire EXCEPT !["task"] = NoRequest]
          /\ "task" \in ThreadIds
          /\ task = "beating" /\ task' = "cycle"
          /\ main' = main
      BY <1>12 DEF HeartbeatTimeout, ThreadIds
    <2>2. wire'["task"] = NoRequest /\ wire'["main"] = wire["main"]
      BY <2>1, WireSet DEF ThreadIds
    <2>3. QED
      BY <2>1, <2>2 DEF WireInv
  <1>13. CASE Cycle
    BY <1>13 DEF Cycle, WireInv
  <1>14. ASSUME NEW th \in ThreadIds, NrfAnswers(th)
        PROVE  WireInv'
    <2>1. PICK a \in Answers : wire' = [wire EXCEPT ![th].answer = a]
      BY <1>14 DEF NrfAnswers, Answers
    <2>2. /\ wire'[th].method = wire[th].method
          /\ \A x \in ThreadIds : x # th => wire'[x] = wire[x]
      BY <2>1, AnsweredType
    <2>3. wire[th] # NoRequest
      BY <1>14 DEF NrfAnswers, Waits
    <2>4. main' = main /\ task' = task
      BY <1>14 DEF NrfAnswers
    <2>5. QED
      BY <2>2, <2>3, <2>4 DEF WireInv, ThreadIds
  <1>15. ASSUME NEW m \in late, NrfGetsLate(m)
        PROVE  WireInv'
    BY <1>15 DEF NrfGetsLate, NrfApplies, WireInv
  <1>16. ASSUME NEW m \in late, LateIsLost(m)
        PROVE  WireInv'
    BY <1>16 DEF LateIsLost, WireInv
  <1>17. CASE NrfSuspends
    BY <1>17 DEF NrfSuspends, WireInv
  <1>18. CASE NrfForgets
    BY <1>18 DEF NrfForgets, WireInv
  <1>19. CASE Elapse
    BY <1>19 DEF Elapse, WireInv
  <1>20. CASE UNCHANGED vars
    BY <1>20 DEF vars, WireInv
  <1>21. QED
    BY <1>1, <1>2, <1>3, <1>4, <1>5, <1>6, <1>7, <1>8, <1>9, <1>10, <1>11,
       <1>12, <1>13, <1>14, <1>15, <1>16, <1>17, <1>18, <1>19, <1>20
    DEF Next, MainNext, TaskNext, NrfNext

-----------------------------------------------------------------------------
(***************************************************************************)
(* The end of the process.                                                 *)
(***************************************************************************)

(***************************************************************************)
(* As long as the NRF has answered the main thread, only a heartbeat can   *)
(* arrive late, and a heartbeat does not bring an entry back.              *)
(***************************************************************************)
DeregisterInv ==
    unanswered = {} /\ main # "killed" =>
        /\ late \subseteq {"PATCH"}
        /\ main = "deregistering" /\ wire["main"].answer # "pending" =>
              entry = "absent"
        /\ main \in {"freeing", "exited"} => entry = "absent"

\* Nothing that happens after the deregistration brings the entry back.
LEMMA DeregisterStep ==
    ASSUME TypeOK, WireInv, DeregisterInv, [Next]_vars
    PROVE  DeregisterInv'
  <1>1. CASE Register
    BY <1>1 DEF Register, DeregisterInv, WireInv
  <1>2. CASE RegisterAnswered
    BY <1>2 DEF RegisterAnswered, DeregisterInv, WireInv
  <1>3. CASE StartTask
    BY <1>3 DEF StartTask, DeregisterInv, WireInv
  <1>4. CASE Deregister
    <2>1. /\ late' = late /\ unanswered' = unanswered
          /\ main = "serving" /\ main' = "deregistering"
          /\ wire' = [wire EXCEPT !["main"] = Send("DELETE")]
      BY <1>4 DEF Deregister
    <2>2. wire'["main"].answer = "pending"
      BY <2>1 DEF Send, TypeOK, ThreadIds
    <2>3. QED
      BY <2>1, <2>2 DEF DeregisterInv
  <1>5. CASE DeregisterAnswered
    BY <1>5 DEF DeregisterAnswered, DeregisterInv, WireInv
  <1>6. CASE MainTimeout
    BY <1>6 DEF MainTimeout, DeregisterInv, WireInv
  <1>7. CASE Exit
    <2>1. /\ main = "freeing" /\ main' = "exited"
          /\ unanswered' = unanswered /\ entry' = entry
      BY <1>7 DEF Exit, Leave
    <2>2. \A th \in ThreadIds : Waits(th) => wire[th].method = "PATCH"
      BY <2>1 DEF WireInv, Waits, ThreadIds
    <2>3. late' \subseteq late \cup {"PATCH"}
      BY <1>7, <2>2 DEF Exit, Leave
    <2>4. QED
      BY <2>1, <2>3 DEF DeregisterInv
  <1>8. CASE Killed
    BY <1>8 DEF Killed, Leave, DeregisterInv, WireInv
  <1>9. CASE Tick
    BY <1>9 DEF Tick, DeregisterInv, WireInv
  <1>10. CASE Heartbeat
    BY <1>10 DEF Heartbeat, DeregisterInv, WireInv
  <1>11. CASE HeartbeatAnswered
    BY <1>11 DEF HeartbeatAnswered, DeregisterInv, WireInv
  <1>12. CASE HeartbeatTimeout
    BY <1>12 DEF HeartbeatTimeout, DeregisterInv, WireInv
  <1>13. CASE Cycle
    BY <1>13 DEF Cycle, DeregisterInv, WireInv
  <1>14. ASSUME NEW th \in ThreadIds, NrfAnswers(th)
        PROVE  DeregisterInv'
    <2> SUFFICES ASSUME unanswered = {}, main # "killed"
                 PROVE  DeregisterInv'
      BY <1>14 DEF DeregisterInv, NrfAnswers
    <2>1. /\ UNCHANGED <<main, late, unanswered>>
          /\ wire[th].answer = "pending"
          /\ wire[th].method \in Methods
          /\ \/ NrfApplies(wire[th].method)
             \/ /\ wire[th].method # "DELETE" \/ entry = "absent"
                /\ UNCHANGED <<entry, seen>>
      BY <1>14, WaitsMethod DEF NrfAnswers
    <2>2. PICK a \in Answers : wire' = [wire EXCEPT ![th].answer = a]
      BY <1>14 DEF NrfAnswers, Answers
    <2>3. CASE th = "main"
      <3>1. main = "deregistering" => wire[th].method = "DELETE"
        BY <2>3 DEF WireInv
      <3>2. main = "deregistering" => entry' = "absent"
        BY <2>1, <3>1, Applied
      <3>3. main \notin {"freeing", "exited"}
        BY <1>14, <2>3 DEF NrfAnswers, Waits, WireInv
      <3>4. QED
        BY <2>1, <3>2, <3>3 DEF DeregisterInv
    <2>4. CASE th = "task"
      <3>1. wire[th].method = "PATCH"
        BY <1>14, <2>4 DEF NrfAnswers, Waits, WireInv
      <3>2. entry = "absent" => entry' = "absent"
        BY <2>1, <3>1, Applied
      <3>3. wire'["main"] = wire["main"]
        BY <2>2, <2>4, AnsweredType DEF ThreadIds
      <3>4. QED
        BY <2>1, <3>2, <3>3 DEF DeregisterInv
    <2>5. QED
      BY <2>3, <2>4 DEF ThreadIds
  <1>15. ASSUME NEW m \in late, NrfGetsLate(m)
        PROVE  DeregisterInv'
    BY <1>15 DEF NrfGetsLate, NrfApplies, DeregisterInv, WireInv
  <1>16. ASSUME NEW m \in late, LateIsLost(m)
        PROVE  DeregisterInv'
    BY <1>16 DEF LateIsLost, DeregisterInv, WireInv
  <1>17. CASE NrfSuspends
    BY <1>17 DEF NrfSuspends, DeregisterInv, WireInv
  <1>18. CASE NrfForgets
    BY <1>18 DEF NrfForgets, DeregisterInv, WireInv
  <1>19. CASE Elapse
    BY <1>19 DEF Elapse, DeregisterInv, WireInv
  <1>20. CASE UNCHANGED vars
    BY <1>20 DEF vars, DeregisterInv, WireInv
  <1>21. QED
    BY <1>1, <1>2, <1>3, <1>4, <1>5, <1>6, <1>7, <1>8, <1>9, <1>10, <1>11,
       <1>12, <1>13, <1>14, <1>15, <1>16, <1>17, <1>18, <1>19, <1>20
    DEF Next, MainNext, TaskNext, NrfNext

-----------------------------------------------------------------------------
(***************************************************************************)
(* The heartbeats.                                                         *)
(***************************************************************************)

\* The ticks a heartbeat is due at, as long as it is connected.
OnBeat(x) == x >= due /\ (x - due) % Interval = 0

\* The next tick to run.
Upcoming == IF task = "beating" THEN t + 1 ELSE t

\* How long the task thread waits at least before it runs that tick.
Slack == IF task # "tick" /\ exp = 0 THEN 1 ELSE 0

(***************************************************************************)
(* The thread has read the timer when it runs a tick; only at the first    *)
(* tick, before any heartbeat, an expiration is left.                      *)
(***************************************************************************)
TaskInv ==
    /\ task = "unborn" => beatAt = Never
    /\ task = "beating" => beatAt # Never
    /\ task = "tick" => exp <= 1
    /\ task = "tick" /\ beatAt # Never => exp = 0

(***************************************************************************)
(* A tick of a later heartbeat is so many ticks away that, at one tick a   *)
(* millisecond, it comes an interval after the last heartbeat, or one      *)
(* millisecond earlier.                                                    *)
(***************************************************************************)
SpacingInv ==
    beatAt # Never /\ task # "gone" =>
        \A x \in Nat :
            OnBeat(x) /\ x >= Upcoming =>
                (clock - beatAt) + (x - Upcoming) + Slack >= Interval - 1

\* A tick starts with the timer just read.
LEMMA TaskStep ==
    ASSUME TypeOK, WireInv, TaskInv, [Next]_vars
    PROVE  TaskInv'
  <1> USE DEF TypeOK, Never
  <1>1. CASE Register
    BY <1>1 DEF Register, TaskInv, WireInv
  <1>2. CASE RegisterAnswered
    BY <1>2 DEF RegisterAnswered, TaskInv, WireInv
  <1>3. CASE StartTask
    BY <1>3 DEF StartTask, TaskInv, WireInv
  <1>4. CASE Deregister
    BY <1>4 DEF Deregister, TaskInv, WireInv
  <1>5. CASE DeregisterAnswered
    BY <1>5 DEF DeregisterAnswered, TaskInv, WireInv
  <1>6. CASE MainTimeout
    BY <1>6 DEF MainTimeout, TaskInv, WireInv
  <1>7. CASE Exit
    BY <1>7 DEF Exit, Leave, TaskInv, WireInv
  <1>8. CASE Killed
    BY <1>8 DEF Killed, Leave, TaskInv, WireInv
  <1>9. CASE Tick
    BY <1>9 DEF Tick, TaskInv, WireInv
  <1>10. CASE Heartbeat
    BY <1>10 DEF Heartbeat, TaskInv, WireInv
  <1>11. CASE HeartbeatAnswered
    BY <1>11 DEF HeartbeatAnswered, TaskInv, WireInv
  <1>12. CASE HeartbeatTimeout
    BY <1>12 DEF HeartbeatTimeout, TaskInv, WireInv
  <1>13. CASE Cycle
    BY <1>13 DEF Cycle, TaskInv, WireInv
  <1>14. ASSUME NEW th \in ThreadIds, NrfAnswers(th)
        PROVE  TaskInv'
    BY <1>14 DEF NrfAnswers, NrfApplies, TaskInv, WireInv
  <1>15. ASSUME NEW m \in late, NrfGetsLate(m)
        PROVE  TaskInv'
    BY <1>15 DEF NrfGetsLate, NrfApplies, TaskInv, WireInv
  <1>16. ASSUME NEW m \in late, LateIsLost(m)
        PROVE  TaskInv'
    BY <1>16 DEF LateIsLost, TaskInv, WireInv
  <1>17. CASE NrfSuspends
    BY <1>17 DEF NrfSuspends, TaskInv, WireInv
  <1>18. CASE NrfForgets
    BY <1>18 DEF NrfForgets, TaskInv, WireInv
  <1>19. CASE Elapse
    BY <1>19 DEF Elapse, TaskInv, WireInv
  <1>20. CASE UNCHANGED vars
    BY <1>20 DEF vars, TaskInv, WireInv
  <1>21. QED
    BY <1>1, <1>2, <1>3, <1>4, <1>5, <1>6, <1>7, <1>8, <1>9, <1>10, <1>11,
       <1>12, <1>13, <1>14, <1>15, <1>16, <1>17, <1>18, <1>19, <1>20
    DEF Next, MainNext, TaskNext, NrfNext

\* The next tick of a heartbeat stays far enough away.
LEMMA SpacingStep ==
    ASSUME TypeOK, WireInv, TaskInv, SpacingInv, [Next]_vars
    PROVE  SpacingInv'
  <1> USE ConstantsAssumption DEF TypeOK, TaskInv, Never
  <1>1. CASE Register
    BY <1>1 DEF Register, SpacingInv, OnBeat, Upcoming, Slack
  <1>2. CASE RegisterAnswered
    BY <1>2 DEF RegisterAnswered, SpacingInv, WireInv
  <1>3. CASE StartTask
    BY <1>3 DEF StartTask, SpacingInv, WireInv
  <1>4. CASE Deregister
    BY <1>4 DEF Deregister, SpacingInv, OnBeat, Upcoming, Slack
  <1>5. CASE DeregisterAnswered
    BY <1>5 DEF DeregisterAnswered, SpacingInv, OnBeat, Upcoming, Slack
  <1>6. CASE MainTimeout
    BY <1>6 DEF MainTimeout, SpacingInv, OnBeat, Upcoming, Slack
  <1>7. CASE Exit
    BY <1>7 DEF Exit, Leave, SpacingInv, OnBeat, Upcoming, Slack
  <1>8. CASE Killed
    BY <1>8 DEF Killed, Leave, SpacingInv, OnBeat, Upcoming, Slack
  <1>9. CASE Tick
    BY <1>9 DEF Tick, SpacingInv, OnBeat, Upcoming, Slack
  <1>10. CASE Heartbeat
    <2>1. /\ OnBeat(t) /\ task = "tick" /\ task' = "beating"
          /\ beatAt' = clock
          /\ UNCHANGED <<clock, t, exp, due>>
      BY <1>10 DEF Heartbeat, Fires, OnBeat
    <2>2. ASSUME NEW x \in Nat, OnBeat(x), x >= t + 1
          PROVE  x >= t + Interval
      <3>1. /\ x - due \in Nat /\ t - due \in Nat
            /\ (x - due) % Interval = 0 /\ (t - due) % Interval = 0
            /\ t - due < x - due
        BY <2>1, <2>2 DEF OnBeat
      <3>2. t - due + Interval <= x - due
        BY <3>1, MultiplesApart
      <3>3. QED
        BY <3>2
    <2>3. ASSUME NEW x \in Nat, OnBeat(x)', x >= Upcoming'
          PROVE  (clock' - beatAt') + (x - Upcoming') + Slack' >= Interval - 1
      <3>1. OnBeat(x) /\ x >= t + 1 /\ Upcoming' = t + 1
        BY <2>1, <2>3 DEF OnBeat, Upcoming
      <3>2. x >= t + Interval
        BY <2>2, <3>1
      <3>3. Slack' = IF exp = 0 THEN 1 ELSE 0
        BY <2>1 DEF Slack
      <3>4. QED
        BY <2>1, <3>1, <3>2, <3>3
    <2>4. QED
      BY <2>3 DEF SpacingInv
  <1>11. CASE HeartbeatAnswered
    BY <1>11 DEF HeartbeatAnswered, SpacingInv, OnBeat, Upcoming, Slack
  <1>12. CASE HeartbeatTimeout
    BY <1>12 DEF HeartbeatTimeout, SpacingInv, OnBeat, Upcoming, Slack
  <1>13. CASE Cycle
    BY <1>13 DEF Cycle, SpacingInv, OnBeat, Upcoming, Slack
  <1>14. ASSUME NEW th \in ThreadIds, NrfAnswers(th)
        PROVE  SpacingInv'
    BY <1>14 DEF NrfAnswers, NrfApplies, SpacingInv, OnBeat, Upcoming, Slack
  <1>15. ASSUME NEW m \in late, NrfGetsLate(m)
        PROVE  SpacingInv'
    BY <1>15 DEF NrfGetsLate, NrfApplies, SpacingInv, OnBeat, Upcoming, Slack
  <1>16. ASSUME NEW m \in late, LateIsLost(m)
        PROVE  SpacingInv'
    BY <1>16 DEF LateIsLost, SpacingInv, OnBeat, Upcoming, Slack
  <1>17. CASE NrfSuspends
    BY <1>17 DEF NrfSuspends, SpacingInv, OnBeat, Upcoming, Slack
  <1>18. CASE NrfForgets
    BY <1>18 DEF NrfForgets, SpacingInv, OnBeat, Upcoming, Slack
  <1>19. CASE Elapse
    BY <1>19 DEF Elapse, SpacingInv, OnBeat, Upcoming, Slack
  <1>20. CASE UNCHANGED vars
    BY <1>20 DEF vars, SpacingInv, OnBeat, Upcoming, Slack
  <1>21. QED
    BY <1>1, <1>2, <1>3, <1>4, <1>5, <1>6, <1>7, <1>8, <1>9, <1>10, <1>11,
       <1>12, <1>13, <1>14, <1>15, <1>16, <1>17, <1>18, <1>19, <1>20
    DEF Next, MainNext, TaskNext, NrfNext

-----------------------------------------------------------------------------
(***************************************************************************)
(* The supervision by the NRF.                                             *)
(***************************************************************************)

(***************************************************************************)
(* A request is out for the delay at most, and when it is answered with    *)
(* success the NRF has just heard of the instance.                         *)
(***************************************************************************)
AnswerInv ==
    /\ seen <= clock
    /\ main = "registering" /\ wire["main"].answer = "ok" =>
          entry # "SUSPENDED" /\ seen = clock
    /\ task = "beating" =>
          /\ OnBeat(t)
          /\ wire["task"].sent = beatAt
          /\ beatAt <= clock /\ clock <= beatAt + MaxDelay
          /\ wire["task"].answer = "ok" => entry # "SUSPENDED" /\ seen = clock

(***************************************************************************)
(* As long as the heartbeat is connected, the next one comes in time: the  *)
(* registration was heard not longer ago than the construction takes, and  *)
(* then there is always a tick ahead at which a heartbeat is due, near     *)
(* enough to the time the NRF last heard of the instance.                  *)
(***************************************************************************)
NextBeatInTime ==
    \E x \in Nat :
        /\ OnBeat(x) /\ x >= t
        /\ (clock - seen) + (x - t) + Slack <= Interval + MaxBuild

DeadlineInv ==
    connected =>
        /\ entry # "SUSPENDED"
        /\ main \notin {"start", "registering", "exited", "killed"}
        /\ main = "building" =>
              due - Interval <= seen /\ clock <= due - Interval + MaxBuild
        /\ task = "beating" => beatAt - seen <= Interval + MaxBuild
        /\ task \in {"tick", "cycle"} => NextBeatInTime

\* A bound on the time since the NRF heard of the instance stays a bound when
\* it hears again.
LEMMA HeardLater ==
    ASSUME NEW c \in Nat, NEW s \in Nat, NEW s2 \in {s, c}, s <= c,
           NEW y \in Int, NEW k \in Int, (c - s) + y <= k
    PROVE  (c - s2) + y <= k
  <1>1. CASE s2 = s
    BY <1>1
  <1>2. CASE s2 = c
    BY <1>2
  <1>3. QED
    BY <1>1, <1>2

\* A tick ahead stays in time when the NRF hears of the instance.
LEMMA NextBeatKept ==
    ASSUME TypeOK, AnswerInv, NextBeatInTime, seen' \in {seen, clock},
           clock' = clock, task' = task, t' = t, exp' = exp, due' = due
    PROVE  NextBeatInTime'
  <1>1. PICK x \in Nat :
           /\ OnBeat(x) /\ x >= t
           /\ (clock - seen) + (x - t) + Slack <= Interval + MaxBuild
    BY DEF NextBeatInTime
  <1>2. OnBeat(x)' /\ x >= t' /\ Slack' = Slack
    BY <1>1 DEF OnBeat, Slack
  <1>3. /\ clock \in Nat /\ seen \in Nat /\ seen <= clock
        /\ (x - t) + Slack \in Int /\ Interval + MaxBuild \in Int
        /\ (clock - seen) + ((x - t) + Slack) <= Interval + MaxBuild
    BY <1>1, ConstantsAssumption DEF AnswerInv, TypeOK, Slack
  <1>4. (clock - seen') + ((x - t) + Slack) <= Interval + MaxBuild
    BY <1>3, HeardLater
  <1>5. (clock' - seen') + (x - t') + Slack' <= Interval + MaxBuild
    <2>1. (clock' - seen') + ((x - t') + Slack') <= Interval + MaxBuild
      BY <1>2, <1>4
    <2>2. /\ clock' - seen' \in Int /\ x - t' \in Int /\ Slack' \in Int
      BY <1>2, <1>3 DEF Slack, TypeOK
    <2>3. QED
      BY <1>3, <2>1, <2>2
  <1>6. QED
    BY <1>1, <1>2, <1>5 DEF NextBeatInTime

\* The NRF has just been heard of when a request is answered.
LEMMA AnswerStep ==
    ASSUME TypeOK, WireInv, AnswerInv, [Next]_vars
    PROVE  AnswerInv'
  <1> USE ConstantsAssumption DEF TypeOK
  <1>1. CASE Register
    <2>1. /\ wire' = [wire EXCEPT !["main"] = Send("PUT")]
          /\ main' = "registering"
          /\ UNCHANGED <<clock, task, t, due, entry, seen, beatAt>>
      BY <1>1 DEF Register
    <2>2. wire'["main"].answer = "pending" /\ wire'["task"] = wire["task"]
      BY <2>1 DEF Send, ThreadIds
    <2>3. QED
      BY <2>1, <2>2 DEF AnswerInv, OnBeat
  <1>2. CASE RegisterAnswered
    BY <1>2 DEF RegisterAnswered, AnswerInv, WireInv, OnBeat
  <1>3. CASE StartTask
    BY <1>3 DEF StartTask, AnswerInv, WireInv, OnBeat
  <1>4. CASE Deregister
    BY <1>4 DEF Deregister, AnswerInv, WireInv, OnBeat
  <1>5. CASE DeregisterAnswered
    BY <1>5 DEF DeregisterAnswered, AnswerInv, WireInv, OnBeat
  <1>6. CASE MainTimeout
    BY <1>6 DEF MainTimeout, AnswerInv, WireInv, OnBeat
  <1>7. CASE Exit
    BY <1>7 DEF Exit, Leave, AnswerInv, WireInv, OnBeat
  <1>8. CASE Killed
    BY <1>8 DEF Killed, Leave, AnswerInv, WireInv, OnBeat
  <1>9. CASE Tick
    BY <1>9 DEF Tick, AnswerInv, WireInv, OnBeat
  <1>10. CASE Heartbeat
    <2>1. /\ wire' = [wire EXCEPT !["task"] = Beat] /\ OnBeat(t)
          /\ beatAt' = clock
          /\ UNCHANGED <<clock, main, t, due, entry, seen>>
      BY <1>10 DEF Heartbeat, Fires, OnBeat
    <2>2. /\ wire'["task"].answer = "pending" /\ wire'["task"].sent = clock
          /\ wire'["main"] = wire["main"]
      BY <2>1 DEF Beat, Send, ThreadIds
    <2>3. OnBeat(t)'
      BY <2>1 DEF OnBeat
    <2>4. QED
      BY <2>1, <2>2, <2>3 DEF AnswerInv
  <1>11. CASE HeartbeatAnswered
    BY <1>11 DEF HeartbeatAnswered, AnswerInv, WireInv, OnBeat
  <1>12. CASE HeartbeatTimeout
    BY <1>12 DEF HeartbeatTimeout, AnswerInv, WireInv, OnBeat
  <1>13. CASE Cycle
    BY <1>13 DEF Cycle, AnswerInv, WireInv, OnBeat
  <1>14. ASSUME NEW th \in ThreadIds, NrfAnswers(th)
        PROVE  AnswerInv'
    <2>1. /\ UNCHANGED <<clock, main, task, t, due, beatAt>>
          /\ wire[th].method \in Methods
      BY <1>14, WaitsMethod DEF NrfAnswers
    <2>2. OnBeat(t)' <=> OnBeat(t)
      BY <2>1 DEF OnBeat
    <2>3. CASE /\ wire' = [wire EXCEPT ![th].answer = "ok"]
               /\ NrfApplies(wire[th].method)
               /\ wire[th].method = "PUT" \/ entry # "absent"
      <3>1. /\ entry' \in {entry, "REGISTERED", "absent"}
            /\ seen' \in {seen, clock}
            /\ wire[th].method \in {"PUT", "PATCH"} =>
                  entry' = "REGISTERED" /\ seen' = clock
        BY <2>1, <2>3, Applied
      <3>2. /\ \A x \in ThreadIds : x # th => wire'[x] = wire[x]
            /\ wire'[th].sent = wire[th].sent
        BY <2>3, AnsweredType DEF Answers
      <3>3. CASE th = "main"
        <4>1. main = "registering" => entry' = "REGISTERED" /\ seen' = clock
          BY <3>1, <3>3 DEF WireInv
        <4>2. wire'["task"] = wire["task"]
          BY <3>2, <3>3 DEF ThreadIds
        <4>3. QED
          BY <2>1, <2>2, <3>1, <4>1, <4>2 DEF AnswerInv
      <3>4. CASE th = "task"
        <4>1. task = "beating" => entry' = "REGISTERED" /\ seen' = clock
          BY <3>1, <3>4 DEF WireInv
        <4>2. wire'["main"] = wire["main"]
          BY <3>2, <3>4 DEF ThreadIds
        <4>3. QED
          BY <2>1, <2>2, <3>1, <3>2, <3>4, <4>1, <4>2 DEF AnswerInv
      <3>5. QED
        BY <3>3, <3>4 DEF ThreadIds
    <2>4. CASE /\ wire' = [wire EXCEPT ![th].answer = "refused"]
               /\ UNCHANGED <<entry, seen>>
      <3>1. /\ wire'["main"].answer = "ok" => wire["main"].answer = "ok"
            /\ wire'["task"].answer = "ok" => wire["task"].answer = "ok"
            /\ wire'["task"].sent = wire["task"].sent
        BY <2>4, AnsweredType DEF Answers, ThreadIds
      <3>2. QED
        BY <2>1, <2>2, <2>4, <3>1 DEF AnswerInv
    <2>5. QED
      BY <1>14, <2>3, <2>4 DEF NrfAnswers
  <1>15. ASSUME NEW m \in late, NrfGetsLate(m)
        PROVE  AnswerInv'
    <2>1. /\ UNCHANGED <<clock, main, task, t, due, beatAt, wire>>
          /\ m \in Methods /\ NrfApplies(m)
      BY <1>15 DEF NrfGetsLate
    <2>2. entry' \in {entry, "REGISTERED", "absent"} /\ seen' \in {seen, clock}
      BY <2>1, Applied
    <2>3. OnBeat(t)' <=> OnBeat(t)
      BY <2>1 DEF OnBeat
    <2>4. QED
      BY <2>1, <2>2, <2>3 DEF AnswerInv
  <1>16. ASSUME NEW m \in late, LateIsLost(m)
        PROVE  AnswerInv'
    BY <1>16 DEF LateIsLost, AnswerInv, WireInv, OnBeat
  <1>17. CASE NrfSuspends
    BY <1>17 DEF NrfSuspends, AnswerInv, WireInv, OnBeat
  <1>18. CASE NrfForgets
    BY <1>18 DEF NrfForgets, AnswerInv, WireInv, OnBeat
  <1>19. CASE Elapse
    <2>1. /\ UNCHANGED <<main, task, t, due, beatAt, wire, entry, seen>>
          /\ clock' = clock + 1
      BY <1>19 DEF Elapse
    <2>2. \A th \in ThreadIds : Waits(th) =>
              /\ wire[th].answer = "pending"
              /\ clock < wire[th].sent + MaxDelay
      BY <1>19 DEF Elapse
    <2>3. /\ main = "registering" => wire["main"].answer = "pending"
          /\ task = "beating" => /\ wire["task"].answer = "pending"
                                 /\ clock < wire["task"].sent + MaxDelay
      BY <2>2 DEF Waits, WireInv, NoRequest, ThreadIds
    <2>4. OnBeat(t)' <=> OnBeat(t)
      BY <2>1 DEF OnBeat
    <2>5. QED
      BY <2>1, <2>3, <2>4 DEF AnswerInv
  <1>20. CASE UNCHANGED vars
    BY <1>20 DEF vars, AnswerInv, WireInv, OnBeat
  <1>21. QED
    BY <1>1, <1>2, <1>3, <1>4, <1>5, <1>6, <1>7, <1>8, <1>9, <1>10, <1>11,
       <1>12, <1>13, <1>14, <1>15, <1>16, <1>17, <1>18, <1>19, <1>20
    DEF Next, MainNext, TaskNext, NrfNext

\* The next tick of a heartbeat stays near enough.
LEMMA DeadlineStep ==
    ASSUME TypeOK, WireInv, AnswerInv, DeadlineInv, [Next]_vars
    PROVE  DeadlineInv'
  <1> USE ConstantsAssumption DEF TypeOK
  <1>1. CASE Register
    BY <1>1 DEF Register, DeadlineInv, WireInv, NextBeatInTime, OnBeat, Slack
  <1>2. CASE RegisterAnswered
    <2>1. CASE wire["main"].answer = "ok"
      <3>1. /\ main = "registering" /\ main' = "building"
            /\ due' = clock + Interval
            /\ UNCHANGED <<clock, task, entry, seen>>
        BY <1>2, <2>1 DEF RegisterAnswered, FirstBeat
      <3>2. entry # "SUSPENDED" /\ seen = clock /\ task = "unborn"
        BY <2>1, <3>1 DEF AnswerInv, WireInv
      <3>3. QED
        BY <3>1, <3>2 DEF DeadlineInv
    <2>2. CASE wire["main"].answer # "ok"
      <3>1. /\ main = "registering" /\ main' = "building"
            /\ UNCHANGED <<clock, task, entry, seen, connected, due>>
        BY <1>2, <2>2 DEF RegisterAnswered
      <3>2. task = "unborn" /\ ~connected
        BY <3>1 DEF DeadlineInv, WireInv
      <3>3. QED
        BY <3>1, <3>2 DEF DeadlineInv
    <2>3. QED
      BY <2>1, <2>2
  <1>3. CASE StartTask
    <2> SUFFICES ASSUME connected
                 PROVE  DeadlineInv'
      BY <1>3 DEF StartTask, DeadlineInv
    <2>1. /\ entry # "SUSPENDED" /\ seen <= clock
          /\ due - Interval <= seen /\ clock <= due - Interval + MaxBuild
          /\ main' = "serving" /\ task' = "tick" /\ t' = clock
          /\ UNCHANGED <<clock, due, entry, seen>>
      BY <1>3 DEF StartTask, DeadlineInv, AnswerInv
    <2>2. PICK x \in Nat : /\ x >= due /\ (x - due) % Interval = 0
                           /\ x >= clock
                           /\ x - seen <= Interval + MaxBuild
      <3>1. CASE clock <= due
        <4>1. (due - due) % Interval = 0
          BY MultipleMod
        <4>2. QED
          BY <2>1, <3>1, <4>1
      <3>2. CASE clock > due
        <4>1. clock - due \in Nat
          BY <3>2
        <4>2. PICK b \in Nat : /\ clock - due <= b
                               /\ b < clock - due + Interval
                               /\ b % Interval = 0
          BY <4>1, MultipleAhead
        <4>3. due + b \in Nat /\ (due + b) - due = b
          OBVIOUS
        <4>4. QED
          BY <2>1, <4>2, <4>3
      <3>3. QED
        BY <3>1, <3>2
    <2>3. Slack' = 0
      BY <2>1 DEF Slack
    <2>4. NextBeatInTime'
      <3>1. OnBeat(x)' /\ x >= t'
        BY <2>1, <2>2 DEF OnBeat
      <3>2. (clock' - seen') + (x - t') + Slack' <= Interval + MaxBuild
        BY <2>1, <2>2, <2>3
      <3>3. QED
        BY <3>1, <3>2 DEF NextBeatInTime
    <2>5. QED
      BY <2>1, <2>4 DEF DeadlineInv
  <1>4. CASE Deregister
    BY <1>4 DEF Deregister, DeadlineInv, WireInv, NextBeatInTime, OnBeat, Slack
  <1>5. CASE DeregisterAnswered
    BY <1>5
    DEF DeregisterAnswered, DeadlineInv, WireInv, NextBeatInTime, OnBeat, Slack
  <1>6. CASE MainTimeout
    <2> SUFFICES ASSUME connected
                 PROVE  DeadlineInv'
      BY <1>6 DEF MainTimeout, DeadlineInv
    <2>1. main = "registering" \/ main = "deregistering"
      BY <1>6 DEF MainTimeout, WireInv, Waits, ThreadIds
    <2>2. main = "deregistering" /\ main' = "freeing"
      BY <1>6, <2>1 DEF MainTimeout, DeadlineInv
    <2>3. UNCHANGED <<clock, task, t, exp, due, entry, seen, beatAt>>
      BY <1>6 DEF MainTimeout
    <2>4. NextBeatInTime => NextBeatInTime'
      BY <2>3, NextBeatKept DEF AnswerInv
    <2>5. QED
      BY <2>2, <2>3, <2>4 DEF DeadlineInv, AnswerInv
  <1>7. CASE Exit
    BY <1>7
    DEF Exit, Leave, DeadlineInv, WireInv, NextBeatInTime, OnBeat, Slack
  <1>8. CASE Killed
    BY <1>8
    DEF Killed, Leave, DeadlineInv, WireInv, NextBeatInTime, OnBeat, Slack
  <1>9. CASE Tick
    <2> SUFFICES ASSUME connected
                 PROVE  DeadlineInv'
      BY <1>9 DEF Tick, DeadlineInv
    <2>1. /\ entry # "SUSPENDED" /\ NextBeatInTime
          /\ ~OnBeat(t) /\ task' = "cycle" /\ t' = t + 1
          /\ UNCHANGED <<clock, main, exp, due, connected, entry, seen>>
      BY <1>9 DEF Tick, Fires, OnBeat, DeadlineInv
    <2>2. main' # "building"
      BY <1>9, <2>1 DEF Tick, WireInv
    <2>3. PICK x \in Nat :
             /\ OnBeat(x) /\ x >= t
             /\ (clock - seen) + (x - t) + Slack <= Interval + MaxBuild
      BY <2>1 DEF NextBeatInTime
    <2>4. OnBeat(x)' /\ x >= t'
      BY <2>1, <2>3 DEF OnBeat
    <2>5. Slack' <= 1 /\ Slack = 0
      BY <1>9 DEF Tick, Slack
    <2>6. (clock' - seen') + (x - t') + Slack' <= Interval + MaxBuild
      BY <2>1, <2>3, <2>5 DEF Slack
    <2>7. NextBeatInTime'
      BY <2>4, <2>6 DEF NextBeatInTime
    <2>8. QED
      BY <2>1, <2>2, <2>7 DEF DeadlineInv
  <1>10. CASE Heartbeat
    <2> SUFFICES ASSUME connected
                 PROVE  DeadlineInv'
      BY <1>10 DEF Heartbeat, DeadlineInv
    <2>1. /\ entry # "SUSPENDED" /\ NextBeatInTime
          /\ task = "tick" /\ task' = "beating" /\ beatAt' = clock
          /\ UNCHANGED <<clock, main, entry, seen>>
      BY <1>10 DEF Heartbeat, DeadlineInv
    <2>2. main' # "building"
      BY <2>1 DEF WireInv
    <2>3. clock - seen <= Interval + MaxBuild
      BY <2>1 DEF NextBeatInTime, Slack
    <2>4. QED
      BY <2>1, <2>2, <2>3 DEF DeadlineInv
  <1>11. CASE HeartbeatAnswered
    <2> SUFFICES ASSUME connected'
                 PROVE  DeadlineInv'
      BY DEF DeadlineInv
    <2>1. wire["task"].answer = "ok" /\ task = "beating"
      BY <1>11, Zenon DEF HeartbeatAnswered
    <2>2. /\ entry # "SUSPENDED" /\ seen = clock /\ OnBeat(t)
      BY <2>1 DEF AnswerInv
    <2>3. /\ task' = "cycle" /\ t' = t + 1
          /\ UNCHANGED <<clock, main, exp, due, entry, seen>>
      BY <1>11 DEF HeartbeatAnswered
    <2>4. main' # "building"
      BY <2>1, <2>3 DEF WireInv
    <2>5. t + Interval >= due' /\ (t + Interval - due') % Interval = 0
      <3>1. /\ t - due \in Nat /\ (t - due) % Interval = 0
            /\ t + Interval - due = t - due + Interval
        BY <2>2 DEF OnBeat
      <3>2. (t + Interval - due) % Interval = 0
        BY <3>1, NextMultiple
      <3>3. t + Interval >= due
        BY <3>1
      <3>4. QED
        BY <2>3, <3>2, <3>3
    <2>6. Slack' <= 1 /\ Slack' \in Nat
      BY DEF Slack
    <2>7. NextBeatInTime'
      <3> DEFINE y == t + Interval
      <3>1. /\ y \in Nat /\ y >= due' /\ (y - due') % Interval = 0
            /\ y >= t' /\ y - t' = Interval - 1
        BY <2>3, <2>5
      <3>2. clock' - seen' = 0
        BY <2>2, <2>3
      <3> HIDE DEF y
      <3>3. (clock' - seen') + (y - t') + Slack' <= Interval + MaxBuild
        BY <2>6, <3>1, <3>2
      <3>4. QED
        BY <3>1, <3>3 DEF NextBeatInTime, OnBeat
    <2>8. connected /\ main' = main
      BY <1>11, <2>1, Zenon DEF HeartbeatAnswered
    <2>9. QED
      BY <2>2, <2>3, <2>4, <2>7, <2>8 DEF DeadlineInv
  <1>12. CASE HeartbeatTimeout
    BY <1>12
    DEF HeartbeatTimeout, DeadlineInv, WireInv, NextBeatInTime, OnBeat, Slack
  <1>13. CASE Cycle
    BY <1>13 DEF Cycle, DeadlineInv, WireInv, NextBeatInTime, OnBeat, Slack
  <1>14. ASSUME NEW th \in ThreadIds, NrfAnswers(th)
        PROVE  DeadlineInv'
    <2> SUFFICES ASSUME connected
                 PROVE  DeadlineInv'
      BY <1>14 DEF NrfAnswers, DeadlineInv
    <2>1. /\ UNCHANGED <<clock, main, task, t, exp, due, beatAt>>
          /\ entry' \in {entry, "REGISTERED", "absent"}
          /\ seen' \in {seen, clock}
      BY <1>14, WaitsMethod, Applied DEF NrfAnswers
    <2>2. NextBeatInTime => NextBeatInTime'
      BY <2>1, NextBeatKept
    <2>3. task = "beating" => beatAt' - seen' <= Interval + MaxBuild
      <3>1. task = "beating" =>
               beatAt - seen <= Interval + MaxBuild /\ beatAt <= clock
        BY DEF DeadlineInv, AnswerInv
      <3>2. CASE seen' = seen
        BY <2>1, <3>1, <3>2
      <3>3. CASE seen' = clock
        <4>1. task = "beating" => beatAt - clock <= 0
          BY <3>1
        <4>2. 0 <= Interval + MaxBuild /\ Interval + MaxBuild \in Nat
          OBVIOUS
        <4>3. QED
          BY <2>1, <3>3, <4>1, <4>2
      <3>4. QED
        BY <2>1, <3>2, <3>3
    <2>4. main = "building" => due - Interval <= seen'
      BY <2>1 DEF DeadlineInv, AnswerInv
    <2>5. entry' # "SUSPENDED"
      BY <2>1 DEF DeadlineInv
    <2>6. QED
      BY <2>1, <2>2, <2>3, <2>4, <2>5 DEF DeadlineInv
  <1>15. ASSUME NEW m \in late, NrfGetsLate(m)
        PROVE  DeadlineInv'
    <2> SUFFICES ASSUME connected
                 PROVE  DeadlineInv'
      BY <1>15 DEF NrfGetsLate, DeadlineInv
    <2>1. /\ UNCHANGED <<clock, main, task, t, exp, due, beatAt>>
          /\ entry' \in {entry, "REGISTERED", "absent"}
          /\ seen' \in {seen, clock}
      BY <1>15, Applied DEF NrfGetsLate
    <2>2. NextBeatInTime => NextBeatInTime'
      BY <2>1, NextBeatKept
    <2>3. task = "beating" => beatAt' - seen' <= Interval + MaxBuild
      <3>1. task = "beating" =>
               beatAt - seen <= Interval + MaxBuild /\ beatAt <= clock
        BY DEF DeadlineInv, AnswerInv
      <3>2. CASE seen' = seen
        BY <2>1, <3>1, <3>2
      <3>3. CASE seen' = clock
        <4>1. task = "beating" => beatAt - clock <= 0
          BY <3>1
        <4>2. 0 <= Interval + MaxBuild /\ Interval + MaxBuild \in Nat
          OBVIOUS
        <4>3. QED
          BY <2>1, <3>3, <4>1, <4>2
      <3>4. QED
        BY <2>1, <3>2, <3>3
    <2>4. main = "building" => due - Interval <= seen'
      BY <2>1 DEF DeadlineInv, AnswerInv
    <2>5. entry' # "SUSPENDED"
      BY <2>1 DEF DeadlineInv
    <2>6. QED
      BY <2>1, <2>2, <2>3, <2>4, <2>5 DEF DeadlineInv
  <1>16. ASSUME NEW m \in late, LateIsLost(m)
        PROVE  DeadlineInv'
    BY <1>16
    DEF LateIsLost, DeadlineInv, WireInv, NextBeatInTime, OnBeat, Slack
  <1>17. CASE NrfSuspends
    <2> SUFFICES ASSUME connected
                 PROVE  FALSE
      BY <1>17 DEF NrfSuspends, DeadlineInv
    <2>1. clock - seen > Interval + MaxBuild + MaxDelay
      BY <1>17, BudgetAssumption DEF NrfSuspends
    <2>2. main = "building" \/ task \in {"tick", "cycle", "beating"}
      BY DEF DeadlineInv, WireInv
    <2>3. CASE main = "building"
      BY <2>1, <2>3 DEF DeadlineInv
    <2>4. CASE task = "beating"
      BY <2>1, <2>4 DEF DeadlineInv, AnswerInv
    <2>5. CASE task \in {"tick", "cycle"}
      BY <2>1, <2>5 DEF DeadlineInv, NextBeatInTime, Slack
    <2>6. QED
      BY <2>2, <2>3, <2>4, <2>5
  <1>18. CASE NrfForgets
    BY <1>18
    DEF NrfForgets, DeadlineInv, WireInv, NextBeatInTime, OnBeat, Slack
  <1>19. CASE Elapse
    <2> SUFFICES ASSUME connected
                 PROVE  DeadlineInv'
      BY <1>19 DEF Elapse, DeadlineInv
    <2>1. /\ clock' = clock + 1 /\ task # "tick"
          /\ task = "cycle" => exp = 0
          /\ main = "building" => clock < due - Interval + MaxBuild
          /\ exp' = IF task \in {"beating", "cycle"} THEN exp + 1 ELSE exp
          /\ UNCHANGED <<main, task, t, due, entry, seen, beatAt>>
      BY <1>19 DEF Elapse
    <2>2. ASSUME task = "cycle"
          PROVE  NextBeatInTime'
      <3>1. Slack = 1 /\ Slack' = 0
        BY <2>1, <2>2 DEF Slack
      <3>2. PICK x \in Nat :
               /\ OnBeat(x) /\ x >= t
               /\ (clock - seen) + (x - t) + Slack <= Interval + MaxBuild
        BY <2>2 DEF DeadlineInv, NextBeatInTime
      <3>3. OnBeat(x)' /\ x >= t'
        BY <2>1, <3>2 DEF OnBeat
      <3>4. (clock' - seen') + (x - t') + Slack' <= Interval + MaxBuild
        BY <2>1, <3>1, <3>2
      <3>5. QED
        BY <3>3, <3>4 DEF NextBeatInTime
    <2>3. QED
      BY <2>1, <2>2 DEF DeadlineInv, AnswerInv
  <1>20. CASE UNCHANGED vars
    BY <1>20 DEF vars, DeadlineInv, WireInv, NextBeatInTime, OnBeat, Slack
  <1>21. QED
    BY <1>1, <1>2, <1>3, <1>4, <1>5, <1>6, <1>7, <1>8, <1>9, <1>10, <1>11,
       <1>12, <1>13, <1>14, <1>15, <1>16, <1>17, <1>18, <1>19, <1>20
    DEF Next, MainNext, TaskNext, NrfNext

-----------------------------------------------------------------------------
(***************************************************************************)
(* A registration that was given up.                                       *)
(***************************************************************************)

\* The main thread waits for the answer to its registration.
Registering == main = "registering" /\ wire["main"].answer = "pending"

\* Until its registration is answered the SEPP has no entry, and nothing was
\* given up before.  After a registration that was given up nothing is sent,
\* or still on its way, that could refresh an entry; and the registration can
\* arrive late only where there is none.
GivenUpInv ==
    /\ main = "start" \/ Registering => entry = "absent"
    /\ main \in {"start", "registering"} =>
          ~connected /\ late = {} /\ unanswered = {}
    /\ "PUT" \in unanswered =>
          /\ ~connected /\ task # "beating" /\ "PATCH" \notin late
          /\ "PUT" \in late => entry = "absent"

\* No step starts a heartbeat, or registers again, after that.
LEMMA GivenUpStep ==
    TypeOK /\ WireInv /\ GivenUpInv /\ [Next]_vars => GivenUpInv'
  <1> SUFFICES ASSUME TypeOK, WireInv, GivenUpInv, [Next]_vars
               PROVE  GivenUpInv'
    OBVIOUS
  <1> USE DEF GivenUpInv, Registering, WireInv
  <1>1. CASE Register
    BY <1>1 DEF Register, TypeOK, ThreadIds, Waits, NoRequest, Send
  <1>2. CASE RegisterAnswered
    BY <1>2 DEF RegisterAnswered, TypeOK, ThreadIds, Waits, NoRequest, Send
  <1>3. CASE StartTask
    BY <1>3 DEF StartTask, TypeOK, ThreadIds, Waits, NoRequest, Send
  <1>4. CASE Deregister
    BY <1>4 DEF Deregister, TypeOK, ThreadIds, Waits, NoRequest, Send
  <1>5. CASE DeregisterAnswered
    BY <1>5 DEF DeregisterAnswered, TypeOK, ThreadIds, Waits, NoRequest, Send
  <1>6. CASE MainTimeout
    BY <1>6 DEF MainTimeout, TypeOK, ThreadIds, Waits, NoRequest, Send
  <1>7. CASE Exit
    BY <1>7 DEF Exit, Leave, TypeOK, ThreadIds, Waits, NoRequest, Send
  <1>8. CASE Killed
    BY <1>8 DEF Killed, Leave, TypeOK, ThreadIds, Waits, NoRequest, Send
  <1>9. CASE Tick
    BY <1>9 DEF Tick, TypeOK, ThreadIds, Waits, NoRequest, Send
  <1>10. CASE Heartbeat
    BY <1>10 DEF Heartbeat, Fires, TypeOK, ThreadIds, Waits, NoRequest, Send
  <1>11. CASE HeartbeatAnswered
    BY <1>11 DEF HeartbeatAnswered, TypeOK, ThreadIds, Waits, NoRequest, Send
  <1>12. CASE HeartbeatTimeout
    BY <1>12 DEF HeartbeatTimeout, TypeOK, ThreadIds, Waits, NoRequest, Send
  <1>13. CASE Cycle
    BY <1>13 DEF Cycle, TypeOK, ThreadIds, Waits, NoRequest, Send
  <1>14. ASSUME NEW th \in ThreadIds, NrfAnswers(th)
         PROVE  GivenUpInv'
    <2>1. /\ wire[th].answer = "pending" /\ Waits(th)
          /\ UNCHANGED <<main, task, connected, late, unanswered>>
      BY <1>14 DEF NrfAnswers
    <2>2. CASE th = "main"
      <3>1. wire'["main"].answer # "pending"
        BY <1>14, <2>2 DEF NrfAnswers, TypeOK, Requests
      <3>2. main \notin {"start", "building", "serving", "freeing", "exited",
                        "killed"}
        BY <2>1, <2>2 DEF Waits
      <3>3. main = "deregistering" =>
              \/ entry' = "absent" /\ seen' = seen
              \/ UNCHANGED <<entry, seen>>
        BY <1>14, <2>2 DEF NrfAnswers, NrfApplies
      <3>. QED
        BY <2>1, <3>1, <3>2, <3>3 DEF TypeOK
    <2>3. CASE th = "task"
      <3>1. task = "beating"
        BY <2>1, <2>3 DEF Waits
      <3>. QED
        BY <2>1, <3>1
    <2>. QED
      BY <2>2, <2>3 DEF ThreadIds
  <1>15. ASSUME NEW m \in late, NrfGetsLate(m)
         PROVE  GivenUpInv'
    BY <1>15 DEF NrfGetsLate, NrfApplies, TypeOK, Methods
  <1>16. ASSUME NEW m \in late, LateIsLost(m)
         PROVE  GivenUpInv'
    BY <1>16 DEF LateIsLost
  <1>17. CASE NrfSuspends
    BY <1>17 DEF NrfSuspends
  <1>18. CASE NrfForgets
    BY <1>18 DEF NrfForgets
  <1>19. CASE Elapse
    BY <1>19 DEF Elapse
  <1>20. CASE UNCHANGED vars
    BY <1>20 DEF vars
  <1> HIDE DEF GivenUpInv, Registering, WireInv
  <1>21. QED
    BY <1>1, <1>2, <1>3, <1>4, <1>5, <1>6, <1>7, <1>8, <1>9, <1>10, <1>11,
       <1>12, <1>13, <1>14, <1>15, <1>16, <1>17, <1>18, <1>19, <1>20
    DEF Next, MainNext, TaskNext, NrfNext

-----------------------------------------------------------------------------
(***************************************************************************)
(* The invariants of the end and of the supervision are about the entry at *)
(* the NRF, that of the heartbeats about the ticks; they hold together.    *)
(***************************************************************************)
Inv ==
    /\ TypeOK
    /\ WireInv
    /\ DeregisterInv
    /\ TaskInv
    /\ SpacingInv
    /\ AnswerInv
    /\ DeadlineInv
    /\ GivenUpInv

\* At the start nothing is sent, connected or registered.
LEMMA InvInit == Init => Inv
  <1> SUFFICES ASSUME Init
               PROVE  Inv
    OBVIOUS
  <1>1. TypeOK
    BY DEF Init, TypeOK, Requests, NoRequest, Methods, Answers, Never
  <1>2. WireInv
    BY DEF Init, WireInv, ThreadIds
  <1>3. DeregisterInv /\ TaskInv /\ SpacingInv
    BY DEF Init, DeregisterInv, TaskInv, SpacingInv
  <1>4. AnswerInv /\ DeadlineInv
    BY DEF Init, AnswerInv, DeadlineInv
  <1>5. GivenUpInv
    BY DEF Init, GivenUpInv
  <1>6. QED
    BY <1>1, <1>2, <1>3, <1>4, <1>5 DEF Inv

\* Every step keeps all of them.
LEMMA InvStep == Inv /\ [Next]_vars => Inv'
  <1> SUFFICES ASSUME Inv, [Next]_vars
               PROVE  Inv'
    OBVIOUS
  <1>1. /\ TypeOK /\ WireInv /\ DeregisterInv /\ TaskInv /\ SpacingInv
        /\ AnswerInv /\ DeadlineInv /\ GivenUpInv
    BY DEF Inv
  <1>2. TypeOK'
    BY <1>1, TypeStep
  <1>3. WireInv'
    BY <1>1, WireStep
  <1>4. DeregisterInv'
    BY <1>1, DeregisterStep
  <1>5. TaskInv'
    BY <1>1, TaskStep
  <1>6. SpacingInv'
    BY <1>1, SpacingStep
  <1>7. AnswerInv'
    BY <1>1, AnswerStep
  <1>8. DeadlineInv'
    BY <1>1, DeadlineStep
  <1>9. GivenUpInv'
    BY <1>1, GivenUpStep
  <1>10. QED
    BY <1>2, <1>3, <1>4, <1>5, <1>6, <1>7, <1>8, <1>9 DEF Inv

\* They always hold.
THEOREM Invariance == Spec => []Inv
  BY InvInit, InvStep, PTL DEF Spec

(***************************************************************************)
(* The state of the registration, of the ticks and of the requests stays   *)
(* well-formed.                                                            *)
(***************************************************************************)
THEOREM TypeCorrect == Spec => []TypeOK
  <1>1. Inv => TypeOK
    BY DEF Inv
  <1>2. QED
    BY <1>1, Invariance, PTL

(***************************************************************************)
(* A process that deregisters, gets its answers and exits leaves no entry  *)
(* at the NRF, whatever heartbeat is out at the same time: a heartbeat     *)
(* that arrives late finds no entry and makes none.                        *)
(***************************************************************************)
THEOREM ExitLeavesNoEntryHolds == Spec => []ExitLeavesNoEntry
  <1>1. Inv => ExitLeavesNoEntry
    BY DEF Inv, DeregisterInv, ExitLeavesNoEntry
  <1>2. QED
    BY <1>1, Invariance, PTL

(***************************************************************************)
(* A SEPP whose heartbeat is connected is never suspended: the ticks lose  *)
(* time while an answer is out, but only once between two heartbeats, so   *)
(* that the time from one to the next stays within the announced timer.    *)
(***************************************************************************)
THEOREM SuspendedOnlyWhenCutOffHolds == Spec => []SuspendedOnlyWhenCutOff
  <1>1. Inv => SuspendedOnlyWhenCutOff
    BY DEF Inv, DeadlineInv, SuspendedOnlyWhenCutOff
  <1>2. QED
    BY <1>1, Invariance, PTL

(***************************************************************************)
(* The entry that a registration leaves after it was given up is refreshed *)
(* by nobody: the heartbeat was never connected, and the registration is   *)
(* sent once.                                                              *)
(***************************************************************************)
THEOREM GivenUpIsNotKeptAliveHolds == Spec => GivenUpIsNotKeptAlive
  <1> DEFINE Left == ("PUT" \in unanswered /\ entry # "absent") =>
                       /\ seen' = seen
                       /\ entry' = "REGISTERED" => entry = "REGISTERED"
  <1>1. ASSUME Inv, [Next]_vars, "PUT" \in unanswered, entry # "absent"
        PROVE  /\ seen' = seen
               /\ entry' = "REGISTERED" => entry = "REGISTERED"
    <2>1. /\ main \notin {"start", "registering"} /\ task # "beating"
          /\ late \subseteq {"DELETE"}
      BY <1>1 DEF Inv, GivenUpInv, TypeOK, Methods
    <2>2. ASSUME NEW th \in ThreadIds, NrfAnswers(th)
          PROVE  /\ seen' = seen
                 /\ entry' = "REGISTERED" => entry = "REGISTERED"
      <3>1. wire[th].method = "DELETE"
        BY <1>1, <2>1, <2>2 DEF NrfAnswers, Waits, Inv, WireInv, ThreadIds
      <3>. QED
        BY <2>2, <3>1 DEF NrfAnswers, NrfApplies
    <2>3. ASSUME NEW m \in late, NrfGetsLate(m)
          PROVE  /\ seen' = seen
                 /\ entry' = "REGISTERED" => entry = "REGISTERED"
      BY <2>1, <2>3 DEF NrfGetsLate, NrfApplies
    <2>4. QED
      BY <1>1, <2>2, <2>3
      DEF Next, MainNext, TaskNext, NrfNext, Register, RegisterAnswered,
          StartTask, Deregister, DeregisterAnswered, MainTimeout, Exit,
          Killed, Leave, Tick, Heartbeat, HeartbeatAnswered,
          HeartbeatTimeout, Cycle, LateIsLost, NrfSuspends, NrfForgets,
          Elapse, vars
  <1>2. Inv /\ [Next]_vars => [Left]_vars
    BY <1>1
  <1>3. QED
    BY <1>2, Invariance, PTL DEF Spec, GivenUpIsNotKeptAlive

(***************************************************************************)
(* Two heartbeats are an interval apart, less one millisecond: the ticks   *)
(* of two heartbeats are an interval apart, and every tick costs at least  *)
(* one expiration of the timer, of which one may be left over at most.     *)
(***************************************************************************)
THEOREM BeatsAreSpacedHolds == Spec => BeatsAreSpaced
  <1> DEFINE Spaced == beatAt' # beatAt /\ beatAt # Never
                         => beatAt' - beatAt >= Interval - 1
  <1>1. ASSUME Inv, [Next]_vars, beatAt' # beatAt, beatAt # Never
        PROVE  beatAt' - beatAt >= Interval - 1
    <2>1. Heartbeat
      BY <1>1
      DEF Next, MainNext, TaskNext, NrfNext, Register, RegisterAnswered,
          StartTask, Deregister, DeregisterAnswered, MainTimeout, Exit,
          Killed, Leave, Tick, HeartbeatAnswered, HeartbeatTimeout, Cycle,
          NrfAnswers, NrfGetsLate, LateIsLost, NrfSuspends, NrfForgets,
          Elapse, vars
    <2>2. task = "tick" /\ OnBeat(t) /\ beatAt' = clock /\ t \in Nat
      BY <1>1, <2>1 DEF Heartbeat, Fires, OnBeat, Inv, TypeOK
    <2>3. Upcoming = t /\ Slack = 0
      BY <2>2 DEF Upcoming, Slack
    <2>4. (clock - beatAt) + (t - t) + 0 >= Interval - 1
      BY <1>1, <2>2, <2>3 DEF Inv, SpacingInv, TypeOK
    <2>5. clock \in Nat /\ beatAt \in Nat
      BY <1>1 DEF Inv, TypeOK
    <2>6. QED
      BY <2>2, <2>4, <2>5
  <1>2. Inv /\ [Next]_vars => [Spaced]_vars
    BY <1>1
  <1>3. QED
    BY <1>2, Invariance, PTL DEF Spec, BeatsAreSpaced
=============================================================================
