------------------------------ MODULE NfRelay ------------------------------
(***************************************************************************)
(* What a pair of SEPPs promises the network functions of two PLMNs, seen  *)
(* from outside: a request of a consumer is performed by the producer it   *)
(* addresses, with the method and the body the consumer gave it, at most   *)
(* once; the consumer is given what the producer answered, or learns that  *)
(* the relay failed.  A relay that failed, or a consumer that gave up,     *)
(* does not undo the request: it may still be performed.                   *)
(***************************************************************************)
CONSTANTS
    Request,    \* the requests of all consumers
    Outcome,    \* what a producer can answer
    NoOutcome,  \* no answer yet: not in Outcome
    Failed      \* the relay failed: neither in Outcome nor NoOutcome

VARIABLES
    asked,    \* the requests made so far
    work,     \* the producer's work on each request
    outcome,  \* the producer's answer to each request
    result    \* what the consumer was given

vars == <<asked, work, outcome, result>>

Init ==
    /\ asked = {}
    /\ work = [q \in Request |-> "idle"]
    /\ outcome = [q \in Request |-> NoOutcome]
    /\ result = [q \in Request |-> NoOutcome]

Ask(q) ==
    /\ q \notin asked
    /\ asked' = asked \cup {q}
    /\ UNCHANGED <<work, outcome, result>>

Perform(q) ==
    /\ q \in asked
    /\ work[q] = "idle"
    /\ work' = [work EXCEPT ![q] = "executing"]
    /\ UNCHANGED <<asked, outcome, result>>

Produce(q) ==
    /\ work[q] = "executing"
    /\ work' = [work EXCEPT ![q] = "finished"]
    /\ \E o \in Outcome : outcome' = [outcome EXCEPT ![q] = o]
    /\ UNCHANGED <<asked, result>>

Answer(q) ==
    /\ result[q] = NoOutcome
    /\ work[q] = "finished"
    /\ result' = [result EXCEPT ![q] = outcome[q]]
    /\ UNCHANGED <<asked, work, outcome>>

Fail(q) ==
    /\ q \in asked
    /\ result[q] = NoOutcome
    /\ result' = [result EXCEPT ![q] = Failed]
    /\ UNCHANGED <<asked, work, outcome>>

Next ==
    \E q \in Request :
        Ask(q) \/ Perform(q) \/ Produce(q) \/ Answer(q) \/ Fail(q)

Spec == Init /\ [][Next]_vars
=============================================================================
