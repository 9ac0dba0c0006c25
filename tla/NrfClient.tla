------------------------------ MODULE NrfClient ------------------------------
(***************************************************************************)
(* The NRF client of the SEPP (src/src/sepp_app/sepp_nrf.cpp), the event   *)
(* subsystem (sepp_event.cpp) and the task manager (task_manager.cpp),     *)
(* against one NRF, which is outside the program.                          *)
(*                                                                         *)
(* Two threads of the program act here.  The main thread registers the     *)
(* instance while it builds the application and, in the signal handler,    *)
(* deregisters it.  The task thread counts ticks and sends a heartbeat     *)
(* from inside the tick, so that a slow answer holds the ticks up.  The    *)
(* two share the HTTP client and nothing stops the task thread before the  *)
(* deregistration.                                                         *)
(*                                                                         *)
(* Time is counted in one unit everywhere: a unit stands for the           *)
(* millisecond of the timer, and Interval, Supervision, MaxDelay and       *)
(* MaxBuild are scaled down together.                                      *)
(***************************************************************************)
EXTENDS Integers

CONSTANTS
  Interval,     \* HEART_BEAT_TIMER * 1000: ticks from a heartbeat to the next
  Supervision,  \* heartBeat_timer of the profile: after this long without a
                \* heartbeat the NRF suspends the instance
  MaxDelay,     \* the longest a request is out before send_http_request gives
                \* it up
  MaxBuild,     \* the longest the rest of the constructor of sepp_app takes
                \* after the registration (the capability and parameter
                \* exchanges with the peer)
  Horizon       \* bound of the checked instance: the clock stops here

ASSUME ConstantsAssumption ==
  /\ Interval \in Nat \ {0}
  /\ Supervision \in Nat
  /\ MaxDelay \in Nat \ {0}
  /\ MaxBuild \in Nat
  /\ Horizon \in Nat

\* The timer announced to the NRF leaves room for the way to the first
\* heartbeat: the rest of the start, one interval, and one request.
ASSUME BudgetAssumption == Interval + MaxBuild + MaxDelay <= Supervision

VARIABLES
  clock,      \* system_clock
  main,       \* where the main thread, or the signal handler on it, is
  task,       \* where the task thread is
  t,          \* the tick that manage_tasks passes to task_tick
  exp,        \* expirations of the timer since its last read
  due,        \* first tick the heartbeat is due at (start of subscribe_...)
  connected,  \* the heartbeat slot is connected (m_task_connection)
  wire,       \* the request each thread waits for an answer to
  late,       \* requests given up by their sender that may still arrive
  unanswered, \* ghost: methods of the main thread that got no answer
  beatAt,     \* ghost: when the last heartbeat was sent, or Never
  entry,      \* the NRF's entry for m_sepp_instance_id
  seen        \* when the NRF last heard of the instance

vars == <<clock, main, task, t, exp, due, connected, wire, late, unanswered,
          beatAt, entry, seen>>

Never == -1

ThreadIds == {"main", "task"}
Methods == {"PUT", "PATCH", "DELETE"}
Answers == {"pending", "ok", "refused"}

\* What a thread may wait for.
Requests == [method : Methods \cup {"none"}, sent : Nat, answer : Answers]

\* A thread that waits for no answer.
NoRequest == [method |-> "none", sent |-> 0, answer |-> "pending"]

\* A request just handed to send_http_request, which blocks the thread.
Send(m) == [method |-> m, sent |-> clock, answer |-> "pending"]

Waits(th) == wire[th] # NoRequest

\* Variant: the period is the timer the profile announces to the NRF.
FiresAtSupervision(tick) ==
  connected /\ tick >= due /\ (tick - due) % Supervision = 0

\* Variant: the period is not looked at.
FiresFromStart(tick) == connected /\ tick >= due

\* The ticks at which the lambda of sepp_event calls its slot.
Fires(tick) == connected /\ tick >= due /\ (tick - due) % Interval = 0

\* Variant: the interval is taken off the clock.
FirstBeatInThePast == clock - Interval

\* The first heartbeat is due one interval after the answer that is handled.
FirstBeat == clock + Interval

\* Variant: the heartbeat registers the profile again.
BeatRegisters == Send("PUT")

\* What the heartbeat sends: a PATCH of /nfStatus to m_nrf_url.
Beat == Send("PATCH")

Init ==
  /\ clock = 0
  /\ main = "start"
  /\ task = "unborn"
  /\ t = 0
  /\ exp = 0
  /\ due = 0
  /\ connected = FALSE
  /\ wire = [th \in ThreadIds |-> NoRequest]
  /\ late = {}
  /\ unanswered = {}
  /\ beatAt = Never
  /\ entry = "absent"
  /\ seen = 0
-----------------------------------------------------------------------------
(* The main thread. *)

\* register_to_nrf, up to the answer.
Register ==
  /\ main = "start"
  /\ main' = "registering"
  /\ wire' = [wire EXCEPT !["main"] = Send("PUT")]
  /\ UNCHANGED <<clock, task, t, exp, due, connected, late, unanswered,
                 entry, seen, beatAt>>

\* register_to_nrf, from the answer: 200 and 201 start the heartbeat (the test
\* of the body, find("REGISTERED") != 0, holds of every JSON document), any
\* other answer is only logged.
RegisterAnswered ==
  /\ main = "registering"
  /\ wire["main"].answer # "pending"
  /\ main' = "building"
  /\ IF wire["main"].answer = "ok"
     THEN connected' = TRUE /\ due' = FirstBeat
     ELSE UNCHANGED <<connected, due>>
  /\ wire' = [wire EXCEPT !["main"] = NoRequest]
  /\ UNCHANGED <<clock, task, t, exp, late, unanswered, entry, seen, beatAt>>

\* The application is built and published, the timer of the task manager is
\* armed (with an absolute time that is already past, so that it has expired
\* at once) and the task thread reads the clock.
StartTask ==
  /\ main = "building"
  /\ main' = "serving"
  /\ task' = "tick"
  /\ t' = clock
  /\ exp' = 1
  /\ UNCHANGED <<clock, due, connected, wire, late, unanswered, entry, seen,
                 beatAt>>

\* deregister_to_nrf, called by sepp_app::stop in the signal handler.  The
\* heartbeat stays connected.
Deregister ==
  /\ main = "serving"
  /\ main' = "deregistering"
  /\ wire' = [wire EXCEPT !["main"] = Send("DELETE")]
  /\ UNCHANGED <<clock, task, t, exp, due, connected, late, unanswered,
                 entry, seen, beatAt>>

\* deregister_to_nrf only logs the answer.
DeregisterAnswered ==
  /\ main = "deregistering"
  /\ wire["main"].answer # "pending"
  /\ main' = "freeing"
  /\ wire' = [wire EXCEPT !["main"] = NoRequest]
  /\ UNCHANGED <<clock, task, t, exp, due, connected, late, unanswered,
                 entry, seen, beatAt>>

\* Variant: the heartbeat is started whatever became of the registration.
MainTimeoutConnects ==
  /\ Waits("main")
  /\ wire["main"].answer = "pending"
  /\ main' = IF main = "registering" THEN "building" ELSE "freeing"
  /\ IF main = "registering" THEN connected' = TRUE /\ due' = FirstBeat
     ELSE UNCHANGED <<connected, due>>
  /\ late' = late \cup {wire["main"].method}
  /\ unanswered' = unanswered \cup {wire["main"].method}
  /\ wire' = [wire EXCEPT !["main"] = NoRequest]
  /\ UNCHANGED <<clock, task, t, exp, entry, seen, beatAt>>

\* The main thread gives a request up: status_code is none of the expected.
MainTimeout ==
  /\ Waits("main")
  /\ wire["main"].answer = "pending"
  /\ main' = IF main = "registering" THEN "building" ELSE "freeing"
  /\ late' = late \cup {wire["main"].method}
  /\ unanswered' = unanswered \cup {wire["main"].method}
  /\ wire' = [wire EXCEPT !["main"] = NoRequest]
  /\ UNCHANGED <<clock, task, t, exp, due, connected, entry, seen, beatAt>>

\* exit(0) at the end of the handler, or the end of the process without it:
\* a crash, or a signal that comes before the application is published, when
\* the handler finds sepp_app_inst null and deregisters nothing.  A heartbeat
\* that is out may still reach the NRF.
Leave(last) ==
  /\ main' = last
  /\ task' = "gone"
  /\ connected' = FALSE
  /\ late' = late \cup {wire[th].method : th \in {x \in ThreadIds :
                          Waits(x) /\ wire[x].answer = "pending"}}
  /\ wire' = [th \in ThreadIds |-> NoRequest]
  /\ UNCHANGED <<clock, t, exp, due, unanswered, entry, seen, beatAt>>

Exit == main = "freeing" /\ Leave("exited")

Killed == main \notin {"exited", "killed"} /\ Leave("killed")
-----------------------------------------------------------------------------
(* The task thread: manage_tasks, task_tick, wait_for_cycle. *)

\* task_tick(t) when no heartbeat is due.
Tick ==
  /\ task = "tick"
  /\ ~Fires(t)
  /\ task' = "cycle"
  /\ t' = t + 1
  /\ UNCHANGED <<clock, main, exp, due, connected, wire, late, unanswered,
                 entry, seen, beatAt>>

\* task_tick(t) when one is: trigger_nf_heartbeat_procedure, up to the answer.
Heartbeat ==
  /\ task = "tick"
  /\ Fires(t)
  /\ task' = "beating"
  /\ wire' = [wire EXCEPT !["task"] = Beat]
  /\ beatAt' = clock
  /\ UNCHANGED <<clock, main, t, exp, due, connected, late, unanswered,
                 entry, seen>>

\* trigger_nf_heartbeat_procedure, from the answer, and the rest of the tick.
HeartbeatAnswered ==
  /\ task = "beating"
  /\ wire["task"].answer # "pending"
  /\ connected' = (connected /\ wire["task"].answer = "ok")
  /\ task' = "cycle"
  /\ t' = t + 1
  /\ wire' = [wire EXCEPT !["task"] = NoRequest]
  /\ UNCHANGED <<clock, main, exp, due, late, unanswered, entry, seen, beatAt>>

\* The heartbeat is given up, which is an answer neither 200 nor 204.
HeartbeatTimeout ==
  /\ task = "beating"
  /\ wire["task"].answer = "pending"
  /\ connected' = FALSE
  /\ task' = "cycle"
  /\ t' = t + 1
  /\ late' = late \cup {"PATCH"}
  /\ wire' = [wire EXCEPT !["task"] = NoRequest]
  /\ UNCHANGED <<clock, main, exp, due, unanswered, entry, seen, beatAt>>

\* wait_for_cycle: the read returns the number of expirations, which nothing
\* looks at, and resets it.
Cycle ==
  /\ task = "cycle"
  /\ exp > 0
  /\ task' = "tick"
  /\ exp' = 0
  /\ UNCHANGED <<clock, main, t, due, connected, wire, late, unanswered,
                 entry, seen, beatAt>>
-----------------------------------------------------------------------------
(* The NRF, and time. *)

\* What the NRF does with a request, seen from how the program uses it: PUT
\* creates or replaces the entry, PATCH refreshes one that is there and
\* creates none, DELETE removes it.
NrfApplies(m) ==
  CASE m = "PUT" ->
         entry' = "REGISTERED" /\ seen' = clock
    [] m = "PATCH" ->
         IF entry = "absent" THEN UNCHANGED <<entry, seen>>
         ELSE entry' = "REGISTERED" /\ seen' = clock
    [] m = "DELETE" ->
         entry' = "absent" /\ UNCHANGED seen

\* The NRF answers a request.  It refuses a PATCH or a DELETE of an entry it
\* does not have, and may refuse a PUT or a PATCH for reasons of its own.
NrfAnswers(th) ==
  LET m == wire[th].method IN
  /\ Waits(th)
  /\ wire[th].answer = "pending"
  /\ \/ /\ m = "PUT" \/ entry # "absent"
        /\ NrfApplies(m)
        /\ wire' = [wire EXCEPT ![th].answer = "ok"]
     \/ /\ m # "DELETE" \/ entry = "absent"
        /\ wire' = [wire EXCEPT ![th].answer = "refused"]
        /\ UNCHANGED <<entry, seen>>
  /\ UNCHANGED <<clock, main, task, t, exp, due, connected, late, unanswered,
                 beatAt>>

\* A request whose sender gave it up, or is gone, still reaches the NRF ...
NrfGetsLate(m) ==
  /\ m \in late
  /\ NrfApplies(m)
  /\ late' = late \ {m}
  /\ UNCHANGED <<clock, main, task, t, exp, due, connected, wire, unanswered,
                 beatAt>>

\* ... or is lost.
LateIsLost(m) ==
  /\ m \in late
  /\ late' = late \ {m}
  /\ UNCHANGED <<clock, main, task, t, exp, due, connected, wire, unanswered,
                 entry, seen, beatAt>>

\* The NRF has not heard of the instance for longer than its heartBeatTimer.
NrfSuspends ==
  /\ entry = "REGISTERED"
  /\ clock - seen > Supervision
  /\ entry' = "SUSPENDED"
  /\ UNCHANGED <<clock, main, task, t, exp, due, connected, wire, late,
                 unanswered, seen, beatAt>>

\* The NRF restarts and has forgotten the instance.
NrfForgets ==
  /\ entry # "absent"
  /\ entry' = "absent"
  /\ UNCHANGED <<clock, main, task, t, exp, due, connected, wire, late,
                 unanswered, seen, beatAt>>

\* Time passes.  The threads are not starved: a tick that can run runs before
\* the clock moves on, no request is out longer than MaxDelay, the constructor
\* ends in time and the handler goes on to its exit.
Elapse ==
  /\ clock < Horizon
  /\ task # "tick"
  /\ ~(task = "cycle" /\ exp > 0)
  /\ \A th \in ThreadIds : Waits(th) =>
       wire[th].answer = "pending" /\ clock < wire[th].sent + MaxDelay
  /\ main = "building" /\ connected => clock < due - Interval + MaxBuild
  /\ clock' = clock + 1
  /\ exp' = IF task \in {"beating", "cycle"} THEN exp + 1 ELSE exp
  /\ UNCHANGED <<main, task, t, due, connected, wire, late, unanswered,
                 entry, seen, beatAt>>

MainNext ==
  \/ Register \/ RegisterAnswered \/ StartTask \/ Deregister
  \/ DeregisterAnswered \/ MainTimeout \/ Exit \/ Killed

TaskNext ==
  \/ Tick \/ Heartbeat \/ HeartbeatAnswered \/ HeartbeatTimeout \/ Cycle

NrfNext ==
  \/ \E th \in ThreadIds : NrfAnswers(th)
  \/ \E m \in late : NrfGetsLate(m) \/ LateIsLost(m)
  \/ NrfSuspends
  \/ NrfForgets

Next == MainNext \/ TaskNext \/ NrfNext \/ Elapse

Spec == Init /\ [][Next]_vars
-----------------------------------------------------------------------------
TypeOK ==
  /\ clock \in Nat
  /\ main \in {"start", "registering", "building", "serving",
               "deregistering", "freeing", "exited", "killed"}
  /\ task \in {"unborn", "tick", "beating", "cycle", "gone"}
  /\ t \in Nat
  /\ exp \in Nat
  /\ due \in Nat
  /\ connected \in BOOLEAN
  /\ wire \in [ThreadIds -> Requests]
  /\ late \subseteq Methods
  /\ unanswered \subseteq Methods
  /\ beatAt \in Nat \cup {Never}
  /\ entry \in {"absent", "REGISTERED", "SUSPENDED"}
  /\ seen \in Nat

\* As long as its heartbeat is connected, the NRF never suspends the SEPP: the
\* interval of the client (HEART_BEAT_TIMER), the timer the profile announces
\* and the delays the ticks accumulate fit together, whatever the answers
\* take.  A suspended SEPP is one whose heartbeat a failure has cut off.
SuspendedOnlyWhenCutOff == entry = "SUSPENDED" => ~connected

\* A SEPP that deregistered and exited has no entry at the NRF, although a
\* heartbeat may run concurrently with the deregistration and arrive after it,
\* unless the NRF left one of the main thread's own requests unanswered.
ExitLeavesNoEntry ==
  main = "exited" /\ unanswered = {} => entry = "absent"

\* A registration that was given up is not repeated and starts no heartbeat,
\* but may still arrive and make an entry.  Nothing refreshes that entry then,
\* neither a heartbeat nor a second registration, so that consumers are not led
\* for longer than the NRF's timer to a SEPP that does not know of its entry.
GivenUpIsNotKeptAlive ==
  [][("PUT" \in unanswered /\ entry # "absent") =>
       /\ seen' = seen
       /\ entry' = "REGISTERED" => entry = "REGISTERED"]_vars

\* Two heartbeats are never sent closer than the interval, but for the one
\* tick by which the first read of the timer comes early, although the tick
\* after a slow answer follows at once (sepp_event.cpp: "the callback is only
\* called every X ms").
BeatsAreSpaced ==
  [][beatAt' # beatAt /\ beatAt # Never
       => beatAt' - beatAt >= Interval - 1]_vars

\* wait_for_cycle is there to "Make sure that the task tick run every 1ms"
\* (task_manager.hpp): when the thread has consumed every expiration of the
\* timer, it has run the tick of every millisecond up to now.
TickEveryMillisecond == task = "cycle" /\ exp = 0 => t >= clock
=============================================================================
