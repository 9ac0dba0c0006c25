----------------------------- MODULE SeppProcess -----------------------------
(***************************************************************************)
(* One SEPP process: the order in which main (src/src/oai_sepp/main.cpp)   *)
(* builds the configuration, the application, the task thread and the      *)
(* servers, the threads that use them, and the signal handler that takes   *)
(* them down again.                                                        *)
(*                                                                         *)
(* The objects are global unique_ptrs that no lock protects.  The handler  *)
(* runs on whatever thread the signal is delivered to and holds that       *)
(* thread; the others go on.  It stops the HTTP/1 server and the SBI       *)
(* server but not the NBI server and not the task thread.                  *)
(*                                                                         *)
(* A thread that uses an object that is not there is recorded in faults.   *)
(* Through a null pointer the process dies; through an object that was     *)
(* freed under the thread it dies or goes on.                              *)
(***************************************************************************)
EXTENDS Naturals

CONSTANT MaxSignals   \* bound: signals delivered to the process

ASSUME MaxSignalsAssumption == MaxSignals \in Nat

VARIABLES
  http,     \* http_version of the configuration
  boot,     \* where main is
  ptr,      \* the global pointers: which of them are set
  at,       \* where the other threads are
  running,  \* running_server of the SBI server
  stopping, \* the servers whose stop or shutdown has taken hold
  handler,  \* where the signal handler is, on each thread
  signals,  \* signals delivered so far
  stopped,  \* sepp_app::stop has returned
  freed,    \* the handler has reset a published application
  early,    \* ghost: a signal came before the SBI server listens
  faults,   \* threads that used what was not there
  ended     \* how the process ended

vars == <<http, boot, ptr, at, running, stopping, handler, signals, stopped,
          freed, early, faults, ended>>

Threads == {"main", "task", "api", "sbi", "nbi"}
Objects == {"cfg", "app", "api", "sbi"}

Init ==
  /\ http \in {1, 2}
  /\ boot = "config"
  /\ ptr = [o \in Objects |-> FALSE]
  /\ at = [th \in Threads \ {"main"} |-> "unborn"]
  /\ running = FALSE
  /\ stopping = {}
  /\ handler = [th \in Threads |-> "none"]
  /\ signals = 0
  /\ stopped = FALSE
  /\ freed = FALSE
  /\ early = FALSE
  /\ faults = {}
  /\ ended = "no"

\* The SBI server can be stopped: its thread is inside listen_and_serve.
SbiListens == at["sbi"] \in {"listening", "using", "calling"}

\* A thread that is inside a member function of the application.
InApp(th) ==
  \/ th # "main" /\ at[th] \in {"calling", "beating"}
  \/ handler[th] = "in_stop"

\* A thread runs its own code only while no handler runs on it.
Runs(th) == ended = "no" /\ handler[th] = "none"

\* Variant: the servers are started before the application is built.
AfterServersFirst(step) ==
  CASE step = "config" -> "server"
    [] step = "server" -> IF http = 1 THEN "app" ELSE "sbi"
    [] step = "sbi"    -> "nbi"
    [] step = "nbi"    -> "app"
    [] step = "app"    -> "task"
    [] step = "task"   -> "join"
    [] step = "join"   -> "status"
    [] step = "status" -> "pause"

\* Variant: the HTTP/2 servers are started with either version.
AfterWithoutBranch(step) ==
  CASE step = "config" -> "app"
    [] step = "app"    -> "task"
    [] step = "task"   -> "server"
    [] step = "server" -> "sbi"
    [] step = "sbi"    -> "nbi"
    [] step = "nbi"    -> "join"
    [] step = "join"   -> "status"
    [] step = "status" -> "pause"

\* The order of main.
After(step) ==
  CASE step = "config" -> "app"
    [] step = "app"    -> "task"
    [] step = "task"   -> "server"
    [] step = "server" -> IF http = 1 THEN "join" ELSE "sbi"
    [] step = "sbi"    -> "nbi"
    [] step = "nbi"    -> "join"
    [] step = "join"   -> "status"
    [] step = "status" -> "pause"

\* A thread uses an object that is not there.
Faults(th, outcomes) ==
  /\ faults' = faults \cup {th}
  /\ ended' \in outcomes
-----------------------------------------------------------------------------
(* main *)

\* Options are parsed, the handlers are installed; the configuration is read
\* and checked, or main returns 1.
ReadConfig ==
  /\ Runs("main") /\ boot = "config"
  /\ \/ /\ ptr' = [ptr EXCEPT !["cfg"] = TRUE]
        /\ boot' = After(boot)
        /\ UNCHANGED ended
     \/ /\ ended' = "returned"
        /\ UNCHANGED <<ptr, boot>>
  /\ UNCHANGED <<http, at, running, stopping, handler, signals, stopped,
                 freed, early, faults>>

\* The constructor of sepp_app registers, waits and shakes hands; only then is
\* sepp_app_inst set.
PublishApp ==
  /\ Runs("main") /\ boot = "app"
  /\ ptr' = [ptr EXCEPT !["app"] = TRUE]
  /\ boot' = After(boot)
  /\ UNCHANGED <<http, at, running, stopping, handler, signals, stopped,
                 freed, early, faults, ended>>

StartTask ==
  /\ Runs("main") /\ boot = "task"
  /\ at' = [at EXCEPT !["task"] = "ticking"]
  /\ boot' = After(boot)
  /\ UNCHANGED <<http, ptr, running, stopping, handler, signals, stopped,
                 freed, early, faults, ended>>

\* The HTTP/1 server and its thread, or the SBI server, whose running_server
\* has no initial value.
PlaceServer ==
  /\ boot' = After(boot)
  /\ IF http = 1
     THEN /\ ptr' = [ptr EXCEPT !["api"] = TRUE]
          /\ at' = [at EXCEPT !["api"] = "starting"]
          /\ UNCHANGED running
     ELSE /\ ptr' = [ptr EXCEPT !["sbi"] = TRUE]
          /\ running' \in BOOLEAN
          /\ UNCHANGED at
  /\ UNCHANGED <<faults, ended>>

\* Version, addresses and ports are read through sepp_cfg, which a handler on
\* the task thread may have reset.
MakeServer ==
  /\ Runs("main") /\ boot = "server"
  /\ IF ptr["cfg"] THEN PlaceServer
     ELSE Faults("main", {"crashed"}) /\ UNCHANGED <<boot, ptr, at, running>>
  /\ UNCHANGED <<http, stopping, handler, signals, stopped, freed, early>>

\* The threads of the SBI server and of the NBI server; the latter is made
\* just before its thread, with an address and a port read through sepp_cfg.
StartServer(th) ==
  /\ Runs("main") /\ boot = th
  /\ IF th = "sbi" \/ ptr["cfg"]
     THEN /\ boot' = After(boot)
          /\ at' = [at EXCEPT ![th] = "starting"]
          /\ UNCHANGED <<faults, ended>>
     ELSE Faults("main", {"crashed"}) /\ UNCHANGED <<boot, at>>
  /\ UNCHANGED <<http, ptr, running, stopping, handler, signals, stopped,
                 freed, early>>

\* main waits for the thread of the HTTP/1 server, or for both HTTP/2 servers.
Join ==
  /\ Runs("main") /\ boot = "join"
  /\ \A th \in (IF http = 1 THEN {"api"} ELSE {"sbi", "nbi"}) :
       at[th] = "returned"
  /\ boot' = After(boot)
  /\ UNCHANGED <<http, ptr, at, running, stopping, handler, signals, stopped,
                 freed, early, faults, ended>>

\* The status file gets its line when no server is left, and main pauses.
WriteStatus ==
  /\ Runs("main") /\ boot = "status"
  /\ boot' = After(boot)
  /\ UNCHANGED <<http, ptr, at, running, stopping, handler, signals, stopped,
                 freed, early, faults, ended>>
-----------------------------------------------------------------------------
(* The other threads. *)

Goto(th, to) == at' = [at EXCEPT ![th] = to]

\* SEPPApiServer::start: the router has no routes, so that the handlers of the
\* HTTP/1 server reach nothing.
ApiServes ==
  /\ Runs("api") /\ at["api"] = "starting"
  /\ \E to \in {"listening", "returned"} : Goto("api", to)
  /\ IF ptr["api"] THEN UNCHANGED <<faults, ended>>
     ELSE Faults("api", {"no", "crashed"})
  /\ UNCHANGED <<http, boot, ptr, running, stopping, handler, signals,
                 stopped, freed, early>>

ApiReturns ==
  /\ Runs("api") /\ at["api"] = "listening" /\ "api" \in stopping
  /\ Goto("api", "returned")
  /\ UNCHANGED <<http, boot, ptr, running, stopping, handler, signals,
                 stopped, freed, early, faults, ended>>

\* sepp_http2_sbi_server::start up to the call of listen_and_serve.
SbiOpens ==
  /\ Runs("sbi") /\ at["sbi"] = "starting"
  /\ running' = TRUE
  /\ Goto("sbi", "opening")
  /\ IF ptr["sbi"] THEN UNCHANGED <<faults, ended>>
     ELSE Faults("sbi", {"no", "crashed"})
  /\ UNCHANGED <<http, boot, ptr, stopping, handler, signals, stopped, freed,
                 early>>

SbiListensNow ==
  /\ Runs("sbi") /\ at["sbi"] = "opening"
  /\ Goto("sbi", "listening")
  /\ UNCHANGED <<http, boot, ptr, running, stopping, handler, signals,
                 stopped, freed, early, faults, ended>>

\* listen_and_serve returns: the address cannot be bound, or the server was
\* stopped while no handler ran.  start then ends.
SbiReturns ==
  /\ Runs("sbi")
  /\ \/ at["sbi"] = "opening"
     \/ (at["sbi"] = "listening" /\ "sbi" \in stopping)
  /\ running' = FALSE
  /\ Goto("sbi", "returned")
  /\ UNCHANGED <<http, boot, ptr, stopping, handler, signals, stopped, freed,
                 early, faults, ended>>

\* sepp_http2_nbi_server::start: whether TLS is on is read from sepp_cfg when
\* the thread gets there.  A bad certificate or address ends it.
NbiOpens ==
  /\ Runs("nbi") /\ at["nbi"] = "starting"
  /\ IF ptr["cfg"]
     THEN /\ \E to \in {"listening", "returned"} : Goto("nbi", to)
          /\ UNCHANGED <<faults, ended>>
     ELSE Faults("nbi", {"crashed"}) /\ UNCHANGED at
  /\ UNCHANGED <<http, boot, ptr, running, stopping, handler, signals,
                 stopped, freed, early>>

\* A server thread takes a request.  The NBI handlers and the telescopic route
\* of the SBI answer 503 when sepp_app_inst is null; the generic route of the
\* SBI does not look.
Receive(th) ==
  /\ Runs(th) /\ at[th] = "listening" /\ th \notin stopping
  /\ ptr["app"] \/ th = "sbi"
  /\ Goto(th, "using")
  /\ UNCHANGED <<http, boot, ptr, running, stopping, handler, signals,
                 stopped, freed, early, faults, ended>>

\* The call through sepp_app_inst.
Use(th) ==
  /\ Runs(th) /\ at[th] = "using"
  /\ IF ptr["app"]
     THEN Goto(th, "calling") /\ UNCHANGED <<faults, ended>>
     ELSE Faults(th, {"crashed"}) /\ UNCHANGED at
  /\ UNCHANGED <<http, boot, ptr, running, stopping, handler, signals,
                 stopped, freed, early>>

\* The call returns and the request is answered.
Answer(th) ==
  /\ Runs(th) /\ at[th] = "calling"
  /\ Goto(th, "listening")
  /\ UNCHANGED <<http, boot, ptr, running, stopping, handler, signals,
                 stopped, freed, early, faults, ended>>

\* A heartbeat of the task thread calls a member of sepp_nrf, which belongs to
\* the application; the slot outlives it.
Beat ==
  /\ Runs("task") /\ at["task"] = "ticking"
  /\ Goto("task", "beating")
  /\ IF ptr["app"] THEN UNCHANGED <<faults, ended>>
     ELSE Faults("task", {"no", "crashed"})
  /\ UNCHANGED <<http, boot, ptr, running, stopping, handler, signals,
                 stopped, freed, early>>

BeatEnds ==
  /\ Runs("task") /\ at["task"] = "beating"
  /\ Goto("task", "ticking")
  /\ UNCHANGED <<http, boot, ptr, running, stopping, handler, signals,
                 stopped, freed, early, faults, ended>>
-----------------------------------------------------------------------------
(* my_app_signal_handler *)

\* The SBI server does not listen yet, and the signal does not itself keep main
\* from ever making it.
BeforeSbiListens(th) ==
  /\ http = 2 /\ ~SbiListens /\ at["sbi"] # "returned"
  /\ th = "main" => ptr["sbi"]

\* A signal is delivered to a thread that runs no handler yet.
Signal(th) ==
  /\ Runs(th)
  /\ th # "main" => at[th] \notin {"unborn", "returned"}
  /\ signals < MaxSignals
  /\ signals' = signals + 1
  /\ handler' = [handler EXCEPT ![th] = "entered"]
  /\ early' = (early \/ BeforeSbiListens(th))
  /\ UNCHANGED <<http, boot, ptr, at, running, stopping, stopped, freed,
                 faults, ended>>

Step(th, from, to) ==
  /\ ended = "no" /\ handler[th] = from
  /\ handler' = [handler EXCEPT ![th] = to]

\* Variant: the wait is for a stop that nobody asked for.
WaitForServers(th) ==
  /\ Step(th, "entered", IF ptr["sbi"] THEN "waiting" ELSE "stop")
  /\ UNCHANGED <<http, boot, ptr, at, running, stopping, signals, stopped,
                 freed, early, faults, ended>>

\* The HTTP/1 server is shut down, and stop() of the SBI server asks the
\* library to stop.  A server that does not listen yet has nothing to stop; in
\* between, inside listen_and_serve, the library may or may not notice.
StopServers(th) ==
  /\ Step(th, "entered", IF ptr["sbi"] THEN "waiting" ELSE "stop")
  /\ \E noticed \in BOOLEAN :
       stopping' = stopping
         \cup {s \in {"api"} : ptr["api"]}
         \cup {s \in {"sbi"} : ptr["sbi"] /\
                 (SbiListens \/ (at["sbi"] = "opening" /\ noticed))}
  /\ UNCHANGED <<http, boot, ptr, at, running, signals, stopped, freed,
                 early, faults, ended>>

\* Variant: stop() does not wait for the server's thread.
NoWait(th) ==
  /\ Step(th, "waiting", "stop")
  /\ UNCHANGED <<http, boot, ptr, at, running, stopping, signals, stopped,
                 freed, early, faults, ended>>

\* The loop of stop() on running_server.
WaitEnds(th) ==
  /\ ~running
  /\ Step(th, "waiting", "stop")
  /\ IF ptr["sbi"] THEN UNCHANGED <<faults, ended>>
     ELSE Faults(th, {"no", "crashed"})
  /\ UNCHANGED <<http, boot, ptr, at, running, stopping, signals, stopped,
                 freed, early>>

\* Variant: the application is not stopped when a server thread is in it.
StopAppUnlessUsed(th) ==
  /\ Step(th, "stop", IF ptr["app"] /\ ~\E x \in Threads \ {th} : InApp(x)
                      THEN "in_stop" ELSE "free")
  /\ UNCHANGED <<http, boot, ptr, at, running, stopping, signals, stopped,
                 freed, early, faults, ended>>

\* sepp_app::stop, if there is an application ...
StopApp(th) ==
  /\ Step(th, "stop", IF ptr["app"] THEN "in_stop" ELSE "free")
  /\ UNCHANGED <<http, boot, ptr, at, running, stopping, signals, stopped,
                 freed, early, faults, ended>>

\* ... which terminates the context and deregisters, and returns.
StopReturns(th) ==
  /\ Step(th, "in_stop", "free")
  /\ stopped' = TRUE
  /\ UNCHANGED <<http, boot, ptr, at, running, stopping, signals, freed,
                 early, faults, ended>>

\* The four pointers are reset.  Threads that are inside the application, and
\* server threads that are inside their server, lose it under them: nothing
\* waits for the thread of the HTTP/1 server.
Free(th) ==
  LET under ==
        {x \in Threads \ {th} :
           \/ ptr["app"] /\ InApp(x)
           \/ x \in {"api", "sbi"} /\ ptr[x]
                /\ at[x] \notin {"unborn", "starting", "returned"}}
  IN
  /\ Step(th, "free", "exit")
  /\ ptr' = [o \in Objects |-> FALSE]
  /\ freed' = (freed \/ ptr["app"])
  /\ faults' = faults \cup under
  /\ IF under = {} THEN UNCHANGED ended ELSE ended' \in {"no", "crashed"}
  /\ UNCHANGED <<http, boot, at, running, stopping, signals, stopped, early>>

Exit(th) ==
  /\ Step(th, "exit", "exited")
  /\ ended' = "exited"
  /\ UNCHANGED <<http, boot, ptr, at, running, stopping, signals, stopped,
                 freed, early, faults>>

MainStep ==
  \/ ReadConfig \/ PublishApp \/ StartTask \/ MakeServer
  \/ StartServer("sbi") \/ StartServer("nbi") \/ Join \/ WriteStatus

ApiStep == ApiServes \/ ApiReturns

SbiStep ==
  SbiOpens \/ SbiListensNow \/ SbiReturns \/ Use("sbi") \/ Answer("sbi")

NbiStep == NbiOpens \/ Use("nbi") \/ Answer("nbi")

TaskStep == BeatEnds

HandlerStep(th) ==
  \/ StopServers(th) \/ WaitEnds(th) \/ StopApp(th) \/ StopReturns(th)
  \/ Free(th) \/ Exit(th)

\* What comes from outside, or is not bound to come: requests, heartbeats that
\* are due, signals.
Input ==
  \/ Receive("sbi") \/ Receive("nbi") \/ Beat
  \/ \E th \in Threads : Signal(th)

Next ==
  \/ MainStep \/ ApiStep \/ SbiStep \/ NbiStep \/ TaskStep \/ Input
  \/ \E th \in Threads : HandlerStep(th)

Spec == Init /\ [][Next]_vars

\* The operating system runs every thread, and every call through the HTTP
\* client ends, by its timeout if not before.
Fairness ==
  /\ WF_vars(MainStep) /\ WF_vars(ApiStep) /\ WF_vars(SbiStep)
  /\ WF_vars(NbiStep) /\ WF_vars(TaskStep)
  /\ \A th \in Threads : WF_vars(HandlerStep(th))

FairSpec == Spec /\ Fairness
-----------------------------------------------------------------------------
\* Each thread is in a state of its own code, and the threads of the one HTTP
\* version are never born under the other (the branch of main on the version).
TypeOK ==
  /\ http \in {1, 2}
  /\ boot \in {"config", "app", "task", "server", "sbi", "nbi", "join",
               "status", "pause"}
  /\ ptr \in [Objects -> BOOLEAN]
  /\ at \in [Threads \ {"main"} ->
               {"unborn", "starting", "opening", "listening", "using",
                "calling", "returned", "ticking", "beating"}]
  /\ at["task"] \in {"unborn", "ticking", "beating"}
  /\ at["api"] \in {"unborn", "starting", "listening", "returned"}
  /\ at["sbi"] \notin {"ticking", "beating"}
  /\ at["nbi"] \notin {"ticking", "beating", "opening"}
  /\ http = 1 => /\ boot \notin {"sbi", "nbi"}
                 /\ at["sbi"] = "unborn" /\ at["nbi"] = "unborn"
  /\ http = 2 => at["api"] = "unborn"
  /\ running \in BOOLEAN
  /\ stopping \subseteq {"api", "sbi"}
  /\ handler \in [Threads -> {"none", "entered", "waiting", "stop",
                              "in_stop", "free", "exit", "exited"}]
  /\ signals \in Nat
  /\ {stopped, freed, early} \subseteq BOOLEAN
  /\ faults \subseteq Threads
  /\ ended \in {"no", "returned", "crashed", "exited"}

\* No thread uses an object before main has published it or after it is gone,
\* until a signal handler has taken the objects down; and that comes after
\* sepp_app::stop has returned.  The order of main makes the unlocked pointers
\* safe while the process serves, and a use after free, which the code does
\* have, finds the context terminated and the registration withdrawn.
SafeUntilTakenDown ==
  faults # {} =>
    stopped /\ \E th \in Threads : handler[th] \in {"exit", "exited"}

\* The generic route of the SBI server uses sepp_app_inst without looking
\* whether it is set.  What makes that safe is the wait in stop(): from the
\* moment a handler enters sepp_app::stop no request is in the hands of the
\* SBI thread, unless the signal came before that server listened.  So none is
\* sent with the copy of the context id that the termination leaves in the
\* forwarding object, and none meets an application that is freed.
StopProtectsSbi ==
  (freed \/ stopped \/ \E th \in Threads : handler[th] = "in_stop") /\ ~early
    => at["sbi"] \notin {"using", "calling"}

\* The handler never frees an application, on whatever threads it runs, that
\* was not stopped (its context terminated, its registration withdrawn).
FreedOnlyWhenStopped == freed => stopped

\* A signal that is handled by another thread than the SBI server's own, and
\* after that server listens, ends the process: the wait of the handler ends.
\* (A handler on the SBI server's thread waits for itself, and so does every
\* handler after it; one that comes before the server listens may wait on a
\* running_server that nobody resets.)
SignalEndsProcess ==
  [](signals <= 1 /\ ~early /\ handler["sbi"] = "none")
    => (signals = 1 ~> ended # "no")
=============================================================================
