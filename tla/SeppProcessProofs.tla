-------------------------- MODULE SeppProcessProofs --------------------------
(***************************************************************************)
(* Theorems about SeppProcess, for any number of signals.                  *)
(***************************************************************************)
EXTENDS SeppProcess, TLAPS

\* Some handler has reset the pointers.
TakenDown == \E th \in Threads : handler[th] \in {"exit", "exited"}

\* Until the application is published, main is alone.
AloneInv ==
  boot \in {"config", "app"} =>
    /\ ~ptr["app"]
    /\ \A th \in Threads \ {"main"} :
         at[th] = "unborn" /\ handler[th] = "none"

\* Until the pointers are reset, nothing is used that is not there, and what a
\* thread or a handler is going to use is there.
ThereInv ==
  ~TakenDown =>
    /\ faults = {}
    /\ boot # "config" => ptr["cfg"]
    /\ boot \notin {"config", "app"} => ptr["app"]
    /\ boot = "sbi" => ptr["sbi"]
    /\ \A th \in {"api", "sbi"} : at[th] # "unborn" => ptr[th]
    /\ \A th \in Threads : handler[th] = "waiting" => ptr["sbi"]

\* A handler that is about to reset a published application has stopped it, or
\* another one has; so has one when the pointers are reset under a thread.
StoppedInv ==
  /\ freed => stopped
  /\ \A th \in Threads : handler[th] = "free" /\ ptr["app"] => stopped
  /\ TakenDown /\ boot \notin {"config", "app"} => stopped
  /\ faults # {} => stopped

\* The handler on th is past the wait for the SBI server.
Past(th) == handler[th] \in {"stop", "in_stop", "free", "exit", "exited"}

\* A handler that came in time finds the SBI server listening, ended, or not
\* begun by a main thread that it keeps from going on; past the wait, it is
\* not listening any more.
WaitInv ==
  /\ http = 1 => at["sbi"] = "unborn" /\ boot # "sbi"
  /\ boot \in {"config", "app", "task", "server", "sbi"}
       => at["sbi"] = "unborn"
  /\ SbiListens \/ at["sbi"] = "opening" => running
  /\ freed => TakenDown
  /\ stopped => \E th \in Threads : handler[th] \in {"free", "exit", "exited"}
  /\ ~early => \A th \in Threads :
       /\ handler[th] # "none" =>
            \/ SbiListens \/ at["sbi"] = "returned"
            \/ at["sbi"] = "unborn" /\ (http = 1 \/ handler["main"] # "none")
       /\ Past(th) => at["sbi"] \in {"unborn", "returned"}

Inv == TypeOK /\ AloneInv /\ ThereInv /\ StoppedInv /\ WaitInv
-----------------------------------------------------------------------------
(* Type correctness. *)

\* The initial state is well-formed.
LEMMA TypeInit == Init => TypeOK
  <1> SUFFICES ASSUME Init
               PROVE  TypeOK
    OBVIOUS
  <1> USE DEF Init, Threads, Objects
  <1>1. /\ ptr \in [Objects -> BOOLEAN]
        /\ handler \in [Threads -> {"none", "entered", "waiting", "stop",
                                   "in_stop", "free", "exit", "exited"}]
    OBVIOUS
  <1>2. at \in [Threads \ {"main"} ->
                {"unborn", "starting", "opening", "listening", "using",
                 "calling", "returned", "ticking", "beating"}]
    OBVIOUS
  <1>3. {stopped, freed, early} \subseteq BOOLEAN
    OBVIOUS
  <1>. QED
    BY <1>1, <1>2, <1>3 DEF TypeOK

\* No step leaves the types.
LEMMA TypeStep == TypeOK /\ [Next]_vars => TypeOK'
  <1> SUFFICES ASSUME TypeOK, [Next]_vars
               PROVE  TypeOK'
    OBVIOUS
  <1> USE DEF TypeOK, Threads, Objects
  <1>1. ASSUME ReadConfig
         PROVE  TypeOK'
    <2>1. CASE ended' = "returned" /\ UNCHANGED <<ptr, boot>>
      BY <1>1, <2>1 DEF ReadConfig
    <2>2. CASE /\ ptr' = [ptr EXCEPT !["cfg"] = TRUE]
               /\ boot' = After(boot) /\ UNCHANGED ended
      <3>1. ptr' \in [Objects -> BOOLEAN] /\ boot' = "app"
        BY <1>1, <2>2 DEF ReadConfig, After
      <3>. QED
        BY <1>1, <2>2, <3>1 DEF ReadConfig
    <2>. QED
      BY <1>1, <2>1, <2>2, Zenon DEF ReadConfig
  <1>2. ASSUME PublishApp
         PROVE  TypeOK'
    BY <1>2 DEF PublishApp, Runs, After
  <1>3. ASSUME StartTask
         PROVE  TypeOK'
    BY <1>3 DEF StartTask, Runs, After
  <1>4. ASSUME MakeServer
         PROVE  TypeOK'
    <2>1. /\ boot = "server"
          /\ UNCHANGED <<http, stopping, handler, signals, stopped, freed,
                          early>>
      BY <1>4 DEF MakeServer
    <2>2. CASE ~ptr["cfg"]
      <3>1. /\ faults' = faults \cup {"main"} /\ ended' = "crashed"
            /\ UNCHANGED <<boot, ptr, at, running>>
        BY <1>4, <2>2 DEF MakeServer, Faults
      <3>. QED
        BY <2>1, <3>1
    <2>3. CASE ptr["cfg"] /\ http = 1
      <3>1. /\ ptr' = [ptr EXCEPT !["api"] = TRUE]
            /\ at' = [at EXCEPT !["api"] = "starting"]
            /\ boot' = "join"
            /\ UNCHANGED <<running, faults, ended>>
        BY <1>4, <2>1, <2>3 DEF MakeServer, PlaceServer, After
      <3>. QED
        BY <2>1, <2>3, <3>1
    <2>4. CASE ptr["cfg"] /\ http # 1
      <3>1. PlaceServer
        BY <1>4, <2>4, Zenon DEF MakeServer
      <3>2. /\ ptr' = [ptr EXCEPT !["sbi"] = TRUE]
            /\ UNCHANGED <<at, faults, ended>>
        BY <3>1, <2>4, Zenon DEF PlaceServer
      <3>3. running' \in BOOLEAN
        BY <3>1, <2>4, Zenon DEF PlaceServer
      <3>4. boot' = "sbi"
        BY <3>1, <2>1, <2>4 DEF PlaceServer, After
      <3>. QED
        BY <2>1, <2>4, <3>2, <3>3, <3>4
    <2>. QED
      BY <2>2, <2>3, <2>4
  <1>5. ASSUME StartServer("sbi")
         PROVE  TypeOK'
    BY <1>5 DEF StartServer, Faults, Runs, After
  <1>6. ASSUME StartServer("nbi")
         PROVE  TypeOK'
    BY <1>6 DEF StartServer, Faults, Runs, After
  <1>7. ASSUME Join
         PROVE  TypeOK'
    BY <1>7 DEF Join, Runs, After
  <1>8. ASSUME WriteStatus
         PROVE  TypeOK'
    BY <1>8 DEF WriteStatus, Runs, After
  <1>9. ASSUME ApiServes
         PROVE  TypeOK'
    <2>1. PICK to \in {"listening", "returned"} : Goto("api", to)
      BY <1>9 DEF ApiServes
    <2>2. at' = [at EXCEPT !["api"] = to]
      BY <2>1 DEF Goto
    <2>3. faults' \subseteq Threads /\ ended' \in {"no", "crashed", ended}
      BY <1>9 DEF ApiServes, Faults
    <2>. QED
      BY <1>9, <2>2, <2>3 DEF ApiServes
  <1>10. ASSUME ApiReturns
         PROVE  TypeOK'
    BY <1>10 DEF ApiReturns, Runs, Goto
  <1>11. ASSUME SbiOpens
         PROVE  TypeOK'
    BY <1>11 DEF SbiOpens, Runs, Goto, Faults
  <1>12. ASSUME SbiListensNow
         PROVE  TypeOK'
    <2>1. /\ at["sbi"] = "opening" /\ at' = [at EXCEPT !["sbi"] = "listening"]
          /\ UNCHANGED <<http, boot, ptr, running, stopping, handler, signals,
                          stopped, freed, early, faults, ended>>
      BY <1>12 DEF SbiListensNow, Goto
    <2>. QED
      BY <2>1
  <1>13. ASSUME SbiReturns
         PROVE  TypeOK'
    <2>1. /\ at["sbi"] # "unborn"
          /\ at' = [at EXCEPT !["sbi"] = "returned"] /\ running' = FALSE
          /\ UNCHANGED <<http, boot, ptr, stopping, handler, signals,
                          stopped, freed, early, faults, ended>>
      BY <1>13 DEF SbiReturns, Goto
    <2>. QED
      BY <2>1
  <1>14. ASSUME NbiOpens
         PROVE  TypeOK'
    <2>1. /\ at["nbi"] = "starting"
          /\ UNCHANGED <<http, boot, ptr, running, stopping, handler, signals,
                          stopped, freed, early>>
      BY <1>14 DEF NbiOpens
    <2>2. CASE ptr["cfg"]
      <3>1. PICK to \in {"listening", "returned"} :
              at' = [at EXCEPT !["nbi"] = to]
        BY <1>14, <2>2, Zenon DEF NbiOpens, Goto
      <3>2. UNCHANGED <<faults, ended>>
        BY <1>14, <2>2, Zenon DEF NbiOpens
      <3>. QED
        BY <2>1, <3>1, <3>2
    <2>3. CASE ~ptr["cfg"]
      <3>1. at' = at /\ faults' = faults \cup {"nbi"} /\ ended' = "crashed"
        BY <1>14, <2>3 DEF NbiOpens, Faults
      <3>. QED
        BY <2>1, <3>1
    <2>. QED
      BY <2>2, <2>3
  <1>15. ASSUME NEW th \in {"sbi", "nbi"}, Use(th)
         PROVE  TypeOK'
    <2>1. /\ at[th] = "using"
          /\ UNCHANGED <<http, boot, ptr, running, stopping, handler, signals,
                          stopped, freed, early>>
      BY <1>15 DEF Use
    <2>2. CASE ptr["app"]
      <3>1. at' = [at EXCEPT ![th] = "calling"] /\ UNCHANGED <<faults, ended>>
        BY <1>15, <2>2 DEF Use, Goto
      <3>. QED
        BY <2>1, <3>1
    <2>3. CASE ~ptr["app"]
      <3>1. at' = at /\ faults' = faults \cup {th} /\ ended' = "crashed"
        BY <1>15, <2>3 DEF Use, Faults
      <3>. QED
        BY <2>1, <3>1
    <2>. QED
      BY <2>2, <2>3
  <1>16. ASSUME NEW th \in {"sbi", "nbi"}, Answer(th)
         PROVE  TypeOK'
    BY <1>16 DEF Answer, Runs, Goto
  <1>17. ASSUME BeatEnds
         PROVE  TypeOK'
    BY <1>17 DEF BeatEnds, Runs, Goto
  <1>18. ASSUME NEW th \in {"sbi", "nbi"}, Receive(th)
         PROVE  TypeOK'
    BY <1>18 DEF Receive, Runs, Goto
  <1>19. ASSUME Beat
         PROVE  TypeOK'
    BY <1>19 DEF Beat, Runs, Goto, Faults
  <1>20. ASSUME NEW th \in Threads, Signal(th)
         PROVE  TypeOK'
    BY <1>20 DEF Signal, Runs, BeforeSbiListens, SbiListens
  <1>21. ASSUME NEW th \in Threads, StopServers(th)
         PROVE  TypeOK'
    BY <1>21 DEF StopServers, Runs, Step
  <1>22. ASSUME NEW th \in Threads, WaitEnds(th)
         PROVE  TypeOK'
    <2>1. faults' \subseteq Threads /\ ended' \in {"no", "crashed", ended}
      <3>1. \/ UNCHANGED <<faults, ended>>
            \/ faults' = faults \cup {th} /\ ended' \in {"no", "crashed"}
        BY <1>22, Zenon DEF WaitEnds, Faults
      <3>. QED
        BY <3>1
    <2>2. /\ handler' = [handler EXCEPT ![th] = "stop"]
          /\ UNCHANGED <<http, boot, ptr, at, running, stopping, signals,
                          stopped, freed, early>>
      BY <1>22 DEF WaitEnds, Step
    <2>. QED
      BY <2>1, <2>2
  <1>23. ASSUME NEW th \in Threads, StopApp(th)
         PROVE  TypeOK'
    BY <1>23 DEF StopApp, Runs, Step
  <1>24. ASSUME NEW th \in Threads, StopReturns(th)
         PROVE  TypeOK'
    BY <1>24 DEF StopReturns, Runs, Step
  <1>25. ASSUME NEW th \in Threads, Free(th)
         PROVE  TypeOK'
    BY <1>25 DEF Free, Runs, Step
  <1>26. ASSUME NEW th \in Threads, Exit(th)
         PROVE  TypeOK'
    BY <1>26 DEF Exit, Runs, Step
  <1>27. CASE UNCHANGED vars
    BY <1>27 DEF vars
  <1> HIDE DEF TypeOK, Threads, Objects
  <1>. QED
    BY <1>1, <1>2, <1>3, <1>4, <1>5, <1>6, <1>7, <1>8, <1>9, <1>10, <1>11,
       <1>12, <1>13, <1>14, <1>15, <1>16, <1>17, <1>18, <1>19, <1>20, <1>21,
       <1>22, <1>23, <1>24, <1>25, <1>26, <1>27
    DEF Next, MainStep, ApiStep, SbiStep, NbiStep, TaskStep, Input, HandlerStep
-----------------------------------------------------------------------------
\* No step starts a thread, or a handler on one, before PublishApp.
LEMMA AloneStep == TypeOK /\ AloneInv /\ [Next]_vars => AloneInv'
  <1> SUFFICES ASSUME TypeOK, AloneInv, [Next]_vars
               PROVE  AloneInv'
    OBVIOUS
  <1> USE DEF TypeOK, Threads, Objects, AloneInv
  <1>1. ASSUME ReadConfig
         PROVE  AloneInv'
    BY <1>1 DEF ReadConfig, Runs, After
  <1>2. ASSUME PublishApp
         PROVE  AloneInv'
    BY <1>2 DEF PublishApp, Runs, After
  <1>3. ASSUME StartTask
         PROVE  AloneInv'
    BY <1>3 DEF StartTask, Runs, After
  <1>4. ASSUME MakeServer
         PROVE  AloneInv'
    BY <1>4 DEF MakeServer, PlaceServer, Faults, Runs, After
  <1>5. ASSUME StartServer("sbi")
         PROVE  AloneInv'
    BY <1>5 DEF StartServer, Faults, Runs, After
  <1>6. ASSUME StartServer("nbi")
         PROVE  AloneInv'
    BY <1>6 DEF StartServer, Faults, Runs, After
  <1>7. ASSUME Join
         PROVE  AloneInv'
    BY <1>7 DEF Join, Runs, After
  <1>8. ASSUME WriteStatus
         PROVE  AloneInv'
    BY <1>8 DEF WriteStatus, Runs, After
  <1>9. ASSUME ApiServes
         PROVE  AloneInv'
    BY <1>9 DEF ApiServes, Runs, Goto, Faults
  <1>10. ASSUME ApiReturns
         PROVE  AloneInv'
    BY <1>10 DEF ApiReturns, Runs, Goto
  <1>11. ASSUME SbiOpens
         PROVE  AloneInv'
    BY <1>11 DEF SbiOpens, Runs, Goto, Faults
  <1>12. ASSUME SbiListensNow
         PROVE  AloneInv'
    BY <1>12 DEF SbiListensNow, Runs, Goto
  <1>13. ASSUME SbiReturns
         PROVE  AloneInv'
    BY <1>13 DEF SbiReturns, Runs, Goto
  <1>14. ASSUME NbiOpens
         PROVE  AloneInv'
    BY <1>14 DEF NbiOpens, Runs, Goto, Faults
  <1>15. ASSUME NEW th \in {"sbi", "nbi"}, Use(th)
         PROVE  AloneInv'
    BY <1>15 DEF Use, Runs, Goto, Faults
  <1>16. ASSUME NEW th \in {"sbi", "nbi"}, Answer(th)
         PROVE  AloneInv'
    BY <1>16 DEF Answer, Runs, Goto
  <1>17. ASSUME BeatEnds
         PROVE  AloneInv'
    BY <1>17 DEF BeatEnds, Runs, Goto
  <1>18. ASSUME NEW th \in {"sbi", "nbi"}, Receive(th)
         PROVE  AloneInv'
    BY <1>18 DEF Receive, Runs, Goto
  <1>19. ASSUME Beat
         PROVE  AloneInv'
    BY <1>19 DEF Beat, Runs, Goto, Faults
  <1>20. ASSUME NEW th \in Threads, Signal(th)
         PROVE  AloneInv'
    BY <1>20 DEF Signal, Runs, BeforeSbiListens, SbiListens
  <1>21. ASSUME NEW th \in Threads, StopServers(th)
         PROVE  AloneInv'
    BY <1>21 DEF StopServers, Runs, Step
  <1>22. ASSUME NEW th \in Threads, WaitEnds(th)
         PROVE  AloneInv'
    BY <1>22 DEF WaitEnds, Runs, Step, Faults
  <1>23. ASSUME NEW th \in Threads, StopApp(th)
         PROVE  AloneInv'
    BY <1>23 DEF StopApp, Runs, Step
  <1>24. ASSUME NEW th \in Threads, StopReturns(th)
         PROVE  AloneInv'
    BY <1>24 DEF StopReturns, Runs, Step
  <1>25. ASSUME NEW th \in Threads, Free(th)
         PROVE  AloneInv'
    BY <1>25 DEF Free, Runs, Step
  <1>26. ASSUME NEW th \in Threads, Exit(th)
         PROVE  AloneInv'
    BY <1>26 DEF Exit, Runs, Step
  <1>27. CASE UNCHANGED vars
    BY <1>27 DEF vars
  <1> HIDE DEF TypeOK, Threads, Objects, AloneInv
  <1>. QED
    BY <1>1, <1>2, <1>3, <1>4, <1>5, <1>6, <1>7, <1>8, <1>9, <1>10, <1>11,
       <1>12, <1>13, <1>14, <1>15, <1>16, <1>17, <1>18, <1>19, <1>20, <1>21,
       <1>22, <1>23, <1>24, <1>25, <1>26, <1>27
    DEF Next, MainStep, ApiStep, SbiStep, NbiStep, TaskStep, Input, HandlerStep

\* No step but Free uses, or takes away, what is needed.
LEMMA ThereStep ==
    TypeOK /\ AloneInv /\ ThereInv /\ [Next]_vars => ThereInv'
  <1> SUFFICES ASSUME TypeOK, AloneInv, ThereInv, [Next]_vars
               PROVE  ThereInv'
    OBVIOUS
  <1> USE DEF TypeOK, Threads, Objects, AloneInv, ThereInv, TakenDown
  <1>1. ASSUME ReadConfig
         PROVE  ThereInv'
    BY <1>1 DEF ReadConfig, Runs, After
  <1>2. ASSUME PublishApp
         PROVE  ThereInv'
    BY <1>2 DEF PublishApp, Runs, After
  <1>3. ASSUME StartTask
         PROVE  ThereInv'
    BY <1>3 DEF StartTask, Runs, After
  <1>4. ASSUME MakeServer
         PROVE  ThereInv'
    BY <1>4 DEF MakeServer, PlaceServer, Faults, Runs, After
  <1>5. ASSUME StartServer("sbi")
         PROVE  ThereInv'
    BY <1>5 DEF StartServer, Faults, Runs, After
  <1>6. ASSUME StartServer("nbi")
         PROVE  ThereInv'
    BY <1>6 DEF StartServer, Faults, Runs, After
  <1>7. ASSUME Join
         PROVE  ThereInv'
    BY <1>7 DEF Join, Runs, After
  <1>8. ASSUME WriteStatus
         PROVE  ThereInv'
    BY <1>8 DEF WriteStatus, Runs, After
  <1>9. ASSUME ApiServes
         PROVE  ThereInv'
    <2>1. PICK to \in {"listening", "returned"} : Goto("api", to)
      BY <1>9 DEF ApiServes
    <2>2. at' = [at EXCEPT !["api"] = to]
      BY <2>1 DEF Goto
    <2>3. ~TakenDown => faults' = {}
      BY <1>9 DEF ApiServes
    <2>. QED
      BY <1>9, <2>2, <2>3 DEF ApiServes
  <1>10. ASSUME ApiReturns
         PROVE  ThereInv'
    BY <1>10 DEF ApiReturns, Runs, Goto
  <1>11. ASSUME SbiOpens
         PROVE  ThereInv'
    BY <1>11 DEF SbiOpens, Runs, Goto, Faults
  <1>12. ASSUME SbiListensNow
         PROVE  ThereInv'
    BY <1>12 DEF SbiListensNow, Runs, Goto
  <1>13. ASSUME SbiReturns
         PROVE  ThereInv'
    BY <1>13 DEF SbiReturns, Runs, Goto
  <1>14. ASSUME NbiOpens
         PROVE  ThereInv'
    <2>1. ~TakenDown => ptr["cfg"]
      BY <1>14 DEF NbiOpens
    <2>2. ~TakenDown => faults' = {}
      BY <1>14, <2>1 DEF NbiOpens, Faults
    <2>3. \A x \in {"api", "sbi"} : at'[x] = at[x]
      BY <1>14 DEF NbiOpens, Goto
    <2>. QED
      BY <1>14, <2>2, <2>3 DEF NbiOpens
  <1>15. ASSUME NEW th \in {"sbi", "nbi"}, Use(th)
         PROVE  ThereInv'
    <2>1. ~TakenDown => ptr["app"]
      BY <1>15 DEF Use
    <2>2. ~TakenDown => faults' = {}
      BY <1>15, <2>1 DEF Use, Faults
    <2>3. \A x \in {"api", "sbi"} : at'[x] # "unborn" => at[x] # "unborn"
      BY <1>15 DEF Use, Goto
    <2>. QED
      BY <1>15, <2>2, <2>3 DEF Use
  <1>16. ASSUME NEW th \in {"sbi", "nbi"}, Answer(th)
         PROVE  ThereInv'
    BY <1>16 DEF Answer, Runs, Goto
  <1>17. ASSUME BeatEnds
         PROVE  ThereInv'
    BY <1>17 DEF BeatEnds, Runs, Goto
  <1>18. ASSUME NEW th \in {"sbi", "nbi"}, Receive(th)
         PROVE  ThereInv'
    BY <1>18 DEF Receive, Runs, Goto
  <1>19. ASSUME Beat
         PROVE  ThereInv'
    BY <1>19 DEF Beat, Runs, Goto, Faults
  <1>20. ASSUME NEW th \in Threads, Signal(th)
         PROVE  ThereInv'
    BY <1>20 DEF Signal, Runs, BeforeSbiListens, SbiListens
  <1>21. ASSUME NEW th \in Threads, StopServers(th)
         PROVE  ThereInv'
    BY <1>21 DEF StopServers, Runs, Step
  <1>22. ASSUME NEW th \in Threads, WaitEnds(th)
         PROVE  ThereInv'
    BY <1>22 DEF WaitEnds, Runs, Step, Faults
  <1>23. ASSUME NEW th \in Threads, StopApp(th)
         PROVE  ThereInv'
    BY <1>23 DEF StopApp, Runs, Step
  <1>24. ASSUME NEW th \in Threads, StopReturns(th)
         PROVE  ThereInv'
    BY <1>24 DEF StopReturns, Runs, Step
  <1>25. ASSUME NEW th \in Threads, Free(th)
         PROVE  ThereInv'
    BY <1>25 DEF Free, Runs, Step
  <1>26. ASSUME NEW th \in Threads, Exit(th)
         PROVE  ThereInv'
    BY <1>26 DEF Exit, Runs, Step
  <1>27. CASE UNCHANGED vars
    BY <1>27 DEF vars
  <1> HIDE DEF TypeOK, Threads, Objects, AloneInv, ThereInv, TakenDown
  <1>. QED
    BY <1>1, <1>2, <1>3, <1>4, <1>5, <1>6, <1>7, <1>8, <1>9, <1>10, <1>11,
       <1>12, <1>13, <1>14, <1>15, <1>16, <1>17, <1>18, <1>19, <1>20, <1>21,
       <1>22, <1>23, <1>24, <1>25, <1>26, <1>27
    DEF Next, MainStep, ApiStep, SbiStep, NbiStep, TaskStep, Input, HandlerStep

\* A handler comes to Free through StopReturns, if there is an application.
LEMMA StoppedStep ==
    TypeOK /\ AloneInv /\ ThereInv /\ StoppedInv /\ [Next]_vars
      => StoppedInv'
  <1> SUFFICES ASSUME TypeOK, AloneInv, ThereInv, StoppedInv, [Next]_vars
               PROVE  StoppedInv'
    OBVIOUS
  <1> USE DEF TypeOK, Threads, Objects, AloneInv, ThereInv, StoppedInv,
              TakenDown
  <1>1. ASSUME ReadConfig
         PROVE  StoppedInv'
    BY <1>1 DEF ReadConfig, Runs, After
  <1>2. ASSUME PublishApp
         PROVE  StoppedInv'
    BY <1>2 DEF PublishApp, Runs, After
  <1>3. ASSUME StartTask
         PROVE  StoppedInv'
    BY <1>3 DEF StartTask, Runs, After
  <1>4. ASSUME MakeServer
         PROVE  StoppedInv'
    BY <1>4 DEF MakeServer, PlaceServer, Faults, Runs, After
  <1>5. ASSUME StartServer("sbi")
         PROVE  StoppedInv'
    BY <1>5 DEF StartServer, Faults, Runs, After
  <1>6. ASSUME StartServer("nbi")
         PROVE  StoppedInv'
    BY <1>6 DEF StartServer, Faults, Runs, After
  <1>7. ASSUME Join
         PROVE  StoppedInv'
    BY <1>7 DEF Join, Runs, After
  <1>8. ASSUME WriteStatus
         PROVE  StoppedInv'
    BY <1>8 DEF WriteStatus, Runs, After
  <1>9. ASSUME ApiServes
         PROVE  StoppedInv'
    BY <1>9 DEF ApiServes, Runs, Goto, Faults
  <1>10. ASSUME ApiReturns
         PROVE  StoppedInv'
    BY <1>10 DEF ApiReturns, Runs, Goto
  <1>11. ASSUME SbiOpens
         PROVE  StoppedInv'
    BY <1>11 DEF SbiOpens, Runs, Goto, Faults
  <1>12. ASSUME SbiListensNow
         PROVE  StoppedInv'
    BY <1>12 DEF SbiListensNow, Runs, Goto
  <1>13. ASSUME SbiReturns
         PROVE  StoppedInv'
    BY <1>13 DEF SbiReturns, Runs, Goto
  <1>14. ASSUME NbiOpens
         PROVE  StoppedInv'
    BY <1>14 DEF NbiOpens, Runs, Goto, Faults
  <1>15. ASSUME NEW th \in {"sbi", "nbi"}, Use(th)
         PROVE  StoppedInv'
    BY <1>15 DEF Use, Runs, Goto, Faults
  <1>16. ASSUME NEW th \in {"sbi", "nbi"}, Answer(th)
         PROVE  StoppedInv'
    BY <1>16 DEF Answer, Runs, Goto
  <1>17. ASSUME BeatEnds
         PROVE  StoppedInv'
    BY <1>17 DEF BeatEnds, Runs, Goto
  <1>18. ASSUME NEW th \in {"sbi", "nbi"}, Receive(th)
         PROVE  StoppedInv'
    BY <1>18 DEF Receive, Runs, Goto
  <1>19. ASSUME Beat
         PROVE  StoppedInv'
    BY <1>19 DEF Beat, Runs, Goto, Faults
  <1>20. ASSUME NEW th \in Threads, Signal(th)
         PROVE  StoppedInv'
    BY <1>20 DEF Signal, Runs, BeforeSbiListens, SbiListens
  <1>21. ASSUME NEW th \in Threads, StopServers(th)
         PROVE  StoppedInv'
    BY <1>21 DEF StopServers, Runs, Step
  <1>22. ASSUME NEW th \in Threads, WaitEnds(th)
         PROVE  StoppedInv'
    BY <1>22 DEF WaitEnds, Runs, Step, Faults
  <1>23. ASSUME NEW th \in Threads, StopApp(th)
         PROVE  StoppedInv'
    BY <1>23 DEF StopApp, Runs, Step
  <1>24. ASSUME NEW th \in Threads, StopReturns(th)
         PROVE  StoppedInv'
    BY <1>24 DEF StopReturns, Runs, Step
  <1>25. ASSUME NEW th \in Threads, Free(th)
         PROVE  StoppedInv'
    BY <1>25 DEF Free, Runs, Step
  <1>26. ASSUME NEW th \in Threads, Exit(th)
         PROVE  StoppedInv'
    BY <1>26 DEF Exit, Runs, Step
  <1>27. CASE UNCHANGED vars
    BY <1>27 DEF vars
  <1> HIDE DEF TypeOK, Threads, Objects, AloneInv, ThereInv, StoppedInv,
              TakenDown
  <1>. QED
    BY <1>1, <1>2, <1>3, <1>4, <1>5, <1>6, <1>7, <1>8, <1>9, <1>10, <1>11,
       <1>12, <1>13, <1>14, <1>15, <1>16, <1>17, <1>18, <1>19, <1>20, <1>21,
       <1>22, <1>23, <1>24, <1>25, <1>26, <1>27
    DEF Next, MainStep, ApiStep, SbiStep, NbiStep, TaskStep, Input, HandlerStep

\* A handler comes past WaitEnds when the SBI server has returned only.
LEMMA WaitStep ==
    TypeOK /\ ThereInv /\ WaitInv /\ [Next]_vars => WaitInv'
  <1> SUFFICES ASSUME TypeOK, ThereInv, WaitInv, [Next]_vars
               PROVE  WaitInv'
    OBVIOUS
  <1> USE DEF TypeOK, Threads, Objects, ThereInv, WaitInv, TakenDown, Past,
              SbiListens
  <1>1. ASSUME ReadConfig
         PROVE  WaitInv'
    BY <1>1 DEF ReadConfig, Runs, After
  <1>2. ASSUME PublishApp
         PROVE  WaitInv'
    BY <1>2 DEF PublishApp, Runs, After
  <1>3. ASSUME StartTask
         PROVE  WaitInv'
    BY <1>3 DEF StartTask, Runs, After
  <1>4. ASSUME MakeServer
         PROVE  WaitInv'
    <2>1. /\ at'["sbi"] = "unborn" /\ at["sbi"] = "unborn"
          /\ UNCHANGED <<http, handler, stopped, freed, early>>
          /\ http = 1 => boot' # "sbi"
      <3>1. CASE http = 1 /\ ptr["cfg"]
        BY <1>4, <3>1 DEF MakeServer, PlaceServer, After
      <3>2. CASE http # 1 /\ ptr["cfg"]
        BY <1>4, <3>2 DEF MakeServer, PlaceServer, After
      <3>3. CASE ~ptr["cfg"]
        BY <1>4, <3>3 DEF MakeServer
      <3>. QED
        BY <3>1, <3>2, <3>3
    <2>. QED
      BY <2>1
  <1>5. ASSUME StartServer("sbi")
         PROVE  WaitInv'
    BY <1>5 DEF StartServer, Faults, Runs, After
  <1>6. ASSUME StartServer("nbi")
         PROVE  WaitInv'
    BY <1>6 DEF StartServer, Faults, Runs, After
  <1>7. ASSUME Join
         PROVE  WaitInv'
    BY <1>7 DEF Join, Runs, After
  <1>8. ASSUME WriteStatus
         PROVE  WaitInv'
    BY <1>8 DEF WriteStatus, Runs, After
  <1>9. ASSUME ApiServes
         PROVE  WaitInv'
    BY <1>9 DEF ApiServes, Runs, Goto, Faults
  <1>10. ASSUME ApiReturns
         PROVE  WaitInv'
    BY <1>10 DEF ApiReturns, Runs, Goto
  <1>11. ASSUME SbiOpens
         PROVE  WaitInv'
    BY <1>11 DEF SbiOpens, Runs, Goto, Faults
  <1>12. ASSUME SbiListensNow
         PROVE  WaitInv'
    BY <1>12 DEF SbiListensNow, Runs, Goto
  <1>13. ASSUME SbiReturns
         PROVE  WaitInv'
    BY <1>13 DEF SbiReturns, Runs, Goto
  <1>14. ASSUME NbiOpens
         PROVE  WaitInv'
    BY <1>14 DEF NbiOpens, Runs, Goto, Faults
  <1>15. ASSUME NEW th \in {"sbi", "nbi"}, Use(th)
         PROVE  WaitInv'
    BY <1>15 DEF Use, Runs, Goto, Faults
  <1>16. ASSUME NEW th \in {"sbi", "nbi"}, Answer(th)
         PROVE  WaitInv'
    BY <1>16 DEF Answer, Runs, Goto
  <1>17. ASSUME BeatEnds
         PROVE  WaitInv'
    BY <1>17 DEF BeatEnds, Runs, Goto
  <1>18. ASSUME NEW th \in {"sbi", "nbi"}, Receive(th)
         PROVE  WaitInv'
    BY <1>18 DEF Receive, Runs, Goto
  <1>19. ASSUME Beat
         PROVE  WaitInv'
    BY <1>19 DEF Beat, Runs, Goto, Faults
  <1>20. ASSUME NEW th \in Threads, Signal(th)
         PROVE  WaitInv'
    <2>1. /\ handler[th] = "none"
          /\ handler' = [handler EXCEPT ![th] = "entered"]
          /\ th # "main" => at[th] \notin {"unborn", "returned"}
          /\ early' = (early \/ BeforeSbiListens(th))
          /\ UNCHANGED <<http, boot, at, running, stopped, freed>>
      BY <1>20 DEF Signal, Runs
    <2>2. \A x \in Threads : /\ x # th => handler'[x] = handler[x]
                             /\ Past(x)' => x # th /\ Past(x)
      BY <2>1
    <2>3. TakenDown => TakenDown'
      BY <2>1, <2>2
    <2>4. stopped' =>
            \E x \in Threads : handler'[x] \in {"free", "exit", "exited"}
      BY <2>1, <2>2
    <2>5. ~early' => \A x \in Threads :
            /\ handler'[x] # "none" =>
                 \/ SbiListens' \/ at'["sbi"] = "returned"
                 \/ at'["sbi"] = "unborn"
                      /\ (http' = 1 \/ handler'["main"] # "none")
            /\ Past(x)' => at'["sbi"] \in {"unborn", "returned"}
      BY <2>1, <2>2 DEF BeforeSbiListens
    <2>. QED
      BY <2>1, <2>3, <2>4, <2>5
  <1>21. ASSUME NEW th \in Threads, StopServers(th)
         PROVE  WaitInv'
    BY <1>21 DEF StopServers, Runs, Step
  <1>22. ASSUME NEW th \in Threads, WaitEnds(th)
         PROVE  WaitInv'
    BY <1>22 DEF WaitEnds, Runs, Step, Faults
  <1>23. ASSUME NEW th \in Threads, StopApp(th)
         PROVE  WaitInv'
    BY <1>23 DEF StopApp, Runs, Step
  <1>24. ASSUME NEW th \in Threads, StopReturns(th)
         PROVE  WaitInv'
    BY <1>24 DEF StopReturns, Runs, Step
  <1>25. ASSUME NEW th \in Threads, Free(th)
         PROVE  WaitInv'
    BY <1>25 DEF Free, Runs, Step
  <1>26. ASSUME NEW th \in Threads, Exit(th)
         PROVE  WaitInv'
    BY <1>26 DEF Exit, Runs, Step
  <1>27. CASE UNCHANGED vars
    BY <1>27 DEF vars
  <1> HIDE DEF TypeOK, Threads, Objects, ThereInv, WaitInv, TakenDown, Past,
              SbiListens
  <1>. QED
    BY <1>1, <1>2, <1>3, <1>4, <1>5, <1>6, <1>7, <1>8, <1>9, <1>10, <1>11,
       <1>12, <1>13, <1>14, <1>15, <1>16, <1>17, <1>18, <1>19, <1>20, <1>21,
       <1>22, <1>23, <1>24, <1>25, <1>26, <1>27
    DEF Next, MainStep, ApiStep, SbiStep, NbiStep, TaskStep, Input, HandlerStep
-----------------------------------------------------------------------------
\* The invariant holds at the start, before any thread but main exists.
LEMMA InvInit == Init => Inv
  <1> SUFFICES ASSUME Init
               PROVE  AloneInv /\ ThereInv /\ StoppedInv /\ WaitInv
    BY TypeInit DEF Inv
  <1>. QED
    BY DEF Init, AloneInv, ThereInv, StoppedInv, WaitInv, TakenDown, Past,
           SbiListens, Threads, Objects

\* Every step keeps the invariant.
LEMMA InvStep == Inv /\ [Next]_vars => Inv'
  BY TypeStep, AloneStep, ThereStep, StoppedStep, WaitStep DEF Inv

\* What main, its threads and the signal handlers keep, at all times and for
\* any number of signals.
THEOREM Invariance == Spec => []Inv
  BY InvInit, InvStep, PTL DEF Spec

\* The threads, pointers and handlers of the process stay well-formed.
THEOREM TypeCorrect == Spec => []TypeOK
  <1>1. Inv => TypeOK
    BY DEF Inv
  <1>. QED
    BY Invariance, <1>1, PTL

\* The order in which main makes the objects protects the unlocked pointers
\* until sepp_app::stop has returned and a handler resets them.
THEOREM SafeUntilTakenDownHolds == Spec => []SafeUntilTakenDown
  <1>1. Inv => SafeUntilTakenDown
    BY DEF Inv, ThereInv, StoppedInv, TakenDown, SafeUntilTakenDown
  <1>. QED
    BY Invariance, <1>1, PTL

\* The wait in stop() keeps requests of the SBI server away from an application
\* whose context is being terminated, or that is freed.
THEOREM StopProtectsSbiHolds == Spec => []StopProtectsSbi
  <1>1. Inv => StopProtectsSbi
    BY DEF Inv, WaitInv, TakenDown, Past, StopProtectsSbi
  <1>. QED
    BY Invariance, <1>1, PTL

\* No handler frees an application that was not stopped.
THEOREM FreedOnlyWhenStoppedHolds == Spec => []FreedOnlyWhenStopped
  <1>1. Inv => FreedOnlyWhenStopped
    BY DEF Inv, StoppedInv, FreedOnlyWhenStopped
  <1>. QED
    BY Invariance, <1>1, PTL
=============================================================================
