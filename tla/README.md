# A verification development for the OAI SEPP

The SEPP (Security Edge Protection Proxy) stands at the border of a 5G core
network.  It runs the N32-c handshake with the SEPP of a roaming partner and
relays service requests between the network functions (NF) of the two networks
over N32-f.  This directory holds TLA+ modules translated from the program under
`src/`, the TLC configurations that check them on small instances, and
TLAPS proofs of the properties that matter most.

Paths below are relative to the repository; `sepp_app/`, `api-server/` and
`oai_sepp/` stand for the directories of that name under `src/`.

## 1. The system

### 1.1 Parts, state and operations

| Part | State | Operations |
|---|---|---|
| N32-c handshake (`sepp_app/sepp_n32c_handshake.cpp`) | one context id (`m_n32c_context_id`), configured capability, peer's name, cipher suites | build and handle exchange-capability, exchange-params, n32f-terminate; n32f-error (only logged) |
| N32-f forwarding (`sepp_app/sepp_n32f_forward.cpp`) | a copy of the context id (`m_n32f_context_id`), capability, a content key that is never set | wrap a request (PRINS), unwrap and send it to an NF, wrap the response; forward a request as it is (TLS) |
| Application (`sepp_app/sepp_app.cpp`) | the remote SEPP's URL, the objects above | constructor (registration, then the handshake of a C-SEPP), the entry points of the servers, the relay of a request, `stop` |
| NBI server (`api-server/sepp-http2-nbi-server.cpp`) | one thread | the routes of the handshake and of the forwarding; `stop` is never called |
| SBI server (`api-server/sepp-http2-sbi-server.cpp`) | one thread, `running_server` | the generic NF service handler, the telescopic mapping, `stop` (waits for the thread) |
| NRF client (`sepp_app/sepp_nrf.cpp`) | profile, heartbeat connection | register, heartbeat, deregister |
| Events and tasks (`sepp_app/sepp_event.cpp`, `task_manager.cpp`) | tick counter, subscriptions, one thread | a tick every millisecond |
| Telescopic FQDN mapping (`sepp_app/sepp_telescopic_fqdn_mapping.cpp`) | roaming partners | FQDN to label and back |
| Process (`oai_sepp/main.cpp`) | the global pointers | start-up, signal handler |
| Configuration (`sepp_app/sepp_config.cpp`) | the SEPP's own section: role, security, TLS and its paths | read once, at the start |
| JOSE (`sepp_app/sepp_JOSE.cpp`) | none | base64url, AES-128-GCM |
| NF profile (`sepp_app/sepp_profile.cpp`) | what is registered at the NRF | fill, write as JSON, read from JSON (not called) |
| HTTP/1 server (`api-server/sepp-api-server.cpp`) | one thread, no routes | start, shutdown |

### 1.2 How they interact

The **main thread** runs the constructor of `sepp_app`, which registers with the
NRF and, in a C-SEPP, calls the partner's NBI server (blocking, before the own
servers listen).  Then it starts the **task thread**, the **SBI thread** and the
**NBI thread** and waits for the two servers.  The SBI thread handles an NF's
request by a blocking call to the partner's NBI server; that server's thread
handles it by a blocking call to the NF.  The **signal handler**, on whichever
thread takes the signal, stops the SBI server, runs `sepp_app::stop` (a blocking
termination call, then the deregistration), resets the global pointers and calls
`exit`; the NBI and the task thread run on all the while.  There is no lock and
nothing is persisted.  Every call is made through an HTTP client that returns an
answer or, after a refusal or a timeout, status 0.  A failed call is never
repeated.

### 1.3 What is hard, and what must hold

* **Handshake.** One context id per SEPP, written by the own handshake, by
  every neighbour's handshake and by every termination, in any order, from
  requests that may outlive their senders; restarts that forget the id on one
  side only.  Right when an id is known to its two parties only, the forwarding
  object only ever uses the SEPP's own current id that the partner agreed to,
  no stale termination takes a live context away, and start and stop always end.
* **Relay.** Three hops, each with its own timeout and with an answer that may
  come too late; single threads that block; producers that call back.  Right
  when the chain acts as a producer that is asked at most once, as the consumer
  asked, and whose answer, or a failure, the consumer gets.
* **Registration.** A heartbeat that one bad answer ends for good, a tick that
  loses time, a heartbeat that races the deregistration.  Right when a SEPP
  whose heartbeat runs is never suspended, a stopped one does not come back, and
  one that gave its registration up does not stay registered.
* **Lifecycle.** The signal handler, on any thread, against the others, which
  use the objects it resets without a lock.  Right when nobody uses what is not
  there while the process serves, nothing is freed that was not stopped, and
  the handler comes to its end.
* **Mapping.** Digits run together and cut again, two- and three-digit MNCs.
  Right when a label leads back to the NF it was made for, and nothing but
  partners is resolved.
* **Data.** Right when what is encoded, sealed or written comes out as it went
  in, and a configuration that is accepted lets the servers start.

`PROJECT.json` lists each of these at its line of code under `hazards`.

## 2. Modules

| Module | What it is |
|---|---|
| `N32cHandshake` | the handshake, the context and its termination, for any set of SEPPs |
| `MCN32cHandshake` | its instances for TLC: three SEPPs, five deployments |
| `N32cHandshakeProofs` | theorems about it: whose context an id is |
| `N32cTerminationProofs` | theorems about it: the end of a context |
| `NfRelay` | abstract: what a pair of SEPPs promises the NFs |
| `N32fForward` | the relay over its three hops, with the threads and the failures |
| `MCN32fForward` | its instances for TLC: two SEPPs, three requests, five deployments |
| `N32fForwardProofs` | theorems about it, and that it implements `NfRelay` |
| `NrfClient` | registration, heartbeat and deregistration, with the tick and the clock, against an NRF |
| `NrfClientProofs` | theorems about it |
| `SeppProcess` | `main`, its threads and the signal handler over the global objects |
| `SeppProcessProofs` | theorems about it |
| `TelescopicMapping` | the mapping, both ways, and the route that offers it |
| `TelescopicMappingProofs` | theorems about it |
| `SeppConfig`, `NfProfile`, `Jose` | operators: reading the configuration, the profile, the encodings |
| `SeppData` | their calls, in the program's order |
| `SeppEncodingProofs` | theorems about it: the encodings, for texts of every length |
| `SeppDataProofs` | theorems about it: configuration, profile, messages, types |
| `MCNrfClient`, `MCSeppProcess`, `MCTelescopicMapping`, `MCSeppData` | the instances of these for TLC |

### 2.1 N32cHandshake

| Variable | Code |
|---|---|
| `dep` | configuration: `m_remote_sepp_url`, `m_selected_sec_capability`, `register_nf` |
| `pc`, `boot` | where the main thread or signal handler is; how often the process was started |
| `ctx`, `fwd` | `m_n32c_context_id`, `m_n32f_context_id` |
| `reqs`, `answer` | requests queued at a server or on their way; the answer a blocked caller has got |
| `adopted` | history only: which SEPP took which id from a request |

Each blocking call splits its function in two: `CreateExchangeCapability` is
`create_exchange_capability` up to the call, `HandleCapabilityResponse` the rest
up to the call of `create_exchange_params`, `HandleParamsResponse` the rest of
that.  `CallFails` ends any of the three calls without a usable answer.
`HandleExchangeCapability`, `HandleExchangeParams` and `HandleTerminate` are the
partner's handlers, with the null checks of the NBI server and of `sepp_app`.
`Stop`, `HandleTerminateResponse`, `Release` and `Exit` are the signal handler
from `sepp_app::stop` on.  `Crash` ends a process anywhere; so does a signal
while the constructor runs, as `sepp_app_inst` is still null then.

A UUID is the pair of its creator and the number of the creator's start: the
code draws at most one per start.  A caller that has given up leaves its request
where it is, and the server may process it at any later time (`Waits` tells
whether anyone still listens).  Loss of a message is a call that fails with the
request never processed, or processed and its answer dropped.

Left out: names, cipher suites and the protection policy, which are stored or
logged and never read; malformed messages, which only SEPPs of another make
could send; the registration before the handshake.  Every handler is one
step: that the id is a `std::string` shared without a lock is listed as a hazard.

### 2.2 N32fForward and NfRelay

A request has a state at each of its hops: `consumer` (the NF that made it),
`sbi` (at the SBI server of its SEPP), `nbi` (at the NBI server of the remote
one), `nf` (at the NF the remote SEPP sent it to).  `work` is what that NF was
asked, `outcome` what it answered, `n32answer` the answer of the remote SEPP
until the SBI thread takes it, `result` what the consumer was answered.

`SbiAccept` is the generic handler up to its blocking call, `SbiReturn` and
`SbiCallFails` the rest; `NbiAccept`, `NbiReturn` and `NbiCallFails` are
`handle_n32f_process` and `handle_n32f_forward` in the same way.  `SbiFree` and
`NbiFree` say that a server has one thread.  `Message`, `WorkFor`,
`WrappedReply` and `UnwrappedReply` say what each conversion on the way makes of
a request or a response; `Accepts` and `Refusal` are the checks of the
endpoints.  `parent` lets a producer make requests of its own, through its own
SEPP, while it works on one.

`NfRelay` states the promise: a request is performed at most once, as it was
asked, and the consumer gets the producer's answer or learns of a failure (which
does not mean that the request was not performed).  `RelaySpec` maps the
concrete state to it.

Abstractions: a path and an authority are carried along and not represented; a
body is an object or absent and a response is its status and whether it has a
body; methods other than the five are sent as GET by the code and are left out;
request headers and media types other than JSON are not relayed by the code and
are not in the model.  Whether the model library's `validate` accepts an id is
external; a refusal is one of the outcomes of `NbiCallFails`.  The start of a
SEPP, during which its server answers nothing or 503, is part of what a failing
call stands for.

### 2.3 NrfClient

| Variable | Code |
|---|---|
| `clock`, `t`, `exp` | the system clock, the tick that `manage_tasks` counts, the expirations `wait_for_cycle` will read |
| `due`, `connected` | start of the subscription, `m_task_connection` |
| `main`, `task`, `wire` | where the two threads are and the call each is blocked in |
| `late` | requests their sender has given up that may still arrive |
| `entry`, `seen` | what the NRF has of this instance |
| `unanswered`, `beatAt` | history only |

Blocking calls are split as in the handshake.  `Tick` and `Heartbeat` are
`task_tick` with and without the heartbeat due; the heartbeat is sent from
inside the tick, so that its answer holds the ticks up, and `Cycle` throws the
count of missed expirations away.  `Deregister` leaves the heartbeat connected,
as the code does.  A registration that is given up (`MainTimeout`) may
still arrive; `GivenUpIsNotKeptAlive` says what becomes of its entry: nothing of
the SEPP refreshes it, so that the timer of the NRF ends it.
The NRF is external: it may refuse, restart empty
(`NrfForgets`), and suspends an instance it has not heard of for the timer the
profile announces (50 s; the program's interval is `HEART_BEAT_TIMER`, 10 s).
`Elapse` lets the clock run only when no thread could act in that millisecond
and no call is overdue.

`BudgetAssumption` names the one relation of the durations that
`SuspendedOnlyWhenCutOff` rests on: an interval, the rest of the constructor and
one request fit into the supervision.  In the program these are 10 s, the time
from the answer of the NRF to the start of the task thread, the timeout of the
HTTP client (`kNfDefaultHttpRequestTimeout`, a constant of the common library)
and 50 s.

### 2.4 SeppProcess

`boot` is where `main` is, `at` where the other threads are, `ptr` which global
pointers are set, `handler` where the signal handler is on each thread.  A
request at a server has two steps: `Receive`, with the null check if the route
has one, and `Use`, the call through `sepp_app_inst`.  `StopServers`,
`WaitEnds`, `StopApp`, `StopReturns`, `Free` and `Exit` are the handler;
`running_server` (`running`) starts as anything.  An access to an object that
is not there is recorded in `faults`, and what happens next is left open
(`ended`).  A signal may come to any thread and while a handler runs on another
one; a second signal on the same thread, and so a handler inside a handler, is
left out.

`SafeUntilTakenDown` says how far the unlocked pointers are safe, and no further:
once a handler has reset them, the NBI thread and the task thread do use an
application that is gone, and `main` a configuration that is gone
(`MakeServer`, `StartServer`).  These uses after free are in the code and are
reached in the model; the property says that they come only after
`sepp_app::stop` has returned, its termination and its deregistration answered or
given up.  `StopProtectsSbi` says that the SBI thread is not among them, and that
it forwards nothing with the context id the forwarding object keeps after the
termination.

What it shows beyond its properties, read from the code and kept in the model:
the NBI server is never stopped and its thread runs on while the objects go;
the line in the status file is written when the servers have returned, not when
they have started; the HTTP/1 server has no routes.

### 2.5 TelescopicMapping

Digits are sequences, as the code runs MCC and MNC together and cuts the MCC off
again by its length; of the rest of an FQDN or label only the parts the parser
looks for are kept.  `FqdnToMapping` and `MappingToFqdn` are the operations of
the same names, `Refusal` the checks of the route in their order, `RouteAnswer`
the answer it makes.  `AskBack` sends the label just made back to the
application; `TakeDown` is the reset of `sepp_app_inst`.  An FQDN whose digits
are split elsewhere (MCC "2", MNC "6210") gets the label of the partner they
spell; `OnlyPartnersResolved` says that what such a label is resolved to is
that partner's.

### 2.6 SeppData with SeppConfig, NfProfile and Jose

Three subjects, one per behaviour: a start (`ReadFile`, `StartNbi`,
`GenerateProfile`, `WriteJson`), a text (`Code`), a message (`Seal`, `Open`).
`Files` enumerates what `read_from_file` distinguishes: missing nodes, the
values it knows and others.  The address of the interface is an `in_addr`, which
`to_json` writes with `inet_ntoa`, so that it can always be read back
(`AddressesAssumption`).  A JSON object is a function from its members.
base64url is modelled over bytes and numbered characters, on top of OpenSSL's
base64, which packs three bytes into four characters; `WithoutFill` is the loop
that leaves out "=", stated by the indices it keeps (the k-th character it
returns is the k-th that is not "="), and the specification it is compared with,
`Sextet`, goes bit by bit.  AES-GCM is external, a ciphertext being what it was
made from.  `Wrap` and
`Unwrap` are the choice of `build_reformatted_data` and of the two receivers
between encrypted and encoded bodies.

Kept in the model, and worth knowing: a file without a `sepp` section leaves TLS
on with no paths and gives no warning, so that the NBI server does not listen
(the second alternative of `NbiListensUnlessWarned`); the registered profile
says PLMN 262/10 and ports 443 whatever is configured; `from_json` adds every
address twice per read (`ReadBackSame`) and has no caller; the content key is
never set, so that the encrypted branches are not reached in this program: only
the first case of `OpensAsSealed` is, in which nothing is sealed and additional
data are not looked at.  Its third case, a receiver without the sender's key that
takes the ciphertext for the body, would be reached if one side alone had one.

## 3. Runs

| Run | Shows |
|---|---|
| `handshake` | The context ids stay right at both ends. Star (two C-SEPPs, one partner), chain, mutual partners, mixed capabilities and a partner without objects; crashes and restarts at every point. 652,230 states. |
| `handshake_liveness` | `StartupEnds`, `StopEnds` in the same deployments. |
| `handshake_chain` | Expected violation of `TerminationReachesPeer`, see section 6. |
| `relay` | `RelaySpec`, `AnswerIsProducers`, `MixedPairRelaysNothing`: one way with a callback that cannot be relayed, a circle of callbacks, mixed capabilities, a SEPP without forwarding object. 75,318 states. |
| `relay_liveness` | `SbiAnswers`, `NbiAnswers` in the circle, where both threads of both SEPPs do wait for each other. |
| `relay_tls` | Expected violation of `AnswerIsProducers`, see section 6. |
| `nrf` | `SuspendedOnlyWhenCutOff`, `ExitLeavesNoEntry`, `GivenUpIsNotKeptAlive`, `BeatsAreSpaced`, with refusals, timeouts, late requests, a forgetful NRF, and the end of the process at any point. 3,814,762 states. |
| `nrf_tick` | Expected violation of `TickEveryMillisecond`, see section 6. |
| `process` | HTTP/1 and HTTP/2, up to two signals on any threads, requests at both servers and heartbeats: `SafeUntilTakenDown`, `StopProtectsSbi`, `FreedOnlyWhenStopped`, `SignalEndsProcess`. 40,484 states. |
| `telescopic` | `LabelLeadsBack`, `OnlyPartnersResolved`, `StatusTellsResult` for every query of the instance, in any order. 259 states. |
| `telescopic_echo` | Expected violation of `AnswerCarriesMapping`, see section 6. |
| `data` | `NbiListensUnlessWarned`, `ReadBackSame`, `EncodesAsBase64url`, `DecodesBack`, `OpensAsSealed`. 4,835 states. |

**Bounds.** `MaxBoot` limits the starts of each process.  In `handshake`, one of
the C-SEPPs and the partner start twice: two starts of a SEPP suffice for its
earlier messages to meet its later ones, and the proofs hold without the bound.
In the liveness run and the chain each starts once: a restart ends the wait the
properties are about.  Three SEPPs are the least with two initiators at one
partner and the least with one that is both.  Three requests are the least that
close the circle of waits (a's SBI thread, b's NBI thread, b's SBI thread, a's
NBI thread, back to a's SBI thread), and let two requests meet at each thread.
Two responses, 204 and 404, tell a body from none and a success from a failure.

`NrfClient` counts in one unit: interval 3, supervision 15 (the code's 10 s and
50 s), calls of up to 2 and 2 for the rest of the constructor.  The timeout of
the client is a constant of the common library; what the property needs of it is
`BudgetAssumption` (section 2.3).  The
horizon of 22 lets an instance that is not heard of
from the start be suspended (after 15) and have five intervals on the way.
`nrf_tick` needs only one heartbeat.  Two signals in `process` are the least
that make two handlers meet; each thread handles any number of requests.
`telescopic` has the three kinds of partner (two digits, three digits with a
leading zero, three digits) of which two share an MCC, every combination of
their digits and the malformed parts one at a time.  Texts of up to four bytes
have every length of the last group with a full group before it, over five
bytes that give both special characters in each place; keys are none, two of
the right size and one of a wrong one, chosen at each end; the SBI interface has
one of two addresses; a profile reads JSON up to twice
(`MaxReads`), as the second read tells appending from replacing.

**Deadlock** is not checked in the runs of the network, the NRF, the process and
the data: a network of SEPPs whose bound of starts is used up, or whose
requests are all answered, a process that has ended and a subject that is done
with have nothing left to do.

**Fairness.** The handshake's `Fairness` is weak fairness of each process's own
thread (`Main`), which contains `CallFails`: the operating system schedules the
thread and the client has a timeout (`kNfDefaultHttpRequestTimeout`,
`oai_sepp/main.cpp:124-131`).  Nothing is assumed of the servers, so the
timeout alone carries the result.  The relay's fairness is that of the two
server threads of each SEPP for the same reason; nothing is assumed of the NFs.
`SbiAnswers` speaks of requests that have reached the server.  The fairness of
`SeppProcess` is that of every thread, its signal handler included, so that a
call through the client ends; nothing is assumed of requests, heartbeats and
signals.  `SignalEndsProcess` holds for one signal after the SBI server listens
that is handled on another thread than that server's own: on that one the
handler waits for itself (`sepp-http2-sbi-server.cpp:266`), and before the
server listens it may wait on a `running_server` nobody resets.  In these two
cases the code may never end, so that no property denies it (`hazards` lists
both); the property shows that there is no third.

Each property has a variant of an operation (marked "Variant" in the module)
that is a plausible mistake and under which the property fails; `PROJECT.json`
lists them under `mutants`.

## 4. Proofs

Checked by TLAPS for every set of SEPPs, every configuration, every workload
and every number of starts (handshake, relay), any number of signals (process),
any interval, delays and horizon (NRF client), any partners and any queries
(mapping), any hosts, addresses, keys and bodies and texts of any length (data).
Every strengthening was checked by TLC on small instances before it was proved.

**Handshake** (`N32cHandshakeProofs`).  None of the properties is inductive: that
a SEPP's forwarding id is its own depends on what the partner answers, which
depends on what was in the request.  `Inv` says of every place an id can be in
what it is there: `RequestInv` (exchange-params carries the id its sender drew
in that start; a termination carries an id its sender knows, and if it is of the
sender's present start the sender is stopping), `ContextInv` (an id is known to
its parties only, and an own one is of the present start), `PhaseInv` (in which
phases a SEPP has no id, or offers its own), `AnswerInv` (an answer to
exchange-params repeats the id the SEPP offered, which the partner took over)
and `ForwardInv`.  `InvStep` has a lemma per action.  From it follow
`ContextPartiesHolds`, `ForwardContextIsOwnHolds`, `ForwardContextAdoptedHolds`
and, as an action property, `LiveContextKeptHolds`.

**End of a context** (`N32cTerminationProofs`, on top of `Inv`).  Three
properties speak of a SEPP that is nobody's partner (`NoInbound`), so that its
id is written by its own steps only.  What could go wrong is at the partner: a
second copy of an offer, or one of an earlier start, handled after the
termination was confirmed, would bring the context back.  `OfferInv` says that
an id is on its way, or taken over, only after its SEPP offered it in that
start, and that once the offer is answered no copy of it is on its way;
`TerminateInv` that the SEPP's termination names the id it forwards with and
that after a confirmation the partner holds it no more; `AdoptedInv` and
`AnswerIdleInv` that no id of a start to come has been taken over and no answer
outlives its call.  With `ForwardMatchesHandshake` and
`ConfirmedTerminationClears` themselves they are inductive (`ContextEndInv`,
`ContextEndInvariance`).  `HalfOpenIsTerminatedHolds` is the action property that
follows: where `stop` leaves the termination out, `OfferInv` says that nobody has
taken the id over.

**Relay** (`N32fForwardProofs`).  `Inv` follows a request hop by hop:
`HopsInv` (a hop is taken only after the one before, and a message being worked
on was accepted), `NfInv` (the NF was asked what the consumer asked),
`AnswerInv` (what travels back as an NF's is its response).  It holds when no
SEPP and its remote SEPP are both configured for TLS (`NoTlsPair`), the case in
which the code does not restore the request (section 6).  From it follow
`AnswerIsProducersHolds` and `RelayImplementsNfRelay`: `RelayInit` maps the
initial states, `RelayStep` every step to a step of `NfRelay` or to none.
`MixedPairRelaysNothingHolds` needs no such assumption.

**Process** (`SeppProcessProofs`).  That no thread uses an object that is not
there depends on the order in which `main` makes the objects and starts the
threads.  `AloneInv` says that `main` is alone until the application is
published, `ThereInv` which objects are there at each stage of `main`, for each
thread and for a handler about to wait.  `StoppedInv` follows a handler from
`stop()` to the reset (`FreedOnlyWhenStoppedHolds`), where another handler may
have reset the application first, and says that the pointers are reset under
other threads only after that; together they give `SafeUntilTakenDownHolds`.
`WaitInv` says what a handler that came in time finds of the
SBI server (listening, ended, or held back because `main` itself is in a
handler), and that past the wait the server is not listening: this gives
`StopProtectsSbiHolds`.  `TypeStep`, `AloneStep`, `ThereStep`, `StoppedStep` and
`WaitStep` have a step per action.

**NRF client** (`NrfClientProofs`).  `WireInv` ties where a thread is to the
call it is blocked in.  For the deregistration, `DeregisterInv` says that while
the NRF has answered the main thread only a heartbeat can arrive late, and that
the entry is gone once the DELETE is answered: a heartbeat changes an entry and
never makes one (`ExitLeavesNoEntryHolds`).  The heartbeat is due by tick and
supervised by clock, and the two drift apart with every answer, so neither
timing property is inductive.  `SpacingInv` says of every tick ahead at which a
heartbeat is due how early the thread can reach it, which gives
`BeatsAreSpacedHolds`; the one tick of grace is the first read of the timer.
`DeadlineInv` says that, while the heartbeat is connected, there is such a tick
ahead so near that the NRF will have waited at most `Interval + MaxBuild` when
it comes (`NextBeatInTime`); with one request (`AnswerInv`) this stays within
the supervision by `BudgetAssumption`, and gives `SuspendedOnlyWhenCutOffHolds`.
`GivenUpInv` says that before its registration is answered the SEPP has no entry,
and that after one that was given up nothing is sent or on its way that could
refresh one; the registration itself can arrive only where there is none
(`GivenUpIsNotKeptAliveHolds`).
The ticks stay behind the clock, but the lags do not add up for the NRF: a
heartbeat is an interval of ticks after the last one, and only the answer of
that one comes in between.
`MultiplesApart`, `NextMultiple` and `MultipleAhead` are the facts about
remainders that this uses.

**Mapping** (`TelescopicMappingProofs`).  `CutAfterThree` is the fact the code
rests on: cutting digits after the third gives back the two parts they were put
together from, if the first has three digits.  From it `PartnersFqdn` follows:
any spelling `is_roaming_partner` accepts is resolved to an FQDN of that
partner's network (`OnlyPartnersResolvedHolds`).  `LabelInv` keeps what the last
label was made from until it is asked for, which gives `LabelLeadsBackHolds`.

**Data** (`SeppDataProofs`).  `ConfigurationWarns` is a fact about the operators
for every file: the warning and the NBI server ask for the same paths, except
without a `sepp` section.  `StartInv` says that the file and the configuration
the server was started with are those, which gives `NbiListensUnlessWarnedHolds`.
`UnwrapWrapped` goes through the branches of both ends for any body, any key at
either end and any additional data, and needs nothing but that a tag fits what it
was made from (`OpensAsSealedHolds`).  `FromJsonFields` says what the two nested `from_json`
make of each member.  `ReadBackSame` is not inductive, as the profile may be
suspended after its JSON was written, and written again between two reads:
`ProfileInv` says that the JSON is that of the profile but for the status, and
`CopyInv` that the list of addresses has the address of the profile only
(`ReadBackSameHolds`).  `TypeCorrect` follows from these, from
`ConfigurationTypes` (every file that is not refused gives each field a value of
its type) and from `EncodedChars`.

**Encodings** (`SeppEncodingProofs`).  The state needs little (`TextInv`: what a
text is coded in is what `Base64urlEncode` made of it); the content is in lemmas
about the operators, for texts of every length.  None of them is an induction:
base64 works group by group, and a character is at a fixed place of a fixed
group.  `Group` is the fact about numbers: 24 bits put together from six parts
(`Whole`), each of which is part of one byte and of one character, give the
characters and the bytes when they are divided (`ReadsOff`); `DigitsOfBytes` and
`BytesOfDigits` are its two directions.  `Lengths` says that the characters of a
text of n bytes fill its groups but for at most two, and that their number gives
n back.  `ZerosBehind` says that what a group has behind the text is zeros, so
that it does not matter that "=" counts as zero when it is read.
`PrefixKept` says that leaving out "=" keeps what is before them, as the "=" are
the end (`BioEncodeWrites`).  Encoding: `SextetOfBits` compares each character
with the six bits of RFC 4648, from the bits of each byte (`BitsOfByte`), which
gives `EncodesText` and `EncodesAsBase64urlHolds`.  Decoding: `FilledAgain` says
that what `base64url_decode` hands to OpenSSL is what OpenSSL wrote, and
`BioDecodesBack` that this is read back to the byte, which gives `DecodesText`
and `DecodesBackHolds`.

The assumptions are those the modules state: the sentinels are no SEPP, request
or id; the deployments are well-formed; no SEPP is its own partner; a 204 has no
body; a configured MCC has three digits and an MNC two or three
(`PartnersAssumption`); the requests of NFs have the shape of `Queries`, with
any digits (`QueriesAssumption`); a node that is not in the configuration has no
role (`NoneAssumption`); a text is a sequence of bytes (`TextsAssumption`); the
bound of reads is a number (`MaxReadsAssumption`); the address of an interface can
be read (`AddressesAssumption`); durations are natural numbers, of which the
interval and the timeout are not zero, and fit together (`BudgetAssumption`).

## 5. What is only model-checked

* The liveness properties (`StartupEnds`, `StopEnds`, `SbiAnswers`, `NbiAnswers`,
  `SignalEndsProcess`).  They rest on fairness, whose `ENABLED` the provers do
  not handle.
* The expected violations of section 6, which hold on the instances they are
  shown on.

## 6. Where code and documents disagree

* **`TerminationReachesPeer`** (`sepp_n32c_handshake.cpp:280`).  Let b be a
  C-SEPP with partner a, and a a C-SEPP with partner p.  a agrees on a context
  with p; then b's exchange-params overwrites a's only context id.  When a is
  stopped it sends p the id of b's context; p confirms, keeps a's context, and a
  takes the termination for done.  `sepp_config.cpp:190` says the operation
  terminates the context at the remote SEPP.  For a SEPP that is nobody's
  partner the property holds (`ConfirmedTerminationClears`).
* **`AnswerIsProducers` between TLS SEPPs** (`sepp_n32f_forward.cpp:129`).  The
  endpoint of direct messages always sends a GET; a POST goes to the NRF, other
  methods get a 405, and the consumer is answered 200 whatever the NF answered.
  `docs/FEATURE_SET.md:32` and line 63 list TLS as supported and tested.
* **`TickEveryMillisecond`** (`task_manager.cpp:53`).  `wait_for_cycle` reads how
  often the timer has expired and ignores it.  After a heartbeat that took
  several milliseconds the tick is behind the clock and stays so.
  `task_manager.hpp:40` says it makes "sure that the task tick run every 1ms".
  The heartbeats still come in time (`SuspendedOnlyWhenCutOff`): they are due by
  tick, and the lag of one heartbeat is no more than its answer took.
* **`AnswerCarriesMapping`** (`sepp-http2-sbi-server.cpp:236`).  The route
  computes the mapping and answers with the parameters of the request.
  `docs/FEATURE_SET.md:36` lists the mapping as supported.

## 7. Plan

Done: the handshake and the relay with their runs and proofs; the NRF client with
the tick, the process with its signal handler, the mapping and the data, with
their runs and proofs.

Proved: every type invariant, safety invariant, action property and refinement
the passing runs check.  Left to TLC: the liveness properties (section 5).

Not modelled, and why:

* A composition of handshake and relay on the one NBI thread.  The receiver of a
  relayed message compares its context id with nothing, so that no outcome of a
  relay depends on the handshake; what the thread adds is delay, and
  `N32cHandshake` lets every message wait for any time.
* Option parsing, YAML itself, logging and display, the accessors of the
  profile, and the fields it never has (slices, IPv6 addresses, custom data).
* The API list of the configuration and `get_api_list`, which no route calls;
  the generated HTTP/1 handlers, which no router knows.
* The common library and the OpenAPI models (a submodule without its contents
  here), and the build and deployment files.
* Reads and writes of one `std::string` by two threads at once: every access to
  an id is one step.
