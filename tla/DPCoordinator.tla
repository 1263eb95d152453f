--------------------------- MODULE DPCoordinator ---------------------------
(***************************************************************************)
(* The request waves of a data-parallel deployment of a mixture-of-experts *)
(* model: the front ends (v1/engine/core_client.py, DPAsyncMPClient), the  *)
(* coordinator process (v1/engine/coordinator.py) and the engines          *)
(* (v1/engine/core.py, DPEngineCoreProc).                                  *)
(*                                                                         *)
(* Every forward pass exchanges tokens between all the engines, so either  *)
(* all of them make the pass (a dummy one where there is nothing to do) or *)
(* those that do wait for ever.  Idle engines are therefore woken together *)
(* and go idle together, after an all-reduce every so many passes;         *)
(* the waves count how often they did.  Nothing but messages in flight     *)
(* ties the three parties' idea of the current wave to each other.         *)
(*                                                                         *)
(* The front ends may pause the engines, all of which then stop after the  *)
(* same pass, and resume them.                                             *)
(*                                                                         *)
(* Out of scope: elastic scaling, the load counts, the SPMD deployment     *)
(* without a coordinator.                                                  *)
(***************************************************************************)
EXTENDS Integers, Sequences

CONSTANTS
  NumEngines,    \* engines are 0 .. NumEngines - 1, as in the code
  Client,        \* front-end processes
  NumRequests,   \* bound: requests are 1, 2, ... in the order in which they are sent
  Plans          \* what the front ends do, one of which happens

Engine == 0 .. NumEngines - 1
Request == 1 .. NumRequests

\* Fault: the front ends name an engine by its index.
identity_is_index(e) == e

\* The front ends name an engine by its socket identity, the index as two
\* bytes: a value that is equal to no index.
identity(e) == NumEngines + e

\* "no engine is excluded" in a START_DP_WAVE message.
NoEngine == -1

ASSUME SizesAssumption ==
  /\ NumEngines \in Nat \ {0, 1}
  /\ NumRequests \in Nat
  /\ \A p \in Plans :
       p \in [requests : [1 .. NumRequests -> SUBSET Engine],  \* engines each may be sent to
              interval : Nat \ {0},                \* passes between two all-reduces, 32 in the code
              passes : Nat \ {0},                  \* forward passes a request needs, at most
              aborts : SUBSET Request,             \* requests that may be aborted
              publish : Nat,                       \* bound: periodic publications
              pause : SUBSET {"abort", "wait", "keep"}]   \* modes of the one pause

VARIABLES
  plan,           \* never changes
  \* DPAsyncMPClient
  client_wave, client_running,  \* current_wave, engines_running
  first_req,      \* FIRST_REQ messages to the client's own stats task
  events,         \* what the stats task's last poll returned
  pausing,        \* the calls of the front ends: "none", "pause", "resume"
  replied,        \* engines that have answered the pause
  \* DPCoordinatorProc
  coord_wave, coord_running,    \* current_wave, engines_running
  published,      \* periodic publications so far
  \* DPEngineCoreProc
  current_wave, engines_running,
  step_counter,   \* modulo plan.interval, all the code asks of it
  scheduler,      \* the engine's unfinished requests
  pc,             \* "input", "forward" (in a pass), "sync" (in the all-reduce),
                  \* "resume" (in the barrier of resume_scheduler)
  pause_state, pending_pause, ignore_start_dp_wave,
  callbacks,      \* _idle_state_callbacks: the engine owes the reply to a pause
  started,        \* requests that are in the running queue of their scheduler
  ignored,        \* history: a START_DP_WAVE was ignored
  left,           \* passes each request still needs; 0 before it is sent
  home,           \* <<client, engine>> of each request, <<>> before it is sent
  aborted,        \* requests aborted
  \* the channels, all FIFO
  inputs,         \* [client][engine]: ADD, ABORT, and calls of pause and resume
  to_coord,       \* [client]: (target engine, wave)
  updates,        \* [client]: (wave, running) published by the coordinator
  start_wave,     \* [engine]: START_DP_WAVE
  output          \* [engine]: wave_complete and start_wave to the coordinator

clients == <<client_wave, client_running, first_req, events>>
coord == <<coord_wave, coord_running, published>>
engines == <<current_wave, engines_running, step_counter, scheduler, pc, left, started>>
pauses == <<pause_state, pending_pause, ignore_start_dp_wave, callbacks, ignored>>
sending == <<home, aborted, pausing, replied>>
channels == <<inputs, to_coord, updates, start_wave, output>>
vars == <<plan, clients, coord, engines, pauses, sending, channels>>

Init ==
  /\ plan \in Plans
  /\ client_wave = [c \in Client |-> 0]
  /\ client_running = [c \in Client |-> FALSE]
  /\ first_req = [c \in Client |-> <<>>]
  /\ events = [c \in Client |-> {}]
  /\ coord_wave = 0
  /\ coord_running = FALSE
  /\ published = 0
  /\ current_wave = [e \in Engine |-> 0]
  /\ engines_running = [e \in Engine |-> FALSE]
  /\ step_counter = [e \in Engine |-> 0]
  /\ scheduler = [e \in Engine |-> {}]
  /\ pc = [e \in Engine |-> "input"]
  /\ left = [r \in Request |-> 0]
  /\ home = [r \in Request |-> <<>>]
  /\ aborted = {}
  /\ pausing = "none" /\ replied = {}
  /\ pause_state = [e \in Engine |-> "UNPAUSED"]
  /\ pending_pause = [e \in Engine |-> FALSE]
  /\ ignore_start_dp_wave = [e \in Engine |-> FALSE]
  /\ callbacks = [e \in Engine |-> FALSE]
  /\ started = {}
  /\ ignored = FALSE
  /\ inputs = [c \in Client |-> [e \in Engine |-> <<>>]]
  /\ to_coord = [c \in Client |-> <<>>]
  /\ updates = [c \in Client |-> <<>>]
  /\ start_wave = [e \in Engine |-> <<>>]
  /\ output = [e \in Engine |-> <<>>]

-----------------------------------------------------------------------------
(* The front ends. *)

\* The request carries the wave the client believes in; a client that believes
\* the engines idle also tells its stats task, which tells the coordinator.
add_request_async(c, e, r) ==
  /\ e \in plan.requests[r]
  /\ \A s \in Request : home[s] # <<>> <=> s < r
  /\ home' = [home EXCEPT ![r] = <<c, e>>]
  /\ inputs' = [inputs EXCEPT ![c][e] =
                  Append(@, [type |-> "ADD", req |-> r, wave |-> client_wave[c]])]
  /\ first_req' = IF client_running[c] THEN first_req
                  ELSE [first_req EXCEPT ![c] = Append(@, identity(e))]
  /\ UNCHANGED <<plan, client_wave, client_running, events, coord, engines, pauses,
                 started, aborted, pausing, replied, to_coord, updates, start_wave, output>>

\* The client gives up a request: the ABORT follows the ADD to the same engine.
abort_requests_async(c, e, r) ==
  /\ r \in plan.aborts \ aborted
  /\ home[r] = <<c, e>>
  /\ aborted' = aborted \cup {r}
  /\ inputs' = [inputs EXCEPT ![c][e] =
                  Append(@, [type |-> "ABORT", req |-> r, wave |-> client_wave[c]])]
  /\ UNCHANGED <<plan, clients, coord, engines, pauses, home, pausing,
                 replied, to_coord, updates, start_wave, output>>

\* pause_scheduler and resume_scheduler are utility calls to every engine; the
\* pause returns when every engine has replied.
Paused == pausing = "pause" /\ replied = Engine

pause_scheduler_async(c, mode) ==
  /\ pausing = "none"
  /\ mode \in plan.pause
  /\ pausing' = "pause"
  /\ inputs' = [inputs EXCEPT ![c] = [e \in Engine |->
                  Append(@[e], [type |-> "PAUSE", mode |-> mode])]]
  /\ UNCHANGED <<plan, clients, coord, engines, pauses, home, aborted,
                 replied, to_coord, updates, start_wave, output>>

resume_scheduler_async(c) ==
  /\ Paused
  /\ pausing' = "resume"
  /\ inputs' = [inputs EXCEPT ![c] = [e \in Engine |->
                  Append(@[e], [type |-> "RESUME"])]]
  /\ UNCHANGED <<plan, clients, coord, engines, pauses, home, aborted,
                 replied, to_coord, updates, start_wave, output>>

\* The stats task polls both its sockets.  A publication in flight may or may
\* not have arrived; a FIRST_REQ comes from the same process.
poll(c) ==
  /\ events[c] = {}
  /\ \E ready \in SUBSET {"stats", "first_req"} \ {{}} :
       /\ "stats" \in ready => updates[c] # <<>>
       /\ "first_req" \in ready <=> first_req[c] # <<>>
       /\ events' = [events EXCEPT ![c] = ready]
  /\ UNCHANGED <<plan, pauses, client_wave, client_running, first_req, coord, engines, sending,
                 channels>>

\* A FIRST_REQ is served unless a publication is ready too and the client
\* already believes the engines running.
ServesFirstReq(c) ==
  \/ events[c] = {"first_req"}
  \/ ~client_running[c] /\ events[c] = {"stats", "first_req"}

\* The rest of the stats task's iteration: serve a FIRST_REQ, then drain the
\* publications that have arrived and keep the latest.
stats_update_task(c) ==
  /\ events[c] # {}
  /\ events' = [events EXCEPT ![c] = {}]
  /\ IF ServesFirstReq(c)
       THEN /\ first_req' = [first_req EXCEPT ![c] = Tail(@)]
            /\ to_coord' = [to_coord EXCEPT ![c] =
                 Append(@, [engine |-> Head(first_req[c]), wave |-> client_wave[c]])]
       ELSE UNCHANGED <<first_req, to_coord>>
  /\ \E n \in (IF "stats" \in events[c] THEN 1 ELSE 0) .. Len(updates[c]) :
       /\ updates' = [updates EXCEPT ![c] = SubSeq(@, n + 1, Len(@))]
       /\ client_wave' = IF n = 0 THEN client_wave
                         ELSE [client_wave EXCEPT ![c] = updates[c][n].wave]
       /\ client_running' = [client_running EXCEPT ![c] =
                               IF n = 0 THEN TRUE ELSE updates[c][n].running]
  /\ UNCHANGED <<plan, pauses, coord, engines, sending, inputs, start_wave, output>>

-----------------------------------------------------------------------------
(* The coordinator. *)

\* A publication reaches every front end.
Publish(wave, running) ==
  updates' = [c \in Client |->
                Append(updates[c], [wave |-> wave, running |-> running])]

send_start_wave(wave, exclude) ==
  start_wave' = [e \in Engine |->
                   Append(start_wave[e], [wave |-> wave, exclude |-> exclude])]

\* Poller timeout: publish the current state.
publish_stats ==
  /\ published < plan.publish
  /\ published' = published + 1
  /\ Publish(coord_wave, coord_running)
  /\ UNCHANGED <<plan, pauses, clients, coord_wave, coord_running, engines, sending, inputs,
                 to_coord, start_wave, output>>

\* A client is sending a request to idle engines: wake the others.
front_message(c) ==
  /\ to_coord[c] # <<>>
  /\ to_coord' = [to_coord EXCEPT ![c] = Tail(@)]
  /\ LET msg == Head(to_coord[c]) IN
     IF coord_running
       THEN UNCHANGED <<coord_running, start_wave, updates>>
       ELSE /\ coord_running' = TRUE
            /\ send_start_wave(coord_wave,
                 IF msg.wave < coord_wave THEN NoEngine ELSE msg.engine)
            /\ Publish(coord_wave, TRUE)
  /\ UNCHANGED <<plan, pauses, clients, coord_wave, published, engines, sending, inputs, output>>

\* Fault: a wave already over counts again.
wave_complete_unguarded(wave) ==
  /\ coord_wave' = coord_wave + 1
  /\ coord_running' = FALSE
  /\ Publish(coord_wave + 1, FALSE)
  /\ UNCHANGED start_wave

\* Fault: the coordinator waits for the completion of a later wave.
wave_complete_strict(wave) ==
  IF coord_wave < wave
    THEN /\ coord_wave' = wave + 1
         /\ coord_running' = FALSE
         /\ Publish(wave + 1, FALSE)
         /\ UNCHANGED start_wave
    ELSE UNCHANGED <<coord_wave, coord_running, updates, start_wave>>

\* Rank 0 reports that the engines have gone idle.
wave_complete(wave) ==
  IF coord_wave <= wave
    THEN /\ coord_wave' = wave + 1
         /\ coord_running' = FALSE
         /\ Publish(wave + 1, FALSE)
         /\ UNCHANGED start_wave
    ELSE UNCHANGED <<coord_wave, coord_running, updates, start_wave>>

\* An idle engine got a request of an earlier wave: wake the others.
start_wave_notice(wave, e) ==
  IF wave > coord_wave \/ (wave = coord_wave /\ ~coord_running)
    THEN /\ coord_wave' = wave
         /\ coord_running' = TRUE
         /\ send_start_wave(wave, e)
         /\ Publish(wave, TRUE)
    ELSE UNCHANGED <<coord_wave, coord_running, updates, start_wave>>

engine_message(e) ==
  /\ output[e] # <<>>
  /\ output' = [output EXCEPT ![e] = Tail(@)]
  /\ LET msg == Head(output[e]) IN
     \/ msg.type = "wave_complete" /\ wave_complete(msg.wave)
     \/ msg.type = "start_wave" /\ start_wave_notice(msg.wave, e)
  /\ UNCHANGED <<plan, pauses, clients, published, engines, sending, inputs, to_coord>>

-----------------------------------------------------------------------------
(* The engines. *)

\* An ADD reaches the scheduler.  A request of an earlier wave that finds the
\* engine idle, and not paused, also starts the next wave, by way of the
\* coordinator.
add_request(e, r, wave) ==
  /\ scheduler' = [scheduler EXCEPT ![e] = @ \cup {r}]
  /\ \E n \in 1 .. plan.passes : left' = [left EXCEPT ![r] = n]
  /\ current_wave' = IF wave > current_wave[e]
                       THEN [current_wave EXCEPT ![e] = wave] ELSE current_wave
  /\ IF wave < current_wave[e] /\ ~engines_running[e] /\ pause_state[e] = "UNPAUSED"
       THEN /\ engines_running' = [engines_running EXCEPT ![e] = TRUE]
            /\ output' = [output EXCEPT ![e] =
                 Append(@, [type |-> "start_wave", wave |-> current_wave[e]])]
       ELSE UNCHANGED <<engines_running, output>>
  /\ UNCHANGED <<step_counter, pc, started, pauses>>

abort_requests(e, r) ==
  /\ scheduler' = [scheduler EXCEPT ![e] = @ \ {r}]
  /\ left' = [left EXCEPT ![r] = 0]
  /\ UNCHANGED <<current_wave, engines_running, step_counter, pc, started, pauses, output>>

\* The engine is woken: it must reach the all-reduce where the engines agree on
\* the pause.
_pause_complete(e) ==
  /\ pending_pause' = [pending_pause EXCEPT ![e] = TRUE]
  /\ engines_running' = [engines_running EXCEPT ![e] = TRUE]

\* A pause sets the state of the scheduler.  The call is answered when the
\* engine goes idle.
pause_scheduler(e, mode) ==
  /\ scheduler' = IF mode = "abort" THEN [scheduler EXCEPT ![e] = {}] ELSE scheduler
  /\ left' = [r \in Request |-> IF mode = "abort" /\ r \in scheduler[e] THEN 0 ELSE left[r]]
  /\ pause_state' = [pause_state EXCEPT
                       ![e] = IF mode = "keep" THEN "PAUSED_ALL" ELSE "PAUSED_NEW"]
  /\ _pause_complete(e)
  /\ callbacks' = [callbacks EXCEPT ![e] = TRUE]
  /\ UNCHANGED <<ignore_start_dp_wave, ignored, current_wave, step_counter, pc, started, output>>

\* resume_scheduler up to its barrier.  It raises while a pause is in flight
\* and returns at once when the engines run.
resume_scheduler(e) ==
  /\ IF pending_pause[e] \/ engines_running[e]
       THEN UNCHANGED <<pause_state, ignore_start_dp_wave, pc>>
       ELSE /\ pause_state' = [pause_state EXCEPT ![e] = "UNPAUSED"]
            /\ ignore_start_dp_wave' = [ignore_start_dp_wave EXCEPT ![e] = FALSE]
            /\ pc' = [pc EXCEPT ![e] = "resume"]
  /\ UNCHANGED <<pending_pause, callbacks, ignored, current_wave, engines_running, step_counter,
                 scheduler, left, started, output>>

\* Scheduler.has_unfinished_requests: what a paused scheduler still runs.
unfinished(e) ==
  CASE pause_state[e] = "UNPAUSED" -> scheduler[e]
    [] pause_state[e] = "PAUSED_NEW" -> scheduler[e] \cap started
    [] pause_state[e] = "PAUSED_ALL" -> {}

has_work(e) == engines_running[e] \/ unfinished(e) # {}

\* The engine looks at its input queue, once it has answered a pause it owes
\* the answer to.
takes_input(e) == pc[e] = "input" /\ (callbacks[e] => has_work(e))

handle_client_request(e, c) ==
  /\ takes_input(e)
  /\ inputs[c][e] # <<>>
  /\ inputs' = [inputs EXCEPT ![c][e] = Tail(@)]
  /\ LET msg == Head(inputs[c][e]) IN
     \/ msg.type = "ADD" /\ add_request(e, msg.req, msg.wave)
     \/ msg.type = "ABORT" /\ abort_requests(e, msg.req)
     \/ msg.type = "PAUSE" /\ pause_scheduler(e, msg.mode)
     \/ msg.type = "RESUME" /\ resume_scheduler(e)
  /\ UNCHANGED <<plan, clients, coord, sending, to_coord, updates, start_wave>>

\* Fault: a paused engine is woken too.
wakes_paused(e, msg) == msg.exclude # e /\ msg.wave >= current_wave[e]

\* START_DP_WAVE wakes the engine, unless it is paused, the message excludes
\* its index or the wave is over.
wakes(e, msg) == ~ignore_start_dp_wave[e] /\ msg.exclude # e /\ msg.wave >= current_wave[e]

handle_start_wave(e) ==
  /\ takes_input(e)
  /\ start_wave[e] # <<>>
  /\ start_wave' = [start_wave EXCEPT ![e] = Tail(@)]
  /\ LET msg == Head(start_wave[e]) IN
     IF wakes(e, msg)
       THEN /\ current_wave' = [current_wave EXCEPT ![e] = msg.wave]
            /\ engines_running' = [engines_running EXCEPT ![e] = TRUE]
       ELSE UNCHANGED <<current_wave, engines_running>>
  /\ ignored' = (ignored \/ ignore_start_dp_wave[e])
  /\ UNCHANGED <<plan, clients, coord, step_counter, scheduler, pc, left, started, pause_state,
                 pending_pause, ignore_start_dp_wave, callbacks, sending, inputs, to_coord,
                 updates, output>>

\* An engine without work answers the pause; the front end goes on when all
\* engines have.
notify_idle_state_callbacks(e) ==
  /\ pc[e] = "input"
  /\ ~has_work(e)
  /\ callbacks[e]
  /\ callbacks' = [callbacks EXCEPT ![e] = FALSE]
  /\ replied' = replied \cup {e}
  /\ UNCHANGED <<plan, clients, coord, engines, pause_state, pending_pause, ignore_start_dp_wave,
                 ignored, home, aborted, pausing, channels>>

\* The input queue is empty and there is work: the engine enters the forward
\* pass, of its requests or of a dummy batch.
process_engine_step(e) ==
  /\ pc[e] = "input"
  /\ has_work(e)
  /\ pc' = [pc EXCEPT ![e] = "forward"]
  /\ UNCHANGED <<plan, pauses, clients, coord, current_wave, engines_running, step_counter,
                 scheduler, left, started, sending, channels>>

\* The pass completes once every engine is in it; every so many passes
\* the engine goes on to the all-reduce.
execute_model ==
  /\ \A e \in Engine : pc[e] = "forward"
  /\ LET scheduled == UNION {unfinished(e) : e \in Engine} IN
     /\ left' = [r \in Request |-> IF r \in scheduled THEN left[r] - 1 ELSE left[r]]
     /\ scheduler' = [e \in Engine |-> {r \in scheduler[e] : left'[r] > 0}]
     /\ started' = started \cup scheduled
  /\ step_counter' = [e \in Engine |-> (step_counter[e] + 1) % plan.interval]
  /\ pc' = [e \in Engine |-> IF step_counter'[e] = 0 THEN "sync" ELSE "input"]
  /\ engines_running' = [e \in Engine |->
                           step_counter'[e] # 0 \/ engines_running[e]]
  /\ UNCHANGED <<plan, pauses, clients, coord, current_wave, sending, channels>>

\* Fault: a pause that not all engines have heard of keeps none going.
sync_dp_state_lapses ==
  [has_unfinished |-> \E e \in Engine : unfinished(e) # {},
   pause_consensus |-> \A e \in Engine : pending_pause[e]]

\* What the all-reduce returns: the engines go on while one of them has
\* requests, or some of them, not all, have a pause pending.
sync_dp_state ==
  LET pause_consensus == \A e \in Engine : pending_pause[e] IN
  [has_unfinished |-> \/ \E e \in Engine : unfinished(e) # {}
                      \/ ~pause_consensus /\ \E e \in Engine : pending_pause[e],
   pause_consensus |-> pause_consensus]

\* The all-reduce.  When the engines do not go on the wave is over, and rank 0
\* tells the coordinator.
has_global_unfinished_reqs ==
  /\ \A e \in Engine : pc[e] = "sync"
  /\ pc' = [e \in Engine |-> "input"]
  /\ LET has_unfinished == sync_dp_state.has_unfinished
         pause_consensus == sync_dp_state.pause_consensus
     IN /\ engines_running' = [e \in Engine |-> has_unfinished]
        /\ IF has_unfinished
             THEN UNCHANGED <<current_wave, output>>
             ELSE /\ current_wave' = [e \in Engine |-> current_wave[e] + 1]
                  /\ output' = [output EXCEPT ![0] =
                       Append(@, [type |-> "wave_complete", wave |-> current_wave[0]])]
        /\ IF pause_consensus
             THEN /\ ignore_start_dp_wave' = [e \in Engine |-> TRUE]
                  /\ pending_pause' = [e \in Engine |-> FALSE]
             ELSE UNCHANGED <<ignore_start_dp_wave, pending_pause>>
  /\ UNCHANGED <<plan, pause_state, callbacks, ignored, clients, coord, step_counter, scheduler,
                 left, started, sending, inputs, to_coord, updates, start_wave>>

\* The barrier of resume_scheduler, an all-reduce over the stopped engines.
resume_barrier ==
  /\ \A e \in Engine : pc[e] = "resume"
  /\ pc' = [e \in Engine |-> "input"]
  /\ engines_running' = [e \in Engine |-> \E f \in Engine : unfinished(f) # {}]
  /\ UNCHANGED <<plan, pauses, clients, coord, current_wave, step_counter, scheduler, left,
                 started, sending, channels>>

-----------------------------------------------------------------------------
FrontEnd ==
  \/ \E c \in Client, e \in Engine, r \in Request :
       add_request_async(c, e, r) \/ abort_requests_async(c, e, r)
  \/ \E c \in Client, mode \in {"abort", "wait", "keep"} : pause_scheduler_async(c, mode)
  \/ \E c \in Client : resume_scheduler_async(c)

\* A message is taken by the stats task, the coordinator or an engine.
Messages ==
  \/ \E c \in Client : poll(c) \/ stats_update_task(c) \/ front_message(c)
  \/ \E e \in Engine : engine_message(e) \/ handle_start_wave(e)
  \/ \E e \in Engine, c \in Client : handle_client_request(e, c)

\* The engines' loops, apart from their input queues.
BusyLoop ==
  \/ \E e \in Engine : notify_idle_state_callbacks(e) \/ process_engine_step(e)
  \/ execute_model
  \/ has_global_unfinished_reqs
  \/ resume_barrier

Next == FrontEnd \/ Messages \/ publish_stats \/ BusyLoop

Spec == Init /\ [][Next]_vars

\* The processes keep running, and a message under way is taken however long
\* the engines keep stepping: an engine empties its input queue before each
\* step.  There are finitely many messages between two steps of the engines,
\* and no engine steps for ever alone, so that fairness of each process by
\* itself is not needed.  Nothing makes a front end send or abort a request.
Fairness == WF_vars(Messages \/ BusyLoop) /\ SF_vars(Messages)

FairSpec == Spec /\ Fairness

-----------------------------------------------------------------------------

\* Type correctness of the three parties' state and of the messages in flight.
TypeOK ==
  /\ client_wave \in [Client -> Nat] /\ client_running \in [Client -> BOOLEAN]
  /\ first_req \in [Client -> Seq({identity(e) : e \in Engine})]
  /\ events \in [Client -> SUBSET {"stats", "first_req"}]
  /\ coord_wave \in Nat /\ coord_running \in BOOLEAN /\ published \in 0 .. plan.publish
  /\ current_wave \in [Engine -> Nat] /\ engines_running \in [Engine -> BOOLEAN]
  /\ step_counter \in [Engine -> 0 .. plan.interval - 1]
  /\ scheduler \in [Engine -> SUBSET Request]
  /\ pc \in [Engine -> {"input", "forward", "sync", "resume"}]
  /\ pause_state \in [Engine -> {"UNPAUSED", "PAUSED_NEW", "PAUSED_ALL"}]
  /\ pending_pause \in [Engine -> BOOLEAN] /\ callbacks \in [Engine -> BOOLEAN]
  /\ ignore_start_dp_wave \in [Engine -> BOOLEAN]
  /\ pausing \in {"none", "pause", "resume"} /\ replied \subseteq Engine
  /\ left \in [Request -> 0 .. plan.passes]
  /\ home \in [Request -> {<<>>} \cup (Client \X Engine)]
  /\ aborted \subseteq plan.aborts
  /\ inputs \in [Client -> [Engine ->
       Seq([type : {"ADD", "ABORT"}, req : Request, wave : Nat]
           \cup [type : {"PAUSE"}, mode : plan.pause] \cup [type : {"RESUME"}])]]
  /\ to_coord \in [Client -> Seq([engine : {identity(e) : e \in Engine}, wave : Nat])]
  /\ updates \in [Client -> Seq([wave : Nat, running : BOOLEAN])]
  /\ start_wave \in [Engine -> Seq([wave : Nat,
       exclude : {NoEngine} \cup Engine \cup {identity(e) : e \in Engine}])]
  /\ output \in [Engine -> Seq([type : {"wave_complete", "start_wave"}, wave : Nat])]

\* The engines always agree on the number of the wave, and neither the
\* coordinator nor a front end is ever ahead of them (coordinator.py:33-42):
\* a wave is over for everyone before anyone can hear of the next one.
OneWave ==
  /\ TypeOK
  /\ \A e, f \in Engine : current_wave[e] = current_wave[f]
  /\ coord_wave <= current_wave[0]
  /\ \A c \in Client : client_wave[c] <= coord_wave

\* No message is in flight and no party has anything to do.
Quiescent ==
  /\ \A c \in Client : /\ to_coord[c] = <<>> /\ updates[c] = <<>>
                       /\ first_req[c] = <<>> /\ events[c] = {}
                       /\ \A e \in Engine : inputs[c][e] = <<>>
  /\ \A e \in Engine : /\ start_wave[e] = <<>> /\ output[e] = <<>>
                       /\ pc[e] = "input" /\ ~has_work(e)

\* When everything has come to rest, the coordinator and every front end know
\* that the engines are idle, and in which wave: the next request will wake
\* them (coordinator.py:408-441, core_client.py:1339-1342, 1367-1370).  A
\* START_DP_WAVE that a paused engine ignores makes them believe otherwise.
IdleIsKnown ==
  Quiescent /\ ~ignored =>
    /\ ~coord_running /\ coord_wave = current_wave[0]
    /\ \A c \in Client : ~client_running[c] /\ client_wave[c] = coord_wave

\* No engine waits in a forward pass for a peer that nobody wakes: whatever
\* waves the parties believe in when a request is sent, an engine that enters
\* a pass is joined by all the others (coordinator.py:51-52).
EveryPassIsJoined ==
  (\E e \in Engine : pc[e] = "forward") ~> (\A e \in Engine : pc[e] = "forward")

\* So it is as long as no paused engine has ignored a START_DP_WAVE.
PassIsJoinedUnlessIgnored ==
  (\E e \in Engine : pc[e] = "forward") ~> (ignored \/ \A e \in Engine : pc[e] = "forward")

\* Between the answer to a pause and the next resume no engine runs, although
\* requests and START_DP_WAVE messages that were under way still arrive.
PauseHolds ==
  Paused => \A e \in Engine : pc[e] = "input" /\ ~has_work(e)

\* A pause is answered: an engine that hears of it first keeps stepping until
\* the others, which it needs for every pass, have heard of it too.
PauseCompletes ==
  (pausing = "pause") ~> Paused \/ pausing = "resume"
=============================================================================
