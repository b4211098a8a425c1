------------------------- MODULE ConnectionManager -------------------------
(***************************************************************************)
(* ConnectionManager (src/core/src/connection_manager.cpp) over the        *)
(* WebSocketClient (src/core/src/network/websocket_client.cpp).            *)
(*                                                                         *)
(* Six threads run the code: the HTTP worker ("http"), which connects when *)
(* a login is answered, the application ("app"), which logs out, the       *)
(* platform's network monitor ("mon"), the WebSocket worker ("ws"), the    *)
(* reconnect timer ("rt") and the heartbeat ("hb").  A call is a sequence  *)
(* of steps the calling thread has still to take, todo[a]; a step is one   *)
(* access to an atomic, one section under a mutex, or one join, so any     *)
(* other thread may run between two steps.                                 *)
(*                                                                         *)
(* It is the manager of one login: the next login's answer makes a new one *)
(* (client_impl.cpp:192-210), and the destruction of this one is left out. *)
(*                                                                         *)
(* Time is abstract: a delay that is not cancelled may end at any moment.  *)
(***************************************************************************)
EXTENDS Naturals, Sequences, FiniteSets

CONSTANTS
  kMaxSuperRetries,    \* outer reconnections before giving up
  MAX_RECONNECT,       \* inner reconnections before giving up
  MaxCalls,            \* bound: calls of connect
  MaxLogouts,          \* bound: calls of disconnect
  MaxFailures,         \* bound: connection attempts that fail
  MaxDrops,            \* bound: established sockets that close
  MaxNetChanges,       \* bound: reachability changes
  ServerMayGoSilent    \* whether the server may answer no ping for 60 s

ASSUME ParametersAssumption ==
  /\ kMaxSuperRetries \in Nat /\ MAX_RECONNECT \in Nat
  /\ MaxCalls \in Nat /\ MaxLogouts \in Nat /\ MaxFailures \in Nat /\ MaxDrops \in Nat
  /\ MaxNetChanges \in Nat /\ ServerMayGoSilent \in BOOLEAN

VARIABLES
  (* ConnectionManager *)
  state_, want_connected_, network_ok_, super_retry_count_,
  reconnect_pending_, reconnect_cancel_,
  rt,                   \* the reconnect thread: "wait", "sleep" or "fire"
  heartbeat_stopping_,
  heartbeat,            \* heartbeat_thread_: "none", "run" or "exited" (not joined)
  (* WebSocketClient::Impl *)
  running, connected, reconnect_count,
  worker,               \* the worker thread: "none", "run" or "exited" (not joined)
  attempts,             \* client connections lws is still establishing
  sockets,              \* established connections
  (* the threads *)
  todo,                 \* per thread, the steps of its current call
  aborted,              \* std::terminate was called
  calls, logouts, failures, dropped, netChanges

cmVars    == <<state_, want_connected_, network_ok_, super_retry_count_>>
timerVars == <<reconnect_pending_, reconnect_cancel_, rt>>
hbVars    == <<heartbeat_stopping_, heartbeat>>
wsVars    == <<running, connected, reconnect_count, worker, attempts, sockets>>
bounds    == <<calls, logouts, failures, dropped, netChanges>>
vars == <<cmVars, timerVars, hbVars, wsVars, todo, aborted, bounds>>

-----------------------------------------------------------------------------
(* The code's functions, as sequences of steps. *)

Actors == {"http", "app", "mon", "ws", "rt", "hb"}

\* Faulty variant: Disconnected is shown before the socket is closed.
ShowThenDisconnect == <<"setDisconnected", "wsStop", "wsJoin">>

DoConnect        == <<"setConnecting", "wsTest">>
DoDisconnect     == <<"wsStop", "wsJoin", "setDisconnected">>
StopHeartbeat    == <<"hbStop", "hbJoin">>
StartHeartbeat   == StopHeartbeat \o <<"hbClear", "hbSpawn">>
Connect          == <<"want", "resetRetries", "cancel", "connectTest">>
Disconnect       == <<"unwant", "cancel">> \o StopHeartbeat \o DoDisconnect
OnNetworkUp      == <<"upTest">>
OnNetworkDown    == <<"cancel", "downTest">>
OnWsConnected    == <<"resetRetries", "setConnected">> \o StartHeartbeat
OnWsDisconnected == StopHeartbeat \o <<"lostTest">>
OnWsError        == <<"wsError">>

Steps == {"setConnecting", "setConnected", "setDisconnected", "setReconnecting", "want", "unwant",
          "cancel", "schedule", "resetRetries", "connectTest", "upTest", "downTest", "lostTest",
          "wsError", "wsTest", "wsRun", "wsSpawn", "wsStop", "wsJoin", "retry",
          "hbStop", "hbJoin", "hbClear", "hbSpawn"}

States == {"Disconnected", "Connecting", "Connected", "Reconnecting"}

TypeOK ==
  /\ state_ \in States
  /\ want_connected_ \in BOOLEAN /\ network_ok_ \in BOOLEAN
  /\ super_retry_count_ \in Nat
  /\ reconnect_pending_ \in BOOLEAN /\ reconnect_cancel_ \in BOOLEAN
  /\ rt \in {"wait", "sleep", "fire"}
  /\ heartbeat_stopping_ \in BOOLEAN
  /\ heartbeat \in {"none", "run", "exited"}
  /\ running \in BOOLEAN /\ connected \in BOOLEAN
  /\ reconnect_count \in 0..MAX_RECONNECT
  /\ worker \in {"none", "run", "exited"}
  /\ attempts \in Nat /\ sockets \in Nat
  /\ todo \in [Actors -> Seq(Steps)]
  /\ aborted \in BOOLEAN
  /\ calls \in Nat /\ logouts \in Nat /\ failures \in Nat /\ dropped \in Nat
  /\ netChanges \in Nat

Init ==
  /\ state_ = "Disconnected" /\ want_connected_ = FALSE
  /\ network_ok_ \in BOOLEAN /\ super_retry_count_ = 0
  /\ reconnect_pending_ = FALSE /\ reconnect_cancel_ = FALSE /\ rt = "wait"
  /\ heartbeat_stopping_ = FALSE /\ heartbeat = "none"
  /\ running = FALSE /\ connected = FALSE /\ reconnect_count = 0
  /\ worker = "none" /\ attempts = 0 /\ sockets = 0
  /\ todo = [a \in Actors |-> << >>]
  /\ aborted = FALSE
  /\ calls = 0 /\ logouts = 0 /\ failures = 0 /\ dropped = 0 /\ netChanges = 0

Idle(a) == ~aborted /\ todo[a] = << >>

\* Thread a is about to take step s, and goes on with the steps in more.
At(a, s) == ~aborted /\ todo[a] # << >> /\ Head(todo[a]) = s
Go(a, more) == todo' = [todo EXCEPT ![a] = more \o Tail(@)]
Begin(a, steps) == todo' = [todo EXCEPT ![a] = steps]

-----------------------------------------------------------------------------
(* Steps of ConnectionManager. *)

\* setState's exchange; the callback it runs belongs to the application.
SetState(a, step, s) ==
  /\ At(a, step)
  /\ state_' = s
  /\ Go(a, << >>)
  /\ UNCHANGED <<want_connected_, network_ok_, super_retry_count_, timerVars, hbVars, wsVars, aborted, bounds>>

\* The intent of connect.
Want(a) ==
  /\ At(a, "want")
  /\ want_connected_' = TRUE
  /\ Go(a, << >>)
  /\ UNCHANGED <<state_, network_ok_, super_retry_count_, timerVars, hbVars, wsVars, aborted, bounds>>

\* The intent of disconnect.
Unwant(a) ==
  /\ At(a, "unwant")
  /\ want_connected_' = FALSE
  /\ Go(a, << >>)
  /\ UNCHANGED <<state_, network_ok_, super_retry_count_, timerVars, hbVars, wsVars, aborted, bounds>>

\* connect, a recovered network and a new socket start a new budget of outer retries.
ResetRetries(a) ==
  /\ At(a, "resetRetries")
  /\ super_retry_count_' = 0
  /\ Go(a, << >>)
  /\ UNCHANGED <<state_, want_connected_, network_ok_, timerVars, hbVars, wsVars, aborted, bounds>>

\* connect: straight away on a reachable network, else when it comes back.
ConnectTest(a) ==
  /\ At(a, "connectTest")
  /\ Go(a, IF network_ok_ THEN DoConnect ELSE <<"setDisconnected">>)
  /\ UNCHANGED <<cmVars, timerVars, hbVars, wsVars, aborted, bounds>>

\* onNetworkChanged, network recovered.
UpTest(a) ==
  /\ At(a, "upTest")
  /\ Go(a, IF want_connected_ /\ state_ \in {"Disconnected", "Reconnecting"}
             THEN <<"resetRetries", "cancel">> \o DoConnect ELSE << >>)
  /\ UNCHANGED <<cmVars, timerVars, hbVars, wsVars, aborted, bounds>>

\* onNetworkChanged, network lost.
DownTest(a) ==
  /\ At(a, "downTest")
  /\ Go(a, IF state_ # "Disconnected" THEN StopHeartbeat \o DoDisconnect ELSE << >>)
  /\ UNCHANGED <<cmVars, timerVars, hbVars, wsVars, aborted, bounds>>

\* Faulty variant: onWsDisconnected leaves state_ alone when it gives up.
LostTestKeepsState(a) ==
  /\ At(a, "lostTest")
  /\ IF ~want_connected_ \/ ~network_ok_
       THEN Go(a, << >>) /\ UNCHANGED super_retry_count_
       ELSE /\ super_retry_count_' = super_retry_count_ + 1
            /\ Go(a, IF super_retry_count_ >= kMaxSuperRetries
                       THEN << >> ELSE <<"setReconnecting", "schedule">>)
  /\ UNCHANGED <<state_, want_connected_, network_ok_, timerVars, hbVars, wsVars, aborted, bounds>>

\* onWsDisconnected after stopHeartbeat: give up, or plan an outer retry.
LostTest(a) ==
  /\ At(a, "lostTest")
  /\ IF ~want_connected_ \/ ~network_ok_
       THEN Go(a, <<"setDisconnected">>) /\ UNCHANGED super_retry_count_
       ELSE /\ super_retry_count_' = super_retry_count_ + 1
            /\ Go(a, IF super_retry_count_ >= kMaxSuperRetries
                       THEN <<"setDisconnected">> ELSE <<"setReconnecting", "schedule">>)
  /\ UNCHANGED <<state_, want_connected_, network_ok_, timerVars, hbVars, wsVars, aborted, bounds>>

\* onWsError.
WsError(a) ==
  /\ At(a, "wsError")
  /\ Go(a, IF state_ = "Connected" THEN <<"setReconnecting">> ELSE << >>)
  /\ UNCHANGED <<cmVars, timerVars, hbVars, wsVars, aborted, bounds>>

ScheduleReconnect(a) ==
  /\ At(a, "schedule")
  /\ reconnect_cancel_' = FALSE
  /\ reconnect_pending_' = TRUE
  /\ Go(a, << >>)
  /\ UNCHANGED <<cmVars, rt, hbVars, wsVars, aborted, bounds>>

CancelReconnect(a) ==
  /\ At(a, "cancel")
  /\ reconnect_cancel_' = TRUE
  /\ reconnect_pending_' = FALSE
  /\ Go(a, << >>)
  /\ UNCHANGED <<cmVars, rt, hbVars, wsVars, aborted, bounds>>

\* stopHeartbeat: tell the thread to stop.
HbStop(a) ==
  /\ At(a, "hbStop")
  /\ heartbeat_stopping_' = TRUE
  /\ Go(a, << >>)
  /\ UNCHANGED <<cmVars, timerVars, heartbeat, wsVars, aborted, bounds>>

\* stopHeartbeat: join it, once it has exited, if there is one.
HbJoin(a) ==
  /\ At(a, "hbJoin")
  /\ heartbeat # "run"
  /\ heartbeat' = "none"
  /\ Go(a, << >>)
  /\ UNCHANGED <<cmVars, timerVars, heartbeat_stopping_, wsVars, aborted, bounds>>

\* startHeartbeat after its stopHeartbeat; only the WebSocket worker runs it.
HbClear(a) ==
  /\ At(a, "hbClear")
  /\ heartbeat_stopping_' = FALSE
  /\ Go(a, << >>)
  /\ UNCHANGED <<cmVars, timerVars, heartbeat, wsVars, aborted, bounds>>

HbSpawn(a) ==
  /\ At(a, "hbSpawn")
  /\ heartbeat' = "run"
  /\ Go(a, << >>)
  /\ UNCHANGED <<cmVars, timerVars, heartbeat_stopping_, wsVars, aborted, bounds>>

-----------------------------------------------------------------------------
(* Steps of WebSocketClient::connect and disconnect. *)

WsTest(a) ==
  /\ At(a, "wsTest")
  /\ Go(a, IF running THEN << >> ELSE <<"wsRun", "wsSpawn">>)
  /\ UNCHANGED <<cmVars, timerVars, hbVars, wsVars, aborted, bounds>>

WsRun(a) ==
  /\ At(a, "wsRun")
  /\ running' = TRUE
  /\ Go(a, << >>)
  /\ UNCHANGED <<cmVars, timerVars, hbVars, connected, reconnect_count, worker, attempts, sockets,
                 aborted, bounds>>

\* The worker opens the first connection as it starts.  Assigning to a thread
\* object that was not joined terminates the process.
WsSpawn(a) ==
  /\ At(a, "wsSpawn")
  /\ IF worker = "none"
       THEN worker' = "run" /\ attempts' = 1 /\ UNCHANGED aborted
       ELSE aborted' = TRUE /\ UNCHANGED <<worker, attempts>>
  /\ Go(a, << >>)
  /\ UNCHANGED <<cmVars, timerVars, hbVars, running, connected, reconnect_count, sockets, bounds>>

WsStop(a) ==
  /\ At(a, "wsStop")
  /\ running' = FALSE
  /\ Go(a, << >>)
  /\ UNCHANGED <<cmVars, timerVars, hbVars, connected, reconnect_count, worker, attempts, sockets,
                 aborted, bounds>>

WsJoin(a) ==
  /\ At(a, "wsJoin")
  /\ worker # "run"
  /\ worker' = "none"
  /\ Go(a, << >>)
  /\ UNCHANGED <<cmVars, timerVars, hbVars, running, connected, reconnect_count, attempts, sockets,
                 aborted, bounds>>

\* join() by the thread itself throws, and by two threads at once is undefined:
\* the process ends, or one of them waits for the other's join.
JoinFails(a) ==
  /\ \/ At(a, "hbJoin") /\ heartbeat # "none" /\ (a = "hb" \/ \E b \in Actors \ {a} : At(b, "hbJoin"))
     \/ At(a, "wsJoin") /\ worker # "none" /\ \E b \in Actors \ {a} : At(b, "wsJoin")
  /\ aborted' = TRUE
  /\ UNCHANGED <<cmVars, timerVars, hbVars, wsVars, todo, bounds>>

-----------------------------------------------------------------------------
(* The WebSocket worker: WebSocketClient::Impl::loop. *)

Looping == Idle("ws") /\ worker = "run"

\* LWS_CALLBACK_CLIENT_ESTABLISHED
Established ==
  /\ Looping /\ attempts > 0
  /\ attempts' = attempts - 1
  /\ sockets' = sockets + 1
  /\ connected' = TRUE
  /\ reconnect_count' = 0
  /\ Begin("ws", OnWsConnected)
  /\ UNCHANGED <<cmVars, timerVars, hbVars, running, worker, aborted, bounds>>

\* LWS_CALLBACK_CLIENT_CONNECTION_ERROR: the server refuses, or the context is
\* destroyed while the attempt is under way.
AttemptFails ==
  /\ Looping /\ attempts > 0
  /\ running => failures < MaxFailures
  /\ failures' = IF running THEN failures + 1 ELSE failures
  /\ attempts' = attempts - 1
  /\ connected' = FALSE
  /\ Begin("ws", OnWsDisconnected \o OnWsError)
  /\ UNCHANGED <<cmVars, timerVars, hbVars, running, reconnect_count, worker, sockets, aborted,
                 calls, logouts, dropped, netChanges>>

\* LWS_CALLBACK_CLOSED: the peer or the network, or the destroyed context.
Closed ==
  /\ Looping /\ sockets > 0
  /\ running => dropped < MaxDrops
  /\ dropped' = IF running THEN dropped + 1 ELSE dropped
  /\ sockets' = sockets - 1
  /\ connected' = FALSE
  /\ Begin("ws", OnWsDisconnected)
  /\ UNCHANGED <<cmVars, timerVars, hbVars, running, reconnect_count, worker, attempts, aborted,
                 calls, logouts, failures, netChanges>>

\* Faulty variant: one attempt more than MAX_RECONNECT.
InnerRetryOnceMore ==
  /\ Looping /\ running /\ ~connected
  /\ reconnect_count <= MAX_RECONNECT
  /\ Begin("ws", <<"retry">>)
  /\ UNCHANGED <<cmVars, timerVars, hbVars, wsVars, aborted, bounds>>

\* The loop's back-off: whenever no socket is marked connected after a service
\* call, also while an attempt is still under way.
InnerRetry ==
  /\ Looping /\ running /\ ~connected
  /\ reconnect_count < MAX_RECONNECT
  /\ Begin("ws", <<"retry">>)
  /\ UNCHANGED <<cmVars, timerVars, hbVars, wsVars, aborted, bounds>>

\* After the sleep, whatever has happened to running meanwhile.
Retry(a) ==
  /\ At(a, "retry")
  /\ reconnect_count' = reconnect_count + 1
  /\ attempts' = attempts + 1
  /\ Go(a, << >>)
  /\ UNCHANGED <<cmVars, timerVars, hbVars, running, connected, worker, sockets, aborted, bounds>>

\* The loop is left, and the destroyed context has reported what it closed.
WorkerExit ==
  /\ Looping /\ ~running
  /\ attempts = 0 /\ sockets = 0
  /\ worker' = "exited"
  /\ UNCHANGED <<cmVars, timerVars, hbVars, running, connected, reconnect_count, attempts, sockets,
                 todo, aborted, bounds>>

-----------------------------------------------------------------------------
(* The reconnect thread and the heartbeat thread. *)

\* A plan is pending: forget an older cancellation and start to sleep.
RtWake ==
  /\ Idle("rt") /\ rt = "wait" /\ reconnect_pending_
  /\ reconnect_cancel_' = FALSE
  /\ rt' = "sleep"
  /\ UNCHANGED <<cmVars, reconnect_pending_, hbVars, wsVars, todo, aborted, bounds>>

\* The delay is over, or cancelled.
RtSleepEnds ==
  /\ Idle("rt") /\ rt = "sleep"
  /\ reconnect_pending_' = FALSE
  /\ rt' = IF reconnect_cancel_ THEN "wait" ELSE "fire"
  /\ UNCHANGED <<cmVars, reconnect_cancel_, hbVars, wsVars, todo, aborted, bounds>>

\* Faulty variant: the timer does not look at the intent any more.
RtFireAlways ==
  /\ Idle("rt") /\ rt = "fire"
  /\ rt' = "wait"
  /\ Begin("rt", DoConnect)
  /\ UNCHANGED <<cmVars, reconnect_pending_, reconnect_cancel_, hbVars, wsVars, aborted, bounds>>

\* The timer has expired: outside the lock, check the intent and connect.
RtFire ==
  /\ Idle("rt") /\ rt = "fire"
  /\ rt' = "wait"
  /\ Begin("rt", IF want_connected_ /\ network_ok_ THEN DoConnect ELSE << >>)
  /\ UNCHANGED <<cmVars, reconnect_pending_, reconnect_cancel_, hbVars, wsVars, aborted, bounds>>

HbExit ==
  /\ Idle("hb") /\ heartbeat = "run" /\ heartbeat_stopping_
  /\ heartbeat' = "exited"
  /\ UNCHANGED <<cmVars, timerVars, heartbeat_stopping_, wsVars, todo, aborted, bounds>>

\* The interval is over and onPongReceived was not called for kPongTimeoutMs.
PongTimeout ==
  /\ Idle("hb") /\ heartbeat = "run"
  /\ state_ = "Connected" /\ ServerMayGoSilent
  /\ Begin("hb", OnWsDisconnected)
  /\ UNCHANGED <<cmVars, timerVars, hbVars, wsVars, aborted, bounds>>

-----------------------------------------------------------------------------
(* The application, the platform and the server. *)

\* The answer to AnyChatClient::login, on the HTTP worker.
CallConnect ==
  /\ Idle("http") /\ calls < MaxCalls
  /\ calls' = calls + 1
  /\ Begin("http", Connect)
  /\ UNCHANGED <<cmVars, timerVars, hbVars, wsVars, aborted, logouts, failures, dropped, netChanges>>

\* AnyChatClient::logout, once there is a conn_mgr_, and however often.
CallDisconnect ==
  /\ Idle("app") /\ calls > 0 /\ logouts < MaxLogouts
  /\ logouts' = logouts + 1
  /\ Begin("app", Disconnect)
  /\ UNCHANGED <<cmVars, timerVars, hbVars, wsVars, aborted, calls, failures, dropped, netChanges>>

\* onNetworkChanged with another status than the last one; the monitor is
\* started by the first connect().
NetworkChanged ==
  /\ Idle("mon") /\ calls > 0
  /\ netChanges < MaxNetChanges
  /\ netChanges' = netChanges + 1
  /\ network_ok_' = ~network_ok_
  /\ Begin("mon", IF network_ok_ THEN OnNetworkDown ELSE OnNetworkUp)
  /\ UNCHANGED <<state_, want_connected_, super_retry_count_, timerVars, hbVars, wsVars, aborted,
                 calls, logouts, failures, dropped>>

-----------------------------------------------------------------------------

Step(a) ==
  \/ SetState(a, "setConnecting", "Connecting")
  \/ SetState(a, "setConnected", "Connected")
  \/ SetState(a, "setReconnecting", "Reconnecting")
  \/ SetState(a, "setDisconnected", "Disconnected")
  \/ Want(a) \/ Unwant(a) \/ ResetRetries(a)
  \/ ConnectTest(a) \/ UpTest(a) \/ DownTest(a) \/ LostTest(a) \/ WsError(a)
  \/ ScheduleReconnect(a) \/ CancelReconnect(a)
  \/ HbStop(a) \/ HbJoin(a) \/ HbClear(a) \/ HbSpawn(a)
  \/ WsTest(a) \/ WsRun(a) \/ WsSpawn(a) \/ WsStop(a) \/ WsJoin(a)
  \/ Retry(a)

Next ==
  \/ \E a \in Actors : Step(a) \/ JoinFails(a)
  \/ Established \/ AttemptFails \/ Closed \/ InnerRetry \/ WorkerExit
  \/ RtWake \/ RtSleepEnds \/ RtFire
  \/ HbExit \/ PongTimeout
  \/ CallConnect \/ CallDisconnect \/ NetworkChanged

Spec == Init /\ [][Next]_vars

\* Threads are scheduled, delays end, an attempt either succeeds or fails; the
\* application, the platform and the server do what they like.
Fairness ==
  /\ \A a \in Actors : WF_vars(Step(a))
  /\ WF_vars(Established \/ AttemptFails)
  /\ WF_vars(~running /\ Closed)
  /\ WF_vars(InnerRetry)
  /\ WF_vars(WorkerExit)
  /\ WF_vars(RtWake) /\ WF_vars(RtSleepEnds) /\ WF_vars(RtFire)
  /\ WF_vars(HbExit)

FairSpec == Spec /\ Fairness

-----------------------------------------------------------------------------
(* What holds. *)

\* The state the application sees is never "Connected" over a dead socket,
\* once the worker has finished the callback that reports it.
ConnectedIsTrue == state_ = "Connected" /\ todo["ws"] = << >> => connected

\* The steps on the way to an open connection.
Opening == {"want", "connectTest", "wsTest", "wsRun", "wsSpawn"}

\* Nobody wants a connection, the worker is gone, and no thread has passed the
\* test of the intent and is still to open one.
Shut ==
  /\ ~aborted /\ ~want_connected_
  /\ ~running /\ worker # "run"
  /\ \A a \in Actors : \A i \in DOMAIN todo[a] : todo[a][i] \notin Opening

\* disconnect(): "Cancel all pending reconnection plans, close WebSocket"
\* (connection_manager.h).  Once it is closed, no timer still asleep, no plan a
\* late event made after the cancellation and no network recovery opens a
\* connection before the application calls connect().
StaysDisconnected == [][Shut => Shut' \/ calls' # calls \/ aborted']_vars

\* And whatever the other threads did to state_ while disconnect() ran, the
\* application sees Disconnected in the end.
DisconnectedIsShown ==
  Shut /\ (\A a \in Actors : todo[a] = << >>) => state_ = "Disconnected"

-----------------------------------------------------------------------------
(* What the sources say and the code does not keep. *)

\* "reconnect if no pong received within 60 s" (connection_manager.h:26): the
\* heartbeat thread itself calls onWsDisconnected, whose stopHeartbeat joins
\* the heartbeat thread.
NeverAborts == ~aborted

\* The state machine of architecture.md leaves Connected only for Reconnecting
\* and Disconnected.  A successful inner retry leaves the outer timer running.
ConnectedUntilLost == [][~(state_ = "Connected" /\ state_' = "Connecting")]_vars

\* "Perform longer-interval outer-layer reconnection after WebSocket internal
\* retries exhausted" (connection_manager.h:24): while the application wants a
\* connection and the network is there, an attempt is made again.  The worker
\* never leaves its loop, so the outer connect() finds it running.
OuterRetryConnects ==
  [](want_connected_ /\ network_ok_ /\ ~connected => <>(connected \/ attempts > 0
       \/ ~want_connected_ \/ ~network_ok_ \/ aborted \/ state_ = "Disconnected"))

=============================================================================
