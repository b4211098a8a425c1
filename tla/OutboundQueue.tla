--------------------------- MODULE OutboundQueue ---------------------------
(***************************************************************************)
(* OutboundQueue (src/core/src/outbound_queue.cpp) with everything it      *)
(* interleaves with: the application threads that call sendTextMessage,    *)
(* the SQLite worker thread that runs its statements in FIFO order, the    *)
(* WebSocket thread that flushes the table and handles acks, the           *)
(* WebSocketClient's send_queue, the socket and the server.                *)
(*                                                                         *)
(* One action is one piece of code that runs without another thread being  *)
(* able to observe its middle: a section under mu_, a post to the database *)
(* worker, or a callback of the WebSocket thread.                          *)
(*                                                                         *)
(* A message is an abstract value; a row is a local_id with the message it *)
(* was given to.  created_at orders the flush by wall-clock seconds, which *)
(* tie and step, so the flush takes the rows in any order; retry_count is  *)
(* written and never read, and is left out.                                *)
(***************************************************************************)
EXTENDS Naturals, Sequences

CONSTANTS
  Threads,       \* application threads that call the SDK
  Msgs,          \* the messages the application sends, each one once
  NoMsg,         \* the payload of a transient frame (typing, edit fallback)
  MaxDrops,      \* bound: times the socket is lost
  MaxLogouts,    \* bound: calls of AnyChatClient::logout
  MaxRestarts,   \* bound: crashes of the process
  MaxTransient   \* bound: transient frames sent

ASSUME BoundsAssumption ==
  /\ MaxDrops \in Nat
  /\ MaxLogouts \in Nat
  /\ MaxRestarts \in Nat
  /\ MaxTransient \in Nat

ASSUME NoMsgAssumption == NoMsg \notin Msgs

VARIABLES
  (* Database: survives a crash *)
  outbound_queue, \* the SQL table of the same name: a set of rows, local_id is its key
  (* Database: lost in a crash *)
  tasks,          \* Database::Impl::tasks, statements not executed yet, in FIFO order
  (* OutboundQueue members, and MessageManagerImpl's static id counter *)
  send_fn_,       \* TRUE iff send_fn_ is set
  callbacks_,     \* local_id -> completion callback, as a set of rows keyed by lid
  counter,        \* next local_id
  (* program positions *)
  pc, cur,        \* per application thread: where it is, the frame it is sending
  wspc,           \* where the WebSocket thread is
  rows,           \* the SELECT's result the WebSocket thread has still to send
  acking,         \* the local_id of the ack the WebSocket thread is handling
  (* WebSocketClient, socket, login state *)
  session,        \* "out", "in", or "leaving" between logout's two calls
  connected,      \* the socket is established
  send_queue,     \* WebSocketClient::Impl::send_queue
  toServer,       \* frames written to the socket, not read by the server yet
  toClient,       \* local_ids of acks the client has not read yet
  (* server *)
  store,          \* the messages the server keeps, keyed by local_id
  (* history *)
  idOf,           \* the local_id each message was given, 0 before it is sent
  succeeded,      \* the messages whose on_success was called
  drops, logouts, restarts, transients

dbVars    == <<outbound_queue, tasks>>
queueVars == <<send_fn_, callbacks_, counter>>
appVars   == <<pc, cur>>
wsVars    == <<wspc, rows, acking>>
linkVars  == <<session, connected, send_queue, toServer, toClient>>
history   == <<idOf, succeeded>>
bounds    == <<drops, logouts, restarts, transients>>
vars == <<dbVars, queueVars, appVars, wsVars, linkVars, store, history, bounds>>

-----------------------------------------------------------------------------

LocalIds == Nat \ {0}
Rows     == [lid : LocalIds, msg : Msgs]

\* The frame sendTransient queues: the server neither stores nor acks it.
Transient == [lid |-> 0, msg |-> NoMsg]
Frames    == Rows \cup {Transient}

InsertTask(r)  == [op |-> "insert", row |-> r]
DeleteTask(id) == [op |-> "delete", lid |-> id]
SelectTask     == [op |-> "select"]
Tasks == [op : {"insert"}, row : Rows] \cup [op : {"delete"}, lid : LocalIds] \cup [op : {"select"}]

HasKey(S, id) == \E r \in S : r.lid = id

\* SQLite's INSERT OR IGNORE on a primary key, unordered_map::emplace, and the
\* server's deduplication by local_id: an existing key wins.
InsertOrIgnore(S, r) == IF HasKey(S, r.lid) THEN S ELSE S \cup {r}

DeleteKey(S, id) == {r \in S : r.lid # id}

TypeOK ==
  /\ outbound_queue \subseteq Rows
  /\ tasks \in Seq(Tasks)
  /\ send_fn_ \in BOOLEAN
  /\ callbacks_ \subseteq Rows
  /\ counter \in LocalIds
  /\ pc \in [Threads -> {"idle", "register", "sendRow", "push"}]
  /\ cur \in [Threads -> Frames]
  /\ wspc \in {"loop", "ready", "query", "wait", "flush", "ack"}
  /\ rows \subseteq Rows
  /\ acking \in Nat
  /\ session \in {"out", "in", "leaving"}
  /\ connected \in BOOLEAN
  /\ send_queue \in Seq(Frames)
  /\ toServer \in Seq(Frames)
  /\ toClient \in Seq(LocalIds)
  /\ store \subseteq Rows
  /\ idOf \in [Msgs -> Nat]
  /\ succeeded \subseteq Msgs
  /\ drops \in Nat /\ logouts \in Nat /\ restarts \in Nat /\ transients \in Nat

\* Faulty variant: the id counter starts from zero.
FirstIdZero == 0

\* generateLocalId's static counter starts here in every process.
FirstId == 1

Init ==
  /\ tasks = << >>
  /\ send_fn_ = FALSE
  /\ callbacks_ = {}
  /\ counter = FirstId
  /\ pc = [t \in Threads |-> "idle"]
  /\ cur = [t \in Threads |-> Transient]
  /\ wspc = "loop"
  /\ rows = {}
  /\ acking = 0
  /\ session = "out"
  /\ connected = FALSE
  /\ send_queue = << >>
  /\ toServer = << >>
  /\ toClient = << >>
  /\ outbound_queue = {}
  /\ store = {}
  /\ idOf = [m \in Msgs |-> 0]
  /\ succeeded = {}
  /\ drops = 0 /\ logouts = 0 /\ restarts = 0 /\ transients = 0

-----------------------------------------------------------------------------
(* Application threads. *)

\* sendTextMessage up to the post of the INSERT: generateLocalId, db_->exec.
Enqueue(t, m) ==
  /\ pc[t] = "idle"
  /\ idOf[m] = 0
  /\ LET r == [lid |-> counter, msg |-> m] IN
       /\ tasks' = Append(tasks, InsertTask(r))
       /\ cur' = [cur EXCEPT ![t] = r]
  /\ idOf' = [idOf EXCEPT ![m] = counter]
  /\ counter' = counter + 1
  /\ pc' = [pc EXCEPT ![t] = "register"]
  /\ UNCHANGED <<outbound_queue, send_fn_, callbacks_, wsVars, linkVars, store, succeeded, bounds>>

\* enqueue's section under mu_: store the callback, read send_fn_.
Register(t) ==
  /\ pc[t] = "register"
  /\ callbacks_' = InsertOrIgnore(callbacks_, cur[t])
  /\ pc' = [pc EXCEPT ![t] = IF send_fn_ THEN "sendRow" ELSE "idle"]
  /\ UNCHANGED <<dbVars, send_fn_, counter, cur, wsVars, linkVars, store, history, bounds>>

\* sendRow's section under mu_: send_fn_ is read again.
SendRow(t) ==
  /\ pc[t] = "sendRow"
  /\ pc' = [pc EXCEPT ![t] = IF send_fn_ THEN "push" ELSE "idle"]
  /\ UNCHANGED <<dbVars, queueVars, cur, wsVars, linkVars, store, history, bounds>>

\* sendTransient's section under mu_; without a send_fn_ it returns false.
SendTransient(t) ==
  /\ pc[t] = "idle"
  /\ transients < MaxTransient
  /\ send_fn_
  /\ cur' = [cur EXCEPT ![t] = Transient]
  /\ pc' = [pc EXCEPT ![t] = "push"]
  /\ transients' = transients + 1
  /\ UNCHANGED <<dbVars, queueVars, wsVars, linkVars, store, history, drops, logouts, restarts>>

\* Faulty variant: the row is deleted once it is sent, not once it is acked.
PushAndDelete(t) ==
  /\ pc[t] = "push"
  /\ send_queue' = Append(send_queue, cur[t])
  /\ tasks' = Append(tasks, DeleteTask(cur[t].lid))
  /\ pc' = [pc EXCEPT ![t] = "idle"]
  /\ UNCHANGED <<outbound_queue, queueVars, cur, wsVars, session, connected, toServer, toClient,
                 store, history, bounds>>

\* The call of the copied send function: WebSocketClient::send.
Push(t) ==
  /\ pc[t] = "push"
  /\ send_queue' = Append(send_queue, cur[t])
  /\ pc' = [pc EXCEPT ![t] = "idle"]
  /\ UNCHANGED <<dbVars, queueVars, cur, wsVars, session, connected, toServer, toClient,
                 store, history, bounds>>

-----------------------------------------------------------------------------
(* The database worker: one statement at a time, in the order posted. *)

RunInsert ==
  /\ tasks # << >>
  /\ Head(tasks).op = "insert"
  /\ outbound_queue' = InsertOrIgnore(outbound_queue, Head(tasks).row)
  /\ tasks' = Tail(tasks)
  /\ UNCHANGED <<queueVars, appVars, wsVars, linkVars, store, history, bounds>>

RunDelete ==
  /\ tasks # << >>
  /\ Head(tasks).op = "delete"
  /\ outbound_queue' = DeleteKey(outbound_queue, Head(tasks).lid)
  /\ tasks' = Tail(tasks)
  /\ UNCHANGED <<queueVars, appVars, wsVars, linkVars, store, history, bounds>>

\* Fulfils the future querySync waits on.
RunSelect ==
  /\ tasks # << >>
  /\ Head(tasks).op = "select"
  /\ rows' = outbound_queue
  /\ wspc' = "flush"
  /\ tasks' = Tail(tasks)
  /\ UNCHANGED <<outbound_queue, queueVars, appVars, acking, linkVars, store, history, bounds>>

-----------------------------------------------------------------------------
(* The WebSocket thread. *)

\* Faulty variant: the on_ready hook is not called.
EstablishedWithoutReady ==
  /\ session = "in" /\ ~connected /\ wspc = "loop"
  /\ connected' = TRUE
  /\ UNCHANGED <<dbVars, queueVars, appVars, wsVars, session, send_queue, toServer, toClient,
                 store, history, bounds>>

\* LWS_CALLBACK_CLIENT_ESTABLISHED up to the call of onReady.
Established ==
  /\ session = "in" /\ ~connected /\ wspc = "loop"
  /\ connected' = TRUE
  /\ wspc' = "ready"
  /\ UNCHANGED <<dbVars, queueVars, appVars, rows, acking, session, send_queue, toServer, toClient,
                 store, history, bounds>>

\* Faulty variant: onConnected queries the table and leaves send_fn_ for later.
QueryBeforeSendFn ==
  /\ wspc = "ready"
  /\ wspc' = "wait"
  /\ tasks' = Append(tasks, SelectTask)
  /\ UNCHANGED <<outbound_queue, queueVars, appVars, rows, acking, linkVars, store, history, bounds>>

\* onConnected's section under mu_.
SetSendFn ==
  /\ wspc = "ready"
  /\ send_fn_' = TRUE
  /\ wspc' = "query"
  /\ UNCHANGED <<dbVars, callbacks_, counter, appVars, rows, acking, linkVars, store, history, bounds>>

\* onConnected posts the SELECT and blocks on its future.
PostSelect ==
  /\ wspc = "query"
  /\ tasks' = Append(tasks, SelectTask)
  /\ wspc' = "wait"
  /\ UNCHANGED <<outbound_queue, queueVars, appVars, rows, acking, linkVars, store, history, bounds>>

\* sendRow for one row of the result.  onDisconnected cannot run in the middle
\* of it: logout joins this thread first.
FlushRow(r) ==
  /\ wspc = "flush"
  /\ r \in rows
  /\ rows' = rows \ {r}
  /\ send_queue' = IF send_fn_ THEN Append(send_queue, r) ELSE send_queue
  /\ UNCHANGED <<dbVars, queueVars, appVars, wspc, acking, session, connected, toServer, toClient,
                 store, history, bounds>>

\* onConnected and the callback it ran in return.
FlushDone ==
  /\ wspc = "flush"
  /\ rows = {}
  /\ wspc' = "loop"
  /\ UNCHANGED <<dbVars, queueVars, appVars, rows, acking, linkVars, store, history, bounds>>

\* LWS_CALLBACK_CLIENT_WRITEABLE: one frame per callback.
Writeable ==
  /\ wspc = "loop" /\ connected
  /\ send_queue # << >>
  /\ toServer' = Append(toServer, Head(send_queue))
  /\ send_queue' = Tail(send_queue)
  /\ UNCHANGED <<dbVars, queueVars, appVars, wsVars, session, connected, toClient, store, history, bounds>>

\* A message.sent frame reaches onMessageSentAck, which posts the DELETE.
Ack ==
  /\ wspc = "loop" /\ connected
  /\ toClient # << >>
  /\ acking' = Head(toClient)
  /\ toClient' = Tail(toClient)
  /\ tasks' = Append(tasks, DeleteTask(Head(toClient)))
  /\ wspc' = "ack"
  /\ UNCHANGED <<outbound_queue, queueVars, appVars, rows, session, connected, send_queue, toServer,
                 store, history, bounds>>

\* Faulty variant: the ack is not matched by local_id.
AnyCallback(id) == callbacks_

\* callbacks_.find(ack.local_id)
CallbackOf(id) == {r \in callbacks_ : r.lid = id}

\* onMessageSentAck's section under mu_ and the call of the callback it found.
TakeCallback ==
  /\ wspc = "ack"
  /\ callbacks_' = callbacks_ \ CallbackOf(acking)
  /\ succeeded' = succeeded \cup {r.msg : r \in CallbackOf(acking)}
  /\ wspc' = "loop"
  /\ acking' = 0
  /\ UNCHANGED <<dbVars, send_fn_, counter, appVars, rows, linkVars, store, idOf, bounds>>

\* LWS_CALLBACK_CLOSED: what was in flight is gone.  onWsDisconnected tells the
\* OutboundQueue nothing, and send_queue keeps its frames.
Closed ==
  /\ wspc = "loop" /\ connected
  /\ drops < MaxDrops
  /\ connected' = FALSE
  /\ toServer' = << >>
  /\ toClient' = << >>
  /\ drops' = drops + 1
  /\ UNCHANGED <<dbVars, queueVars, appVars, wsVars, session, send_queue, store, history,
                 logouts, restarts, transients>>

-----------------------------------------------------------------------------
(* The client, the server, the process. *)

\* login's success handler: a new WebSocketClient, whose send_queue is empty,
\* and conn_mgr_->connect().
Login ==
  /\ session = "out"
  /\ session' = "in"
  /\ send_queue' = << >>
  /\ UNCHANGED <<dbVars, queueVars, appVars, wsVars, connected, toServer, toClient, store, history, bounds>>

\* logout's conn_mgr_->disconnect(): it joins the WebSocket thread.
LogoutDisconnect ==
  /\ session = "in" /\ wspc = "loop"
  /\ logouts < MaxLogouts
  /\ session' = "leaving"
  /\ connected' = FALSE
  /\ toServer' = << >>
  /\ toClient' = << >>
  /\ logouts' = logouts + 1
  /\ UNCHANGED <<dbVars, queueVars, appVars, wsVars, send_queue, store, history, drops, restarts, transients>>

\* logout's outbound_q_->onDisconnected().
OnDisconnected ==
  /\ session = "leaving"
  /\ send_fn_' = FALSE
  /\ session' = "out"
  /\ UNCHANGED <<dbVars, callbacks_, counter, appVars, wsVars, connected, send_queue, toServer,
                 toClient, store, history, bounds>>

\* The server keeps the first message of each local_id and acks every frame.
ServerReceive ==
  /\ toServer # << >>
  /\ LET f == Head(toServer) IN
       IF f = Transient
         THEN UNCHANGED <<store, toClient>>
         ELSE /\ store' = InsertOrIgnore(store, f)
              /\ toClient' = Append(toClient, f.lid)
  /\ toServer' = Tail(toServer)
  /\ UNCHANGED <<dbVars, queueVars, appVars, wsVars, session, connected, send_queue, history, bounds>>

\* The process dies and is started again; only the table and the server remain.
Restart ==
  /\ restarts < MaxRestarts
  /\ restarts' = restarts + 1
  /\ tasks' = << >>
  /\ send_fn_' = FALSE
  /\ callbacks_' = {}
  /\ counter' = FirstId
  /\ pc' = [t \in Threads |-> "idle"]
  /\ cur' = [t \in Threads |-> Transient]
  /\ wspc' = "loop"
  /\ rows' = {}
  /\ acking' = 0
  /\ session' = "out"
  /\ connected' = FALSE
  /\ send_queue' = << >>
  /\ toServer' = << >>
  /\ toClient' = << >>
  /\ UNCHANGED <<outbound_queue, store, history, drops, logouts, transients>>

-----------------------------------------------------------------------------

Next ==
  \/ \E t \in Threads, m \in Msgs : Enqueue(t, m)
  \/ \E t \in Threads : Register(t) \/ SendRow(t) \/ SendTransient(t) \/ Push(t)
  \/ RunInsert \/ RunDelete \/ RunSelect
  \/ Established \/ SetSendFn \/ PostSelect
  \/ \E r \in rows : FlushRow(r)
  \/ FlushDone \/ Writeable \/ Ack \/ TakeCallback \/ Closed
  \/ Login \/ LogoutDisconnect \/ OnDisconnected
  \/ ServerReceive
  \/ Restart

Spec == Init /\ [][Next]_vars

\* Threads are scheduled; the socket is established again after a drop, the
\* user logs in (again), and the server reads what arrives.
Fairness ==
  /\ \A t \in Threads : WF_vars(Register(t) \/ SendRow(t) \/ Push(t))
  /\ WF_vars(RunInsert \/ RunDelete \/ RunSelect)
  /\ WF_vars(Established \/ SetSendFn \/ PostSelect \/ FlushDone \/ TakeCallback)
  /\ WF_vars(\E r \in rows : FlushRow(r))
  /\ WF_vars(Writeable)
  /\ WF_vars(Ack)
  /\ WF_vars(ServerReceive)
  /\ WF_vars(Login \/ OnDisconnected)

FairSpec == Spec /\ Fairness

-----------------------------------------------------------------------------
(* What the queue promises. *)

Inserts(r) == {i \in DOMAIN tasks : tasks[i].op = "insert" /\ tasks[i].row = r}

\* The rows in the table, and those whose INSERT is on the way to it.
Pending == outbound_queue \cup {tasks[i].row : i \in {j \in DOMAIN tasks : tasks[j].op = "insert"}}

Delivery == INSTANCE ReliableDelivery WITH
  submitted <- {m \in Msgs : idOf[m] # 0},
  kept      <- {r.msg : r \in Pending},
  stored    <- {r.msg : r \in store},
  reported  <- succeeded

\* Without a crash the queue implements reliable delivery: through drops,
\* logouts, duplicate sends and lost acks no message is forgotten or reported
\* before the server has it.
ImplementsDelivery == Delivery!Spec

\* And every message gets to the server, and out of the table.
DeliveryProgress == Delivery!Progress

\* An application thread is still going to send r, or finds send_fn_ empty.
AppWillSend(r) == \E t \in Threads : cur[t] = r /\ pc[t] \in {"register", "sendRow", "push"}

\* The flush of this connection has still to send r.
FlushWillSend(r) ==
  \/ wspc = "query"
  \/ /\ wspc = "wait"
     /\ \E j \in DOMAIN tasks :
          /\ tasks[j].op = "select"
          /\ r \in outbound_queue \/ \E i \in Inserts(r) : i < j
  \/ wspc = "flush" /\ r \in rows

In(e, s) == \E i \in DOMAIN s : s[i] = e

\* r, or the ack of its local_id, is between the client and the server.
OnTheWire(r) ==
  \/ In(r, send_queue)
  \/ In(r, toServer)
  \/ In(r.lid, toClient)

\* The DELETE for an ack of r is posted behind every INSERT of r.
DeletePosted(r) ==
  \E j \in DOMAIN tasks :
    /\ tasks[j].op = "delete" /\ tasks[j].lid = r.lid
    /\ \A i \in Inserts(r) : i < j

Covered(r) == AppWillSend(r) \/ FlushWillSend(r) \/ OnTheWire(r) \/ DeletePosted(r)

\* On a live connection every message the queue still owes is on its way: a
\* thread is about to send it, the flush will, it (or its ack) is on the wire,
\* or its row is about to go.  enqueue reads send_fn_ after it posts the INSERT,
\* onConnected sets send_fn_ before it posts the SELECT: neither can miss the
\* other, whatever the other threads do and whenever the process restarts.
NoStrandedRow ==
  connected /\ wspc # "ready" => \A r \in Pending : Covered(r)

\* A row leaves the table only after the server has accepted its local_id.
RemovedOnlyWhenStored ==
  [][\A r \in outbound_queue \ outbound_queue' : HasKey(store, r.lid)]_vars

-----------------------------------------------------------------------------
(* What the sources say and the code does not keep. *)

\* "OutboundQueue provides reliable, SQLite-backed message delivery"
\* (outbound_queue.h:17): a row leaves the table only when the server has its
\* message.  generateLocalId restarts at 1, so after a restart another message's
\* INSERT is ignored and its ack deletes this row.
KeptUntilStored == [][outbound_queue \ outbound_queue' \subseteq store]_vars

\* Nothing is being sent, acked, written or about to be.
Idle ==
  /\ connected /\ wspc = "loop"
  /\ tasks = << >> /\ send_queue = << >> /\ toServer = << >> /\ toClient = << >>
  /\ \A t \in Threads : pc[t] = "idle"

\* An ack "removes the DB row, and invokes the stored success callback"
\* (outbound_queue.h:65-67): once all is acked no callback is left waiting.  The
\* flush can send a row, and its ack arrive, before enqueue stores the callback.
NoOrphanCallback == Idle => callbacks_ = {}

=============================================================================
