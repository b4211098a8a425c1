# A verification of the AnyChat SDK core

TLA+ models of the C++ core of the AnyChat SDK (`src/core/src`), the TLC runs
that check them on small instances, and theorems about them that TLAPS proves
for every instance.

Paths below are relative to `src/core/src` unless they start with `docs/` or
`packages/` (`architecture.md` is `docs/architecture.md`).

## 1. The system

`AnyChatClient` owns one object of each component and wires them together. The
SDK keeps a local SQLite database, talks REST to a gateway through one HTTP
worker and keeps one WebSocket open for pushes and for sending messages.

```
 application ──► AnyChatClient ──► AuthManager, MessageManager, ConversationManager,
      ▲               │            Friend/Group/Call/User/File/VersionManager
      │ callbacks     │                 │ REST            │ SQL
      │               ▼                 ▼                 ▼
      │        ConnectionManager    HttpClient         Database worker
      │               │             (one worker)       (one worker, FIFO)
      │               ▼                                    ▲
      └────── WebSocketClient ── NotificationManager ── OutboundQueue, SyncEngine
               (one worker)
```

Threads: the application's, the HTTP worker (all REST callbacks), the WebSocket
worker (all pushes, `onWsConnected`, the flush of the outbound queue), the
database worker, the reconnect timer, the heartbeat, the platform's network
monitor.

| component | state | operations | who it talks to |
|---|---|---|---|
| OutboundQueue | `outbound_queue` table, `send_fn_`, `callbacks_` | `enqueue`, `onConnected` (flush), `onDisconnected`, `sendTransient`, `onMessageSentAck` | Database (posts), WebSocketClient (`send_fn_`), NotificationManager (acks) |
| ConnectionManager | `state_`, `want_connected_`, `network_ok_`, retry count, reconnect plan, two threads | `connect`, `disconnect`, `onNetworkChanged`, `onWsConnected/Disconnected/Error`, `onPongReceived` | WebSocketClient, NetworkMonitor, client callbacks |
| WebSocketClient | `running`, `connected`, `reconnect_count`, `send_queue`, worker | `connect`, `disconnect`, `send`, lws callbacks | ConnectionManager, NotificationManager |
| Database | task FIFO, worker, SQLite file | `exec`, `query` (async), `execSync`, `querySync`, `transactionSync`, `get/setMeta` | everybody |
| AuthManager | `token_`, three metadata rows, the HTTP client's header | `login`, `registerUser`, `logout`, `refreshToken`, `ensureValidToken`, `auth.force_logout` | HttpClient, Database, NotificationManager |
| SyncEngine | `last_sync_time` | `sync`, merge of friends, groups, sessions, messages | HttpClient, Database, caches |
| MessageManager | `messages` table, `MessageCache`, a listener | send, history, recall, edit, delete, typing, the `message.*` pushes | OutboundQueue, HttpClient, Database |
| ConversationManager | `conversations` table, `ConversationCache`, a listener | list, read, pin, mute, delete, the `conversation.*` pushes | HttpClient, Database |
| Friend, Group, Call, User, Version, FileManager | a listener (the first four) | one REST request (an upload: three) with one completion; pushes to the listener | HttpClient, NotificationManager |
| NotificationManager | handlers | `handleRaw`: pong, ack, notification to every handler | all managers |
| HttpClient | pending and active requests, token, worker | `get/post/put/del`, `setAuthToken` | managers |
| C API | copies of callback and listener structs | checks of the arguments, conversions | AnyChatClient |
| Android and Web bindings | a context per call and per listener; a callback per number | conversions | C API |

What is hard in this code:

* `enqueue` on an application thread against the flush of a reconnection on the
  WebSocket thread, with the database worker between them and acks coming back;
* a socket, or the process, that dies with frames, acks and statements under way;
* six threads in ConnectionManager and WebSocketClient that communicate through
  single atomics, cancel each other's plans and join each other;
* two layers of retries that must hand over to each other;
* REST completions in any order, against pushes that change the same cached
  conversation and the same row, with no lock that spans a handler;
* answers that are lost, cut off or refused, tried another way, and reported
  through four layers;
* listeners that are replaced, cleared and destroyed while they are called;
* credentials kept in memory, in the HTTP header and in three database rows.

What makes each component correct:

* OutboundQueue: every message is kept until the server has it, gets there, and
  success is reported only then; nothing waits on a live connection unseen.
* ConnectionManager and WebSocketClient: the state shown is true; no connection
  after `disconnect()`; while one is wanted, attempts go on; no thread waits on,
  or joins, itself.
* Database: statements run once, in the order posted; sync callers get an answer.
* AuthManager: memory, header and metadata agree; no token comes back after logout.
* SyncEngine and MessageManager: no message is skipped by the next sync; recalls
  and deletions are not undone by late or repeated pushes.
* Caches: the newest messages are the ones kept.
* ConversationManager: cache and row agree when nothing is under way.
* HttpClient and the managers: each call completes exactly once; success means the
  server did it; nothing is done twice.
* C API and bindings: they keep nothing for a call that is over, and tell of it.
* Listeners: called once per event, on an object that exists, and not after they
  were replaced.

`PROJECT.json` lists the hazards line by line, with the property that covers
each, or the reason why none does.

## 2. Modules

| module | what it is |
|---|---|
| `OutboundQueue` | the queue, the threads that use it, the database worker, the socket, the server, logout and restart |
| `ReliableDelivery` | what the queue promises of a message, as a specification of its own |
| `MCOutboundQueue` | instances and symmetry for TLC |
| `OutboundQueue_proofs` | theorems about `OutboundQueue` |
| `Delivery_proofs` | that `OutboundQueue` implements `ReliableDelivery` until a restart |
| `ConnectionManager` | ConnectionManager over WebSocketClient, six threads, step by step |
| `AuthSession` | AuthManager's credentials in memory, metadata and header, HttpClient's worker, the server's session |
| `AuthSession_proofs` | theorems about `AuthSession` |
| `ConnectionManager_proofs` | theorems about `ConnectionManager` |
| `MessageCache` | a bucket of the message cache, as operators |
| `LocalStore` | one conversation in cache and table and its cached messages, under syncs, answers and pushes |
| `LocalStore_proofs` | theorems about `LocalStore` |
| `WriteThrough_proofs` | that cache and row of `LocalStore` end up the same |
| `Operation` | what the managers' operations have in common: start, requests, verdict on an answer |
| `AuthManager`, `ConversationManager`, `MessageManager`, `FriendManager`, `GroupManager`, `CallManager`, `FileManager`, `UserManager`, `VersionManager` | each manager's operations, the C functions that lead to them, the bindings that lead to those |
| `RestCall` | calls of all of them through every layer, HttpClient's worker, server and network |
| `RestCall_proofs` | theorems about `RestCall`, and that it implements the safety part of `Completion` |
| `Completion` | what the caller of an asynchronous function is promised, as a specification of its own |
| `Notifications` | which notification leads to which listener's method, and what each layer registers |
| `Listeners` | the managers' handlers and listeners, the C API's, Android's and Web's on top |
| `Listeners_proofs` | theorems about `Listeners` |

### OutboundQueue

One action is one piece of code whose middle no other thread can observe: a
section under `mu_`, a post to the database worker, or a callback of the
WebSocket worker. A thread between two such pieces is a program position:
`pc[t]` for the application threads (`Enqueue`, `Register`, `SendRow`, `Push` are
the pieces of one `sendTextMessage`), `wspc` for the WebSocket worker
(`Established`, `SetSendFn`, `PostSelect`, the worker's `RunSelect`, `FlushRow`,
`FlushDone`; `Ack`, `TakeCallback`).

`tasks` is the database worker's FIFO; `RunInsert`, `RunDelete` and `RunSelect`
execute its head. A crash (`Restart`) keeps only the table and the server.
A row is a local_id with the message it was given to: two rows with the same
local_id are two messages that were given the same one, which happens after a
restart, when `generateLocalId` starts at 1 again. `INSERT OR IGNORE`,
`callbacks_.emplace` and the server all keep the first of two equal keys.

The server is external: it reads frames in order, keeps the first message of
each local_id, and acks every frame. The application sends each message once,
with a callback. A second login without a logout is not modelled. `created_at`
counts wall-clock seconds, so the flush may take rows in any order. A `pong` or a
notification does not touch the queue. That a row that cannot be serialised is
skipped, and `retry_count`, which is written and never read, are left out
(`architecture.md:262` speaks of at most three retries; the code has no limit,
`outbound_queue.cpp:86` says so).

### ConnectionManager

A call is a sequence of steps that the calling thread has still to take:
`todo["http"]` (the HTTP worker, which runs `connect()` when a login is answered,
`client_impl.cpp:97-101`), `todo["app"]` (the application, whose logout runs
`disconnect()`, as often as it likes), `todo["mon"]` (network monitor), `todo["ws"]`
(WebSocket worker), `todo["rt"]` (reconnect timer), `todo["hb"]` (heartbeat). A step
is one access to
an atomic, one section under a mutex or one join; where a condition reads two
atomics at once (`onNetworkChanged`, `onWsDisconnected`, the timer) it is one step.
The definitions `Connect`, `Disconnect`, `OnWsDisconnected`, ... are the code's
functions as step sequences, and a step that branches (`ConnectTest`, `LostTest`,
`WsTest`, ...) pushes the steps of its branch.

Time is abstract: a delay that nobody cancelled may end at any moment, and
`PongTimeout` may happen whenever the heartbeat runs in state Connected. A join
waits until the thread has exited. Joining oneself, joining a thread that another
thread is joining, and assigning to a thread that was not joined end in `aborted`.

libwebsockets is external: an attempt ends in `Established` or `AttemptFails`, an
established socket in `Closed`, and destroying the context reports what was
open. The model follows the code in taking `LWS_CALLBACK_CLOSED` as the close of a
client connection; releases of libwebsockets that report
`LWS_CALLBACK_CLIENT_CLOSED` instead would not run that branch at all.

The module follows the manager of one login. The answer to another makes a new one and
destroys this one (`client_impl.cpp:192-210`), which is left out. Also left
out: the constructor and the destructor's teardown, `monitor_->start/stop`,
ping frames, a failing `lws_create_context`, the application's state callback
(its registration is in `Listeners`), and `onReady`, which belongs to OutboundQueue's model.

### AuthSession

Two threads write the credentials: the HTTP worker in `OnAnswer` (the success
branch of `handleAuthResponse`, and of `logout`), the WebSocket worker in
`ForceLogout`. `BeginWrite` starts `storeToken` or `clearToken`, which are the same
writes with a grant or with nothing; `pc[t]` is the place written next, and
`SetToken`, `SetMeta` (three times) and `SetHeader` are the writes. Each is one
section under a mutex or one statement of the database worker. `Connect` is the
rest of `AnyChatClient::login`, `Tell` is `onAuthExpired`.

`requests` holds every request whose callback was not called; the server answers
them and the worker calls them back in any order. A grant is named by the request
it answers, so a credential's value says where it came from. `Restart` keeps the
metadata and the server and runs the constructor.

The server is external: it keeps one grant for the device, accepts that grant's
refresh token once and its access token for a logout, and may end the session with
a push. A server that lets old refresh tokens live does less harm to the client,
not more. The clock is left out: `EnsureValidToken` stands for the calls that find
a token about to expire; the others change nothing. So are grants without an
expiry or a refresh token, failing database statements, and requests the server
handles only after the client has crashed. A notification for another device changes
nothing.

`overlapped`, `cuts`, `alone`, `doubt` and `raced` are history variables: they record
what the properties except and steer nothing. `doubt` is set by what can part client
and server: an answer lost with its grant, a lost push, a login with something beside
it, a push or a crash while a grant is on its way. Refreshes, logouts and
`auth.force_logout` that overlap, and requests lost on their way, do not set it. `alone` is
the last request if nothing was, or came, beside it; when that one succeeds `doubt` is
cleared. `raced` says that another grant was under way beside a refresh of
`ensureValidToken`, or that this refresh never reached the server.

### LocalStore and MessageCache

A handler of an answer, a notification or a sync is the sequence of its accesses
to the cache, the row and the bucket (`todo[t]`), one access a step, on three
threads: the HTTP worker, the WebSocket worker and the application. `held[t]` is
the copy of the conversation that the handler has read and will write back. A
statement given to the database waits in `queue`; `exec` statements make their
thread wait, posted ones do not. The definitions `Patch`, `Create`, `Remove`,
`MergeSession`, `MergeMessages`, ... are the code's handlers; `Sync` and
`OnSyncAnswer` are SyncEngine, `GetConversationList` the one call that reads the
table on the application's thread. `Restart` keeps the row alone.

A conversation has two fields besides `local_seq`: `synced` stands for those that an
answer to `/sync` carries, `own` for those it does not. A message is its sequence
number with a status; `withdrawn` is recalled or deleted, which no code undoes. A
bucket is a function from the numbers it holds: its sorted order is theirs.

The history variable `parted` is set when two handlers of the conversation overlap, and when
a sync resets cached fields; after either, cache and row may differ. A handler that runs with
no other beside it and gives the row what it has just given the cache (`WritesBoth`) clears it.

The server is external: it numbers messages `1..MaxSeq`, answers syncs in any
order, in full or in part, and what it tells may be as old as the request. Left out:
the `messages`, `friends` and `groups` tables, which nothing in the SDK reads back;
`last_sync_time`, an opaque number that is passed back to the server; a message
without a sequence number; statements that fail; the order of the conversation list.

### RestCall, Operation and the managers

The managers' methods have one shape: check the arguments, perhaps answer from
memory, make a request, judge the answer with `parseApiEnvelopeResponse`, perhaps try
another way after a 404 or 405, call `on_success` or `on_error`. `Operation` has that
shape as a record, and a module per manager says which record each method is,
what each C function refuses before it calls the method, and which binding method
leads to it. `RestCall` runs all of them: `CppCall`, `CCall` and `BindingKeeps`,
`BindingCalls` make a call, `Admit` is the top of the worker's loop, `Finish` its
completion of a transfer with the handler it runs (`HandleAnswer`, and `HandleToken`
and `HandleStored` for the first two of an upload's requests), `Serve` is the server,
`Destroy` the HttpClient's destructor. `Endings` is what a layer does when the manager calls
back: it tells the application and frees what it kept, but an Android completion whose
callback is null, or that gets no JNIEnv, does neither
(`packages/android/src/main/cpp/jni_friend.cpp:105-108`).

An answer is a record of what the handlers tell apart: whether curl reports an
error, the status, and the body (absent or malformed, with an error code, or with
code 0 with or without the fields looked for). `Truthful` is what is assumed of the
server: code 0 is sent by a server that did what was asked, 404 and 405 by one that
did not. The contents of requests and answers are left out.

### Listeners and Notifications

`Notifications` is four tables: the managers' handlers with the types they react to
and the method each leads to, and what the C++, C, Android and Web layers can
register. `Listeners` follows one manager, whichever it is: the handler's lock, copy
of the `shared_ptr`, unlock, call and release; Android's map of contexts with its mutex.
An object whose last `shared_ptr` has gone is in `gone`.

Notifications are taken up on the WebSocket worker. The connection state
(`client_impl.cpp`) and the expiry that `ensureValidToken` finds
(`auth_manager.cpp:462-502`) go the same way on whichever thread changed or found it:
the HTTP worker, the timer, the heartbeat, the monitor or one of the application's. These
are `Others`. `setListener` runs on a thread of the application (`"app"`), or inside a method
of a listener on any of the threads. `before[t]` records which objects had been removed
when thread `t` took up the event it is handling.

## 3. Runs

| run | bounds | what it shows |
|---|---|---|
| `outbound_safety` | 2 threads, 2 messages, 1 drop, 1 logout, 1 restart, 1 transient frame | `TypeOK`; `NoStrandedRow`: on a live connection every owed message is on its way; `RemovedOnlyWhenStored`: a row leaves the table only when the server has its local_id |
| `outbound_delivery` | 2 threads, 2 messages, 1 drop, no restart | `ImplementsDelivery`: the queue implements `ReliableDelivery`; `DeliveryProgress`: with fairness every message gets to the server and leaves the queue |
| `outbound_restart` (violated) | 1 thread, 2 messages, 1 restart | local_ids repeat after a restart and a message is lost |
| `connection_safety` | 1 connect by the login's answer, 1 disconnect beside or after it, 1 network change from either start, 1 failed attempt, 1 drop, a silent server, 1 inner and 1 outer retry; 2.6 million states | `TypeOK`; `ConnectedIsTrue`: Connected is shown only over a live socket; `DisconnectedIsShown`: after `disconnect()` the application sees Disconnected in the end, whatever late events and timers did; `StaysDisconnected`: once shut, only `connect()` opens a connection |
| `connection_pong` (violated) | 1 connect, a silent server | the pong timeout joins its own thread |
| `connection_outer` (violated) | 2 outer, 1 inner retries, 3 failures, 1 drop | the outer retry connects nothing once the inner ones are used up |
| `auth_safety` | 3 requests, 1 push, 2 crashes; 3.8 million states | `TypeOK`; `Agreement`: memory, metadata and header hold one whole grant between writes; `LoggedInCanRefresh`: one crash inside a write leaves a session that can be refreshed; `SameSession`: with nothing under way, client and server agree, after overlapping refreshes, logouts and pushes too, and where they may have parted, again after the next call that runs by itself; `ExpiredMeansOver`: `ensureValidToken` reports an expired session only if it is over, or its refresh had a rival or never left |
| `auth_forced` (violated) | 2 requests, 1 push | an answer under way brings the session back after `auth.force_logout` |
| `store_safety` | 2 messages, a cache of 1, 2 syncs, 1 call, 1 notification, 1 restart; 5.5 million states | `TypeOK`; `KeepsNewest`: whatever the order of insertion, the cache loses only the oldest; `NoSkip`: `local_seq` never passes a message that was not received; `WriteThrough`: cache and row end up the same, and where they were parted, again after the next handler that writes both; `StaysWithdrawn`: a recalled or deleted message is not shown again |
| `rest_calls` | 2 calls of any of the managers' operations through any layer, any answers; 210,000 states | `TypeOK`; `SuccessMeansDone`; `DoneAtMostOnce`; `UploadInOrder`; `SettledWithCaller`: no layer keeps anything for a call that is over, and the application was told once; `ImplementsCompletion`: every call is refused, or ends, at most once, or is dropped by the destructor; `CompletionProgress`: with fairness one of these comes |
| `capi_completion` (violated) | 1 call | a C function that is given all it looks for and a callback refuses the call |
| `listeners` | 2 listener objects, 2 events on the WebSocket worker and another thread, 1 clearing, any manager and layer; 684,000 states | `TypeOK`; `CalledWhileAlive`; `HeardOnce`; `QuietWhenReplaced`: no event taken up after the removal is heard; `ContextsHandedOver`: the registered context lives, and none is deleted by two threads; `EveryoneReturns`: no event and no `setListener` is stuck |

Why the bounds are enough. `outbound_safety`: the races are between a sender, the
flush and the ack of one row; a second thread and message add another row's
statements between theirs and, after a restart, the repeated local_id; one drop,
one logout and one restart give every order of two connections and two processes.
What the run cannot show, any number of these, is proved (section 4).
`connection_safety`: the client connects a manager once; a disconnect meets that connect
halfway, and the plans, sockets and joins it leaves behind; one failure and one drop use
up a budget of one outer retry, so the giving up is reached as well. Any number of
connects, disconnects, failures, drops and network changes is proved.
`auth_safety`: a login, a refresh and a logout are one life of a session, in every
overlap with each other, the push and the crashes. With two crashes the exception
`cuts <= 1` of `LoggedInCanRefresh` is needed ("What the runs found", item 7).
`store_safety`: two messages and a cache of one make every insertion past the first
a choice of what to evict; two syncs, a call and a notification are one handler more
than there are threads to run them, and each pair of handlers meets in every
interleaving; the restart forgets the queue and the cache. One call at a time has
the HTTP worker between two sync answers. Any numbers of them are proved for all
its properties. `rest_calls`: calls share nothing but the worker, which
takes all pending ones up together and is destroyed once, so two are enough for the
ways they meet, and every operation, layer, argument and answer is tried with each; any
number of calls is proved for the safety properties.
`listeners`: one object in place and one that replaces it, heard by two events on
two threads, a clearing between them, and replacements from a third thread or from inside
the methods; any number of objects, threads and events is proved for the safety properties.

Deadlock is not checked: an idle client, one whose process has ended, and one that
has used up the bounds stop. Where stopping early would be wrong a property says so:
`NoStrandedRow`, `DeliveryProgress`, `CompletionProgress`, `EveryoneReturns`.

### Fairness

`OutboundQueue!Fairness`: threads are scheduled (weak fairness of the pieces of a
call once it has begun, of the database worker and of the WebSocket worker's
callbacks). Beyond the client it assumes that a dropped socket is established
again, that a logged-out user logs in again and that the server reads what it is
sent. The application need never send anything. Sockets drop at most `MaxDrops`
times. That the socket is established again is what ConnectionManager is for, and
`connection_outer` shows when the code fails to: delivery holds under that
assumption and not without it.

`AuthSession` and `LocalStore` state safety only and assume no fairness.

`RestCall!Fairness`: the worker's loop goes on while the HttpClient runs, and
`Finish` comes for every active request, because `CURLOPT_TIMEOUT_MS` ends each after
30 seconds. The server need never answer.

`Listeners!Fairness`: every thread takes its steps, a listener's method returning
among them, as `docs/c_api_guide.md:234` asks of applications. No event has to come
and nothing has to be registered.

`ConnectionManager!Fairness`: every thread takes its steps, delays end, and an
attempt succeeds or fails. Neither the application, the network nor the server is
fair.

### What the runs found

1. `generateLocalId` (`message_manager.cpp:1245`) restarts at 1, the table does
   not: after a restart a new message's INSERT is ignored, and its ack deletes the
   old message's row. `outbound_queue.h:42` asks for a globally unique id.
2. `enqueue` stores the callback (`outbound_queue.cpp:70`) after it has posted the
   INSERT; flush and ack may come first, and success is then never reported.
   `OutboundQueue!NoOrphanCallback` states the contrary; TLC violates it in nine steps
   when it is checked. No document promises it, so no run of the project does.
3. The pong timeout (`connection_manager.cpp:304`) joins the heartbeat thread from
   the heartbeat thread.
4. `onWsConnected` (`connection_manager.cpp:178`) does not cancel the plan an
   earlier failed attempt made; the timer then sets Connecting for good, and the
   heartbeat, which runs its checks in Connected only, stops checking.
   `ConnectionManager!ConnectedUntilLost` states the contrary, and one failed attempt
   violates it; again no document promises it.
5. `WebSocketClient::connect` (`network/websocket_client.cpp:215`) returns when the
   worker runs, and the worker never stops by itself: outer retries do nothing.
6. `handleAuthResponse` (`auth_manager.cpp:551`) stores the token of an answer that
   was under way when `auth.force_logout` cleared the session.
7. Two crashes can leave a session that isLoggedIn() and cannot be refreshed: one
   inside `clearToken` after the second row, and one inside the next `storeToken`
   after the first, with the old expiry still in place. No document promises
   otherwise, so `LoggedInCanRefresh` excepts two cut-off writes in a row.
8. `onAuthExpired` is called on any failure of the refresh (`auth_manager.cpp:490`),
   a timeout included, while `architecture.md:239` speaks of an expired or revoked
   token; `ExpiredMeansOver` therefore excepts a refresh that never reached the server,
   and one beside which another grant was under way. A refresh whose answer is lost is not
   excepted: the server has then used the old token up.
   `architecture.md:238` has the token checked before every request: nothing inside
   the SDK calls `ensureValidToken`.
9. Every asynchronous C function refuses a callback that is not NULL:
   `validateCallbackStruct` (`c_api/group_c.cpp:90`, and the same test in the other
   files) returns false for it. `docs/c_api_guide.md:189-190` promises completion
   through the callback. The bindings, which always pass one, therefore never reach a
   manager. In the run `rest_calls` everything past the C functions is reached by C++
   callers and by C callers without a callback.
10. The Android binding only logs a refusal (`packages/android/src/main/cpp/jni_friend.cpp`
    and the other `jni_*` files): the Java callback is not called. `SettledWithCaller`
    excepts it. And a completion whose callback is null, or that gets no JNIEnv, leaves its
    context (`jni_friend.cpp:105-108`); `Endings` has it, but no run comes to it, since every
    call of a binding is refused (item 9).
11. The Android binding deletes the old listener's context as soon as the new one is
    registered (`packages/android/src/main/cpp/jni_conversation.cpp:301`), while a call on
    the old listener may be under way and use it. `ContextsHandedOver` does not speak of
    that call, only of the registered context and of those that threads are about to delete.
12. `getMessageSequence` (`conversation_manager.cpp:783`) raises `local_seq` to the
    server's number, so the next sync does not ask for the messages up to it. `NoSkip`
    excepts the numbers stored this way; `LocalStore!LocalSeqReceived`, which does not,
    is violated by one call.
13. `mergeSessions` (`sync_engine.cpp:184`) puts a fresh Conversation into the cache: the
    fields that the answer lacks, `local_seq` among them, are reset there and not in the
    row. Two handlers that overlap write back what they read (`conversation_manager.cpp:808`).
    `WriteThrough` excepts both, until the next handler that writes cache and row with no
    other beside it.

`StaysDisconnected` excepts a thread that passed the test
of `want_connected_` before `disconnect()` cleared it and is still to call
`doConnect` (`connection_manager.cpp:85-86`, `162-165`); such a thread opens a
connection after `disconnect()` has returned.

A divergence no run shows: `outbound_queue.h:25-26` has `onDisconnected()` called
whenever the WebSocket drops; only `logout` calls it (`client_impl.cpp:118`). The
model has the code's behaviour, and delivery holds with it, with duplicates. Two
more: `architecture.md:285` names the notifications `session.*`, the code handles
`conversation.*` (`Notifications` has the code's names); and the gap detection that
`architecture.md:264-269` describes, `MessageCache::hasGapBefore`, has no caller.

### Mutants

Every property of a passing run is paired with a faulty variant of one mapped
definition (`PROJECT.json`, "mutants"; the variants stand in the modules, marked
as such) that breaks it: an id counter that starts at 0, a flush before
`send_fn_` is set, a row deleted once it is sent, an ack that takes any callback, a
reconnection that does not flush, a second way that is tried again and again,
one inner retry too many, a state that is not updated on giving up, a
`disconnect()` that shows its state before it closes the socket, a timer that
ignores the intent, a header that is not written, rows written in another order, a
refreshed token that is not stored, any failure taken for an expired session, a
refresh without a refresh token, a cache that evicts the newest or one too late, a
duplicate that replaces what is cached, a push that raises `local_seq`, a patch that
does not reach the row, a body that does not parse taken for success, a second way
tried after a lost answer, an upload completed whatever the storage said, a refusal
nobody is told of, a listener called under the mutex, twice, or through a raw pointer,
a `setListener(nullptr)` that does not clear, a context deleted before its successor
is in place.

## 4. Theorems

`OutboundQueue_proofs`, checked by `tlapm`, for any sets of threads and messages
and any bounds. The only assumptions are `BoundsAssumption` (bounds are naturals)
and `NoMsgAssumption` (a transient frame's payload is no message).

* `TypeCorrect == Spec => []TypeOK`. The invariant is `TypeInv`: `TypeOK` and
  `HoldsRow`, that a thread inside `enqueue` holds a row and not a transient frame.
* `RemovalIsSafe == Spec => RemovedOnlyWhenStored`. `AckInv`: whatever local_id an
  ack on its way or a posted DELETE names, the server has. Acks are made by the
  server, the store never forgets, and a DELETE is posted from an ack.
* `NothingStranded == Spec => []NoStrandedRow`. `NoStrandedRow` alone is not
  inductive. `QueueInv` adds: the link and `send_fn_` agree outside `SetSendFn`
  (`LiveInv`), at most one SELECT is posted and then the WebSocket thread waits for
  it (`SelectInv`), and each row's INSERT is posted once, before the row exists
  (`OnceInv`, `InsertedOnce`). Then every step either leaves the cover of an owed row as it is or
  hands it over (`StrandStep`, one step per action): from the sending thread to the
  wire, from the flush to the wire, from the wire to the ack's DELETE, and from the
  DELETE to not being owed. `ShiftCover` and `PostCover` carry the covers over the
  moves of the worker's FIFO.

`Delivery_proofs`, from the same assumptions. A restart repeats local_ids (run
`outbound_restart`), so what is proved of any execution is proved up to the first one.

* `DeliversUntilRestart`: the initial states of `OutboundQueue` are initial states of
  `ReliableDelivery`, and every step before a restart is one of its steps or none.
  `Delivers == Spec => ImplementsDelivery` follows where `MaxRestarts = 0`, as in the run.
* The mapping takes a row whose INSERT is queued for kept, and a callback taken for a
  report. That an ack deletes and reports the right message rests on `IdInv`: a local_id
  was given to one message, in whatever table, queue, frame, callback or store its row is
  found (`Known`, `RowsGiven`, `IdsGivenOnce`); every step but a restart gives rows away
  that were known, or the next id (`NoNewRows`, `IdStep`). `AckInv` and `AckingInv` say
  that an acked local_id is on the server. The lemmas `EnqueueSubmits`, `ReceiveStores`,
  `DeleteForgets` and `CallbackReports` are the four steps that `ReliableDelivery` sees;
  `DeliveryStep` goes through the others.
* `NothingLostUntilRestart`: `ReliableDelivery`'s `NothingLost`, carried over: what was
  reported is on the server, and what was sent is there or kept.

`AuthSession_proofs`, for any number of requests, pushes and restarts, from
`BoundsAssumption` alone. Every property of `auth_safety` is proved.

* `TypeCorrect == Spec => []TypeOK`; `TypeOK` is inductive.
* `AgreementHolds == Spec => []Agreement`. `Agreement` speaks of the moments between
  writes; `WriteInv` adds what is true inside one: only one worker writes, the places
  it has passed hold its grant (`Written`), and the rows it has not reached are still
  of one grant (`Unwritten`).
* `RefreshHolds == Spec => []LoggedInCanRefresh`. `RefreshInv`: one cut leaves usable
  rows until the next write touches them; `UncutRowsCanRefresh` goes through the
  points at which the first cut can come, from `Written` and `Unwritten`.
* Both of the following rest on `FreshInv`: the grant of a request under way is new, so
  nobody holds it (`Unheld`) and no other request presents it (`Unasked`); the server
  accepts one of several that present the same token.
* `SessionsAgree == Spec => []SameSession`, from `SessionInv`: without `doubt`, the session is
  what the one answer under way grants (`Granted`) or, if there is none, what memory will hold
  when what has reached the client is written (`Coming`). `AloneInv`: the answer to a request that
  nothing was beside is the session, which is why it clears `doubt`.
* `ExpiryIsReal == Spec => []ExpiredMeansOver`, from `ExpiryInv`: a refresh of
  `ensureValidToken` that has not raced is the only one under way that could bring a grant
  (`Unrivalled`), so if it fails the client's refresh token is of no use (`Useless`); and after
  the report nothing is under way that could make it so again (`NothingUsable`).

`ConnectionManager_proofs`, for any number of calls, failures, drops, network changes
and retries, from `ParametersAssumption` alone. Every property of `connection_safety`
is proved. The invariant `Inv` speaks of what the threads have still to do. `Programs`:
what a thread has left is proper, that is, each opening is followed by its test of
the worker, each closing by the step that shows Disconnected, and clearing the intent
by the closing. `HbInv` and `WorkerInv`: when the heartbeat and the WebSocket worker run,
and what is true of the socket while they have certain steps left. `ShownInv`: Connected
is shown over a socket, or the worker is about to change it. `PlanInv`: the worker makes
a plan nobody wants only while `disconnect()` has still to wait for it. `ShutInv`: when
the client is closed, Disconnected is shown or somebody is on the way to show it.

* `TypeCorrect == Spec => []TypeOK`.
* `ConnectedIsNoLie == Spec => []ConnectedIsTrue`, `DisconnectIsSeen == Spec =>
  []DisconnectedIsShown`, from `ShownInv` and `ShutInv`.
* `DisconnectLasts == Spec => StaysDisconnected`: in a state that is shut no thread has
  a step that opens left (`Opening`), and none of the handlers, timers and retries
  brings one (`StepsStayShut`, `CallOpensNothing`); only `connect()` does.

`LocalStore_proofs`, for any number of messages, any cache size and any number of syncs,
calls, pushes and restarts, from `BoundsAssumption`.

* `TypeCorrect == Spec => []TypeOK`.
* `NewestAreKept == Spec => []KeepsNewest`, from `NewestInv`: the bucket holds the newest
  of what was inserted, and all of it while there is room. `InsertKeepsNewest` and its
  lemmas about `Oldest` carry it over an eviction.
* `NothingSkipped == Spec => []NoSkip`, from `CoverInv`. `NoSkip` speaks of cache and row;
  a `local_seq` is also on its way in the copies that handlers hold, in queued statements,
  in requests under way and in what the handlers are still to do. Each of these is
  covered by what was received or learned; and a handler inserts its messages before it
  counts them in (`Planned`), which is the fact that makes a crash or another handler
  between its steps harmless.
* `WithdrawnStays == Spec => StaysWithdrawn`: no access turns a cached message back.

`WriteThrough_proofs`, from the same assumption: `WrittenThrough == Spec => []WriteThrough`.
While statements wait, the row is behind the cache, so the invariant speaks of the rows the
worker may end with: `Ends(row, queue)`, over all the ways to execute the queue, a DELETE
that fails included and a merge that would set `parted` left out. `Through` says that, as
long as `parted` is false, one handler at most touches the conversation, that it is
`Midway`, at one of eleven places, each with what holds there of cache, copy and ends
(`Saving`: the cache has the copy and the row is still to get it; `Showing`: the row will
be what the handler is about to put into the cache; `Raising`: it will be the cached
conversation with its `local_seq` raised; ...), that the cache is what the row will be when
nobody is midway (`Agreed`), and that a query is the last statement of the queue. `Unstarted`
has the handlers as they begin, `MergingShape` and `UnstartedShape` take them apart, `Place`
finds the place from the next access. `EndsOfPost` and `EndsOfExecution` are what a queue's
ends do when it grows and shrinks: every way of executing the longer queue is one of the
shorter with a step added at its end, or at its beginning. TLC checked `ThroughInv` within
the bounds of `store_safety` before it was proved, with `Ends` computed step by step.
Where `parted` is true nothing relates cache and row, and the step that clears it has to
establish `Through` from nothing: the handler is then at `Saving`, `Keeping` or
`Deleting`, the places that ask only that the cache is what is about to be written
(`WritersMeet`). Besides it needs `AskedInv`, which holds whatever `parted` is: who waits for rows
has yet to use them.

`Listeners_proofs`, for any finite set of listener objects and any number of events and
clearings and any set of other threads, from `ListenersAssumption`, `NoneIsNoObject` and
`OthersAreOthers`.

* `TypeCorrect == Spec => []TypeOK`, with `MutexInv`: the handlers' mutex is held by a thread
  that is about to copy or to unlock, never by one that calls a listener.
* `CallsAreAlive == Spec => []CalledWhileAlive`, from `AliveInv`: what is registered, or
  shared by a handler, has not gone, and what has gone is never registered again, since
  every object is registered once (`FreshInv`).
* `EventsAreHeardOnce == Spec => []HeardOnce`, from `HeardInv`, which says of each point in
  a handler what was heard so far and what will be.
* `QuietAfterRemoval == Spec => []QuietWhenReplaced`, from `LateInv`: what was removed before a
  thread took up its event is never registered again, so it is neither copied for that event
  nor called.
* `ContextsAreKept == Spec => []ContextsHandedOver`. `ContextInv`: the context taken out of the map
  is not that of the listener in place when it is deleted. `HandOverInv`: what the map, a thread
  that replaces its entry, or a registration still to come refers to (`Referred`) exists, and no
  two of them refer to the same one.

`RestCall_proofs`, for any number of calls of any operations through any layer. The
records of the nine managers have two shapes, an operation of one part and an upload,
and the layers are of five kinds (`Shaping`, `Reach`, `LayersKeepAndTell`, from a pair of
lemmas per manager). `Inv` says how far each call has come: before its first request
nothing was done or told (`Started`, `KeptForCall`); while one is under way, the parts
before it were done once each, and the current one if the server has done it
(`UnderWay`); an ended call was told of and freed (`Settled`). What an answer that is
believed says of the server (`Believed`) lets a handler end the call, ask for the next
part, or try another way: a 404 or 405 means that the first way did nothing. A call that was accepted came
from C++ or from C without a callback (`Accepted`), since C refuses every callback; so the
endings that do nothing (`Endings`) are never taken (`AcceptedEndings`).

* `TypeCorrect == Spec => []TypeOK`, `SuccessIsTrue == Spec => []SuccessMeansDone`,
  `NothingDoneTwice == Spec => []DoneAtMostOnce`, `UploadsInOrder == Spec =>
  []UploadInOrder`, `CallersSettled == Spec => []SettledWithCaller`.
* `PromiseKept == Spec => ImplementsCompletion`: every step is a step of `Completion` or none. It
  needs `CallingWhileRunning`: a binding that has made its context calls the C function
  before the client is destroyed.

Model-checked only: `DeliveryProgress`, `CompletionProgress` and `EveryoneReturns`, since
liveness under fairness and ENABLED are out of TLAPS's reach. Every other property of a
passing run is a theorem.

Recursive operators and induction over data are out of the prover's reach too; the
modules declare no recursive operator.

## 5. Not modelled

* The order in which `AnyChatClient`'s members are destroyed and the callbacks that may
  then run: `client.h:32` forbids destroying the client inside a callback, and the
  models stop with the process. `Destroy` of `RestCall` is the HttpClient's own destructor.
* A client without a database, and calls made on the database worker: `postSync`
  would wait for ever (`db/database.cpp:162`); the models have a worker that runs and is
  not the caller.
* `open`, `close`, migrations, the asynchronous `query` and `transactionSync` of Database,
  which no component calls, and failing statements.
* The `messages`, `friends` and `groups` tables, which are written and not read, and
  `last_sync_time`, which is opaque to the client.
* JSON beyond a parse's verdict, URLs, multipart bodies, string copies, handles and
  enumerations of the C API: data that no property tells apart.
* The race of `disconnect()` with a thread that has passed the test of the intent
  (`connection_manager.cpp:86`) is in the model and excepted by `StaysDisconnected`; the
  join that may never return (`connection_manager.cpp:276`) is in the model too, and
  would take a liveness property of `disconnect()`, which no document states.
* The iOS and Flutter packages and the TypeScript part of the Web package: wrappers over
  the C API or the Web binding without a protocol of their own.

## 6. What could come next

1. The composition of `ConnectionManager` and `OutboundQueue`, to discharge the
   assumption of delivery that a dropped socket is established again, once the outer
   retry connects ("What the runs found", item 5).
2. A client without a database, whose synchronous calls wait for a worker that never runs
   (`db/database.cpp:162`).
3. Statements that fail, and with them `last_sync_time` (`sync_engine.cpp:404`).
