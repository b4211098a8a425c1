----------------------------- MODULE LocalStore -----------------------------
(***************************************************************************)
(* What the device keeps of one conversation: its entry in the cache       *)
(* (cache/conversation_cache.h), its row in the conversations table        *)
(* (db/database.cpp), and the bucket of its cached messages.  Three        *)
(* threads write them, none under a lock that spans a whole handler: the   *)
(* HTTP worker, which handles answers and merges those to POST /sync       *)
(* (sync_engine.cpp), the WebSocket worker, which handles notifications    *)
(* and sends the syncs, and the application.  A handler is modelled as the *)
(* sequence of its accesses, one step each; a statement given to the       *)
(* database waits in its worker's queue, and an access that needs its      *)
(* result waits for it.                                                    *)
(*                                                                         *)
(* Of a conversation three things are told apart: `synced', the fields an  *)
(* answer to /sync carries (unread_count, is_pinned, is_muted); `own',     *)
(* those it does not (burn_after_reading, auto_delete_duration,            *)
(* pin_time_ms, last_msg_id); and local_seq.  The messages table is left   *)
(* out: nothing in the SDK reads it.                                       *)
(***************************************************************************)
EXTENDS Integers, Sequences, FiniteSets, MessageCache

CONSTANTS
    MaxSeq,         \* the messages the server has numbered
    BucketSize,     \* MessageCache's bucket_size_
    MaxSyncs,       \* bound: syncs
    MaxCalls,       \* bound: calls whose answer is handled
    MaxPushes,      \* bound: notifications handled
    MaxRestarts     \* bound: times the process dies and starts again

ASSUME BoundsAssumption ==
    /\ MaxSeq \in Nat /\ BucketSize \in Nat \ {0}
    /\ MaxSyncs \in Nat /\ MaxCalls \in Nat /\ MaxPushes \in Nat /\ MaxRestarts \in Nat

Values   == {0, 1}          \* of a field: its default, and another
Fields   == {"synced", "own"}
Statuses == {"normal", "withdrawn"}     \* withdrawn: recalled (1) or deleted (2)
Workers  == {"http", "ws", "app"}
None     == [absent |-> TRUE]

Fresh == [synced |-> 0, own |-> 0, local_seq |-> 0]

VARIABLES
    cached,         \* the conversation's entry in the ConversationCache
    row,            \* its row in the conversations table
    bucket,         \* its bucket in the MessageCache
    queue,          \* statements the database worker has not executed
    todo,           \* per thread, the accesses its handler has left
    held,           \* per thread, the copy of the conversation it works on
    requests,       \* requests to /sync and /conversations that are not answered
    syncs,          \* number of syncs
    calls,          \* number of calls
    pushed,         \* number of notifications
    restarts,
    got,            \* history: messages ever given to the bucket
    told,           \* history: the largest number getMessageSequence has stored
    inserted,       \* history: messages given to the bucket since the start
    parted          \* history: cache and row may differ, until a handler writes both alone

local    == <<cached, row, bucket>>
work     == <<queue, todo, held>>
net      == <<requests, syncs, calls, pushed>>
history  == <<got, told, inserted, parted>>
vars     == <<local, work, net, restarts, history>>

Init ==
    /\ cached = None /\ row = None /\ bucket = EmptyBucket
    /\ queue = <<>>
    /\ todo = [t \in Workers |-> <<>>] /\ held = [t \in Workers |-> None]
    /\ requests = {} /\ syncs = 0 /\ calls = 0 /\ pushed = 0
    /\ restarts = 0
    /\ got = {} /\ told = 0 /\ inserted = {} /\ parted = FALSE

Idle(t) == todo[t] = <<>>
Settled == queue = <<>> /\ \A t \in Workers : Idle(t)

Larger(a, b) == IF a > b THEN a ELSE b

(***************************************************************************)
(* Handlers, as the accesses they make in order.                           *)
(***************************************************************************)
Does(what)     == [do |-> what]
Exec(statement)  == [do |-> "exec", statement |-> statement]  \* and wait for it
Post(statement)  == [do |-> "post", statement |-> statement]
PutRow(c)      == [what |-> "put", conv |-> c]                \* upsertDb
Statement(what, n) == [what |-> what, n |-> n]
InsertMsg(n, status) == [do |-> "insert", n |-> n, status |-> status]

\* get from the cache, change one field, upsert, upsertDb.
ChangeCached(do, field, v) ==
    <<[do |-> do, field |-> field, v |-> v], Does("write"), Does("save")>>

\* A faulty variant for a mutant: the row is not written.
PatchCacheOnly(field, v) == <<[do |-> "patch", field |-> field, v |-> v], Does("write")>>

\* setPinned, setMuted, setBurnAfterReading, setAutoDelete and
\* getMessageUnreadCount: nothing is written unless the conversation is cached.
Patch(field, v) == ChangeCached("patch", field, v)

\* A notification starts from an empty conversation if it is not cached.
Create(field, v) == ChangeCached("create", field, v)

\* deleteConversation's answer and conversation.deleted.
Remove == <<Does("remove"), Post(Statement("delete", 0))>>

\* markAllRead's answer.
ClearUnread == <<Does("clear"), Post(Statement("clear", 0))>>

Keep(c) == <<[do |-> "put", conv |-> c], Post(PutRow(c))>>      \* getConversation
KeepAll(c) == <<Post(PutRow(c)), [do |-> "put", conv |-> c]>>   \* getConversationList

\* getMessageSequence's answer.
Learn(n) == <<[do |-> "learn", n |-> n], Does("write"), Does("save")>>

InsertAll(low, high, gone) ==
    [i \in 1..(high - low + 1) |->
        InsertMsg(low + i - 1, IF low + i - 1 \in gone THEN "withdrawn" ELSE "normal")]

\* mergeSessions: the row keeps the fields the answer does not carry, the cache
\* gets a Conversation that has only those it carries.
MergeSession(v) ==
    <<Exec(Statement("merge", v)), [do |-> "put", conv |-> [Fresh EXCEPT !.synced = v]]>>

\* mergeConvMessages.
MergeMessages(low, high, gone) ==
    IF high < low THEN <<>>
    ELSE InsertAll(low, high, gone)
         \o <<Exec(Statement("raise", high)), [do |-> "raise", n |-> high], Does("write")>>

\* Handlers that read or write the conversation, and not only its messages.
Touches(handler) ==
    \E i \in DOMAIN handler : handler[i].do \notin {"insert", "mark", "withdraw"}

Begin(t, handler) ==
    /\ Idle(t)
    /\ todo' = [todo EXCEPT ![t] = handler]
    /\ parted' = (parted \/ (Touches(handler) /\ \E u \in Workers \ {t} : Touches(todo[u])))
    /\ UNCHANGED <<local, queue, held, restarts, got, told, inserted>>

(***************************************************************************)
(* Answers and notifications, as the worker takes them up.  The server     *)
(* (external) may answer at any time and in any order, and what it tells   *)
(* may be as old as the answer: a message as it was before it was recalled,*)
(* a page that misses the newest.  So a call that stores nothing when it is*)
(* made is modelled by the handling of its answer alone; one that fails, or*)
(* a notification that is lost, changes nothing here.                      *)
(***************************************************************************)
Answered(handler) ==
    /\ calls < MaxCalls
    /\ calls' = calls + 1
    /\ Begin("http", handler)
    /\ UNCHANGED <<requests, syncs, pushed>>

SetField == \E f \in Fields, v \in Values : Answered(Patch(f, v))
MarkAllRead == Answered(ClearUnread)
DeleteConversation == Answered(Remove)

\* A conversation as /conversations describes it: no local_seq.
Told(v) == [synced |-> v, own |-> v, local_seq |-> 0]

GetConversation == \E v \in Values : Answered(Keep(Told(v)))
GetMessageSequence == \E n \in 0..MaxSeq : Answered(Learn(n))

\* getHistory and getOfflineMessages.
GetMessages ==
    \E low, high \in 1..MaxSeq, gone \in SUBSET (1..MaxSeq) :
        low <= high /\ gone \subseteq low..high /\ Answered(InsertAll(low, high, gone))

\* recallMessage and deleteMessage.
WithdrawMessage == \E n \in 1..MaxSeq : Answered(<<[do |-> "mark", n |-> n]>>)

Pushed(handler) ==
    /\ pushed < MaxPushes
    /\ pushed' = pushed + 1
    /\ Begin("ws", handler)
    /\ UNCHANGED <<requests, syncs, calls>>

\* A faulty variant for a mutant: a notification advances local_seq.
OnMessageAdvances ==
    \E n \in 1..MaxSeq :
        Pushed(<<InsertMsg(n, "normal"), [do |-> "raise", n |-> n], Does("write"), Does("save")>>)

\* message.new and message.mentioned, once or again, and message.edited, which
\* inserts the message if it is not cached and keeps its status if it is.
OnMessage == \E n \in 1..MaxSeq : Pushed(<<InsertMsg(n, "normal")>>)

\* message.recalled and message.deleted.
OnWithdrawn == \E n \in 1..MaxSeq : Pushed(<<[do |-> "withdraw", n |-> n]>>)

\* conversation.unread_updated, pin_updated, mute_updated, burn_updated and
\* auto_delete_updated.
OnConversation == \E f \in Fields, v \in Values : Pushed(Create(f, v))

OnDeleted == Pushed(Remove)

(***************************************************************************)
(* The two calls that read the store before they send.                     *)
(***************************************************************************)
\* sync() is called on the WebSocket worker whenever the connection is up again.
Sync ==
    /\ syncs < MaxSyncs
    /\ syncs' = syncs + 1
    /\ Begin("ws", <<Exec(Statement("query", 0)), Does("ask")>>)
    /\ UNCHANGED <<requests, calls, pushed>>

\* handleSyncResponse: messages after last_seq, all or a first part of them
\* (has_more), and the conversation itself if it has changed.
OnSyncAnswer(r) ==
    /\ r.kind = "sync"
    /\ \E session \in {<<>>} \cup {MergeSession(v) : v \in Values},
          high \in r.last_seq..MaxSeq, gone \in SUBSET (1..MaxSeq) :
          /\ gone \subseteq (r.last_seq + 1)..high
          /\ Begin("http", session \o MergeMessages(r.last_seq + 1, high, gone))
    /\ requests' = requests \ {r}
    /\ UNCHANGED <<syncs, calls, pushed>>

\* getConversationList with an empty cache: the rows, or else a request.
GetConversationList ==
    /\ cached = None /\ calls < MaxCalls
    /\ calls' = calls + 1
    /\ Begin("app", <<Exec(Statement("query", 0)), Does("fill")>>)
    /\ UNCHANGED <<requests, syncs, pushed>>

OnListAnswer(r) ==
    /\ r.kind = "list"
    /\ \E v \in Values : Begin("http", KeepAll(Told(v)))
    /\ requests' = requests \ {r}
    /\ UNCHANGED <<syncs, calls, pushed>>

(***************************************************************************)
(* The accesses.                                                           *)
(***************************************************************************)
Waiting(t) == \E i \in DOMAIN queue : queue[i].by = t

\* The access thread t makes next is of one of these kinds.
Turn(t, kinds) == ~Idle(t) /\ ~Waiting(t) /\ Head(todo[t]).do \in kinds

\* The copy goes with the handler's last access.
Release(t) == held' = IF Len(todo[t]) = 1 THEN [held EXCEPT ![t] = None] ELSE held
Advance(t) == todo' = [todo EXCEPT ![t] = Tail(todo[t])]
Stop(t)    == todo' = [todo EXCEPT ![t] = <<>>]
Enqueue(t, statement) == queue' = Append(queue, [by |-> t, statement |-> statement])
Elsewhere == <<net, restarts>>

Give(t) ==
    /\ Turn(t, {"exec", "post"})
    /\ LET step == Head(todo[t])
       IN  Enqueue(IF step.do = "exec" THEN t ELSE "none", step.statement)
    /\ Advance(t)
    /\ UNCHANGED <<local, held, Elsewhere, history>>

applyNotificationPatch(c, field, v) == [c EXCEPT ![field] = v]

\* What a handler writes after it has read the cached conversation c, or None.
Changed(step, c) ==
    CASE step.do = "patch"  -> IF c = None THEN None ELSE [c EXCEPT ![step.field] = step.v]
      [] step.do = "create" -> applyNotificationPatch(IF c = None THEN Fresh ELSE c, step.field, step.v)
      [] step.do \in {"raise", "learn"} ->
            IF c = None \/ step.n <= c.local_seq THEN None ELSE [c EXCEPT !.local_seq = step.n]

ReadCached(t) ==
    /\ Turn(t, {"patch", "create", "raise", "learn"})
    /\ LET step == Head(todo[t])
           c    == Changed(step, cached)
           only == step.do = "learn" /\ cached = None /\ step.n > 0
       IN  /\ held' = [held EXCEPT ![t] = c]
           /\ IF c = None THEN Stop(t) ELSE Advance(t)
           /\ IF only THEN Enqueue("none", Statement("raise", step.n)) ELSE UNCHANGED queue
           /\ told' = IF step.do = "learn" THEN Larger(told, step.n) ELSE told
    /\ UNCHANGED <<local, Elsewhere, got, inserted, parted>>

\* Thread t has the conversation to itself, and what it does next gives the row what
\* it has just given the cache.
WritesBoth(t, next) ==
    /\ Tail(todo[t]) = <<next>>
    /\ \A u \in Workers \ {t} : ~Touches(todo[u])

WriteCached(t) ==
    /\ Turn(t, {"write"})
    /\ cached' = held[t]
    /\ Advance(t) /\ Release(t)
    /\ parted' = (parted /\ ~WritesBoth(t, Does("save")))
    /\ UNCHANGED <<row, bucket, queue, Elsewhere, got, told, inserted>>

SaveRow(t) ==
    /\ Turn(t, {"save"})
    /\ Enqueue("none", PutRow(held[t]))
    /\ Advance(t) /\ Release(t)
    /\ UNCHANGED <<local, Elsewhere, history>>

\* upsert, or setAll, of a conversation made from an answer.
PutCached(t) ==
    /\ Turn(t, {"put"})
    /\ cached' = Head(todo[t]).conv
    /\ Advance(t)
    /\ parted' = (parted /\ ~WritesBoth(t, Post(PutRow(cached'))))
    /\ UNCHANGED <<row, bucket, queue, held, Elsewhere, got, told, inserted>>

RemoveCached(t) ==
    /\ Turn(t, {"remove"})
    /\ cached' = None
    /\ Advance(t)
    /\ parted' = (parted /\ ~WritesBoth(t, Post(Statement("delete", 0))))
    /\ UNCHANGED <<row, bucket, queue, held, Elsewhere, got, told, inserted>>

ClearCached(t) ==
    /\ Turn(t, {"clear"})
    /\ cached' = IF cached = None THEN None ELSE [cached EXCEPT !.synced = 0]
    /\ Advance(t)
    /\ UNCHANGED <<row, bucket, queue, held, Elsewhere, history>>

InsertMessage(t) ==
    /\ Turn(t, {"insert"})
    /\ LET m == Head(todo[t])
       IN  /\ bucket' = Insert(bucket, BucketSize, m.n, m.status)
           /\ got' = got \cup {m.n} /\ inserted' = inserted \cup {m.n}
    /\ Advance(t)
    /\ UNCHANGED <<cached, row, queue, held, Elsewhere, told, parted>>

\* recallMessage and deleteMessage change the cached message only.
MarkMessage(t) ==
    /\ Turn(t, {"mark"})
    /\ bucket' = UpdateMessageById(bucket, Head(todo[t]).n, "withdrawn")
    /\ Advance(t)
    /\ UNCHANGED <<cached, row, queue, held, Elsewhere, history>>

\* handleMessageRecalled and handleMessageDeleted insert it if it is not cached,
\* which is a second access.
UpdateOrInsert(t) ==
    /\ Turn(t, {"withdraw"})
    /\ LET n == Head(todo[t]).n
       IN  /\ bucket' = UpdateMessageById(bucket, n, "withdrawn")
           /\ todo' = [todo EXCEPT ![t] = IF n \in DOMAIN bucket THEN <<>>
                                          ELSE <<InsertMsg(n, "withdrawn")>>]
    /\ UNCHANGED <<cached, row, queue, held, Elsewhere, history>>

Request(kind, n) ==
    requests' = requests \cup {[id |-> syncs + calls, kind |-> kind, last_seq |-> n]}

\* sync() has read the rows; the cache's local_seq goes before the row's.
Ask(t) ==
    /\ Turn(t, {"ask"})
    /\ Request("sync", IF held[t] = None THEN 0
                       ELSE IF cached = None THEN held[t].local_seq ELSE cached.local_seq)
    /\ Advance(t) /\ Release(t)
    /\ UNCHANGED <<local, queue, syncs, calls, pushed, restarts, history>>

Fill(t) ==
    /\ Turn(t, {"fill"})
    /\ IF held[t] = None
       THEN Request("list", 0) /\ UNCHANGED cached
       ELSE cached' = held[t] /\ UNCHANGED requests
    /\ Advance(t) /\ Release(t)
    /\ UNCHANGED <<row, bucket, queue, syncs, calls, pushed, restarts, history>>

(***************************************************************************)
(* The database worker executes statements one at a time, in order.        *)
(***************************************************************************)
Applied(s, r) ==
    CASE s.what = "put"    -> s.conv
      [] s.what = "raise"  -> IF r = None THEN None ELSE [r EXCEPT !.local_seq = Larger(r.local_seq, s.n)]
      [] s.what = "merge"  -> [(IF r = None THEN Fresh ELSE r) EXCEPT !.synced = s.n]
      [] s.what = "clear"  -> IF r = None THEN None ELSE [r EXCEPT !.synced = 0]
      [] s.what = "delete" -> None
      [] s.what = "query"  -> r

\* A DELETE fails, unnoticed, while the messages table refers to the row.
Execute ==
    /\ queue # <<>>
    /\ LET s == Head(queue).statement
           t == Head(queue).by
       IN  /\ row' \in {Applied(s, row)} \cup (IF s.what = "delete" THEN {row} ELSE {})
           /\ held' = IF s.what = "query" THEN [held EXCEPT ![t] = row] ELSE held
           /\ parted' = (parted \/ (s.what = "merge" /\ row # None /\ row # [Fresh EXCEPT !.synced = row.synced]))
    /\ queue' = Tail(queue)
    /\ UNCHANGED <<cached, bucket, todo, net, restarts, got, told, inserted>>

\* The process dies, at any point, and starts again: only the row survives.
Restart ==
    /\ restarts < MaxRestarts
    /\ restarts' = restarts + 1
    /\ cached' = None /\ bucket' = EmptyBucket
    /\ queue' = <<>>
    /\ todo' = [t \in Workers |-> <<>>] /\ held' = [t \in Workers |-> None]
    /\ requests' = {}
    /\ inserted' = {} /\ parted' = FALSE
    /\ UNCHANGED <<row, syncs, calls, pushed, got, told>>

Next ==
    \/ SetField \/ MarkAllRead \/ DeleteConversation \/ GetConversation
    \/ GetMessageSequence \/ GetMessages \/ WithdrawMessage
    \/ OnMessage \/ OnWithdrawn \/ OnConversation \/ OnDeleted
    \/ Sync \/ GetConversationList
    \/ \E r \in requests : OnSyncAnswer(r) \/ OnListAnswer(r)
    \/ \E t \in Workers :
          \/ Give(t) \/ ReadCached(t) \/ WriteCached(t) \/ SaveRow(t) \/ PutCached(t)
          \/ RemoveCached(t) \/ ClearCached(t)
          \/ InsertMessage(t) \/ MarkMessage(t) \/ UpdateOrInsert(t)
          \/ Ask(t) \/ Fill(t)
    \/ Execute
    \/ Restart

Spec == Init /\ [][Next]_vars

-----------------------------------------------------------------------------
(***************************************************************************)
(* Properties.                                                             *)
(***************************************************************************)
Conversations == [synced : Values, own : Values, local_seq : 0..MaxSeq]

\* The shape of the stored data; a bucket is never over its size.
TypeOK ==
    /\ cached \in Conversations \cup {None} /\ row \in Conversations \cup {None}
    /\ bucket \in Bucket(1..MaxSeq, Statuses) /\ Cardinality(DOMAIN bucket) <= BucketSize
    /\ \A t \in Workers : held[t] \in Conversations \cup {None}
    /\ syncs \in 0..MaxSyncs /\ calls \in 0..MaxCalls
    /\ pushed \in 0..MaxPushes /\ restarts \in 0..MaxRestarts
    /\ got \subseteq 1..MaxSeq /\ inserted \subseteq got /\ told \in 0..MaxSeq
    /\ parted \in BOOLEAN

\* A message that is shown as recalled or deleted is not shown again while it is
\* cached: a notification delivered again, or an answer older than the recall, is a
\* duplicate for MessageCache::insert.
StaysWithdrawn ==
    [][\A n \in DOMAIN bucket \cap DOMAIN bucket' :
          bucket[n] = "withdrawn" => bucket'[n] = "withdrawn"]_vars

\* Whatever order pages, syncs and notifications come in, a message that is not
\* cached any more is older than all that are, and was evicted by a full bucket.
KeepsNewest ==
    \A n \in inserted \ DOMAIN bucket :
        /\ Cardinality(DOMAIN bucket) = BucketSize
        /\ \A k \in DOMAIN bucket : n < k

\* local_seq, which the next sync reports so that the server sends what comes after
\* it, never passes a message the client has not received, with syncs that overlap,
\* notifications between them and crashes, except where getMessageSequence has
\* stored the server's number.
NoSkip ==
    \A c \in {cached, row} \ {None} : \A n \in 1..c.local_seq : n \in got \/ n <= told

\* While no handler runs and the database worker is done, the row is what the cache
\* shows (write-through, architecture.md:212-220).  Two things can part them: handlers
\* that overlap (conversation_manager.cpp:364, :808), and a sync that resets the cached
\* fields its answer does not carry (sync_engine.cpp:184); and that lasts only until
\* the next handler that writes both with no other in its way.
WriteThrough == Settled /\ ~parted /\ cached # None => row = cached

\* local_seq is the largest number received (architecture.md:266).
LocalSeqReceived ==
    \A c \in {cached, row} \ {None} : c.local_seq = 0 \/ c.local_seq \in got

=============================================================================
