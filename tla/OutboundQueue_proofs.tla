------------------------ MODULE OutboundQueue_proofs ------------------------
(***************************************************************************)
(* Theorems of OutboundQueue, for any threads, messages and bounds.        *)
(***************************************************************************)
EXTENDS OutboundQueue, TLAPS

-----------------------------------------------------------------------------
(* The queues: what Append and Tail do to the elements and their indices. *)

\* post, send and receive append at the end: every element keeps its place.
LEMMA AppendFacts ==
  ASSUME NEW S, NEW s \in Seq(S), NEW e \in S
  PROVE  /\ Append(s, e) \in Seq(S)
         /\ DOMAIN Append(s, e) = 1..(Len(s) + 1)
         /\ DOMAIN s = 1..Len(s)
         /\ Len(s) \in Nat
         /\ \A i \in DOMAIN s : Append(s, e)[i] = s[i]
         /\ Append(s, e)[Len(s) + 1] = e
  OBVIOUS

\* What is in a queue after post, send or receive was there or is the new element.
LEMMA AppendPlaces ==
  ASSUME NEW S, NEW s \in Seq(S), NEW e \in S, NEW i \in DOMAIN Append(s, e)
  PROVE  (i \in DOMAIN s /\ Append(s, e)[i] = s[i]) \/ (i = Len(s) + 1 /\ Append(s, e)[i] = e)
<1> DEFINE n == Len(s)
           a == Append(s, e)
<1>1. n \in Nat /\ DOMAIN s = 1..n /\ DOMAIN a = 1..(n + 1)
  BY AppendFacts
<1>2. (\A k \in DOMAIN s : a[k] = s[k]) /\ a[n + 1] = e
  BY AppendFacts
<1>3. i \in DOMAIN a
  OBVIOUS
<1> HIDE DEF n, a
<1>4. i \in 1..n \/ i = n + 1
  BY <1>1, <1>3
<1>5. (i \in DOMAIN s /\ a[i] = s[i]) \/ (i = n + 1 /\ a[i] = e)
  BY <1>1, <1>2, <1>4
<1> QED
  BY <1>5 DEF n, a

\* The worker, the socket and the server take the first element: every other
\* one moves forward by one place.
LEMMA TailFacts ==
  ASSUME NEW S, NEW s \in Seq(S), s # << >>
  PROVE  /\ Tail(s) \in Seq(S)
         /\ Head(s) \in S
         /\ Head(s) = s[1]
         /\ DOMAIN s = 1..Len(s)
         /\ Len(s) \in Nat
         /\ 1 \in DOMAIN s
         /\ DOMAIN Tail(s) = 1..(Len(s) - 1)
         /\ \A i \in DOMAIN Tail(s) : i + 1 \in DOMAIN s /\ Tail(s)[i] = s[i + 1]
         /\ \A i \in DOMAIN s : i # 1 => i - 1 \in DOMAIN Tail(s) /\ Tail(s)[i - 1] = s[i]
  OBVIOUS

\* A frame or an ack queued, sent or received is there, and so is every other one.
LEMMA InAppend ==
  ASSUME NEW S, NEW s \in Seq(S), NEW e \in S, NEW x
  PROVE  In(x, s) \/ x = e => In(x, Append(s, e))
<1>1. ASSUME NEW i \in DOMAIN s, s[i] = x PROVE In(x, Append(s, e))
  BY <1>1, AppendFacts DEF In
<1>2. ASSUME x = e PROVE In(x, Append(s, e))
  BY <1>2, AppendFacts DEF In
<1> QED
  BY <1>1, <1>2 DEF In

\* Taking the first element of a queue loses that element and no other.
LEMMA InTail ==
  ASSUME NEW S, NEW s \in Seq(S), s # << >>, NEW x, In(x, s)
  PROVE  x = Head(s) \/ In(x, Tail(s))
<1>1. PICK i \in DOMAIN s : s[i] = x
  BY DEF In
<1>2. CASE i = 1
  BY <1>1, <1>2, TailFacts
<1>3. CASE i # 1
  <2>1. i - 1 \in DOMAIN Tail(s) /\ Tail(s)[i - 1] = x
    BY <1>1, <1>3, TailFacts
  <2> QED
    BY <2>1 DEF In
<1> QED
  BY <1>2, <1>3

\* A closed socket and a new WebSocketClient start with empty queues.
LEMMA EmptySeq == \A S : << >> \in Seq(S)
  OBVIOUS

\* INSERT OR IGNORE and emplace keep the rows there are, add no other row, and
\* leave the key present.
LEMMA InsertOrIgnoreFacts ==
  ASSUME NEW S, NEW r
  PROVE  /\ S \subseteq InsertOrIgnore(S, r)
         /\ InsertOrIgnore(S, r) \subseteq S \cup {r}
         /\ HasKey(InsertOrIgnore(S, r), r.lid)
         /\ \A id : HasKey(S, id) => HasKey(InsertOrIgnore(S, r), id)
  BY DEF InsertOrIgnore, HasKey

\* Rows and the transient frame are different frames.
LEMMA TransientIsNoRow == Transient \notin Rows
  BY DEF Transient, Rows, LocalIds

-----------------------------------------------------------------------------
(* Type correctness. *)

\* A thread past generateLocalId holds a row, not a transient frame.
HoldsRow == \A t \in Threads : pc[t] \in {"register", "sendRow"} => cur[t] \in Rows

TypeInv == TypeOK /\ HoldsRow

\* The process starts with every member of its type, and sends nothing.
LEMMA TypeInit == Init => TypeInv
<1> SUFFICES ASSUME Init PROVE TypeInv
  OBVIOUS
<1>1. tasks \in Seq(Tasks)
  BY EmptySeq DEF Init
<1>2. send_queue \in Seq(Frames) /\ toServer \in Seq(Frames) /\ toClient \in Seq(LocalIds)
  BY EmptySeq DEF Init
<1>3. cur \in [Threads -> Frames]
  BY DEF Init, Frames
<1>4. /\ outbound_queue \subseteq Rows /\ callbacks_ \subseteq Rows /\ rows \subseteq Rows
      /\ store \subseteq Rows /\ succeeded \subseteq Msgs
  BY DEF Init
<1>5. /\ counter \in LocalIds /\ acking \in Nat
      /\ drops \in Nat /\ logouts \in Nat /\ restarts \in Nat /\ transients \in Nat
  BY DEF Init, FirstId, LocalIds
<1>6. send_fn_ \in BOOLEAN /\ connected \in BOOLEAN
  BY DEF Init
<1>7. pc \in [Threads -> {"idle", "register", "sendRow", "push"}] /\ HoldsRow
  BY DEF Init, HoldsRow
<1>8. wspc \in {"loop", "ready", "query", "wait", "flush", "ack"} /\ session \in {"out", "in", "leaving"}
  BY DEF Init
<1>9. idOf \in [Msgs -> Nat]
  BY DEF Init
<1> QED
  BY <1>1, <1>2, <1>3, <1>4, <1>5, <1>6, <1>7, <1>8, <1>9 DEF TypeInv, TypeOK

\* No step of a thread, the server or a restart takes a variable out of its
\* type, or sends or registers a frame that is no row (sendTransient aside).
LEMMA TypeStep == TypeInv /\ [Next]_vars => TypeInv'
<1> SUFFICES ASSUME TypeInv, [Next]_vars PROVE TypeInv'
  OBVIOUS
<1> USE DEF TypeInv, TypeOK, HoldsRow
<1>1. ASSUME NEW t \in Threads, NEW m \in Msgs, Enqueue(t, m) PROVE TypeInv'
  <2> DEFINE r == [lid |-> counter, msg |-> m]
  <2>1. r \in Rows /\ r \in Frames
    BY DEF Rows, Frames
  <2>2. InsertTask(r) \in Tasks
    BY <2>1 DEF InsertTask, Tasks
  <2>3. tasks' \in Seq(Tasks)
    BY <1>1, <2>2, AppendFacts DEF Enqueue
  <2>4. counter' \in LocalIds /\ idOf' \in [Msgs -> Nat]
    BY <1>1 DEF Enqueue, LocalIds
  <2>5. cur' \in [Threads -> Frames] /\ pc' \in [Threads -> {"idle", "register", "sendRow", "push"}]
    BY <1>1, <2>1 DEF Enqueue
  <2>6. HoldsRow'
    BY <1>1, <2>1 DEF Enqueue
  <2> QED
    BY <1>1, <2>3, <2>4, <2>5, <2>6 DEF Enqueue, wsVars, linkVars, bounds
<1>2. ASSUME NEW t \in Threads, Register(t) PROVE TypeInv'
  <2>1. callbacks_' \subseteq Rows
    BY <1>2, InsertOrIgnoreFacts DEF Register
  <2> QED
    BY <1>2, <2>1 DEF Register, dbVars, wsVars, linkVars, history, bounds
<1>3. ASSUME NEW t \in Threads, SendRow(t) PROVE TypeInv'
  BY <1>3 DEF SendRow, dbVars, queueVars, wsVars, linkVars, history, bounds
<1>4. ASSUME NEW t \in Threads, SendTransient(t) PROVE TypeInv'
  BY <1>4 DEF SendTransient, dbVars, queueVars, wsVars, linkVars, history, Frames
<1>5. ASSUME NEW t \in Threads, Push(t) PROVE TypeInv'
  <2>1. send_queue' \in Seq(Frames)
    BY <1>5, AppendFacts DEF Push
  <2> QED
    BY <1>5, <2>1 DEF Push, dbVars, queueVars, wsVars, history, bounds
<1>6. CASE RunInsert
  <2>1. Head(tasks) \in Tasks /\ tasks' \in Seq(Tasks)
    BY <1>6, TailFacts DEF RunInsert
  <2>2. Head(tasks).row \in Rows
    BY <1>6, <2>1 DEF RunInsert, Tasks
  <2>3. outbound_queue' \subseteq Rows
    BY <1>6, <2>2, InsertOrIgnoreFacts DEF RunInsert
  <2> QED
    BY <1>6, <2>1, <2>3 DEF RunInsert, queueVars, appVars, wsVars, linkVars, history, bounds
<1>7. CASE RunDelete
  <2>1. tasks' \in Seq(Tasks)
    BY <1>7, TailFacts DEF RunDelete
  <2> QED
    BY <1>7, <2>1 DEF RunDelete, DeleteKey, queueVars, appVars, wsVars, linkVars, history, bounds
<1>8. CASE RunSelect
  <2>1. tasks' \in Seq(Tasks)
    BY <1>8, TailFacts DEF RunSelect
  <2> QED
    BY <1>8, <2>1 DEF RunSelect, queueVars, appVars, linkVars, history, bounds
<1>9. CASE Established
  BY <1>9 DEF Established, dbVars, queueVars, appVars, history, bounds
<1>10. CASE SetSendFn
  BY <1>10 DEF SetSendFn, dbVars, appVars, linkVars, history, bounds
<1>11. CASE PostSelect
  <2>1. SelectTask \in Tasks
    BY DEF SelectTask, Tasks
  <2>2. tasks' \in Seq(Tasks)
    BY <1>11, <2>1, AppendFacts DEF PostSelect
  <2> QED
    BY <1>11, <2>2 DEF PostSelect, queueVars, appVars, linkVars, history, bounds
<1>12. ASSUME NEW r \in rows, FlushRow(r) PROVE TypeInv'
  <2>1. r \in Frames
    BY DEF Frames
  <2>2. send_queue' \in Seq(Frames)
    BY <1>12, <2>1, AppendFacts DEF FlushRow
  <2> QED
    BY <1>12, <2>2 DEF FlushRow, dbVars, queueVars, appVars, history, bounds
<1>13. CASE FlushDone
  BY <1>13 DEF FlushDone, dbVars, queueVars, appVars, linkVars, history, bounds
<1>14. CASE Writeable
  <2>1. Head(send_queue) \in Frames /\ send_queue' \in Seq(Frames)
    BY <1>14, TailFacts DEF Writeable
  <2>2. toServer' \in Seq(Frames)
    BY <1>14, <2>1, AppendFacts DEF Writeable
  <2> QED
    BY <1>14, <2>1, <2>2 DEF Writeable, dbVars, queueVars, appVars, wsVars, history, bounds
<1>15. CASE Ack
  <2>1. Head(toClient) \in LocalIds /\ toClient' \in Seq(LocalIds)
    BY <1>15, TailFacts DEF Ack
  <2>2. DeleteTask(Head(toClient)) \in Tasks
    BY <2>1 DEF DeleteTask, Tasks
  <2>3. tasks' \in Seq(Tasks)
    BY <1>15, <2>2, AppendFacts DEF Ack
  <2>4. acking' \in Nat
    BY <1>15, <2>1 DEF Ack, LocalIds
  <2> QED
    BY <1>15, <2>1, <2>3, <2>4 DEF Ack, queueVars, appVars, history, bounds
<1>16. CASE TakeCallback
  <2>1. succeeded' \subseteq Msgs
    BY <1>16 DEF TakeCallback, CallbackOf, Rows
  <2> QED
    BY <1>16, <2>1 DEF TakeCallback, dbVars, appVars, linkVars, bounds
<1>17. CASE Closed
  <2>1. toServer' \in Seq(Frames) /\ toClient' \in Seq(LocalIds)
    BY <1>17, EmptySeq DEF Closed
  <2>2. connected' = FALSE /\ drops' \in Nat
    BY <1>17 DEF Closed
  <2>3. UNCHANGED <<dbVars, queueVars, appVars, wsVars, session, send_queue, store, history,
                    logouts, restarts, transients>>
    BY <1>17 DEF Closed
  <2> QED
    BY <2>1, <2>2, <2>3 DEF dbVars, queueVars, appVars, wsVars, history
<1>18. CASE Login
  BY <1>18 DEF Login, dbVars, queueVars, appVars, wsVars, history, bounds
<1>19. CASE LogoutDisconnect
  <2>1. toServer' \in Seq(Frames) /\ toClient' \in Seq(LocalIds)
    BY <1>19, EmptySeq DEF LogoutDisconnect
  <2>2. connected' = FALSE /\ session' = "leaving" /\ logouts' \in Nat
    BY <1>19 DEF LogoutDisconnect
  <2>3. UNCHANGED <<dbVars, queueVars, appVars, wsVars, send_queue, store, history,
                    drops, restarts, transients>>
    BY <1>19 DEF LogoutDisconnect
  <2> QED
    BY <2>1, <2>2, <2>3 DEF dbVars, queueVars, appVars, wsVars, history
<1>20. CASE OnDisconnected
  BY <1>20 DEF OnDisconnected, dbVars, appVars, wsVars, history, bounds
<1>21. CASE ServerReceive
  <2>1. Head(toServer) \in Frames /\ toServer' \in Seq(Frames)
    BY <1>21, TailFacts DEF ServerReceive
  <2>2. CASE Head(toServer) = Transient
    BY <1>21, <2>1, <2>2 DEF ServerReceive, dbVars, queueVars, appVars, wsVars, history, bounds
  <2>3. CASE Head(toServer) # Transient
    <3>1. Head(toServer) \in Rows
      BY <2>1, <2>3 DEF Frames
    <3>2. Head(toServer).lid \in LocalIds
      BY <3>1 DEF Rows
    <3>3. /\ store' = InsertOrIgnore(store, Head(toServer))
          /\ toClient' = Append(toClient, Head(toServer).lid)
      BY <1>21, <2>3 DEF ServerReceive
    <3>4. toClient' \in Seq(LocalIds)
      BY <3>2, <3>3, AppendFacts
    <3>5. store' \subseteq Rows
      BY <3>1, <3>3, InsertOrIgnoreFacts
    <3>6. UNCHANGED <<dbVars, queueVars, appVars, wsVars, session, connected, send_queue, history, bounds>>
      BY <1>21 DEF ServerReceive
    <3> QED
      BY <2>1, <3>4, <3>5, <3>6 DEF dbVars, queueVars, appVars, wsVars, history, bounds
  <2> QED
    BY <2>2, <2>3
<1>22. CASE Restart
  <2>1. cur' \in [Threads -> Frames]
    BY <1>22 DEF Restart, Frames
  <2>2. tasks' \in Seq(Tasks)
    BY <1>22, EmptySeq DEF Restart
  <2>3. send_queue' \in Seq(Frames) /\ toServer' \in Seq(Frames) /\ toClient' \in Seq(LocalIds)
    BY <1>22, EmptySeq DEF Restart
  <2>4. callbacks_' \subseteq Rows /\ rows' \subseteq Rows
    BY <1>22 DEF Restart
  <2>5. counter' \in LocalIds /\ acking' \in Nat /\ restarts' \in Nat
    BY <1>22 DEF Restart, FirstId, LocalIds
  <2>6. pc' \in [Threads -> {"idle", "register", "sendRow", "push"}] /\ HoldsRow'
    BY <1>22 DEF Restart
  <2>7. wspc' = "loop" /\ session' = "out" /\ send_fn_' = FALSE /\ connected' = FALSE
    BY <1>22 DEF Restart
  <2>8. UNCHANGED <<outbound_queue, store, history, drops, logouts, transients>>
    BY <1>22 DEF Restart
  <2> QED
    BY <2>1, <2>2, <2>3, <2>4, <2>5, <2>6, <2>7, <2>8 DEF history
<1>23. CASE UNCHANGED vars
  BY <1>23 DEF vars, dbVars, queueVars, appVars, wsVars, linkVars, history, bounds
<1> QED
  BY <1>1, <1>2, <1>3, <1>4, <1>5, <1>6, <1>7, <1>8, <1>9, <1>10, <1>11, <1>12, <1>13, <1>14,
     <1>15, <1>16, <1>17, <1>18, <1>19, <1>20, <1>21, <1>22, <1>23 DEF Next

\* Every variable keeps its type, in every behaviour of the queue.
THEOREM TypeCorrect == Spec => []TypeOK
<1>1. TypeInv => TypeOK
  BY DEF TypeInv
<1> QED
  BY <1>1, TypeInit, TypeStep, PTL DEF Spec

-----------------------------------------------------------------------------
(* Rows are removed only when the server has their local_id. *)

\* Every ack the client has not finished with, and every DELETE posted for one,
\* names a local_id the server has stored.
AckInv ==
  /\ \A i \in DOMAIN toClient : HasKey(store, toClient[i])
  /\ \A i \in DOMAIN tasks : tasks[i].op = "delete" => HasKey(store, tasks[i].lid)

\* Only the server makes an ack, once it has the local_id, and the store never
\* forgets one: what an ack or a posted DELETE names stays stored.
LEMMA AckStep == TypeInv /\ AckInv /\ [Next]_vars => AckInv'
<1> SUFFICES ASSUME TypeInv, AckInv, [Next]_vars PROVE AckInv'
  OBVIOUS
<1> USE DEF TypeInv, TypeOK
<1>1. ASSUME NEW t \in Threads, NEW m \in Msgs, Enqueue(t, m) PROVE AckInv'
  <2> DEFINE r == [lid |-> counter, msg |-> m]
  <2>1. InsertTask(r) \in Tasks /\ InsertTask(r).op # "delete"
    BY DEF InsertTask, Tasks, Rows
  <2>2. tasks' = Append(tasks, InsertTask(r)) /\ UNCHANGED <<toClient, store>>
    BY <1>1 DEF Enqueue, linkVars
  <2> QED
    BY <2>1, <2>2, AppendFacts DEF AckInv
<1>2. CASE RunInsert \/ RunDelete \/ RunSelect
  <2>1. tasks # << >> /\ tasks' = Tail(tasks) /\ UNCHANGED <<toClient, store>>
    BY <1>2 DEF RunInsert, RunDelete, RunSelect, linkVars
  <2> QED
    BY <2>1, TailFacts DEF AckInv
<1>3. CASE PostSelect
  <2>1. SelectTask \in Tasks /\ SelectTask.op # "delete"
    BY DEF SelectTask, Tasks
  <2>2. tasks' = Append(tasks, SelectTask) /\ UNCHANGED <<toClient, store>>
    BY <1>3 DEF PostSelect, linkVars
  <2> QED
    BY <2>1, <2>2, AppendFacts DEF AckInv
<1>4. CASE Ack
  <2>1. /\ toClient # << >> /\ toClient' = Tail(toClient) /\ UNCHANGED store
        /\ tasks' = Append(tasks, DeleteTask(Head(toClient)))
    BY <1>4 DEF Ack
  <2>2. Head(toClient) \in LocalIds /\ HasKey(store, Head(toClient))
    BY <2>1, TailFacts DEF AckInv
  <2>3. DeleteTask(Head(toClient)) \in Tasks /\ DeleteTask(Head(toClient)).lid = Head(toClient)
    BY <2>2 DEF DeleteTask, Tasks
  <2>4. \A i \in DOMAIN toClient' : HasKey(store', toClient'[i])
    BY <2>1, TailFacts DEF AckInv
  <2>5. \A i \in DOMAIN tasks' : tasks'[i].op = "delete" => HasKey(store', tasks'[i].lid)
    BY <2>1, <2>2, <2>3, AppendFacts DEF AckInv
  <2> QED
    BY <2>4, <2>5 DEF AckInv
<1>5. CASE ServerReceive
  <2>1. UNCHANGED tasks
    BY <1>5 DEF ServerReceive, dbVars
  <2>2. Head(toServer) \in Frames
    BY <1>5, TailFacts DEF ServerReceive
  <2>3. CASE Head(toServer) = Transient
    BY <1>5, <2>1, <2>3 DEF ServerReceive, AckInv
  <2>4. CASE Head(toServer) # Transient
    <3>1. /\ store' = InsertOrIgnore(store, Head(toServer))
          /\ toClient' = Append(toClient, Head(toServer).lid)
      BY <1>5, <2>4 DEF ServerReceive
    <3>2. Head(toServer).lid \in LocalIds
      BY <2>2, <2>4 DEF Frames, Rows
    <3>3. HasKey(store', Head(toServer).lid) /\ \A id : HasKey(store, id) => HasKey(store', id)
      BY <3>1, InsertOrIgnoreFacts
    <3>4. \A i \in DOMAIN toClient' : HasKey(store', toClient'[i])
      BY <3>1, <3>2, <3>3, AppendFacts DEF AckInv
    <3> QED
      BY <2>1, <3>3, <3>4 DEF AckInv
  <2> QED
    BY <2>3, <2>4
<1>6. CASE Closed \/ LogoutDisconnect
  <2>1. toClient' = << >> /\ UNCHANGED <<tasks, store>>
    BY <1>6 DEF Closed, LogoutDisconnect, dbVars
  <2> QED
    BY <2>1 DEF AckInv
<1>7. CASE Restart
  <2>1. toClient' = << >> /\ tasks' = << >>
    BY <1>7 DEF Restart
  <2> QED
    BY <2>1 DEF AckInv
<1>8. CASE UNCHANGED <<tasks, toClient, store>>
  BY <1>8 DEF AckInv
<1>9. ASSUME NEW t \in Threads, Register(t) \/ SendRow(t) \/ SendTransient(t) \/ Push(t)
      PROVE  UNCHANGED <<tasks, toClient, store>>
  BY <1>9 DEF Register, SendRow, SendTransient, Push, dbVars, linkVars
<1>10. ASSUME Established \/ SetSendFn \/ FlushDone \/ Writeable \/ TakeCallback
       PROVE  UNCHANGED <<tasks, toClient, store>>
  BY <1>10 DEF Established, SetSendFn, FlushDone, Writeable, TakeCallback, dbVars, linkVars
<1>11. ASSUME NEW r \in rows, FlushRow(r) PROVE UNCHANGED <<tasks, toClient, store>>
  BY <1>11 DEF FlushRow, dbVars
<1>12. ASSUME Login \/ OnDisconnected PROVE UNCHANGED <<tasks, toClient, store>>
  BY <1>12 DEF Login, OnDisconnected, dbVars
<1>13. ASSUME UNCHANGED vars PROVE UNCHANGED <<tasks, toClient, store>>
  BY <1>13 DEF vars, dbVars, linkVars
<1> QED
  BY <1>1, <1>2, <1>3, <1>4, <1>5, <1>6, <1>7, <1>8, <1>9, <1>10, <1>11, <1>12, <1>13 DEF Next

\* Whatever is lost, repeated or restarted, the database worker removes a row
\* only after the server has accepted its local_id.
THEOREM RemovalIsSafe == Spec => RemovedOnlyWhenStored
<1>1. Init => AckInv
  BY DEF Init, AckInv
<1>2. TypeInv /\ AckInv /\ [Next]_vars
        => [\A r \in outbound_queue \ outbound_queue' : HasKey(store, r.lid)]_vars
  <2> SUFFICES ASSUME TypeInv, AckInv, Next, NEW r \in outbound_queue \ outbound_queue'
               PROVE  HasKey(store, r.lid)
    BY DEF vars
  <2>1. CASE RunDelete
    <3>1. Head(tasks).op = "delete" /\ r.lid = Head(tasks).lid
      BY <2>1 DEF RunDelete, DeleteKey
    <3>2. 1 \in DOMAIN tasks /\ Head(tasks) = tasks[1]
      BY <2>1, TailFacts DEF RunDelete, TypeInv, TypeOK
    <3> QED
      BY <3>1, <3>2 DEF AckInv
  <2>2. CASE RunInsert
    BY <2>2, InsertOrIgnoreFacts DEF RunInsert
  <2>3. ASSUME NEW t \in Threads, NEW m \in Msgs, Enqueue(t, m) PROVE outbound_queue' = outbound_queue
    BY <2>3 DEF Enqueue
  <2>4. ASSUME NEW t \in Threads, Register(t) \/ SendRow(t) \/ SendTransient(t) \/ Push(t)
        PROVE  outbound_queue' = outbound_queue
    BY <2>4 DEF Register, SendRow, SendTransient, Push, dbVars
  <2>5. ASSUME RunSelect \/ Established \/ SetSendFn \/ PostSelect \/ FlushDone \/ Writeable \/ Ack
        PROVE  outbound_queue' = outbound_queue
    BY <2>5 DEF RunSelect, Established, SetSendFn, PostSelect, FlushDone, Writeable, Ack, dbVars
  <2>6. ASSUME NEW q \in rows, FlushRow(q) PROVE outbound_queue' = outbound_queue
    BY <2>6 DEF FlushRow, dbVars
  <2>7. ASSUME TakeCallback \/ Closed \/ Login \/ LogoutDisconnect \/ OnDisconnected \/ ServerReceive \/ Restart
        PROVE  outbound_queue' = outbound_queue
    BY <2>7 DEF TakeCallback, Closed, Login, LogoutDisconnect, OnDisconnected, ServerReceive, Restart, dbVars
  <2> QED
    BY <2>1, <2>2, <2>3, <2>4, <2>5, <2>6, <2>7 DEF Next
<1> QED
  BY <1>1, <1>2, TypeInit, TypeStep, AckStep, PTL DEF Spec, RemovedOnlyWhenStored

-----------------------------------------------------------------------------
(* No row is stranded on a live connection. *)

\* The WebSocket thread is inside a callback only while the socket is up, the
\* socket is up only while logged in, and then send_fn_ is set once onConnected
\* has begun.
LiveInv ==
  /\ connected => session = "in"
  /\ wspc # "loop" => connected
  /\ connected /\ wspc # "ready" => send_fn_

\* At most one SELECT is posted, and then the WebSocket thread waits for it.
SelectInv ==
  \A i \in DOMAIN tasks : tasks[i].op = "select" =>
    /\ wspc = "wait"
    /\ \A k \in DOMAIN tasks : tasks[k].op = "select" => k = i

InsertedOnce(q) ==
  \A i, k \in DOMAIN q : q[i].op = "insert" /\ q[k].op = "insert" /\ q[k].row = q[i].row => k = i

\* Each message is given a local_id once, so its INSERT is posted once and its
\* row is not in the table before that INSERT runs.
OnceInv ==
  /\ \A r \in outbound_queue : idOf[r.msg] # 0
  /\ \A i \in DOMAIN tasks : tasks[i].op = "insert" =>
       /\ idOf[tasks[i].row.msg] # 0
       /\ tasks[i].row \notin outbound_queue
  /\ InsertedOnce(tasks)

QueueInv == LiveInv /\ SelectInv /\ OnceInv

\* While logged in and past SetSendFn, send_fn_ is set until logout has closed
\* the connection.
LEMMA LiveStep == TypeInv /\ LiveInv /\ SelectInv /\ [Next]_vars => LiveInv'
<1> SUFFICES ASSUME TypeInv, LiveInv, SelectInv, [Next]_vars PROVE LiveInv'
  OBVIOUS
<1> USE DEF LiveInv
<1>1. ASSUME NEW t \in Threads, NEW m \in Msgs, Enqueue(t, m) PROVE LiveInv'
  BY <1>1 DEF Enqueue, wsVars, linkVars
<1>2. ASSUME NEW t \in Threads, Register(t) \/ SendRow(t) \/ SendTransient(t) \/ Push(t) PROVE LiveInv'
  BY <1>2 DEF Register, SendRow, SendTransient, Push, queueVars, wsVars, linkVars
<1>3. CASE RunInsert \/ RunDelete
  BY <1>3 DEF RunInsert, RunDelete, queueVars, wsVars, linkVars
<1>4. CASE RunSelect
  <2>1. wspc = "wait"
    BY <1>4, TailFacts DEF RunSelect, SelectInv, TypeInv, TypeOK
  <2> QED
    BY <1>4, <2>1 DEF RunSelect, queueVars, linkVars
<1>5. CASE Established \/ SetSendFn \/ PostSelect \/ FlushDone
  BY <1>5 DEF Established, SetSendFn, PostSelect, FlushDone, queueVars, linkVars
<1>6. ASSUME NEW r \in rows, FlushRow(r) PROVE LiveInv'
  BY <1>6 DEF FlushRow, queueVars
<1>7. CASE Writeable \/ Ack \/ TakeCallback
  BY <1>7 DEF Writeable, Ack, TakeCallback, queueVars, wsVars, linkVars
<1>8. CASE Closed \/ LogoutDisconnect
  BY <1>8 DEF Closed, LogoutDisconnect, queueVars, wsVars
<1>9. CASE Login \/ OnDisconnected
  BY <1>9 DEF Login, OnDisconnected, queueVars, wsVars
<1>10. CASE ServerReceive
  BY <1>10 DEF ServerReceive, queueVars, wsVars
<1>11. CASE Restart
  BY <1>11 DEF Restart
<1>12. CASE UNCHANGED vars
  BY <1>12 DEF vars, queueVars, wsVars, linkVars
<1> QED
  BY <1>1, <1>2, <1>3, <1>4, <1>5, <1>6, <1>7, <1>8, <1>9, <1>10, <1>11, <1>12 DEF Next

\* The SELECT is posted once per connection, by the thread that waits for it.
LEMMA SelectStep == TypeInv /\ SelectInv /\ [Next]_vars => SelectInv'
<1> SUFFICES ASSUME TypeInv, SelectInv, [Next]_vars PROVE SelectInv'
  OBVIOUS
<1> USE DEF TypeInv, TypeOK
<1>1. ASSUME NEW t \in Threads, NEW m \in Msgs, Enqueue(t, m) PROVE SelectInv'
  <2> DEFINE r == [lid |-> counter, msg |-> m]
  <2>1. InsertTask(r) \in Tasks /\ InsertTask(r).op # "select"
    BY DEF InsertTask, Tasks, Rows
  <2>2. tasks' = Append(tasks, InsertTask(r)) /\ UNCHANGED wspc
    BY <1>1 DEF Enqueue, wsVars
  <2> QED
    BY <2>1, <2>2, AppendFacts DEF SelectInv
<1>2. CASE RunInsert \/ RunDelete
  <2>1. tasks # << >> /\ tasks' = Tail(tasks) /\ UNCHANGED wspc
    BY <1>2 DEF RunInsert, RunDelete, wsVars
  <2> QED
    BY <2>1, TailFacts DEF SelectInv
<1>3. CASE RunSelect
  <2>1. tasks # << >> /\ tasks' = Tail(tasks) /\ Head(tasks).op = "select"
    BY <1>3 DEF RunSelect
  <2>2. \A k \in DOMAIN tasks : tasks[k].op = "select" => k = 1
    BY <2>1, TailFacts DEF SelectInv
  <2>3. \A i \in DOMAIN tasks' : tasks'[i].op # "select"
    BY <2>1, <2>2, TailFacts
  <2> QED
    BY <2>3 DEF SelectInv
<1>4. CASE PostSelect
  <2>1. SelectTask \in Tasks
    BY DEF SelectTask, Tasks
  <2>2. tasks' = Append(tasks, SelectTask) /\ wspc = "query" /\ wspc' = "wait"
    BY <1>4 DEF PostSelect
  <2>3. \A i \in DOMAIN tasks : tasks[i].op # "select"
    BY <2>2 DEF SelectInv
  <2> QED
    BY <2>1, <2>2, <2>3, AppendFacts DEF SelectInv
<1>5. CASE Ack
  <2>1. /\ toClient # << >> /\ wspc = "loop"
        /\ tasks' = Append(tasks, DeleteTask(Head(toClient)))
    BY <1>5 DEF Ack
  <2>2. DeleteTask(Head(toClient)) \in Tasks /\ DeleteTask(Head(toClient)).op # "select"
    BY <2>1, TailFacts DEF DeleteTask, Tasks
  <2>3. \A i \in DOMAIN tasks : tasks[i].op # "select"
    BY <2>1 DEF SelectInv
  <2> QED
    BY <2>1, <2>2, <2>3, AppendFacts DEF SelectInv
<1>6. CASE Established \/ SetSendFn \/ FlushDone \/ TakeCallback
  <2>1. wspc # "wait" /\ UNCHANGED tasks
    BY <1>6 DEF Established, SetSendFn, FlushDone, TakeCallback, dbVars
  <2> QED
    BY <2>1 DEF SelectInv
<1>7. CASE Restart
  BY <1>7 DEF Restart, SelectInv
<1>8. CASE UNCHANGED <<tasks, wspc>>
  BY <1>8 DEF SelectInv
<1>9. ASSUME NEW t \in Threads, Register(t) \/ SendRow(t) \/ SendTransient(t) \/ Push(t)
      PROVE  UNCHANGED <<tasks, wspc>>
  BY <1>9 DEF Register, SendRow, SendTransient, Push, dbVars, wsVars
<1>10. ASSUME NEW r \in rows, FlushRow(r) PROVE UNCHANGED <<tasks, wspc>>
  BY <1>10 DEF FlushRow, dbVars
<1>11. ASSUME Writeable \/ Closed \/ Login \/ LogoutDisconnect \/ OnDisconnected \/ ServerReceive
       PROVE  UNCHANGED <<tasks, wspc>>
  BY <1>11 DEF Writeable, Closed, Login, LogoutDisconnect, OnDisconnected, ServerReceive, dbVars, wsVars
<1>12. ASSUME UNCHANGED vars PROVE UNCHANGED <<tasks, wspc>>
  BY <1>12 DEF vars, dbVars, wsVars
<1> QED
  BY <1>1, <1>2, <1>3, <1>4, <1>5, <1>6, <1>7, <1>8, <1>9, <1>10, <1>11, <1>12 DEF Next

\* Executing the first statement leaves no INSERT of a row twice behind it.
LEMMA OnceTail ==
  ASSUME TypeInv, InsertedOnce(tasks), tasks # << >>
  PROVE  InsertedOnce(Tail(tasks))
<1> DEFINE q == Tail(tasks)
<1> SUFFICES ASSUME NEW i \in DOMAIN q, NEW k \in DOMAIN q, q[i].op = "insert", q[k].op = "insert", q[k].row = q[i].row
             PROVE  k = i
  BY DEF InsertedOnce
<1>1. tasks \in Seq(Tasks)
  BY DEF TypeInv, TypeOK
<1>2. /\ i + 1 \in DOMAIN tasks /\ q[i] = tasks[i + 1]
      /\ k + 1 \in DOMAIN tasks /\ q[k] = tasks[k + 1]
      /\ i \in Nat /\ k \in Nat
  BY <1>1, TailFacts
<1>3. k + 1 = i + 1
  BY <1>2 DEF InsertedOnce
<1> QED
  BY <1>2, <1>3

\* generateLocalId runs once for a message, so only that sendTextMessage posts an
\* INSERT of its row, and no other step brings the row into the table first.
LEMMA OnceStep == TypeInv /\ OnceInv /\ [Next]_vars => OnceInv'
<1> SUFFICES ASSUME TypeInv, OnceInv, [Next]_vars PROVE OnceInv'
  OBVIOUS
<1> USE DEF TypeInv, TypeOK
<1>1. ASSUME NEW t \in Threads, NEW m \in Msgs, Enqueue(t, m) PROVE OnceInv'
  <2> DEFINE r == [lid |-> counter, msg |-> m]
  <2>1. /\ InsertTask(r) \in Tasks
        /\ InsertTask(r).op = "insert" /\ InsertTask(r).row = r /\ r.msg = m
    BY DEF InsertTask, Tasks, Rows
  <2>2. /\ tasks' = Append(tasks, InsertTask(r)) /\ UNCHANGED outbound_queue
        /\ idOf[m] = 0 /\ idOf' = [idOf EXCEPT ![m] = counter]
    BY <1>1 DEF Enqueue
  <2>3. idOf'[m] # 0 /\ \A n \in Msgs : idOf[n] # 0 => idOf'[n] # 0
    BY <2>2 DEF LocalIds
  <2>4. r \notin outbound_queue
    BY <2>1, <2>2 DEF OnceInv
  <2>5. \A i \in DOMAIN tasks : tasks[i].op = "insert" => tasks[i].row # r
    BY <2>1, <2>2 DEF OnceInv
  <2>6. \A q \in outbound_queue' : idOf'[q.msg] # 0
    BY <2>2, <2>3 DEF OnceInv, Rows
  <2>7. \A i \in DOMAIN tasks' : tasks'[i].op = "insert" =>
          idOf'[tasks'[i].row.msg] # 0 /\ tasks'[i].row \notin outbound_queue'
    <3> SUFFICES ASSUME NEW i \in DOMAIN tasks', tasks'[i].op = "insert"
                 PROVE  idOf'[tasks'[i].row.msg] # 0 /\ tasks'[i].row \notin outbound_queue'
      OBVIOUS
    <3>1. CASE i = Len(tasks) + 1
      <4>1. tasks'[i].row = r
        BY <3>1, <2>1, <2>2, AppendFacts
      <4> QED
        BY <4>1, <2>1, <2>2, <2>3, <2>4
    <3>2. CASE i # Len(tasks) + 1
      <4>1. i \in DOMAIN tasks /\ tasks'[i] = tasks[i]
        BY <3>2, <2>1, <2>2, AppendFacts
      <4>2. tasks[i] \in Tasks
        BY <4>1
      <4>3. tasks[i].row.msg \in Msgs
        BY <4>1, <4>2 DEF Tasks, Rows
      <4> QED
        BY <4>1, <4>3, <2>2, <2>3 DEF OnceInv
    <3> QED
      BY <3>1, <3>2
  <2>8. InsertedOnce(tasks')
    <3>1. ASSUME NEW i \in DOMAIN tasks'
          PROVE  (i \in DOMAIN tasks /\ tasks'[i] = tasks[i]) \/ (i = Len(tasks) + 1 /\ tasks'[i].row = r)
      BY <2>1, <2>2, AppendPlaces
    <3> QED
      BY <3>1, <2>5 DEF OnceInv, InsertedOnce
  <2> QED
    BY <2>6, <2>7, <2>8 DEF OnceInv
<1>2. CASE RunInsert
  <2>1. /\ tasks # << >> /\ tasks' = Tail(tasks) /\ Head(tasks).op = "insert"
        /\ outbound_queue' = InsertOrIgnore(outbound_queue, Head(tasks).row) /\ UNCHANGED idOf
    BY <1>2 DEF RunInsert, history
  <2>2. \A i \in DOMAIN tasks' : tasks'[i].op = "insert" => tasks'[i].row # Head(tasks).row
    <3> SUFFICES ASSUME NEW i \in DOMAIN tasks', tasks'[i].op = "insert" PROVE tasks'[i].row # Head(tasks).row
      OBVIOUS
    <3>1. /\ i \in Nat /\ i + 1 # 1 /\ i + 1 \in DOMAIN tasks /\ tasks'[i] = tasks[i + 1]
          /\ 1 \in DOMAIN tasks /\ Head(tasks) = tasks[1]
      BY <2>1, TailFacts
    <3> QED
      BY <2>1, <3>1 DEF OnceInv, InsertedOnce
  <2>3. \A q \in outbound_queue' : q \in outbound_queue \/ q = Head(tasks).row
    BY <2>1, InsertOrIgnoreFacts
  <2>4. \A q \in outbound_queue' : idOf'[q.msg] # 0
    BY <2>1, <2>3, TailFacts DEF OnceInv
  <2>5. \A i \in DOMAIN tasks' : tasks'[i].op = "insert" =>
          idOf'[tasks'[i].row.msg] # 0 /\ tasks'[i].row \notin outbound_queue'
    <3>1. \A i \in DOMAIN tasks' : i + 1 \in DOMAIN tasks /\ tasks'[i] = tasks[i + 1]
      BY <2>1, TailFacts
    <3> QED
      BY <2>1, <2>2, <2>3, <3>1 DEF OnceInv
  <2>6. InsertedOnce(tasks')
    BY <2>1, OnceTail DEF OnceInv
  <2> QED
    BY <2>4, <2>5, <2>6 DEF OnceInv
<1>3. CASE RunDelete \/ RunSelect
  <2>1. /\ tasks # << >> /\ tasks' = Tail(tasks)
        /\ outbound_queue' \subseteq outbound_queue /\ UNCHANGED idOf
    BY <1>3 DEF RunDelete, RunSelect, DeleteKey, history
  <2>2. \A i \in DOMAIN tasks' : tasks'[i].op = "insert" =>
          idOf'[tasks'[i].row.msg] # 0 /\ tasks'[i].row \notin outbound_queue'
    <3>1. \A i \in DOMAIN tasks' : i + 1 \in DOMAIN tasks /\ tasks'[i] = tasks[i + 1]
      BY <2>1, TailFacts
    <3> QED
      BY <2>1, <3>1 DEF OnceInv
  <2>3. InsertedOnce(tasks')
    BY <2>1, OnceTail DEF OnceInv
  <2> QED
    BY <2>1, <2>2, <2>3 DEF OnceInv
<1>4. ASSUME NEW e \in Tasks, e.op # "insert", tasks' = Append(tasks, e), UNCHANGED <<outbound_queue, idOf>>
      PROVE  OnceInv'
  <2>1. \A i \in DOMAIN tasks' : tasks'[i].op = "insert" => i \in DOMAIN tasks /\ tasks'[i] = tasks[i]
    BY <1>4, AppendFacts
  <2>2. \A i \in DOMAIN tasks' : tasks'[i].op = "insert" =>
          idOf'[tasks'[i].row.msg] # 0 /\ tasks'[i].row \notin outbound_queue'
    BY <1>4, <2>1 DEF OnceInv
  <2>3. InsertedOnce(tasks')
    BY <1>4, <2>1 DEF OnceInv, InsertedOnce
  <2> QED
    BY <1>4, <2>2, <2>3 DEF OnceInv
<1>5. CASE PostSelect
  BY <1>4, <1>5 DEF PostSelect, SelectTask, Tasks, history
<1>6. CASE Ack
  <2>1. Head(toClient) \in LocalIds
    BY <1>6, TailFacts DEF Ack
  <2> QED
    BY <1>4, <1>6, <2>1 DEF Ack, DeleteTask, Tasks, history
<1>7. CASE Restart
  BY <1>7 DEF Restart, OnceInv, InsertedOnce, history
<1>8. CASE UNCHANGED <<tasks, outbound_queue, idOf>>
  BY <1>8 DEF OnceInv, InsertedOnce
<1>9. ASSUME NEW t \in Threads, Register(t) \/ SendRow(t) \/ SendTransient(t) \/ Push(t)
      PROVE  UNCHANGED <<tasks, outbound_queue, idOf>>
  BY <1>9 DEF Register, SendRow, SendTransient, Push, dbVars, history
<1>10. ASSUME NEW r \in rows, FlushRow(r) PROVE UNCHANGED <<tasks, outbound_queue, idOf>>
  BY <1>10 DEF FlushRow, dbVars, history
<1>11. ASSUME Established \/ SetSendFn \/ FlushDone \/ Writeable \/ TakeCallback
       PROVE  UNCHANGED <<tasks, outbound_queue, idOf>>
  BY <1>11 DEF Established, SetSendFn, FlushDone, Writeable, TakeCallback, dbVars, history
<1>12. ASSUME Closed \/ Login \/ LogoutDisconnect \/ OnDisconnected \/ ServerReceive
       PROVE  UNCHANGED <<tasks, outbound_queue, idOf>>
  BY <1>12 DEF Closed, Login, LogoutDisconnect, OnDisconnected, ServerReceive, dbVars, history
<1>13. ASSUME UNCHANGED vars PROVE UNCHANGED <<tasks, outbound_queue, idOf>>
  BY <1>13 DEF vars, dbVars, history
<1> QED
  BY <1>1, <1>2, <1>3, <1>5, <1>6, <1>7, <1>8, <1>9, <1>10, <1>11, <1>12, <1>13 DEF Next

\* What a statement executed by the worker leaves of the promises: everything
\* behind it moves forward by one place, in the same order.
LEMMA ShiftCover ==
  ASSUME TypeInv, tasks # << >>, tasks' = Tail(tasks), NEW r
  PROVE  /\ \A i \in DOMAIN tasks : i # 1 => (i \in Inserts(r) <=> i - 1 \in Inserts(r)')
         /\ \A i \in Inserts(r)' : i + 1 \in Inserts(r)
         /\ DeletePosted(r) /\ ~(Head(tasks).op = "delete" /\ Head(tasks).lid = r.lid) => DeletePosted(r)'
<1> USE DEF TypeInv, TypeOK
<1>1. \A i \in DOMAIN tasks : i # 1 => (i \in Inserts(r) <=> i - 1 \in Inserts(r)')
  BY TailFacts DEF Inserts
<1>2. \A i \in Inserts(r)' : i + 1 \in Inserts(r)
  BY TailFacts DEF Inserts
<1>3. ASSUME DeletePosted(r), ~(Head(tasks).op = "delete" /\ Head(tasks).lid = r.lid)
      PROVE  DeletePosted(r)'
  <2>1. PICK j \in DOMAIN tasks : /\ tasks[j].op = "delete" /\ tasks[j].lid = r.lid
                                  /\ \A i \in Inserts(r) : i < j
    BY <1>3 DEF DeletePosted
  <2>2. j # 1 /\ j - 1 \in DOMAIN tasks' /\ tasks'[j - 1] = tasks[j]
    BY <1>3, <2>1, TailFacts
  <2>3. j \in Nat /\ \A i \in Inserts(r)' : i \in Nat
    BY TailFacts DEF Inserts
  <2>4. \A i \in Inserts(r)' : i < j - 1
    BY <1>2, <2>1, <2>3
  <2> QED
    BY <2>1, <2>2, <2>4 DEF DeletePosted
<1> QED
  BY <1>1, <1>2, <1>3

\* A statement posted at the end that is no INSERT of r leaves r's as they are.
LEMMA PostCover ==
  ASSUME TypeInv, NEW e \in Tasks, tasks' = Append(tasks, e), NEW r,
         ~(e.op = "insert" /\ e.row = r)
  PROVE  /\ Inserts(r)' = Inserts(r)
         /\ DeletePosted(r) => DeletePosted(r)'
<1> USE DEF TypeInv, TypeOK
<1>1. Inserts(r)' = Inserts(r)
  BY AppendFacts DEF Inserts
<1> QED
  BY <1>1, AppendFacts DEF DeletePosted

\* Every step keeps each owed row covered, or hands it over: from the sending
\* thread to the wire, from the flush to the wire, from the wire to the ack's
\* DELETE.
LEMMA StrandStep == TypeInv /\ QueueInv /\ NoStrandedRow /\ [Next]_vars => NoStrandedRow'
<1> SUFFICES ASSUME TypeInv, QueueInv, NoStrandedRow, [Next]_vars,
                    connected', wspc' # "ready", NEW r \in Pending'
             PROVE  Covered(r)'
  BY DEF NoStrandedRow
<1> USE DEF TypeInv, TypeOK, QueueInv
\* A step that neither adds r nor begins a connection finds r covered.
<1>0. ASSUME connected, wspc # "ready", r \in Pending PROVE Covered(r) /\ r \in Rows
  <2>1. Covered(r)
    BY <1>0 DEF NoStrandedRow
  <2>2. r \in Rows
    BY <1>0 DEF Pending, Tasks
  <2> QED
    BY <2>1, <2>2
<1>1. ASSUME NEW t \in Threads, NEW m \in Msgs, Enqueue(t, m) PROVE Covered(r)'
  <2> DEFINE q == [lid |-> counter, msg |-> m]
  <2>1. /\ InsertTask(q) \in Tasks
        /\ InsertTask(q).op = "insert" /\ InsertTask(q).row = q
    BY DEF InsertTask, Tasks, Rows
  <2>2. /\ tasks' = Append(tasks, InsertTask(q)) /\ pc[t] = "idle"
        /\ cur' = [cur EXCEPT ![t] = q] /\ pc' = [pc EXCEPT ![t] = "register"]
        /\ UNCHANGED <<outbound_queue, connected, wspc, rows, send_queue, toServer, toClient>>
    BY <1>1 DEF Enqueue, wsVars, linkVars
  <2>3. CASE r = q
    BY <2>2, <2>3 DEF Covered, AppWillSend
  <2>4. CASE r # q
    <3>1. r \in Pending
      BY <2>1, <2>2, <2>4, AppendFacts DEF Pending
    <3>2. Covered(r)
      BY <1>0, <2>2, <3>1
    <3>3. Inserts(r)' = Inserts(r) /\ (DeletePosted(r) => DeletePosted(r)')
      BY <2>1, <2>2, <2>4, PostCover
    <3>4. AppWillSend(r) => AppWillSend(r)'
      BY <2>2 DEF AppWillSend
    <3>5. FlushWillSend(r) => FlushWillSend(r)'
      BY <2>1, <2>2, <3>3, AppendFacts DEF FlushWillSend
    <3>6. OnTheWire(r) => OnTheWire(r)'
      BY <2>2 DEF OnTheWire
    <3> QED
      BY <3>2, <3>3, <3>4, <3>5, <3>6 DEF Covered
  <2> QED
    BY <2>3, <2>4
\* Steps that touch neither the tasks, the table, the flush nor the wire.
<1>2. ASSUME UNCHANGED <<dbVars, wsVars, send_queue, toServer, toClient, connected>>,
             \A t \in Threads : cur[t] = r /\ pc[t] \in {"register", "sendRow", "push"} =>
               cur'[t] = r /\ pc'[t] \in {"register", "sendRow", "push"}
      PROVE  Covered(r)'
  <2>1. Covered(r)
    BY <1>0, <1>2 DEF dbVars, wsVars, Pending
  <2>2. AppWillSend(r) => AppWillSend(r)'
    BY <1>2 DEF AppWillSend
  <2>3. (FlushWillSend(r) => FlushWillSend(r)') /\ (OnTheWire(r) => OnTheWire(r)')
    BY <1>2 DEF dbVars, wsVars, FlushWillSend, OnTheWire, Inserts
  <2>4. DeletePosted(r) => DeletePosted(r)'
    BY <1>2 DEF dbVars, DeletePosted, Inserts
  <2> QED
    BY <2>1, <2>2, <2>3, <2>4 DEF Covered
<1>3. ASSUME NEW t \in Threads, Register(t) \/ SendRow(t) PROVE Covered(r)'
  <2>1. UNCHANGED <<dbVars, wsVars, send_queue, toServer, toClient, connected, cur, send_fn_>>
    BY <1>3 DEF Register, SendRow, queueVars, linkVars
  <2>2. send_fn_
    BY <2>1 DEF LiveInv, wsVars
  <2>3. pc' \in {[pc EXCEPT ![t] = "sendRow"], [pc EXCEPT ![t] = "push"]}
    BY <1>3, <2>2 DEF Register, SendRow
  <2> QED
    BY <1>2, <2>1, <2>3
<1>4. ASSUME NEW t \in Threads, SendTransient(t) PROVE Covered(r)'
  BY <1>2, <1>4 DEF SendTransient, linkVars
<1>5. ASSUME NEW t \in Threads, Push(t) PROVE Covered(r)'
  <2>1. /\ send_queue' = Append(send_queue, cur[t]) /\ pc' = [pc EXCEPT ![t] = "idle"]
        /\ UNCHANGED <<dbVars, wsVars, toServer, toClient, connected, cur>>
    BY <1>5 DEF Push
  <2>2. Covered(r)
    BY <1>0, <2>1 DEF dbVars, wsVars, Pending
  <2>3. AppWillSend(r) => AppWillSend(r)' \/ cur[t] = r
    BY <2>1 DEF AppWillSend
  <2>4. cur[t] = r => OnTheWire(r)'
    BY <2>1, InAppend DEF OnTheWire
  <2>5. (FlushWillSend(r) => FlushWillSend(r)')
    BY <2>1 DEF dbVars, wsVars, FlushWillSend, Inserts
  <2>6. OnTheWire(r) => OnTheWire(r)'
    BY <2>1, InAppend DEF OnTheWire
  <2>7. DeletePosted(r) => DeletePosted(r)'
    BY <2>1 DEF dbVars, DeletePosted, Inserts
  <2> QED
    BY <2>2, <2>3, <2>4, <2>5, <2>6, <2>7 DEF Covered
<1>6. CASE RunInsert
  <2>1. /\ tasks # << >> /\ tasks' = Tail(tasks) /\ Head(tasks).op = "insert"
        /\ outbound_queue' = InsertOrIgnore(outbound_queue, Head(tasks).row)
        /\ UNCHANGED <<appVars, wsVars, send_queue, toServer, toClient, connected>>
    BY <1>6 DEF RunInsert, linkVars
  <2>2. r \in Pending
    <3>1. r \in outbound_queue' => r \in Pending
      BY <2>1, InsertOrIgnoreFacts, TailFacts DEF Pending
    <3>2. r \notin outbound_queue' => r \in Pending
      BY <2>1, TailFacts DEF Pending
    <3> QED
      BY <3>1, <3>2
  <2>3. Covered(r)
    BY <1>0, <2>1, <2>2 DEF wsVars
  <2>4. FlushWillSend(r) => FlushWillSend(r)'
    <3> SUFFICES ASSUME wspc = "wait", NEW j \in DOMAIN tasks, tasks[j].op = "select",
                        r \in outbound_queue \/ \E i \in Inserts(r) : i < j
                 PROVE  FlushWillSend(r)'
      BY <2>1 DEF FlushWillSend, wsVars
    <3>1. j # 1 /\ j - 1 \in DOMAIN tasks' /\ tasks'[j - 1] = tasks[j]
      BY <2>1, TailFacts
    <3>2. CASE r \in outbound_queue
      <4>1. r \in outbound_queue'
        BY <2>1, <3>2, InsertOrIgnoreFacts
      <4> QED
        BY <2>1, <3>1, <4>1 DEF FlushWillSend, wsVars
    <3>3. CASE \E i \in Inserts(r) : i < j /\ i # 1
      <4>1. PICK i \in Inserts(r) : i < j /\ i # 1
        BY <3>3
      <4>2. i - 1 \in Inserts(r)' /\ i - 1 < j - 1
        BY <2>1, <4>1, ShiftCover, TailFacts DEF Inserts
      <4> QED
        BY <2>1, <3>1, <4>2 DEF FlushWillSend, wsVars
    <3>4. CASE 1 \in Inserts(r)
      \* r is the row just inserted: it is posted once, so it is in the table
      <4>1. \A k \in Inserts(r) : k = 1
        BY <3>4 DEF OnceInv, InsertedOnce, Inserts
      <4>2. Inserts(r)' = {}
        BY <2>1, <4>1, ShiftCover, TailFacts DEF Inserts
      <4>3. r \in outbound_queue'
        BY <4>2 DEF Pending, Inserts
      <4> QED
        BY <2>1, <3>1, <4>3 DEF FlushWillSend, wsVars
    <3> QED
      BY <3>2, <3>3, <3>4
  <2>5. DeletePosted(r) => DeletePosted(r)'
    BY <2>1, ShiftCover
  <2>6. (AppWillSend(r) => AppWillSend(r)') /\ (OnTheWire(r) => OnTheWire(r)')
    BY <2>1 DEF AppWillSend, OnTheWire, appVars
  <2> QED
    BY <2>3, <2>4, <2>5, <2>6 DEF Covered
<1>7. CASE RunDelete
  <2>1. /\ tasks # << >> /\ tasks' = Tail(tasks) /\ Head(tasks).op = "delete"
        /\ outbound_queue' = DeleteKey(outbound_queue, Head(tasks).lid)
        /\ UNCHANGED <<appVars, wsVars, send_queue, toServer, toClient, connected>>
    BY <1>7 DEF RunDelete, linkVars
  <2>2. r \in Pending
    BY <2>1, TailFacts DEF Pending, DeleteKey
  <2>3. Covered(r)
    BY <1>0, <2>1, <2>2 DEF wsVars
  <2>4. FlushWillSend(r) => FlushWillSend(r)'
    <3> SUFFICES ASSUME wspc = "wait", NEW j \in DOMAIN tasks, tasks[j].op = "select",
                        r \in outbound_queue \/ \E i \in Inserts(r) : i < j
                 PROVE  FlushWillSend(r)'
      BY <2>1 DEF FlushWillSend, wsVars
    <3>1. j # 1 /\ j - 1 \in DOMAIN tasks' /\ tasks'[j - 1] = tasks[j]
      BY <2>1, TailFacts
    <3>2. CASE r \in outbound_queue
      <4>1. Inserts(r) = {}
        BY <3>2 DEF OnceInv, Inserts
      <4>2. r \in outbound_queue'
        BY <2>1, <4>1, TailFacts DEF Pending, Inserts
      <4> QED
        BY <2>1, <3>1, <4>2 DEF FlushWillSend, wsVars
    <3>3. CASE \E i \in Inserts(r) : i < j
      <4>1. PICK i \in Inserts(r) : i < j
        BY <3>3
      <4>2. i # 1
        BY <2>1, <4>1, TailFacts DEF Inserts
      <4>3. i - 1 \in Inserts(r)' /\ i - 1 < j - 1
        BY <2>1, <4>1, <4>2, ShiftCover, TailFacts DEF Inserts
      <4> QED
        BY <2>1, <3>1, <4>3 DEF FlushWillSend, wsVars
    <3> QED
      BY <3>2, <3>3
  <2>5. DeletePosted(r) => DeletePosted(r)'
    <3>1. CASE r.lid # Head(tasks).lid
      BY <2>1, <3>1, ShiftCover
    <3>2. CASE r.lid = Head(tasks).lid
      \* the row is gone, so r is pending because of an INSERT behind this DELETE
      <4>1. r \notin outbound_queue'
        BY <2>1, <3>2 DEF DeleteKey
      <4>2. PICK i \in Inserts(r)' : TRUE
        BY <4>1 DEF Pending, Inserts
      <4>3. i + 1 \in Inserts(r)
        BY <2>1, ShiftCover
      <4>4. ASSUME DeletePosted(r) PROVE DeletePosted(r)'
        <5>1. PICK j \in DOMAIN tasks : /\ tasks[j].op = "delete" /\ tasks[j].lid = r.lid
                                        /\ \A k \in Inserts(r) : k < j
          BY <4>4 DEF DeletePosted
        <5>2. j # 1
          BY <4>2, <4>3, <5>1, TailFacts DEF Inserts
        <5>3. j - 1 \in DOMAIN tasks' /\ tasks'[j - 1] = tasks[j]
          BY <2>1, <5>2, TailFacts
        <5>4. \A k \in Inserts(r)' : k < j - 1
          BY <2>1, <5>1, ShiftCover, TailFacts DEF Inserts
        <5> QED
          BY <5>1, <5>3, <5>4 DEF DeletePosted
      <4> QED
        BY <4>4
    <3> QED
      BY <3>1, <3>2
  <2>6. (AppWillSend(r) => AppWillSend(r)') /\ (OnTheWire(r) => OnTheWire(r)')
    BY <2>1 DEF AppWillSend, OnTheWire, appVars
  <2> QED
    BY <2>3, <2>4, <2>5, <2>6 DEF Covered
<1>8. CASE RunSelect
  <2>1. /\ tasks # << >> /\ tasks' = Tail(tasks) /\ Head(tasks).op = "select"
        /\ rows' = outbound_queue /\ wspc' = "flush"
        /\ UNCHANGED <<outbound_queue, appVars, send_queue, toServer, toClient, connected>>
    BY <1>8 DEF RunSelect, linkVars
  <2>2. r \in Pending
    BY <2>1, TailFacts DEF Pending
  <2>3. wspc = "wait" /\ \A j \in DOMAIN tasks : tasks[j].op = "select" => j = 1
    BY <2>1, TailFacts DEF SelectInv
  <2>4. Covered(r)
    BY <1>0, <2>1, <2>2, <2>3
  <2>5. FlushWillSend(r) => r \in rows'
    BY <2>1, <2>3, TailFacts DEF FlushWillSend, Inserts
  <2>6. DeletePosted(r) => DeletePosted(r)'
    BY <2>1, ShiftCover
  <2>7. (AppWillSend(r) => AppWillSend(r)') /\ (OnTheWire(r) => OnTheWire(r)')
    BY <2>1 DEF AppWillSend, OnTheWire, appVars
  <2> QED
    BY <2>1, <2>4, <2>5, <2>6, <2>7 DEF Covered, FlushWillSend
<1>9. CASE Established
  BY <1>9 DEF Established
<1>10. CASE SetSendFn
  BY <1>10 DEF SetSendFn, Covered, FlushWillSend
<1>11. CASE PostSelect
  <2>1. SelectTask \in Tasks /\ SelectTask.op = "select"
    BY DEF SelectTask, Tasks
  <2>2. /\ tasks' = Append(tasks, SelectTask) /\ wspc' = "wait" /\ UNCHANGED outbound_queue
    BY <1>11 DEF PostSelect
  <2>3. /\ Len(tasks) + 1 \in DOMAIN tasks' /\ tasks'[Len(tasks) + 1].op = "select"
        /\ \A i \in Inserts(r)' : i < Len(tasks) + 1
    BY <2>1, <2>2, AppendFacts DEF Inserts
  <2>4. r \in outbound_queue' \/ Inserts(r)' # {}
    BY DEF Pending, Inserts
  <2> QED
    BY <2>2, <2>3, <2>4 DEF Covered, FlushWillSend
<1>12. ASSUME NEW q \in rows, FlushRow(q) PROVE Covered(r)'
  <2>1. /\ wspc = "flush" /\ rows' = rows \ {q} /\ q \in Frames
        /\ send_queue' = IF send_fn_ THEN Append(send_queue, q) ELSE send_queue
        /\ UNCHANGED <<dbVars, appVars, wspc, toServer, toClient, connected>>
    BY <1>12 DEF FlushRow, Frames
  <2>2. send_queue' = Append(send_queue, q)
    BY <2>1 DEF LiveInv
  <2>3. Covered(r)
    BY <1>0, <2>1 DEF dbVars, Pending
  <2>4. FlushWillSend(r) => FlushWillSend(r)' \/ r = q
    BY <2>1 DEF FlushWillSend
  <2>5. (r = q => OnTheWire(r)') /\ (OnTheWire(r) => OnTheWire(r)')
    BY <2>1, <2>2, InAppend DEF OnTheWire
  <2>6. (AppWillSend(r) => AppWillSend(r)') /\ (DeletePosted(r) => DeletePosted(r)')
    BY <2>1 DEF AppWillSend, DeletePosted, Inserts, appVars, dbVars
  <2> QED
    BY <2>3, <2>4, <2>5, <2>6 DEF Covered
<1>13. CASE FlushDone \/ TakeCallback
  <2>1. /\ UNCHANGED <<dbVars, appVars, send_queue, toServer, toClient, connected>>
        /\ wspc \in {"flush", "ack"} /\ (wspc = "flush" => rows = {})
    BY <1>13 DEF FlushDone, TakeCallback, linkVars
  <2>2. Covered(r) /\ ~FlushWillSend(r)
    BY <1>0, <2>1 DEF dbVars, Pending, FlushWillSend
  <2>3. (AppWillSend(r) => AppWillSend(r)') /\ (OnTheWire(r) => OnTheWire(r)')
    BY <2>1 DEF AppWillSend, OnTheWire, appVars
  <2>4. DeletePosted(r) => DeletePosted(r)'
    BY <2>1 DEF DeletePosted, Inserts, dbVars
  <2> QED
    BY <2>2, <2>3, <2>4 DEF Covered
<1>14. CASE Writeable
  <2>1. /\ send_queue # << >> /\ send_queue' = Tail(send_queue)
        /\ toServer' = Append(toServer, Head(send_queue))
        /\ UNCHANGED <<dbVars, appVars, wsVars, toClient, connected>>
    BY <1>14 DEF Writeable
  <2>2. Covered(r)
    BY <1>0, <2>1 DEF dbVars, wsVars, Pending
  <2>3. Head(send_queue) \in Frames
    BY <2>1, TailFacts
  <2>4. OnTheWire(r) => OnTheWire(r)'
    <3>1. In(r, send_queue) => In(r, send_queue') \/ r = Head(send_queue)
      BY <2>1, InTail
    <3>2. In(r, toServer) \/ r = Head(send_queue) => In(r, toServer')
      BY <2>1, <2>3, InAppend
    <3> QED
      BY <2>1, <3>1, <3>2 DEF OnTheWire
  <2>5. (AppWillSend(r) => AppWillSend(r)') /\ (FlushWillSend(r) => FlushWillSend(r)')
    BY <2>1 DEF AppWillSend, FlushWillSend, Inserts, appVars, wsVars, dbVars
  <2>6. DeletePosted(r) => DeletePosted(r)'
    BY <2>1 DEF DeletePosted, Inserts, dbVars
  <2> QED
    BY <2>2, <2>4, <2>5, <2>6 DEF Covered
<1>15. CASE Ack
  <2> DEFINE e == DeleteTask(Head(toClient))
  <2>1. /\ toClient # << >> /\ toClient' = Tail(toClient) /\ wspc = "loop"
        /\ tasks' = Append(tasks, e)
        /\ UNCHANGED <<outbound_queue, appVars, send_queue, toServer, connected>>
    BY <1>15 DEF Ack
  <2>2. e \in Tasks /\ e.op = "delete" /\ e.lid = Head(toClient)
    BY <2>1, TailFacts DEF DeleteTask, Tasks
  <2>3. r \in Pending
    BY <2>1, <2>2, AppendFacts DEF Pending
  <2>4. Covered(r) /\ ~FlushWillSend(r)
    BY <1>0, <2>1, <2>3 DEF FlushWillSend
  <2>5. Inserts(r)' = Inserts(r) /\ (DeletePosted(r) => DeletePosted(r)')
    BY <2>1, <2>2, PostCover
  <2>6. ASSUME Head(toClient) = r.lid PROVE DeletePosted(r)'
    <3>1. Len(tasks) + 1 \in DOMAIN tasks' /\ tasks'[Len(tasks) + 1] = e
      BY <2>1, <2>2, AppendFacts
    <3>2. \A i \in Inserts(r)' : i < Len(tasks) + 1
      BY <2>5, AppendFacts DEF Inserts
    <3> QED
      BY <2>2, <2>6, <3>1, <3>2 DEF DeletePosted
  <2>7. OnTheWire(r) => OnTheWire(r)' \/ Head(toClient) = r.lid
    <3>1. In(r.lid, toClient) => In(r.lid, toClient') \/ Head(toClient) = r.lid
      BY <2>1, InTail
    <3> QED
      BY <2>1, <3>1 DEF OnTheWire
  <2>8. AppWillSend(r) => AppWillSend(r)'
    BY <2>1 DEF AppWillSend, appVars
  <2> QED
    BY <2>4, <2>5, <2>6, <2>7, <2>8 DEF Covered
<1>16. CASE Closed \/ LogoutDisconnect \/ Restart
  BY <1>16 DEF Closed, LogoutDisconnect, Restart
<1>17. CASE Login \/ OnDisconnected
  BY <1>17 DEF Login, OnDisconnected, LiveInv
<1>18. CASE ServerReceive
  <2>1. /\ toServer # << >> /\ toServer' = Tail(toServer)
        /\ UNCHANGED <<dbVars, appVars, wsVars, send_queue, connected>>
    BY <1>18 DEF ServerReceive
  <2>2. Covered(r) /\ r \in Rows
    BY <1>0, <2>1 DEF dbVars, wsVars, Pending
  <2>3. CASE Head(toServer) = Transient
    <3>1. UNCHANGED toClient
      BY <1>18, <2>3 DEF ServerReceive
    <3>2. Head(toServer) # r
      BY <2>2, <2>3, TransientIsNoRow
    <3>3. In(r, toServer) => In(r, toServer')
      BY <2>1, <3>2, InTail
    <3>4. OnTheWire(r) => OnTheWire(r)'
      BY <2>1, <3>1, <3>3 DEF OnTheWire
    <3> QED
      BY <2>1, <2>2, <3>4 DEF Covered, AppWillSend, FlushWillSend, DeletePosted, Inserts,
                              appVars, wsVars, dbVars
  <2>4. CASE Head(toServer) # Transient
    <3>1. toClient' = Append(toClient, Head(toServer).lid)
      BY <1>18, <2>4 DEF ServerReceive
    <3>2. Head(toServer).lid \in LocalIds
      BY <2>1, <2>4, TailFacts DEF Frames, Rows
    <3>3. In(r, toServer) => In(r, toServer') \/ r = Head(toServer)
      BY <2>1, InTail
    <3>4. In(r.lid, toClient) \/ r = Head(toServer) => In(r.lid, toClient')
      BY <3>1, <3>2, InAppend
    <3>5. OnTheWire(r) => OnTheWire(r)'
      BY <2>1, <3>3, <3>4 DEF OnTheWire
    <3> QED
      BY <2>1, <2>2, <3>5 DEF Covered, AppWillSend, FlushWillSend, DeletePosted, Inserts,
                              appVars, wsVars, dbVars
  <2> QED
    BY <2>3, <2>4
<1>19. CASE UNCHANGED vars
  BY <1>2, <1>19 DEF vars, appVars, linkVars
<1> QED
  BY <1>1, <1>3, <1>4, <1>5, <1>6, <1>7, <1>8, <1>9, <1>10, <1>11, <1>12, <1>13, <1>14, <1>15,
     <1>16, <1>17, <1>18, <1>19 DEF Next

\* On a live connection every message the queue still owes is on its way, for
\* any number of threads, messages, drops, logouts and restarts.
THEOREM NothingStranded == Spec => []NoStrandedRow
<1>1. Init => QueueInv /\ NoStrandedRow
  BY DEF Init, QueueInv, LiveInv, SelectInv, OnceInv, InsertedOnce, NoStrandedRow
<1>2. TypeInv /\ QueueInv /\ [Next]_vars => QueueInv'
  BY LiveStep, SelectStep, OnceStep DEF QueueInv
<1> QED
  BY <1>1, <1>2, TypeInit, TypeStep, StrandStep, PTL DEF Spec

=============================================================================
