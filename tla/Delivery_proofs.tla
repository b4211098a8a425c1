--------------------------- MODULE Delivery_proofs ---------------------------
(***************************************************************************)
(* OutboundQueue implements ReliableDelivery, for any threads, messages,   *)
(* drops and logouts, until the process is restarted (a restart repeats    *)
(* local_ids: run outbound_restart).                                       *)
(***************************************************************************)
EXTENDS OutboundQueue_proofs

-----------------------------------------------------------------------------
(* The rows there are. *)

ElementsOf(s) == {s[i] : i \in DOMAIN s}

RowsToInsert(q) == {q[i].row : i \in {j \in DOMAIN q : q[j].op = "insert"}}

\* Every row, in the table or on its way to it, in a thread, in callbacks_, in a
\* frame, or on the server; a thread and a frame may hold Transient instead.
Known ==
  UNION {outbound_queue, callbacks_, rows, store, {cur[t] : t \in Threads},
         ElementsOf(send_queue), ElementsOf(toServer), RowsToInsert(tasks)}

\* What is in a queue after an element is added, and after the first is taken.
LEMMA ElementsFacts ==
  ASSUME NEW S, NEW s \in Seq(S)
  PROVE  /\ \A e \in S : ElementsOf(Append(s, e)) \subseteq ElementsOf(s) \cup {e}
         /\ s # << >> => ElementsOf(Tail(s)) \subseteq ElementsOf(s) /\ Head(s) \in ElementsOf(s)
<1>1. ASSUME NEW e \in S
      PROVE  ElementsOf(Append(s, e)) \subseteq ElementsOf(s) \cup {e}
  BY AppendPlaces DEF ElementsOf
<1>2. ASSUME s # << >>
      PROVE  ElementsOf(Tail(s)) \subseteq ElementsOf(s) /\ Head(s) \in ElementsOf(s)
  BY <1>2, TailFacts DEF ElementsOf
<1> QED
  BY <1>1, <1>2

\* The same of the rows that are to be inserted.
LEMMA RowsToInsertFacts ==
  ASSUME NEW q \in Seq(Tasks)
  PROVE  /\ \A e \in Tasks : e.op # "insert" => RowsToInsert(Append(q, e)) = RowsToInsert(q)
         /\ \A r \in Rows : RowsToInsert(Append(q, InsertTask(r))) = RowsToInsert(q) \cup {r}
         /\ q # << >> /\ Head(q).op = "insert" =>
              Head(q).row \in Rows /\ RowsToInsert(q) = RowsToInsert(Tail(q)) \cup {Head(q).row}
         /\ q # << >> /\ Head(q).op # "insert" => RowsToInsert(q) = RowsToInsert(Tail(q))
<1>1. ASSUME NEW e \in Tasks
      PROVE  RowsToInsert(Append(q, e)) =
               RowsToInsert(q) \cup (IF e.op = "insert" THEN {e.row} ELSE {})
  <2>1. RowsToInsert(Append(q, e)) \subseteq RowsToInsert(q) \cup (IF e.op = "insert" THEN {e.row} ELSE {})
    BY AppendPlaces DEF RowsToInsert
  <2>2. Len(q) + 1 \in DOMAIN Append(q, e)
    BY AppendFacts
  <2>3. RowsToInsert(q) \subseteq RowsToInsert(Append(q, e))
    BY AppendFacts DEF RowsToInsert
  <2>4. e.op = "insert" => e.row \in RowsToInsert(Append(q, e))
    BY <2>2, AppendFacts DEF RowsToInsert
  <2> QED
    BY <2>1, <2>3, <2>4
<1>2. \A r \in Rows : InsertTask(r) \in Tasks /\ InsertTask(r).op = "insert" /\ InsertTask(r).row = r
  BY DEF InsertTask, Tasks
<1>3. ASSUME q # << >>
      PROVE  RowsToInsert(q) = RowsToInsert(Tail(q)) \cup (IF Head(q).op = "insert" THEN {Head(q).row} ELSE {})
  <2>1. RowsToInsert(Tail(q)) \subseteq RowsToInsert(q)
    BY <1>3, TailFacts DEF RowsToInsert
  <2>2. Head(q).op = "insert" => Head(q).row \in RowsToInsert(q)
    BY <1>3, TailFacts DEF RowsToInsert
  <2>3. ASSUME NEW i \in DOMAIN q, q[i].op = "insert"
        PROVE  q[i].row \in RowsToInsert(Tail(q)) \cup (IF Head(q).op = "insert" THEN {Head(q).row} ELSE {})
    <3>1. CASE i = 1
      BY <1>3, <2>3, <3>1, TailFacts
    <3>2. CASE i # 1
      <4>1. i - 1 \in DOMAIN Tail(q) /\ Tail(q)[i - 1] = q[i]
        BY <1>3, <3>2, TailFacts
      <4> QED
        BY <2>3, <4>1 DEF RowsToInsert
    <3> QED
      BY <3>1, <3>2
  <2> QED
    BY <2>1, <2>2, <2>3 DEF RowsToInsert
<1>4. ASSUME q # << >>, Head(q).op = "insert"
      PROVE  Head(q).row \in Rows
  BY <1>4, TailFacts DEF Tasks
<1> QED
  BY <1>1, <1>2, <1>3, <1>4

\* No step but sendTextMessage's makes a row, as long as the process lives.
LEMMA NoNewRows ==
  ASSUME TypeInv, [Next]_vars, restarts' = restarts,
         \A t \in Threads, m \in Msgs : ~Enqueue(t, m)
  PROVE  Known' \subseteq Known \cup {Transient}
<1> USE DEF TypeInv, TypeOK
<1>1. ASSUME NEW t \in Threads, Register(t)
      PROVE  Known' \subseteq Known
  <2>1. callbacks_' \subseteq callbacks_ \cup {cur[t]}
    BY <1>1, InsertOrIgnoreFacts DEF Register
  <2> QED
    BY <1>1, <2>1 DEF Register, Known, dbVars, wsVars, linkVars
<1>2. ASSUME NEW t \in Threads, SendRow(t)
      PROVE  Known' \subseteq Known
  BY <1>2 DEF SendRow, Known, dbVars, queueVars, wsVars, linkVars
<1>3. ASSUME NEW t \in Threads, SendTransient(t)
      PROVE  Known' \subseteq Known \cup {Transient}
  <2>1. {cur'[u] : u \in Threads} \subseteq {cur[u] : u \in Threads} \cup {Transient}
    BY <1>3 DEF SendTransient
  <2> QED
    BY <1>3, <2>1 DEF SendTransient, Known, dbVars, queueVars, wsVars, linkVars
<1>4. ASSUME NEW t \in Threads, Push(t)
      PROVE  Known' \subseteq Known
  <2>1. ElementsOf(send_queue') \subseteq ElementsOf(send_queue) \cup {cur[t]}
    BY <1>4, ElementsFacts DEF Push
  <2> QED
    BY <1>4, <2>1 DEF Push, Known, dbVars, queueVars, wsVars
<1>5. CASE RunInsert
  <2>1. outbound_queue' \subseteq outbound_queue \cup {Head(tasks).row}
    BY <1>5, InsertOrIgnoreFacts DEF RunInsert
  <2>2. RowsToInsert(tasks) = RowsToInsert(tasks') \cup {Head(tasks).row}
    BY <1>5, RowsToInsertFacts DEF RunInsert
  <2> QED
    BY <1>5, <2>1, <2>2 DEF RunInsert, Known, queueVars, appVars, wsVars, linkVars
<1>6. CASE RunDelete \/ RunSelect
  <2>1. outbound_queue' \subseteq outbound_queue /\ rows' \subseteq rows \cup outbound_queue
    BY <1>6 DEF RunDelete, RunSelect, DeleteKey, wsVars
  <2>2. RowsToInsert(tasks') = RowsToInsert(tasks)
    BY <1>6, RowsToInsertFacts DEF RunDelete, RunSelect
  <2> QED
    BY <1>6, <2>1, <2>2 DEF RunDelete, RunSelect, Known, queueVars, appVars, linkVars
<1>7. CASE PostSelect \/ Ack
  <2>1. RowsToInsert(tasks') = RowsToInsert(tasks)
    <3>1. SelectTask \in Tasks /\ SelectTask.op # "insert"
      BY DEF SelectTask, Tasks
    <3>2. ASSUME Ack
          PROVE  DeleteTask(Head(toClient)) \in Tasks /\ DeleteTask(Head(toClient)).op # "insert"
      BY <3>2, TailFacts DEF Ack, DeleteTask, Tasks
    <3>3. CASE PostSelect
      BY <3>1, <3>3, RowsToInsertFacts DEF PostSelect
    <3>4. CASE Ack
      BY <3>2, <3>4, RowsToInsertFacts DEF Ack
    <3> QED
      BY <1>7, <3>3, <3>4
  <2> QED
    BY <1>7, <2>1 DEF PostSelect, Ack, Known, queueVars, appVars, linkVars
<1>8. ASSUME NEW r \in rows, FlushRow(r)
      PROVE  Known' \subseteq Known
  <2>1. ElementsOf(send_queue') \subseteq ElementsOf(send_queue) \cup {r}
    <3>1. r \in Frames
      BY DEF Frames
    <3> QED
      BY <1>8, <3>1, ElementsFacts DEF FlushRow
  <2>2. rows' \subseteq rows
    BY <1>8 DEF FlushRow
  <2> QED
    BY <1>8, <2>1, <2>2 DEF FlushRow, Known, dbVars, queueVars, appVars
<1>9. CASE Writeable
  <2>1. /\ ElementsOf(toServer') \subseteq ElementsOf(toServer) \cup {Head(send_queue)}
        /\ ElementsOf(send_queue') \subseteq ElementsOf(send_queue)
        /\ Head(send_queue) \in ElementsOf(send_queue)
    <3>1. Head(send_queue) \in Frames
      BY <1>9, TailFacts DEF Writeable
    <3> QED
      BY <1>9, <3>1, ElementsFacts DEF Writeable
  <2> QED
    BY <1>9, <2>1 DEF Writeable, Known, dbVars, queueVars, appVars, wsVars
<1>10. CASE TakeCallback
  BY <1>10 DEF TakeCallback, Known, dbVars, appVars, linkVars
<1>11. CASE Closed \/ LogoutDisconnect \/ Login
  <2>1. ElementsOf(<< >>) = {}
    BY DEF ElementsOf
  <2>2. /\ send_queue' \in {send_queue, << >>} /\ toServer' \in {toServer, << >>}
        /\ UNCHANGED <<outbound_queue, callbacks_, rows, store, cur, tasks>>
    BY <1>11 DEF Closed, LogoutDisconnect, Login, dbVars, queueVars, appVars, wsVars
  <2> QED
    BY <2>1, <2>2 DEF Known
<1>12. CASE ServerReceive
  <2>1. /\ ElementsOf(toServer') \subseteq ElementsOf(toServer)
        /\ Head(toServer) \in ElementsOf(toServer)
    BY <1>12, ElementsFacts DEF ServerReceive
  <2>2. store' \subseteq store \cup {Head(toServer)}
    BY <1>12, InsertOrIgnoreFacts DEF ServerReceive
  <2> QED
    BY <1>12, <2>1, <2>2 DEF ServerReceive, Known, dbVars, queueVars, appVars, wsVars
<1>13. CASE Established \/ SetSendFn \/ FlushDone \/ OnDisconnected \/ UNCHANGED vars
  BY <1>13 DEF Established, SetSendFn, FlushDone, OnDisconnected, Known, vars, dbVars, queueVars,
               appVars, wsVars, linkVars
<1>14. ~Restart
  BY DEF Restart, bounds
<1> QED
  BY <1>1, <1>2, <1>3, <1>4, <1>5, <1>6, <1>7, <1>8, <1>9, <1>10, <1>11, <1>12, <1>13, <1>14 DEF Next

-----------------------------------------------------------------------------
(* One row per local_id, one message per row, until a restart. *)

\* The rows in use carry the local_id their message was given.
RowsGiven == \A r \in Known : r \in Rows => idOf[r.msg] = r.lid

\* generateLocalId gives each local_id to one message.
IdsGivenOnce ==
  /\ \A m \in Msgs : idOf[m] < counter
  /\ \A m, n \in Msgs : idOf[m] = idOf[n] /\ idOf[m] # 0 => m = n

IdInv == RowsGiven /\ IdsGivenOnce

\* Two rows in use that have the same local_id are the same row.
LEMMA OneRowPerId ==
  ASSUME TypeInv, IdInv, NEW r \in Known, NEW s \in Known, r \in Rows, s \in Rows, r.lid = s.lid
  PROVE  r = s
<1>1. idOf[r.msg] = r.lid /\ idOf[s.msg] = s.lid /\ r.lid # 0
  BY DEF IdInv, RowsGiven, Rows, LocalIds
<1>2. r.msg = s.msg
  BY <1>1 DEF IdInv, IdsGivenOnce, Rows
<1> QED
  BY <1>2 DEF Rows

\* No row exists before the first message.
LEMMA IdInit == Init => IdInv
<1> SUFFICES ASSUME Init PROVE IdInv
  OBVIOUS
<1>1. \A r \in Known : r = Transient
  BY DEF Init, Known, ElementsOf, RowsToInsert
<1>2. RowsGiven
  BY <1>1, TransientIsNoRow DEF RowsGiven
<1>3. IdsGivenOnce
  BY DEF Init, IdsGivenOnce, FirstId
<1> QED
  BY <1>2, <1>3 DEF IdInv

\* sendTextMessage adds the row of a fresh local_id; no other step adds a row or
\* changes the local_ids, until the process restarts.
LEMMA IdStep ==
  ASSUME TypeInv, IdInv, [Next]_vars, restarts' = restarts
  PROVE  IdInv'
<1> USE DEF TypeInv, TypeOK
<1>1. ASSUME NEW t \in Threads, NEW m \in Msgs, Enqueue(t, m)
      PROVE  IdInv'
  <2> DEFINE r == [lid |-> counter, msg |-> m]
  <2>1. r \in Rows
    BY DEF Rows
  <2>2. RowsToInsert(tasks') = RowsToInsert(tasks) \cup {r}
    BY <1>1, <2>1, RowsToInsertFacts DEF Enqueue
  <2>3. {cur'[u] : u \in Threads} \subseteq {cur[u] : u \in Threads} \cup {r}
    BY <1>1 DEF Enqueue
  <2>4. Known' \subseteq Known \cup {r}
    BY <1>1, <2>2, <2>3 DEF Enqueue, Known, wsVars, linkVars
  <2>5. idOf[m] = 0 /\ idOf' = [idOf EXCEPT ![m] = counter] /\ counter' = counter + 1
    BY <1>1 DEF Enqueue
  <2>6. RowsGiven'
    <3> SUFFICES ASSUME NEW s \in Known', s \in Rows
                 PROVE  idOf'[s.msg] = s.lid
      BY DEF RowsGiven
    <3>1. CASE s = r
      BY <2>5, <3>1
    <3>2. CASE s \in Known
      <4>1. idOf[s.msg] = s.lid /\ s.lid # 0 /\ s.msg \in Msgs
        BY <3>2 DEF IdInv, RowsGiven, Rows, LocalIds
      <4> QED
        BY <2>5, <4>1
    <3> QED
      BY <2>4, <3>1, <3>2
  <2>7. IdsGivenOnce'
    <3>1. \A n \in Msgs : idOf[n] < counter /\ idOf[n] \in Nat
      BY DEF IdInv, IdsGivenOnce
    <3>2. \A n \in Msgs : idOf'[n] = IF n = m THEN counter ELSE idOf[n]
      BY <2>5
    <3>3. counter \in Nat
      BY DEF LocalIds
    <3>4. \A n \in Msgs : idOf'[n] < counter'
      BY <2>5, <3>1, <3>2, <3>3
    <3>5. ASSUME NEW n \in Msgs, NEW k \in Msgs, idOf'[n] = idOf'[k], idOf'[n] # 0
          PROVE  n = k
      BY <3>1, <3>2, <3>3, <3>5 DEF IdInv, IdsGivenOnce
    <3> QED
      BY <3>4, <3>5 DEF IdsGivenOnce
  <2> QED
    BY <2>6, <2>7 DEF IdInv
<1>2. ASSUME \A t \in Threads, m \in Msgs : ~Enqueue(t, m)
      PROVE  IdInv'
  <2>1. Known' \subseteq Known \cup {Transient}
    BY <1>2, NoNewRows
  <2>2. ~Restart
    BY DEF Restart
  <2>3. UNCHANGED <<counter, idOf>>
    BY <1>2, <2>2 DEF Next, vars, dbVars, queueVars, appVars, wsVars, linkVars, history, bounds,
         Register, SendRow, SendTransient, Push, RunInsert, RunDelete, RunSelect, Established,
         SetSendFn, PostSelect, FlushRow, FlushDone, Writeable, Ack, TakeCallback, Closed,
         Login, LogoutDisconnect, OnDisconnected, ServerReceive
  <2>4. RowsGiven'
    BY <2>1, <2>3, TransientIsNoRow DEF IdInv, RowsGiven
  <2>5. IdsGivenOnce'
    BY <2>3 DEF IdInv, IdsGivenOnce
  <2> QED
    BY <2>4, <2>5 DEF IdInv
<1> QED
  BY <1>1, <1>2

-----------------------------------------------------------------------------
(* The refinement, step by step. *)

\* The ack being handled names a local_id the server has.
AckingInv == wspc = "ack" => HasKey(store, acking)

\* Ack, which begins it, takes an ack from the wire; the server forgets nothing.
LEMMA AckingStep == TypeInv /\ AckInv /\ AckingInv /\ [Next]_vars => AckingInv'
<1> SUFFICES ASSUME TypeInv, AckInv, AckingInv, [Next]_vars PROVE AckingInv'
  OBVIOUS
<1> USE DEF AckingInv
<1>1. \A id : HasKey(store, id) => HasKey(store', id)
  <2>1. ServerReceive => store \subseteq store'
    BY InsertOrIgnoreFacts DEF ServerReceive
  <2>2. ~ServerReceive => store' = store
    BY DEF Next, vars, dbVars, queueVars, appVars, wsVars, linkVars, bounds, Enqueue,
           Register, SendRow, SendTransient, Push, RunInsert, RunDelete, RunSelect, Established,
           SetSendFn, PostSelect, FlushRow, FlushDone, Writeable, Ack, TakeCallback, Closed,
           Login, LogoutDisconnect, OnDisconnected, Restart
  <2> QED
    BY <2>1, <2>2 DEF HasKey
<1>2. CASE Ack
  BY <1>2, TailFacts DEF Ack, AckInv, TypeInv, TypeOK
<1>3. CASE UNCHANGED <<wspc, acking>>
  BY <1>1, <1>3
<1>4. CASE wspc' # "ack"
  BY <1>4
<1>5. Ack \/ UNCHANGED <<wspc, acking>> \/ wspc' # "ack"
  BY DEF Next, vars, dbVars, queueVars, appVars, wsVars, linkVars, bounds, Enqueue,
         Register, SendRow, SendTransient, Push, RunInsert, RunDelete, RunSelect, Established,
         SetSendFn, PostSelect, FlushRow, FlushDone, Writeable, TakeCallback, Closed,
         Login, LogoutDisconnect, OnDisconnected, ServerReceive, Restart
<1> QED
  BY <1>2, <1>3, <1>4, <1>5

\* The rows owed, as the lemmas above speak of them.
LEMMA PendingRows ==
  /\ Pending = outbound_queue \cup RowsToInsert(tasks)
  /\ Pending' = outbound_queue' \cup RowsToInsert(tasks')
  BY DEF Pending, RowsToInsert

\* sendTextMessage is Submit.
LEMMA EnqueueSubmits ==
  ASSUME TypeInv, NEW t \in Threads, NEW m \in Msgs, Enqueue(t, m)
  PROVE  Delivery!Submit(m)
<1> USE DEF TypeInv, TypeOK
<1> DEFINE r == [lid |-> counter, msg |-> m]
<1>1. r \in Rows
  BY DEF Rows
<1>2. RowsToInsert(tasks') = RowsToInsert(tasks) \cup {r}
  BY <1>1, RowsToInsertFacts DEF Enqueue
<1>3. Pending' = Pending \cup {r}
  BY <1>2, PendingRows DEF Enqueue
<1>4. {s.msg : s \in Pending'} = {s.msg : s \in Pending} \cup {m}
  <2>1. r.msg = m
    OBVIOUS
  <2> HIDE DEF r
  <2> QED
    BY <1>3, <2>1
<1>5. \A n \in Msgs : idOf'[n] # 0 <=> (n = m \/ idOf[n] # 0)
  BY DEF Enqueue, LocalIds
<1>6. idOf[m] = 0 /\ UNCHANGED <<store, succeeded>>
  BY DEF Enqueue
<1> QED
  BY <1>4, <1>5, <1>6 DEF Delivery!Submit

\* The worker's INSERT moves a row to the table, where no other row has its key.
LEMMA InsertKeepsPending ==
  ASSUME TypeInv, IdInv, RunInsert
  PROVE  Pending' = Pending
<1> USE DEF TypeInv, TypeOK
<1> DEFINE r == Head(tasks).row
<1>1. r \in Rows /\ RowsToInsert(tasks) = RowsToInsert(tasks') \cup {r}
  BY RowsToInsertFacts DEF RunInsert
<1>2. r \in Known /\ outbound_queue \subseteq Known
  BY <1>1 DEF Known
<1>3. outbound_queue' = outbound_queue \cup {r}
  <2>1. CASE HasKey(outbound_queue, r.lid)
    <3>1. PICK s \in outbound_queue : s.lid = r.lid
      BY <2>1 DEF HasKey
    <3>2. s = r
      BY <1>1, <1>2, <3>1, OneRowPerId
    <3> QED
      BY <2>1, <3>1, <3>2 DEF RunInsert, InsertOrIgnore
  <2>2. CASE ~HasKey(outbound_queue, r.lid)
    BY <2>2 DEF RunInsert, InsertOrIgnore
  <2> QED
    BY <2>1, <2>2
<1> QED
  BY <1>1, <1>3, PendingRows

\* The DELETE an ack posted is Forget: the server has that very row.
LEMMA DeleteForgets ==
  ASSUME TypeInv, IdInv, AckInv, RunDelete
  PROVE  UNCHANGED Delivery!vars \/ \E m \in Msgs : Delivery!Forget(m)
<1> USE DEF TypeInv, TypeOK
<1>1. RowsToInsert(tasks') = RowsToInsert(tasks)
  BY RowsToInsertFacts DEF RunDelete
<1>2. outbound_queue' = {r \in outbound_queue : r.lid # Head(tasks).lid}
  BY DEF RunDelete, DeleteKey
<1>3. PICK s \in store : s.lid = Head(tasks).lid
  <2>1. 1 \in DOMAIN tasks /\ Head(tasks) = tasks[1]
    BY TailFacts DEF RunDelete
  <2> QED
    BY <2>1 DEF AckInv, HasKey, RunDelete
<1>4. store \subseteq Known /\ outbound_queue \subseteq Known /\ Pending \subseteq Known
  BY PendingRows DEF Known
<1>5. \A r \in outbound_queue : r.lid = Head(tasks).lid => r = s
  BY <1>3, <1>4, OneRowPerId
<1>6. UNCHANGED <<idOf, store, succeeded>>
  BY DEF RunDelete, history
<1>7. Pending' = Pending \/ Pending' = Pending \ {s}
  BY <1>1, <1>2, <1>5, PendingRows, <1>3
<1>8. CASE Pending' = Pending
  BY <1>6, <1>8 DEF Delivery!vars
<1>9. CASE Pending' = Pending \ {s} /\ s \in Pending
  <2>1. s \in Rows /\ s.msg \in Msgs /\ idOf[s.msg] = s.lid
    BY <1>4 DEF Rows, IdInv, RowsGiven
  <2>2. ASSUME NEW r \in Pending, r.msg = s.msg
        PROVE  r = s
    <3>1. r \in Rows
      BY <2>2, RowsToInsertFacts, PendingRows DEF RowsToInsert, Tasks
    <3>2. r.lid = s.lid
      BY <1>4, <2>1, <2>2, <3>1 DEF IdInv, RowsGiven
    <3> QED
      BY <1>4, <2>1, <3>1, <3>2, OneRowPerId
  <2>3. {r.msg : r \in Pending'} = {r.msg : r \in Pending} \ {s.msg}
    BY <1>9, <2>2
  <2>4. s.msg \in {r.msg : r \in Pending} /\ s.msg \in {r.msg : r \in store}
    BY <1>3, <1>9
  <2> QED
    BY <1>6, <2>1, <2>3, <2>4 DEF Delivery!Forget
<1>10. CASE Pending' = Pending \ {s} /\ s \notin Pending
  <2>1. Pending' = Pending
    BY <1>10
  <2> QED
    BY <1>8, <2>1
<1> QED
  BY <1>7, <1>8, <1>9, <1>10

\* The callback an ack finds is that of the row the server has: Report.
LEMMA CallbackReports ==
  ASSUME TypeInv, IdInv, AckingInv, TakeCallback
  PROVE  UNCHANGED Delivery!vars \/ \E m \in Msgs : Delivery!Report(m)
<1> USE DEF TypeInv, TypeOK
<1>1. PICK s \in store : s.lid = acking
  BY DEF AckingInv, HasKey, TakeCallback
<1>2. store \subseteq Known /\ callbacks_ \subseteq Known
  BY DEF Known
<1>3. \A r \in CallbackOf(acking) : r = s
  BY <1>1, <1>2, OneRowPerId DEF CallbackOf
<1>4. succeeded' = succeeded \cup {r.msg : r \in CallbackOf(acking)}
  BY DEF TakeCallback
<1>5. UNCHANGED <<idOf, store>> /\ Pending' = Pending
  BY DEF TakeCallback, Pending, dbVars
<1>6. CASE CallbackOf(acking) = {}
  BY <1>4, <1>5, <1>6 DEF Delivery!vars
<1>7. CASE CallbackOf(acking) # {}
  <2>1. {r.msg : r \in CallbackOf(acking)} = {s.msg}
    BY <1>3, <1>7
  <2>2. s.msg \in Msgs /\ s.msg \in {r.msg : r \in store}
    BY <1>1 DEF Rows
  <2> QED
    BY <1>4, <1>5, <2>1, <2>2 DEF Delivery!Report
<1> QED
  BY <1>6, <1>7

\* The server's INSERT is Store, of a message the application sent.
LEMMA ReceiveStores ==
  ASSUME TypeInv, IdInv, ServerReceive
  PROVE  UNCHANGED Delivery!vars \/ \E m \in Msgs : Delivery!Store(m)
<1> USE DEF TypeInv, TypeOK
<1> DEFINE f == Head(toServer)
<1>1. UNCHANGED <<idOf, succeeded>> /\ Pending' = Pending
  BY DEF ServerReceive, Pending, dbVars, history
<1>2. CASE store' = store
  BY <1>1, <1>2 DEF Delivery!vars
<1>3. CASE store' = store \cup {f} /\ f # Transient
  <2>1. f \in Frames /\ f \in Known
    BY TailFacts, ElementsFacts DEF ServerReceive, Known
  <2>2. f \in Rows /\ f.msg \in Msgs /\ f.lid # 0
    BY <1>3, <2>1 DEF Frames, Rows, LocalIds
  <2>3. idOf[f.msg] # 0
    BY <2>1, <2>2 DEF IdInv, RowsGiven
  <2>4. {r.msg : r \in store'} = {r.msg : r \in store} \cup {f.msg}
    BY <1>3
  <2> QED
    BY <1>1, <2>2, <2>3, <2>4 DEF Delivery!Store
<1> QED
  BY <1>2, <1>3 DEF ServerReceive, InsertOrIgnore

\* Every step of the queue is a step of reliable delivery, or changes nothing in it.
LEMMA DeliveryStep ==
  ASSUME TypeInv, IdInv, AckInv, AckingInv, [Next]_vars, restarts' = restarts
  PROVE  [Delivery!Next]_(Delivery!vars)
<1> USE DEF TypeInv, TypeOK
<1>1. ASSUME NEW t \in Threads, NEW m \in Msgs, Enqueue(t, m)
      PROVE  Delivery!Next
  BY <1>1, EnqueueSubmits DEF Delivery!Next
<1>2. CASE RunInsert
  <2>1. Pending' = Pending
    BY <1>2, InsertKeepsPending
  <2> QED
    BY <1>2, <2>1 DEF RunInsert, Delivery!vars, history
<1>3. CASE RunDelete
  BY <1>3, DeleteForgets DEF Delivery!Next
<1>4. CASE RunSelect \/ PostSelect \/ Ack
  <2>1. RowsToInsert(tasks') = RowsToInsert(tasks)
    <3>1. CASE RunSelect
      BY <3>1, RowsToInsertFacts DEF RunSelect
    <3>2. CASE PostSelect
      <4>1. SelectTask \in Tasks /\ SelectTask.op # "insert"
        BY DEF SelectTask, Tasks
      <4> QED
        BY <3>2, <4>1, RowsToInsertFacts DEF PostSelect
    <3>3. CASE Ack
      <4>1. DeleteTask(Head(toClient)) \in Tasks /\ DeleteTask(Head(toClient)).op # "insert"
        BY <3>3, TailFacts DEF Ack, DeleteTask, Tasks
      <4> QED
        BY <3>3, <4>1, RowsToInsertFacts DEF Ack
    <3> QED
      BY <1>4, <3>1, <3>2, <3>3
  <2>2. UNCHANGED <<outbound_queue, idOf, store, succeeded>>
    BY <1>4 DEF RunSelect, PostSelect, Ack, history
  <2>3. Pending' = Pending
    BY <2>1, <2>2, PendingRows
  <2> QED
    BY <2>2, <2>3 DEF Delivery!vars
<1>5. CASE TakeCallback
  BY <1>5, CallbackReports DEF Delivery!Next
<1>6. CASE ServerReceive
  BY <1>6, ReceiveStores DEF Delivery!Next
<1>7. ASSUME UNCHANGED <<outbound_queue, tasks, idOf, store, succeeded>>
      PROVE  UNCHANGED Delivery!vars
  BY <1>7 DEF Delivery!vars, Pending
<1>8. ~Restart
  BY DEF Restart
<1>9. \/ \E t \in Threads, m \in Msgs : Enqueue(t, m)
      \/ RunInsert \/ RunDelete \/ RunSelect \/ PostSelect \/ Ack \/ TakeCallback \/ ServerReceive
      \/ UNCHANGED <<outbound_queue, tasks, idOf, store, succeeded>>
  BY <1>8 DEF Next, vars, dbVars, queueVars, appVars, wsVars, linkVars, history, bounds,
       Register, SendRow, SendTransient, Push, Established, SetSendFn, FlushRow, FlushDone,
       Writeable, Closed, Login, LogoutDisconnect, OnDisconnected
<1> QED
  BY <1>1, <1>2, <1>3, <1>4, <1>5, <1>6, <1>7, <1>9

-----------------------------------------------------------------------------
(* The theorems. *)

DeliveryInv ==
  /\ TypeInv
  /\ AckInv
  /\ AckingInv
  /\ restarts = 0 => IdInv

\* The process starts with nothing submitted.
LEMMA DeliveryInit == Init => DeliveryInv /\ Delivery!Init
<1> SUFFICES ASSUME Init PROVE DeliveryInv /\ Delivery!Init
  OBVIOUS
<1>1. DeliveryInv
  BY TypeInit, IdInit DEF DeliveryInv, AckInv, AckingInv, Init
<1>2. Pending = {}
  BY DEF Init, Pending
<1>3. Delivery!Init
  BY <1>2 DEF Init, Delivery!Init
<1> QED
  BY <1>1, <1>3

\* restarts counts the restarts.
LEMMA RestartsGrow ==
  ASSUME [Next]_vars
  PROVE  \/ restarts' = restarts
         \/ restarts' = restarts + 1 /\ restarts < MaxRestarts
  BY DEF Next, vars, dbVars, queueVars, appVars, wsVars, linkVars, bounds, Enqueue,
         Register, SendRow, SendTransient, Push, RunInsert, RunDelete, RunSelect, Established,
         SetSendFn, PostSelect, FlushRow, FlushDone, Writeable, Ack, TakeCallback, Closed,
         Login, LogoutDisconnect, OnDisconnected, ServerReceive, Restart

\* The invariant of the refinement, and the refinement while restarts is 0.
LEMMA DeliveryInvStep ==
  DeliveryInv /\ [Next]_vars
    => DeliveryInv' /\ (restarts' = 0 => [Delivery!Next]_(Delivery!vars))
<1> SUFFICES ASSUME DeliveryInv, [Next]_vars
             PROVE  DeliveryInv' /\ (restarts' = 0 => [Delivery!Next]_(Delivery!vars))
  OBVIOUS
<1>1. TypeInv' /\ AckInv' /\ AckingInv'
  BY TypeStep, AckStep, AckingStep DEF DeliveryInv
<1>2. restarts' = 0 => restarts = 0 /\ restarts' = restarts
  BY RestartsGrow DEF DeliveryInv, TypeInv, TypeOK
<1>3. restarts' = 0 => IdInv'
  BY <1>2, IdStep DEF DeliveryInv
<1>4. restarts' = 0 => [Delivery!Next]_(Delivery!vars)
  BY <1>2, DeliveryStep DEF DeliveryInv
<1> QED
  BY <1>1, <1>3, <1>4 DEF DeliveryInv

\* Until the process is restarted, every step of the queue is a step of reliable
\* delivery: drops, logouts, second sends and lost acks lose and invent nothing.
THEOREM DeliversUntilRestart ==
  Spec => Delivery!Init /\ [][restarts' = 0 => [Delivery!Next]_(Delivery!vars)]_vars
  BY DeliveryInit, DeliveryInvStep, PTL DEF Spec

\* Without a restart, the queue implements reliable delivery.
THEOREM Delivers ==
  ASSUME MaxRestarts = 0
  PROVE  Spec => ImplementsDelivery
<1> DEFINE Inv == DeliveryInv /\ restarts = 0
<1>1. Init => Inv /\ Delivery!Init
  BY DeliveryInit DEF Init
<1>2. Inv /\ [Next]_vars => Inv' /\ [Delivery!Next]_(Delivery!vars)
  BY DeliveryInvStep, RestartsGrow
<1> QED
  BY <1>1, <1>2, PTL DEF Spec, ImplementsDelivery, Delivery!Spec

\* Until the process is restarted, a message whose callback was called is on the
\* server, and one the application sent is there or in the queue still.
THEOREM NothingLostUntilRestart == Spec => [](restarts = 0 => Delivery!NothingLost)
<1> DEFINE Inv == DeliveryInv /\ (restarts = 0 => Delivery!NothingLost)
<1>1. Init => Inv
  BY DeliveryInit DEF Delivery!Init, Delivery!NothingLost
<1>2. Delivery!NothingLost /\ [Delivery!Next]_(Delivery!vars) => Delivery!NothingLost'
  BY DEF Delivery!NothingLost, Delivery!vars, Delivery!Next, Delivery!Submit, Delivery!Store,
         Delivery!Forget, Delivery!Report
<1>3. ASSUME DeliveryInv, [Next]_vars, restarts' = 0
      PROVE  restarts = 0
  <2>1. restarts \in Nat
    BY <1>3 DEF DeliveryInv, TypeInv, TypeOK
  <2>2. restarts' = restarts \/ restarts' = restarts + 1
    BY <1>3, RestartsGrow
  <2> QED BY <1>3, <2>1, <2>2
<1>4. Inv /\ [Next]_vars => Inv'
  <2> SUFFICES ASSUME Inv, [Next]_vars
               PROVE  DeliveryInv' /\ (restarts' = 0 => Delivery!NothingLost')
    OBVIOUS
  <2>1. DeliveryInv' /\ (restarts' = 0 => [Delivery!Next]_(Delivery!vars))
    BY DeliveryInvStep
  <2> QED BY <1>2, <1>3, <2>1
<1> QED
  BY <1>1, <1>4, PTL DEF Spec

=============================================================================
