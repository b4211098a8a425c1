------------------------- MODULE WriteThrough_proofs -------------------------
(***************************************************************************)
(* LocalStore writes through: the row ends up as what the cache shows, for *)
(* any number of messages, syncs, calls, notifications and restarts.       *)
(*                                                                         *)
(* While statements wait in the worker's queue the row is behind the       *)
(* cache, so the invariant speaks of the row as the queue will leave it:   *)
(* of the ends of all the ways in which the statements may be executed.    *)
(***************************************************************************)
EXTENDS LocalStore_proofs

USE DEF vars, local, work, net, history, Elsewhere

-----------------------------------------------------------------------------
(***************************************************************************)
(* What the queue makes of the row.                                        *)
(***************************************************************************)
\* What executing a statement may leave in the row.
Outcomes(s, r) == {Applied(s, r)} \cup (IF s.what = "delete" THEN {r} ELSE {})

\* A merge that finds fields in the row that the cache is about to lose sets
\* parted; the ways through it need not be followed.
Harmless(s, r) == s.what = "merge" => r = None \/ r = [Fresh EXCEPT !.synced = r.synced]

\* The ways to execute the statements of q in order, from the row r.
Ways(r, q) ==
    {g \in [0..Len(q) -> Maybe] :
        /\ g[0] = r
        /\ \A i \in 1..Len(q) :
              Harmless(q[i].statement, g[i - 1]) /\ g[i] \in Outcomes(q[i].statement, g[i - 1])}

Ends(r, q) == {g[Len(q)] : g \in Ways(r, q)}

\* The row will be c when the worker is done.
WillBe(c) == \A e \in Ends(row, queue) : e = c

Agreed == cached # None => WillBe(cached)

-----------------------------------------------------------------------------
(***************************************************************************)
(* The invariant: where a handler is, and what it relies on there.         *)
(***************************************************************************)
\* What is left of mergeConvMessages, from the first message it inserts.
Merging(h) ==
    /\ Len(h) >= 3
    /\ \A i \in 1..(Len(h) - 3) : h[i].do = "insert"
    /\ \E n \in 0..MaxSeq :
          /\ h[Len(h) - 2] = Exec(Statement("raise", n))
          /\ h[Len(h) - 1] = [do |-> "raise", n |-> n]
          /\ h[Len(h)] = Does("write")

MergingOrDone(h) == h = <<>> \/ Merging(h)

\* A handler that has not read or written the conversation yet.
Unstarted(h) ==
    \/ \E s \in Accesses : s.do \in {"patch", "create", "learn"} /\ h = <<s, Does("write"), Does("save")>>
    \/ h = Remove
    \/ h = ClearUnread
    \/ \E c \in NewConvs : h = Keep(c) \/ h = KeepAll(c)
    \/ \E do \in {"ask", "fill"} : h = <<Exec(Statement("query", 0)), Does(do)>>
    \/ \E v \in Values :
          /\ Len(h) >= 2
          /\ h[1] = MergeSession(v)[1] /\ h[2] = MergeSession(v)[2]
          /\ MergingOrDone(Tail(Tail(h)))
    \/ Merging(h)

\* Thread t waits for the rows it has asked for.
Querying(t) == \E i \in DOMAIN queue : queue[i].by = t /\ queue[i].statement.what = "query"

Starting(t) == Unstarted(todo[t]) /\ Agreed
Asking(t)   == todo[t] = <<Does("ask")>> /\ Agreed
Filling(t)  ==
    /\ todo[t] = <<Does("fill")>> /\ Agreed
    /\ Querying(t) \/ held[t] = None \/ WillBe(held[t])
Writing(t)  == todo[t] = <<Does("write"), Does("save")>> /\ held[t] # None
Saving(t)   == todo[t] = <<Does("save")>> /\ cached = held[t]
Deleting(t) == todo[t] = <<Post(Statement("delete", 0))>> /\ cached = None
Clearing(t) ==
    /\ todo[t] = <<Post(Statement("clear", 0))>>
    /\ cached # None => \A e \in Ends(row, queue) : e # None /\ [e EXCEPT !.synced = 0] = cached
Keeping(t)  == \E c \in NewConvs : todo[t] = <<Post(PutRow(c))>> /\ cached = c
Showing(t)  ==
    \E c \in NewConvs :
        /\ todo[t] # <<>> /\ todo[t][1] = [do |-> "put", conv |-> c]
        /\ MergingOrDone(Tail(todo[t]))
        /\ WillBe(c)
Raising(t)  ==
    \E n \in 0..MaxSeq :
        /\ todo[t] = <<[do |-> "raise", n |-> n], Does("write")>>
        /\ cached # None => WillBe([cached EXCEPT !.local_seq = Larger(cached.local_seq, n)])
RaisedWrite(t) == todo[t] = <<Does("write")>> /\ held[t] # None /\ WillBe(held[t])

Midway(t) ==
    \/ Starting(t) \/ Asking(t) \/ Filling(t) \/ Writing(t) \/ Saving(t) \/ Deleting(t)
    \/ Clearing(t) \/ Keeping(t) \/ Showing(t) \/ Raising(t) \/ RaisedWrite(t)

\* While the rows are asked for nothing else happens to them.
QueriesLast ==
    \A i \in DOMAIN queue : queue[i].statement.what = "query" =>
        /\ i = Len(queue) /\ queue[i].by \in Workers
        /\ todo[queue[i].by] \in {<<Does("ask")>>, <<Does("fill")>>}

Through ==
    /\ \A t, u \in Workers : Touches(todo[t]) /\ Touches(todo[u]) => t = u
    /\ \A t \in Workers : Touches(todo[t]) => Midway(t)
    /\ (\A t \in Workers : ~Touches(todo[t])) => Agreed
    /\ QueriesLast

ThroughInv == ~parted => Through

\* A handler that asks for no rows, and one that asks for them first.
IsQuery(a) == a.do \in {"exec", "post"} /\ a.statement.what = "query"
AsksNothing(h) == \A i \in DOMAIN h : ~IsQuery(h[i])
AsksFirst(h) == \E do \in {"ask", "fill"} : h = <<Exec(Statement("query", 0)), Does(do)>>

\* Also while the two may differ: whoever waits for the rows has yet to use them.
AskedInv ==
    /\ \A t \in Workers : AsksNothing(todo[t]) \/ AsksFirst(todo[t])
    /\ \A i \in DOMAIN queue : queue[i].statement.what = "query" =>
          queue[i].by \in Workers /\ Touches(todo[queue[i].by])

-----------------------------------------------------------------------------
(***************************************************************************)
(* The ends of the queue, as it grows and shrinks.                         *)
(***************************************************************************)
Queues == Seq([by : Workers \cup {"none"}, statement : Statements(Maybe)])

\* With nothing to execute the row is what it is.
LEMMA EndsOfNothing ==
    ASSUME NEW r \in Maybe
    PROVE  Ends(r, <<>>) = {r}
<1>1. Len(<<>>) = 0
  OBVIOUS
<1>2. ASSUME NEW e \in Ends(r, <<>>)
      PROVE  e = r
  BY <1>1, <1>2 DEF Ends, Ways
<1>3. r \in Ends(r, <<>>)
  <2> DEFINE g == [i \in 0..0 |-> r]
  <2>1. g \in Ways(r, <<>>)
    BY <1>1 DEF Ways
  <2>2. g[0] = r
    OBVIOUS
  <2> HIDE DEF g
  <2> QED BY <1>1, <2>1, <2>2 DEF Ends
<1> QED BY <1>2, <1>3

\* A statement that is posted acts on what the queue before it leaves.
LEMMA EndsOfPost ==
    ASSUME NEW r \in Maybe, NEW q \in Queues, NEW x, NEW e \in Ends(r, Append(q, x))
    PROVE  \E before \in Ends(r, q) :
              Harmless(x.statement, before) /\ e \in Outcomes(x.statement, before)
<1> DEFINE n == Len(q)
<1>1. n \in Nat /\ Len(Append(q, x)) = n + 1 /\ Append(q, x)[n + 1] = x
      /\ \A i \in 1..n : Append(q, x)[i] = q[i]
  BY DEF Queues
<1> DEFINE a == Append(q, x)
<1> HIDE DEF n, a
<1>2. PICK g \in Ways(r, a) : e = g[n + 1]
  BY <1>1 DEF Ends, a
<1>3. /\ g \in [0..(n + 1) -> Maybe] /\ g[0] = r
      /\ \A i \in 1..(n + 1) : Harmless(a[i].statement, g[i - 1]) /\ g[i] \in Outcomes(a[i].statement, g[i - 1])
  BY <1>1, <1>2 DEF Ways, a
<1> DEFINE f == [i \in 0..n |-> g[i]]
<1>4. f \in [0..n -> Maybe] /\ f[0] = r /\ \A i \in 0..n : f[i] = g[i]
  BY <1>1, <1>3
<1> HIDE DEF f
<1>5. ASSUME NEW i \in 1..n
      PROVE  Harmless(q[i].statement, f[i - 1]) /\ f[i] \in Outcomes(q[i].statement, f[i - 1])
  <2>1. i \in 1..(n + 1) /\ i - 1 \in 0..n /\ i \in 0..n /\ a[i] = q[i]
    BY <1>1 DEF a
  <2> QED BY <1>3, <1>4, <2>1
<1>6. f \in Ways(r, q)
  BY <1>4, <1>5 DEF Ways, n
<1>7. g[n] \in Ends(r, q)
  <2>1. f[n] = g[n]
    BY <1>1, <1>4
  <2> QED BY <1>6, <2>1 DEF Ends, n
<1>8. Harmless(x.statement, g[n]) /\ g[n + 1] \in Outcomes(x.statement, g[n])
  <2>1. n + 1 \in 1..(n + 1) /\ (n + 1) - 1 = n /\ a[n + 1] = x
    BY <1>1 DEF a
  <2> QED BY <1>3, <2>1
<1> QED BY <1>2, <1>7, <1>8

\* Executing the first statement decides for one of the ways.
LEMMA EndsOfExecution ==
    ASSUME NEW r \in Maybe, NEW q \in Queues, q # <<>>, NEW s \in Maybe,
           Harmless(Head(q).statement, r), s \in Outcomes(Head(q).statement, r)
    PROVE  Ends(s, Tail(q)) \subseteq Ends(r, q)
<1> DEFINE n == Len(q)
           t == Tail(q)
<1>1. n \in Nat \ {0} /\ Len(t) = n - 1 /\ q[1] = Head(q) /\ \A i \in 1..(n - 1) : t[i] = q[i + 1]
  BY DEF Queues
<1> HIDE DEF n, t
<1> SUFFICES ASSUME NEW e \in Ends(s, t)
             PROVE  e \in Ends(r, q)
  BY DEF t
<1>2. PICK g \in Ways(s, t) : e = g[n - 1]
  BY <1>1 DEF Ends
<1>3. /\ g \in [0..(n - 1) -> Maybe] /\ g[0] = s
      /\ \A i \in 1..(n - 1) : Harmless(t[i].statement, g[i - 1]) /\ g[i] \in Outcomes(t[i].statement, g[i - 1])
  BY <1>1, <1>2 DEF Ways
<1> DEFINE f == [i \in 0..n |-> IF i = 0 THEN r ELSE g[i - 1]]
<1>4. f \in [0..n -> Maybe]
  <2>1. \A i \in 0..n : i # 0 => i - 1 \in 0..(n - 1)
    BY <1>1
  <2> QED BY <1>3, <2>1
<1>5. f[0] = r /\ \A i \in 1..n : f[i] = g[i - 1]
  BY <1>1
<1> HIDE DEF f
<1>6. ASSUME NEW i \in 1..n
      PROVE  Harmless(q[i].statement, f[i - 1]) /\ f[i] \in Outcomes(q[i].statement, f[i - 1])
  <2>1. CASE i = 1
    <3>1. f[i - 1] = r /\ f[i] = s /\ q[i] = Head(q)
      BY <1>1, <1>3, <1>5, <2>1
    <3> QED BY <3>1
  <2>2. CASE i # 1
    <3>1. i - 1 \in 1..(n - 1) /\ i - 1 \in 1..n /\ (i - 1) + 1 = i
      BY <1>1, <2>2
    <3>2. t[i - 1] = q[i] /\ f[i - 1] = g[(i - 1) - 1] /\ f[i] = g[i - 1]
      BY <1>1, <1>5, <3>1
    <3> QED BY <1>3, <3>1, <3>2
  <2> QED BY <2>1, <2>2
<1>7. f \in Ways(r, q)
  BY <1>4, <1>5, <1>6 DEF Ways, n
<1>8. f[n] = e
  BY <1>1, <1>2, <1>5
<1> QED BY <1>7, <1>8 DEF Ends, n

-----------------------------------------------------------------------------
(***************************************************************************)
(* The shapes of handlers.                                                 *)
(***************************************************************************)
\* The parts of a handler that is written out.
LEMMA Tuples ==
    /\ \A a : <<a>> # <<>> /\ <<a>>[1] = a /\ Head(<<a>>) = a /\ Tail(<<a>>) = <<>> /\ Len(<<a>>) = 1
    /\ \A a, b : <<a, b>> # <<>> /\ <<a, b>>[1] = a /\ <<a, b>>[2] = b /\ Head(<<a, b>>) = a
                 /\ Tail(<<a, b>>) = <<b>> /\ Len(<<a, b>>) = 2
    /\ \A a, b, c : <<a, b, c>> # <<>> /\ <<a, b, c>>[1] = a /\ Head(<<a, b, c>>) = a
                    /\ Tail(<<a, b, c>>) = <<b, c>> /\ Len(<<a, b, c>>) = 3
OBVIOUS

\* A page that is merged goes on from message to message, and then to local_seq.
LEMMA MergingShape ==
    ASSUME NEW h \in Handlers, Merging(h)
    PROVE  /\ h # <<>> /\ Touches(h)
           /\ \/ Head(h).do = "insert" /\ Merging(Tail(h))
              \/ \E n \in 0..MaxSeq :
                    /\ Head(h) = Exec(Statement("raise", n))
                    /\ Tail(h) = <<[do |-> "raise", n |-> n], Does("write")>>
<1> DEFINE k == Len(h)
<1>1. /\ k \in Nat /\ k >= 3 /\ DOMAIN h = 1..k /\ h \in Seq(Accesses) /\ h # <<>> /\ Head(h) = h[1]
      /\ Tail(h) \in Seq(Accesses) /\ Len(Tail(h)) = k - 1 /\ \A i \in 1..(k - 1) : Tail(h)[i] = h[i + 1]
  <2>1. h \in Seq(Accesses) /\ Len(h) >= 3
    BY DEF Handlers, Merging
  <2> QED BY <2>1
<1>2. /\ \A i \in 1..(k - 3) : h[i].do = "insert"
      /\ \E n \in 0..MaxSeq :
            h[k - 2] = Exec(Statement("raise", n)) /\ h[k - 1] = [do |-> "raise", n |-> n] /\ h[k] = Does("write")
  BY DEF Merging
<1>3. Touches(h)
  <2>1. k \in DOMAIN h /\ h[k].do \notin {"insert", "mark", "withdraw"}
    BY <1>1, <1>2 DEF Does
  <2> QED BY <2>1 DEF Touches
<1> DEFINE t == Tail(h)
<1> HIDE DEF k, t
<1>4. CASE k = 3
  <2>1. PICK n \in 0..MaxSeq : h[1] = Exec(Statement("raise", n)) /\ h[2] = [do |-> "raise", n |-> n] /\ h[3] = Does("write")
    BY <1>2, <1>4
  <2>2. Len(t) = 2 /\ t[1] = h[2] /\ t[2] = h[3] /\ t \in Seq(Accesses)
    BY <1>1, <1>4 DEF t
  <2>3. t = <<h[2], h[3]>>
    BY <2>2
  <2> QED BY <1>1, <1>3, <2>1, <2>3 DEF t
<1>5. CASE k # 3
  <2>1. Head(h).do = "insert"
    <3>1. 1 \in 1..(k - 3)
      BY <1>1, <1>5
    <3> QED BY <1>1, <1>2, <3>1
  <2>2. Len(t) = k - 1 /\ k - 1 >= 3
    BY <1>1, <1>5 DEF t
  <2>3. \A i \in 1..((k - 1) - 3) : t[i].do = "insert"
    <3> SUFFICES ASSUME NEW i \in 1..((k - 1) - 3)
                 PROVE  t[i].do = "insert"
      OBVIOUS
    <3>1. i \in 1..(k - 1) /\ i + 1 \in 1..(k - 3)
      BY <1>1
    <3> QED BY <1>1, <1>2, <3>1 DEF t
  <2>4. t[(k - 1) - 2] = h[k - 2] /\ t[(k - 1) - 1] = h[k - 1] /\ t[k - 1] = h[k]
    <3>1. /\ (k - 1) - 2 \in 1..(k - 1) /\ (k - 1) - 1 \in 1..(k - 1) /\ k - 1 \in 1..(k - 1)
          /\ ((k - 1) - 2) + 1 = k - 2 /\ ((k - 1) - 1) + 1 = k - 1 /\ (k - 1) + 1 = k
      BY <1>1, <2>2
    <3> QED BY <1>1, <3>1 DEF t
  <2>5. Merging(t)
    BY <1>2, <2>2, <2>3, <2>4 DEF Merging
  <2> QED BY <1>1, <1>3, <2>1, <2>5 DEF t
<1> QED BY <1>4, <1>5

\* The first access of a handler that has not started, and what is left after it.
Opening(h) ==
    \/ Head(h).do \in {"patch", "create", "learn"} /\ Tail(h) = <<Does("write"), Does("save")>>
    \/ Head(h).do = "remove" /\ Tail(h) = <<Post(Statement("delete", 0))>>
    \/ Head(h).do = "clear" /\ Tail(h) = <<Post(Statement("clear", 0))>>
    \/ \E c \in NewConvs :
          \/ Head(h) = [do |-> "put", conv |-> c] /\ Tail(h) = <<Post(PutRow(c))>>
          \/ Head(h) = Post(PutRow(c)) /\ Tail(h) = <<[do |-> "put", conv |-> c]>>
    \/ Head(h) = Exec(Statement("query", 0)) /\ Tail(h) \in {<<Does("ask")>>, <<Does("fill")>>}
    \/ \E v \in Values :
          /\ Head(h) = Exec(Statement("merge", v))
          /\ Tail(h) # <<>> /\ Tail(h)[1] = [do |-> "put", conv |-> [Fresh EXCEPT !.synced = v]]
          /\ MergingOrDone(Tail(Tail(h)))
    \/ Head(h).do = "insert" /\ Merging(Tail(h))
    \/ \E n \in 0..MaxSeq :
          /\ Head(h) = Exec(Statement("raise", n))
          /\ Tail(h) = <<[do |-> "raise", n |-> n], Does("write")>>

\* What a handler that has not started is about, from its first access.
LEMMA UnstartedShape ==
    ASSUME NEW h \in Handlers, Unstarted(h)
    PROVE  /\ h # <<>> /\ Touches(h)
           /\ Opening(h)
<1>0. h # <<>> /\ h[1].do \notin {"insert", "mark", "withdraw"} => Touches(h)
  <2>1. h # <<>> => 1 \in DOMAIN h
    BY DEF Handlers
  <2> QED BY <2>1 DEF Touches
<1>1. CASE \E s \in Accesses : s.do \in {"patch", "create", "learn"} /\ h = <<s, Does("write"), Does("save")>>
  BY <1>0, <1>1, Tuples DEF Opening
<1>2. CASE h = Remove
  BY <1>0, <1>2, Tuples DEF Opening, Remove, Does
<1>3. CASE h = ClearUnread
  BY <1>0, <1>3, Tuples DEF Opening, ClearUnread, Does
<1>4. ASSUME NEW c \in NewConvs, h = Keep(c) \/ h = KeepAll(c)
      PROVE  /\ h # <<>> /\ Touches(h)
             /\ \/ Head(h) = [do |-> "put", conv |-> c] /\ Tail(h) = <<Post(PutRow(c))>>
                \/ Head(h) = Post(PutRow(c)) /\ Tail(h) = <<[do |-> "put", conv |-> c]>>
  <2>1. h[1].do \in {"put", "post"}
    BY <1>4, Tuples DEF Keep, KeepAll, Post
  <2>2. h # <<>> /\ Touches(h)
    BY <1>0, <1>4, <2>1, Tuples DEF Keep, KeepAll
  <2>3. h = Keep(c) => Head(h) = [do |-> "put", conv |-> c] /\ Tail(h) = <<Post(PutRow(c))>>
    BY Tuples DEF Keep
  <2>4. h = KeepAll(c) => Head(h) = Post(PutRow(c)) /\ Tail(h) = <<[do |-> "put", conv |-> c]>>
    BY Tuples DEF KeepAll
  <2> QED BY <1>4, <2>2, <2>3, <2>4
<1>5. ASSUME NEW do \in {"ask", "fill"}, h = <<Exec(Statement("query", 0)), Does(do)>>
      PROVE  /\ h # <<>> /\ Touches(h)
             /\ Head(h) = Exec(Statement("query", 0)) /\ Tail(h) \in {<<Does("ask")>>, <<Does("fill")>>}
  <2>1. h[1].do = "exec"
    BY <1>5, Tuples DEF Exec
  <2> QED BY <1>0, <1>5, <2>1, Tuples
<1>6. ASSUME NEW v \in Values, Len(h) >= 2, h[1] = MergeSession(v)[1], h[2] = MergeSession(v)[2],
             MergingOrDone(Tail(Tail(h)))
      PROVE  /\ h # <<>> /\ Touches(h)
             /\ Head(h) = Exec(Statement("merge", v))
             /\ Tail(h) # <<>> /\ Tail(h)[1] = [do |-> "put", conv |-> [Fresh EXCEPT !.synced = v]]
  <2>1. h[1] = Exec(Statement("merge", v)) /\ h[2] = [do |-> "put", conv |-> [Fresh EXCEPT !.synced = v]]
    BY <1>6, Tuples DEF MergeSession
  <2>2. h # <<>> /\ Head(h) = h[1] /\ Tail(h) # <<>> /\ Tail(h)[1] = h[2]
    BY <1>6 DEF Handlers
  <2>3. h[1].do = "exec"
    BY <2>1 DEF Exec
  <2> QED BY <1>0, <2>1, <2>2, <2>3
<1>7. CASE Merging(h)
  BY <1>7, MergingShape DEF Opening
<1> QED BY <1>1, <1>2, <1>3, <1>4, <1>5, <1>6, <1>7 DEF Unstarted, Opening

\* Where a handler is, from its next access.
LEMMA Place ==
    ASSUME NEW t \in Workers, todo[t] \in Handlers, Midway(t), NEW s, s = Head(todo[t])
    PROVE  /\ todo[t] # <<>> /\ Touches(todo[t])
           /\ s.do \notin {"mark", "withdraw"}
           /\ s.do \in {"patch", "create", "learn"} => Agreed /\ Tail(todo[t]) = <<Does("write"), Does("save")>>
           /\ s.do = "raise" => Raising(t)
           /\ s.do = "write" => Writing(t) \/ RaisedWrite(t)
           /\ s.do = "save" => Saving(t)
           /\ s.do = "remove" => Agreed /\ Tail(todo[t]) = <<Post(Statement("delete", 0))>>
           /\ s.do = "clear" => Agreed /\ Tail(todo[t]) = <<Post(Statement("clear", 0))>>
           /\ s.do = "put" =>
                 \/ Showing(t)
                 \/ \E c \in NewConvs : s.conv = c /\ Tail(todo[t]) = <<Post(PutRow(c))>>
           /\ s.do = "post" =>
                 \/ Deleting(t) \/ Clearing(t) \/ Keeping(t)
                 \/ \E c \in NewConvs : s.statement = PutRow(c) /\ Tail(todo[t]) = <<[do |-> "put", conv |-> c]>>
           /\ s.do = "exec" =>
                 /\ Agreed
                 /\ \/ /\ s.statement = Statement("query", 0)
                       /\ Tail(todo[t]) \in {<<Does("ask")>>, <<Does("fill")>>}
                    \/ \E v \in Values :
                          /\ s.statement = Statement("merge", v)
                          /\ Tail(todo[t]) # <<>>
                          /\ Tail(todo[t])[1] = [do |-> "put", conv |-> [Fresh EXCEPT !.synced = v]]
                          /\ MergingOrDone(Tail(Tail(todo[t])))
                    \/ \E n \in 0..MaxSeq :
                          /\ s.statement = Statement("raise", n)
                          /\ Tail(todo[t]) = <<[do |-> "raise", n |-> n], Does("write")>>
           /\ s.do = "insert" => Agreed /\ Unstarted(Tail(todo[t]))
           /\ s.do = "ask" => Asking(t)
           /\ s.do = "fill" => Filling(t)
<1> DEFINE h == todo[t]
<1>0. /\ \A x : Exec(x).do = "exec" /\ Exec(x).statement = x /\ Post(x).do = "post" /\ Post(x).statement = x
      /\ \A x : Does(x).do = x
      /\ \A x : [do |-> "put", conv |-> x].do = "put" /\ [do |-> "put", conv |-> x].conv = x
      /\ \A x : [do |-> "raise", n |-> x].do = "raise"
  BY DEF Exec, Post, Does
<1>1. h # <<>> /\ h[1].do \notin {"insert", "mark", "withdraw"} => Touches(h)
  <2>1. h # <<>> => 1 \in DOMAIN h
    BY DEF Handlers
  <2> QED BY <2>1 DEF Touches
<1>2. CASE Starting(t)
  <2>1. Unstarted(h) /\ Agreed
    BY <1>2 DEF Starting
  <2>2. \A g : Merging(g) => Unstarted(g)
    BY DEF Unstarted
  <2>3. h # <<>> /\ Touches(h)
    BY <2>1, UnstartedShape
  <2> HIDE DEF h
  <2>4. CASE \/ Head(h).do \in {"patch", "create", "learn"} /\ Tail(h) = <<Does("write"), Does("save")>>
             \/ Head(h).do = "remove" /\ Tail(h) = <<Post(Statement("delete", 0))>>
             \/ Head(h).do = "clear" /\ Tail(h) = <<Post(Statement("clear", 0))>>
             \/ Head(h).do = "insert" /\ Merging(Tail(h))
    BY <2>1, <2>2, <2>3, <2>4 DEF h
  <2>5. CASE \E c \in NewConvs :
                \/ Head(h) = [do |-> "put", conv |-> c] /\ Tail(h) = <<Post(PutRow(c))>>
                \/ Head(h) = Post(PutRow(c)) /\ Tail(h) = <<[do |-> "put", conv |-> c]>>
    <3>1. PICK c \in NewConvs :
             \/ Head(h) = [do |-> "put", conv |-> c] /\ Tail(h) = <<Post(PutRow(c))>>
             \/ Head(h) = Post(PutRow(c)) /\ Tail(h) = <<[do |-> "put", conv |-> c]>>
      BY <2>5
    <3>2. \/ Head(h).do = "put" /\ Head(h).conv = c /\ Tail(h) = <<Post(PutRow(c))>>
          \/ Head(h).do = "post" /\ Head(h).statement = PutRow(c) /\ Tail(h) = <<[do |-> "put", conv |-> c]>>
      BY <1>0, <3>1
    <3> QED BY <2>3, <3>2 DEF h
  <2>6. CASE Head(h) = Exec(Statement("query", 0)) /\ Tail(h) \in {<<Does("ask")>>, <<Does("fill")>>}
    <3>1. Head(h).do = "exec" /\ Head(h).statement = Statement("query", 0)
      BY <1>0, <2>6
    <3> QED BY <2>1, <2>3, <2>6, <3>1 DEF h
  <2>7. ASSUME NEW v \in Values, Head(h) = Exec(Statement("merge", v)),
               Tail(h) # <<>>, Tail(h)[1] = [do |-> "put", conv |-> [Fresh EXCEPT !.synced = v]],
               MergingOrDone(Tail(Tail(h))), s = Head(todo[t])
        PROVE  /\ s.do = "exec"
               /\ s.statement = Statement("merge", v)
               /\ Tail(todo[t]) # <<>>
               /\ Tail(todo[t])[1] = [do |-> "put", conv |-> [Fresh EXCEPT !.synced = v]]
               /\ MergingOrDone(Tail(Tail(todo[t])))
    BY <1>0, <2>7 DEF h
  <2>8. ASSUME NEW n \in 0..MaxSeq, Head(h) = Exec(Statement("raise", n)),
               Tail(h) = <<[do |-> "raise", n |-> n], Does("write")>>, s = Head(todo[t])
        PROVE  /\ s.do = "exec"
               /\ s.statement = Statement("raise", n)
               /\ Tail(todo[t]) = <<[do |-> "raise", n |-> n], Does("write")>>
    BY <1>0, <2>8 DEF h
  <2>9. Opening(h)
    BY <2>1, UnstartedShape DEF h
  <2>10. CASE \E v \in Values :
                /\ Head(h) = Exec(Statement("merge", v))
                /\ Tail(h) # <<>> /\ Tail(h)[1] = [do |-> "put", conv |-> [Fresh EXCEPT !.synced = v]]
                /\ MergingOrDone(Tail(Tail(h)))
    BY <2>1, <2>3, <2>7, <2>10 DEF h
  <2>11. CASE \E n \in 0..MaxSeq :
                /\ Head(h) = Exec(Statement("raise", n))
                /\ Tail(h) = <<[do |-> "raise", n |-> n], Does("write")>>
    BY <2>1, <2>3, <2>8, <2>11 DEF h
  <2> QED BY <2>4, <2>5, <2>6, <2>9, <2>10, <2>11 DEF Opening
<1>3. CASE Asking(t) \/ Filling(t) \/ Writing(t) \/ Saving(t) \/ Deleting(t) \/ RaisedWrite(t)
  <2>1. \/ h = <<Does("ask")>> /\ Asking(t)
        \/ h = <<Does("fill")>> /\ Filling(t)
        \/ h = <<Does("write"), Does("save")>> /\ Writing(t)
        \/ h = <<Does("save")>> /\ Saving(t)
        \/ h = <<Post(Statement("delete", 0))>> /\ Deleting(t)
        \/ h = <<Does("write")>> /\ RaisedWrite(t)
    BY <1>3 DEF Asking, Filling, Writing, Saving, Deleting, RaisedWrite
  <2> HIDE DEF h
  <2>2. h # <<>> /\ h[1] = Head(h)
    <3>1. (\E a : h = <<a>>) \/ (\E a, b : h = <<a, b>>)
      BY <2>1
    <3> QED BY <3>1, Tuples
  <2>3. Head(h).do \in {"ask", "fill", "write", "save", "post"}
    <3>1. \/ \E do \in {"ask", "fill", "write", "save"} : Head(h) = Does(do)
          \/ \E x : Head(h) = Post(x)
      BY <2>1, Tuples
    <3> QED BY <1>0, <3>1
  <2>4. /\ Head(h).do = "ask" => Asking(t)
        /\ Head(h).do = "fill" => Filling(t)
        /\ Head(h).do = "write" => Writing(t) \/ RaisedWrite(t)
        /\ Head(h).do = "save" => Saving(t)
        /\ Head(h).do = "post" => Deleting(t)
    BY <1>0, <2>1, Tuples
  <2> QED BY <1>1, <2>2, <2>3, <2>4 DEF h
<1>4. CASE Clearing(t) \/ Keeping(t)
  <2>1. \E x : h = <<Post(x)>>
    BY <1>4 DEF Clearing, Keeping
  <2>2. h # <<>> /\ Head(h).do = "post" /\ h[1] = Head(h)
    BY <1>0, <2>1, Tuples
  <2> QED BY <1>1, <1>4, <2>2
<1>5. CASE Showing(t)
  <2>1. PICK c \in NewConvs : h # <<>> /\ h[1] = [do |-> "put", conv |-> c]
    BY <1>5 DEF Showing
  <2>2. Head(h) = h[1] /\ Head(h).do = "put"
    BY <1>0, <2>1 DEF Handlers
  <2> QED BY <1>1, <1>5, <2>1, <2>2
<1>6. CASE Raising(t)
  <2>1. PICK n \in 0..MaxSeq : h = <<[do |-> "raise", n |-> n], Does("write")>>
    BY <1>6 DEF Raising
  <2>2. h # <<>> /\ Head(h) = h[1] /\ Head(h).do = "raise"
    BY <1>0, <2>1, Tuples
  <2> QED BY <1>1, <1>6, <2>2
<1> QED BY <1>2, <1>3, <1>4, <1>5, <1>6 DEF Midway

-----------------------------------------------------------------------------
(***************************************************************************)
(* The accesses of the one handler that is midway.                         *)
(***************************************************************************)
\* Whoever is about to touch the conversation is midway, and alone with it.
LEMMA AloneMidway ==
    ASSUME Inv, Through, NEW t \in Workers, NEW kinds, Turn(t, kinds),
           kinds \cap {"insert", "mark", "withdraw"} = {}
    PROVE  /\ Midway(t) /\ Touches(todo[t])
           /\ todo[t] \in Handlers /\ Head(todo[t]).do \in kinds
           /\ \A i \in DOMAIN queue : queue[i].statement.what # "query"
<1>1. todo[t] \in Handlers /\ todo[t] # <<>> /\ Head(todo[t]).do \in kinds
  BY NextAccess
<1>2. Touches(todo[t])
  <2>1. 1 \in DOMAIN todo[t] /\ todo[t][1] = Head(todo[t])
    BY <1>1 DEF Handlers
  <2> QED BY <1>1, <2>1 DEF Touches
<1>3. ASSUME NEW i \in DOMAIN queue, queue[i].statement.what = "query"
      PROVE  FALSE
  <2>1. PICK u \in Workers : queue[i].by = u /\ todo[u] \in {<<Does("ask")>>, <<Does("fill")>>}
    BY <1>3 DEF Through, QueriesLast
  <2>2. 1 \in DOMAIN todo[u] /\ todo[u][1].do \in {"ask", "fill"}
    BY <2>1 DEF Does
  <2>3. Touches(todo[u])
    BY <2>2 DEF Touches
  <2>4. u = t
    BY <1>2, <2>3 DEF Through
  <2> QED BY <2>1, <2>4 DEF Turn, Waiting
<1> QED BY <1>1, <1>2, <1>3 DEF Through

\* When it has made its access the others are where they were: not in the way.
LEMMA MovedOn ==
    ASSUME Inv, Through, NEW t \in Workers, Touches(todo[t]), NEW h \in Handlers,
           todo' = [todo EXCEPT ![t] = h],
           Midway(t)' \/ (h = <<>> /\ Agreed'), QueriesLast'
    PROVE  Through'
<1>1. todo'[t] = h /\ \A u \in Workers \ {t} : todo'[u] = todo[u] /\ ~Touches(todo'[u])
  BY DEF Inv, Typed, Through
<1>2. ~Touches(<<>>)
  BY DEF Touches
<1>3. \A u, w \in Workers : Touches(todo'[u]) /\ Touches(todo'[w]) => u = w
  BY <1>1
<1>4. Touches(h) => Midway(t)'
  BY <1>2
<1>5. ~Touches(h) => Agreed'
  <2>1. CASE h = <<>> /\ Agreed'
    BY <2>1
  <2>2. CASE Midway(t)'
    <3>1. \A a : a.do \notin {"insert", "mark", "withdraw"} =>
                Touches(<<a>>) /\ \A b : Touches(<<a, b>>)
      BY DEF Touches
    <3>2. \A a : Does(a).do = a /\ Post(a).do = "post"
      BY DEF Does, Post
    <3>3. CASE Starting(t)' \/ Asking(t)'
      BY <1>1, <3>1, <3>2, <3>3, UnstartedShape DEF Starting, Asking
    <3>4. CASE \/ Filling(t)' \/ Writing(t)' \/ Saving(t)' \/ Deleting(t)' \/ Clearing(t)' \/ Keeping(t)'
               \/ RaisedWrite(t)'
      <4>1. \/ h = <<Does("fill")>> \/ h = <<Does("write"), Does("save")>> \/ h = <<Does("save")>>
            \/ h = <<Does("write")>> \/ \E x : h = <<Post(x)>>
        BY <1>1, <3>4 DEF Filling, Writing, Saving, Deleting, Clearing, Keeping, RaisedWrite
      <4> QED BY <3>1, <3>2, <4>1
    <3>5. CASE Showing(t)'
      <4>1. h # <<>> /\ h[1].do = "put"
        BY <1>1, <3>5 DEF Showing
      <4>2. 1 \in DOMAIN h
        BY <4>1 DEF Handlers
      <4> QED BY <4>1, <4>2 DEF Touches
    <3>6. CASE Raising(t)'
      <4>1. PICK n \in 0..MaxSeq : h = <<[do |-> "raise", n |-> n], Does("write")>>
        BY <1>1, <3>6 DEF Raising
      <4> QED BY <3>1, <4>1
    <3> QED BY <2>2, <3>3, <3>4, <3>5, <3>6 DEF Midway
  <2> QED BY <2>1, <2>2
<1> QED BY <1>1, <1>3, <1>4, <1>5 DEF Through

\* What the row will be after one more statement.
LEMMA Posted ==
    ASSUME Inv, NEW by, NEW s, Enqueue(by, s), row' = row
    PROVE  /\ \A e \in Ends(row', queue') : \E before \in Ends(row, queue) :
                 Harmless(s, before) /\ e \in Outcomes(s, before)
           /\ \A c : s = PutRow(c) => \A e \in Ends(row', queue') : e = c
<1>1. queue \in Queues /\ row \in Maybe /\ queue' = Append(queue, [by |-> by, statement |-> s])
  BY DEF Inv, Typed, Queues, Enqueue
<1>2. \A e \in Ends(row', queue') : \E before \in Ends(row, queue) :
         Harmless(s, before) /\ e \in Outcomes(s, before)
  BY <1>1, EndsOfPost
<1>3. \A c, before : s = PutRow(c) => Outcomes(s, before) = {c}
  BY DEF Outcomes, Applied, PutRow
<1> QED BY <1>2, <1>3

\* No statement but a query is asked for, and it is the last.
LEMMA QueriesStayLast ==
    ASSUME Inv, NEW t \in Workers, NEW by, NEW s, Enqueue(by, s),
           \A i \in DOMAIN queue : queue[i].statement.what # "query",
           s.what # "query" \/ (by = t /\ todo'[t] \in {<<Does("ask")>>, <<Does("fill")>>})
    PROVE  QueriesLast'
<1> DEFINE n == Len(queue)
<1>1. /\ queue' = Append(queue, [by |-> by, statement |-> s])
      /\ n \in Nat /\ DOMAIN queue = 1..n /\ DOMAIN queue' = 1..(n + 1) /\ Len(queue') = n + 1
      /\ queue'[n + 1] = [by |-> by, statement |-> s] /\ \A i \in 1..n : queue'[i] = queue[i]
  BY DEF Inv, Typed, Enqueue
<1> HIDE DEF n
<1>2. ASSUME NEW i \in DOMAIN queue', queue'[i].statement.what = "query"
      PROVE  /\ i = Len(queue') /\ queue'[i].by \in Workers
             /\ todo'[queue'[i].by] \in {<<Does("ask")>>, <<Does("fill")>>}
  <2>1. i = n + 1
    <3>1. i \in 1..n => queue'[i].statement.what # "query"
      BY <1>1
    <3> QED BY <1>1, <1>2, <3>1
  <2> QED BY <1>1, <1>2, <2>1
<1> QED BY <1>2 DEF QueriesLast

\* A statement is posted, or given to the worker to wait for.
LEMMA GiveGoesThrough == ASSUME Inv, Through, NEW t \in Workers, Give(t) PROVE Through'
<1> DEFINE s == Head(todo[t])
           h == Tail(todo[t])
<1>1. /\ Turn(t, {"exec", "post"}) /\ todo' = [todo EXCEPT ![t] = h]
      /\ Enqueue(IF s.do = "exec" THEN t ELSE "none", s.statement)
      /\ row' = row /\ cached' = cached /\ held' = held
  BY DEF Give, Advance
<1>2. /\ Midway(t) /\ Touches(todo[t]) /\ todo[t] \in Handlers /\ s.do \in {"exec", "post"}
      /\ \A i \in DOMAIN queue : queue[i].statement.what # "query"
  BY <1>1, AloneMidway
<1>3. todo[t] # <<>>
  BY <1>2, Place
<1>4. h \in Handlers
  BY <1>2, <1>3 DEF Handlers
<1>5. todo'[t] = h
  BY <1>1 DEF Inv, Typed
<1> DEFINE x == s.statement
<1>6. /\ \A e \in Ends(row', queue') : \E before \in Ends(row, queue) :
            Harmless(x, before) /\ e \in Outcomes(x, before)
      /\ \A c : x = PutRow(c) => \A e \in Ends(row', queue') : e = c
  BY <1>1, Posted
<1>7. ASSUME x.what # "query" \/ (s.do = "exec" /\ h \in {<<Does("ask")>>, <<Does("fill")>>}),
             Midway(t)' \/ (h = <<>> /\ Agreed')
      PROVE  Through'
  <2>1. QueriesLast'
    BY <1>1, <1>2, <1>5, <1>7, QueriesStayLast
  <2> QED BY <1>1, <1>2, <1>4, <1>7, <2>1, MovedOn
<1>8. CASE Deleting(t)
  <2>1. cached' = None /\ s = Post(Statement("delete", 0)) /\ h = <<>>
    BY <1>1, <1>8, Tuples DEF Deleting
  <2>2. x.what # "query"
    BY <2>1 DEF Post, Statement
  <2> QED BY <1>7, <2>1, <2>2 DEF Agreed
<1>9. CASE Clearing(t)
  <2>1. /\ s = Post(Statement("clear", 0)) /\ h = <<>>
        /\ cached # None => \A e \in Ends(row, queue) : e # None /\ [e EXCEPT !.synced = 0] = cached
    BY <1>9, Tuples DEF Clearing
  <2>2. x = Statement("clear", 0) /\ x.what = "clear"
    BY <2>1 DEF Post, Statement
  <2>3. \A before : before # None => Outcomes(x, before) = {[before EXCEPT !.synced = 0]}
    BY <2>2 DEF Outcomes, Applied
  <2>4. cached # None => \A e \in Ends(row', queue') : e = cached
    <3> HIDE DEF x
    <3> QED BY <1>6, <2>1, <2>3
  <2> QED BY <1>1, <1>7, <2>1, <2>2, <2>4 DEF Agreed, WillBe
<1>10. CASE Keeping(t)
  <2>1. PICK c \in NewConvs : s = Post(PutRow(c)) /\ h = <<>> /\ cached = c
    BY <1>10, Tuples DEF Keeping
  <2>2. x = PutRow(c) /\ x.what # "query"
    BY <2>1 DEF Post, PutRow
  <2> QED BY <1>1, <1>6, <1>7, <2>1, <2>2 DEF Agreed, WillBe
<1>11. ASSUME NEW c \in NewConvs, x = PutRow(c), h = <<[do |-> "put", conv |-> c]>>
       PROVE  Through'
  <2>1. x.what # "query"
    BY <1>11 DEF PutRow
  <2>2. h # <<>> /\ h[1] = [do |-> "put", conv |-> c] /\ Tail(h) = <<>>
    BY <1>11, Tuples
  <2> HIDE DEF h, x
  <2>3. Showing(t)'
    BY <1>5, <1>6, <1>11, <2>2 DEF Showing, WillBe, MergingOrDone
  <2> QED BY <1>7, <2>1, <2>3 DEF Midway
<1>12. ASSUME Agreed, s.do = "exec", x = Statement("query", 0), h \in {<<Does("ask")>>, <<Does("fill")>>}
       PROVE  Through'
  <2>1. \A before : Outcomes(x, before) = {before}
    BY <1>12 DEF Outcomes, Applied, Statement
  <2> HIDE DEF h
  <2>2. Agreed'
    <3> HIDE DEF x
    <3> QED BY <1>1, <1>6, <1>12, <2>1 DEF Agreed, WillBe
  <2>3. Querying(t)'
    <3>1. /\ Len(queue) + 1 \in DOMAIN queue' /\ queue'[Len(queue) + 1] = [by |-> t, statement |-> x]
      BY <1>1, <1>12 DEF Enqueue, Inv, Typed
    <3> QED BY <1>12, <3>1 DEF Querying, Statement
  <2> QED BY <1>5, <1>7, <1>12, <2>2, <2>3 DEF Midway, Asking, Filling
<1>13. ASSUME Agreed, NEW v \in Values, x = Statement("merge", v), h # <<>>,
              h[1] = [do |-> "put", conv |-> [Fresh EXCEPT !.synced = v]], MergingOrDone(Tail(h))
       PROVE  Through'
  <2> DEFINE c == [Fresh EXCEPT !.synced = v]
  <2>1. c \in NewConvs
    BY ConversationFacts
  <2>2. \A before : Harmless(x, before) => Outcomes(x, before) = {c}
    BY <1>13 DEF Harmless, Outcomes, Applied, Statement, Fresh
  <2>3. x.what # "query"
    BY <1>13 DEF Statement
  <2> HIDE DEF x, c, h
  <2>4. WillBe(c)'
    BY <1>6, <2>2 DEF WillBe
  <2>5. Showing(t)'
    BY <1>5, <1>13, <2>1, <2>4 DEF Showing, c
  <2> QED BY <1>7, <2>3, <2>5 DEF Midway
<1>14. ASSUME Agreed, NEW n \in 0..MaxSeq, x = Statement("raise", n),
              h = <<[do |-> "raise", n |-> n], Does("write")>>
       PROVE  Through'
  <2>1. \A before : before # None =>
           Outcomes(x, before) = {[before EXCEPT !.local_seq = Larger(before.local_seq, n)]}
    BY <1>14 DEF Outcomes, Applied, Statement
  <2>2. x.what # "query"
    BY <1>14 DEF Statement
  <2> HIDE DEF x, h
  <2>3. cached' # None => WillBe([cached EXCEPT !.local_seq = Larger(cached.local_seq, n)])'
    BY <1>1, <1>6, <1>14, <2>1 DEF Agreed, WillBe
  <2>4. Raising(t)'
    BY <1>5, <1>14, <2>3 DEF Raising
  <2> QED BY <1>7, <2>2, <2>4 DEF Midway
<1> HIDE DEF s, h, x
<1>15. CASE s.do = "post"
  <2>1. \/ Deleting(t) \/ Clearing(t) \/ Keeping(t)
        \/ \E c \in NewConvs : x = PutRow(c) /\ h = <<[do |-> "put", conv |-> c]>>
    BY <1>2, <1>15, Place DEF s, h, x
  <2> QED BY <1>8, <1>9, <1>10, <1>11, <2>1
<1>16. CASE s.do = "exec"
  <2>1. /\ Agreed
        /\ \/ x = Statement("query", 0) /\ h \in {<<Does("ask")>>, <<Does("fill")>>}
           \/ \E v \in Values :
                 /\ x = Statement("merge", v)
                 /\ h # <<>> /\ h[1] = [do |-> "put", conv |-> [Fresh EXCEPT !.synced = v]]
                 /\ MergingOrDone(Tail(h))
           \/ \E n \in 0..MaxSeq :
                 x = Statement("raise", n) /\ h = <<[do |-> "raise", n |-> n], Does("write")>>
    BY <1>2, <1>16, Place DEF s, h, x
  <2> QED BY <1>12, <1>13, <1>14, <1>16, <2>1
<1> QED BY <1>2, <1>15, <1>16

\* An access that gives the worker nothing leaves the queue as it was.
LEMMA QueueStays ==
    ASSUME \A i \in DOMAIN queue : queue[i].statement.what # "query", queue' = queue
    PROVE  QueriesLast'
BY DEF QueriesLast

\* The cached conversation is read, and what is to be written computed.
LEMMA ReadGoesThrough == ASSUME Inv, Through, NEW t \in Workers, ReadCached(t) PROVE Through'
<1> DEFINE s == Head(todo[t])
           c == Changed(s, cached)
           only == s.do = "learn" /\ cached = None /\ s.n > 0
<1>1. /\ Turn(t, {"patch", "create", "raise", "learn"})
      /\ held' = [held EXCEPT ![t] = c]
      /\ todo' = [todo EXCEPT ![t] = IF c = None THEN <<>> ELSE Tail(todo[t])]
      /\ only => Enqueue("none", Statement("raise", s.n))
      /\ ~only => queue' = queue
      /\ row' = row /\ cached' = cached
  BY DEF ReadCached, Stop, Advance
<1>2. /\ Midway(t) /\ Touches(todo[t]) /\ todo[t] \in Handlers
      /\ s.do \in {"patch", "create", "raise", "learn"}
      /\ \A i \in DOMAIN queue : queue[i].statement.what # "query"
  BY <1>1, AloneMidway
<1>3. todo[t] # <<>> /\ Tail(todo[t]) \in Handlers /\ <<>> \in Handlers
  <2>1. todo[t] # <<>>
    BY <1>2, Place
  <2> QED BY <1>2, <2>1 DEF Handlers
<1>4. held'[t] = c
  BY <1>1 DEF Inv, Typed
<1>5. c # None => cached # None \/ s.do = "create"
  BY <1>2 DEF Changed
<1>6. c = None => todo'[t] = <<>> /\ todo' = [todo EXCEPT ![t] = <<>>]
  BY <1>1 DEF Inv, Typed
<1>7. c # None => todo'[t] = Tail(todo[t]) /\ todo' = [todo EXCEPT ![t] = Tail(todo[t])]
  BY <1>1 DEF Inv, Typed
<1>8. QueriesLast'
  <2>1. CASE only
    <3>1. Statement("raise", s.n).what # "query"
      BY DEF Statement
    <3> QED BY <1>1, <1>2, <2>1, <3>1, QueriesStayLast
  <2>2. CASE ~only
    BY <1>1, <1>2, <2>2, QueueStays
  <2> QED BY <2>1, <2>2
<1>9. CASE s.do # "raise"
  <2>1. Agreed /\ Tail(todo[t]) = <<Does("write"), Does("save")>>
    BY <1>2, <1>9, Place
  <2>2. CASE c = None
    <3>1. Agreed'
      <4>1. CASE only
        BY <1>1, <4>1 DEF Agreed
      <4>2. CASE ~only
        BY <1>1, <2>1, <4>2 DEF Agreed, WillBe
      <4> QED BY <4>1, <4>2
    <3> QED BY <1>2, <1>3, <1>6, <1>8, <2>2, <3>1, MovedOn
  <2>3. CASE c # None
    <3>1. Writing(t)'
      BY <1>4, <1>7, <2>1, <2>3 DEF Writing
    <3> QED BY <1>2, <1>3, <1>7, <1>8, <2>3, <3>1, MovedOn DEF Midway
  <2> QED BY <2>2, <2>3
<1>10. CASE s.do = "raise"
  <2>1. PICK n \in 0..MaxSeq :
           /\ todo[t] = <<[do |-> "raise", n |-> n], Does("write")>>
           /\ cached # None => WillBe([cached EXCEPT !.local_seq = Larger(cached.local_seq, n)])
    BY <1>2, <1>10, Place DEF Raising
  <2>2. s = [do |-> "raise", n |-> n] /\ Tail(todo[t]) = <<Does("write")>> /\ s.n = n
    BY <2>1, Tuples
  <2>3. c = IF cached = None \/ n <= cached.local_seq THEN None ELSE [cached EXCEPT !.local_seq = n]
    BY <1>10, <2>2 DEF Changed
  <2>4. ~only
    BY <1>10
  <2>5. cached # None => cached \in Conversations /\ cached.local_seq \in Nat
    BY DEF Inv, Typed, Maybe, Conversations
  <2>6. CASE c = None
    <3>1. cached # None => [cached EXCEPT !.local_seq = Larger(cached.local_seq, n)] = cached
      <4> SUFFICES ASSUME cached # None
                   PROVE  [cached EXCEPT !.local_seq = Larger(cached.local_seq, n)] = cached
        OBVIOUS
      <4>1. n <= cached.local_seq
        <5>1. cached \in Conversations
          BY <2>5
        <5>2. [cached EXCEPT !.local_seq = n] # None
          BY <5>1, ConversationChanged, ConversationFacts
        <5> QED BY <2>3, <2>6, <5>2
      <4>2. Larger(cached.local_seq, n) = cached.local_seq
        BY <2>5, <4>1 DEF Larger
      <4> QED BY <2>5, <4>2 DEF Conversations
    <3>2. Agreed'
      BY <1>1, <2>1, <2>4, <3>1 DEF Agreed, WillBe
    <3> QED BY <1>2, <1>3, <1>6, <1>8, <2>6, <3>2, MovedOn
  <2>7. CASE c # None
    <3>1. cached # None /\ c = [cached EXCEPT !.local_seq = n] /\ Larger(cached.local_seq, n) = n
      <4>1. cached # None /\ ~(n <= cached.local_seq)
        BY <2>3, <2>7
      <4> QED BY <2>3, <2>5, <4>1 DEF Larger
    <3>2. RaisedWrite(t)'
      BY <1>1, <1>4, <1>7, <2>1, <2>2, <2>4, <2>7, <3>1 DEF RaisedWrite, WillBe
    <3> QED BY <1>2, <1>3, <1>7, <1>8, <2>7, <3>2, MovedOn DEF Midway
  <2> QED BY <2>6, <2>7
<1> QED BY <1>9, <1>10

\* The copy is written to the cache: before the row, or after it.
LEMMA WriteGoesThrough == ASSUME Inv, Through, NEW t \in Workers, WriteCached(t) PROVE Through'
<1>1. /\ Turn(t, {"write"}) /\ cached' = held[t] /\ todo' = [todo EXCEPT ![t] = Tail(todo[t])]
      /\ Len(todo[t]) # 1 => held' = held
      /\ row' = row /\ queue' = queue
  BY DEF WriteCached, Advance, Release
<1>2. /\ Midway(t) /\ Touches(todo[t]) /\ todo[t] \in Handlers /\ Head(todo[t]).do \in {"write"}
      /\ \A i \in DOMAIN queue : queue[i].statement.what # "query"
  BY <1>1, AloneMidway
<1>3. todo[t] # <<>> /\ (Writing(t) \/ RaisedWrite(t))
  BY <1>2, Place
<1>4. Tail(todo[t]) \in Handlers /\ todo'[t] = Tail(todo[t])
  BY <1>1, <1>2, <1>3 DEF Handlers, Inv, Typed
<1>5. CASE Writing(t)
  <2>1. Tail(todo[t]) = <<Does("save")>> /\ Len(todo[t]) = 2 /\ held[t] # None
    BY <1>5, Tuples DEF Writing
  <2>2. todo'[t] = <<Does("save")>>
    BY <1>4, <2>1
  <2>3. held' = held /\ cached' = held[t]
    BY <1>1, <2>1
  <2>4. Saving(t)'
    BY <2>1, <2>2, <2>3 DEF Saving
  <2> QED BY <1>1, <1>2, <1>4, <2>4, QueueStays, MovedOn DEF Midway
<1>6. CASE RaisedWrite(t)
  <2>1. Tail(todo[t]) = <<>> /\ WillBe(held[t])
    BY <1>6, Tuples DEF RaisedWrite
  <2>2. Agreed'
    BY <1>1, <2>1 DEF Agreed, WillBe
  <2> QED BY <1>1, <1>2, <1>4, <2>1, <2>2, QueueStays, MovedOn
<1> QED BY <1>3, <1>5, <1>6

\* And then to the row.
LEMMA SaveGoesThrough == ASSUME Inv, Through, NEW t \in Workers, SaveRow(t) PROVE Through'
<1>1. /\ Turn(t, {"save"}) /\ Enqueue("none", PutRow(held[t])) /\ todo' = [todo EXCEPT ![t] = Tail(todo[t])]
      /\ row' = row /\ cached' = cached
  BY DEF SaveRow, Advance
<1>2. /\ Midway(t) /\ Touches(todo[t]) /\ todo[t] \in Handlers /\ Head(todo[t]).do \in {"save"}
      /\ \A i \in DOMAIN queue : queue[i].statement.what # "query"
  BY <1>1, AloneMidway
<1>3. todo[t] # <<>> /\ Saving(t)
  BY <1>2, Place
<1>4. Tail(todo[t]) = <<>> /\ cached = held[t]
  BY <1>3, Tuples DEF Saving
<1>5. Agreed'
  BY <1>1, <1>4, Posted DEF Agreed, WillBe
<1>6. PutRow(held[t]).what # "query"
  BY DEF PutRow
<1>7. QueriesLast'
  BY <1>1, <1>2, <1>6, QueriesStayLast
<1>8. <<>> \in Handlers
  BY DEF Handlers
<1> QED BY <1>1, <1>2, <1>4, <1>5, <1>7, <1>8, MovedOn

\* A conversation is put into the cache, taken out of it, or marked as read there.
LEMMA CacheGoesThrough ==
    ASSUME Inv, Through, NEW t \in Workers, PutCached(t) \/ RemoveCached(t) \/ ClearCached(t)
    PROVE  Through'
<1> DEFINE s == Head(todo[t])
           h == Tail(todo[t])
<1>1. /\ Turn(t, {"put", "remove", "clear"}) /\ todo' = [todo EXCEPT ![t] = h]
      /\ row' = row /\ queue' = queue /\ held' = held
      /\ s.do = "put" => cached' = s.conv
      /\ s.do = "remove" => cached' = None
      /\ s.do = "clear" => cached' = IF cached = None THEN None ELSE [cached EXCEPT !.synced = 0]
  BY DEF PutCached, RemoveCached, ClearCached, Advance, Turn
<1>2. /\ Midway(t) /\ Touches(todo[t]) /\ todo[t] \in Handlers /\ s.do \in {"put", "remove", "clear"}
      /\ \A i \in DOMAIN queue : queue[i].statement.what # "query"
  BY <1>1, AloneMidway
<1>3. todo[t] # <<>>
  BY <1>2, Place
<1>4. h \in Handlers /\ todo'[t] = h
  BY <1>1, <1>2, <1>3 DEF Handlers, Inv, Typed
<1>5. QueriesLast'
  BY <1>1, <1>2, QueueStays
<1>6. ASSUME Midway(t)' \/ (h = <<>> /\ Agreed')
      PROVE  Through'
  BY <1>1, <1>2, <1>4, <1>5, <1>6, MovedOn
<1>7. CASE Showing(t) /\ s.do = "put"
  <2>1. PICK c \in NewConvs : todo[t][1] = [do |-> "put", conv |-> c] /\ MergingOrDone(h) /\ WillBe(c)
    BY <1>7 DEF Showing
  <2>2. s = todo[t][1]
    BY <1>2, <1>3 DEF Handlers
  <2>3. s.conv = c
    BY <2>1, <2>2
  <2> HIDE DEF s, h
  <2>4. Agreed'
    BY <1>1, <1>7, <2>1, <2>3 DEF Agreed, WillBe
  <2>5. h # <<>> => Starting(t)'
    BY <1>4, <2>1, <2>4 DEF MergingOrDone, Starting, Unstarted
  <2> QED BY <1>6, <2>4, <2>5 DEF Midway
<1>8. ASSUME NEW c \in NewConvs, s.do = "put", s.conv = c, h = <<Post(PutRow(c))>>
      PROVE  Through'
  <2> HIDE DEF s, h
  <2>1. Keeping(t)'
    BY <1>1, <1>4, <1>8 DEF Keeping
  <2> QED BY <1>6, <2>1 DEF Midway
<1>9. CASE s.do = "remove"
  <2>1. h = <<Post(Statement("delete", 0))>>
    BY <1>2, <1>9, Place
  <2> HIDE DEF s, h
  <2>2. Deleting(t)'
    BY <1>1, <1>4, <1>9, <2>1 DEF Deleting
  <2> QED BY <1>6, <2>2 DEF Midway
<1>10. CASE s.do = "clear"
  <2>1. h = <<Post(Statement("clear", 0))>> /\ Agreed
    BY <1>2, <1>10, Place
  <2> HIDE DEF s, h
  <2>2. Clearing(t)'
    BY <1>1, <1>4, <1>10, <2>1 DEF Clearing, Agreed, WillBe
  <2> QED BY <1>6, <2>2 DEF Midway
<1>11. s.do = "put" => Showing(t) \/ \E c \in NewConvs : s.conv = c /\ h = <<Post(PutRow(c))>>
  BY <1>2, Place
<1> HIDE DEF s, h
<1> QED BY <1>2, <1>7, <1>8, <1>9, <1>10, <1>11

\* sync() or getConversationList goes on with the rows it has read.
LEMMA AskGoesThrough == ASSUME Inv, Through, NEW t \in Workers, Ask(t) PROVE Through'
<1>1. /\ Turn(t, {"ask"}) /\ todo' = [todo EXCEPT ![t] = Tail(todo[t])]
      /\ row' = row /\ queue' = queue /\ cached' = cached
  BY DEF Ask, Advance
<1>2. /\ Midway(t) /\ Touches(todo[t]) /\ todo[t] \in Handlers /\ Head(todo[t]).do \in {"ask"}
      /\ \A i \in DOMAIN queue : queue[i].statement.what # "query"
  BY <1>1, AloneMidway
<1>3. Asking(t)
  BY <1>2, Place
<1>4. Tail(todo[t]) = <<>> /\ Agreed
  BY <1>3, Tuples DEF Asking
<1>5. Agreed' /\ <<>> \in Handlers
  BY <1>1, <1>4 DEF Agreed, WillBe, Handlers
<1> QED BY <1>1, <1>2, <1>4, <1>5, QueueStays, MovedOn

\* The rows, if there are any, become the cache.
LEMMA FillGoesThrough == ASSUME Inv, Through, NEW t \in Workers, Fill(t) PROVE Through'
<1>1. /\ Turn(t, {"fill"}) /\ todo' = [todo EXCEPT ![t] = Tail(todo[t])]
      /\ row' = row /\ queue' = queue
      /\ cached' = IF held[t] = None THEN cached ELSE held[t]
  BY DEF Fill, Advance
<1>2. /\ Midway(t) /\ Touches(todo[t]) /\ todo[t] \in Handlers /\ Head(todo[t]).do \in {"fill"}
      /\ \A i \in DOMAIN queue : queue[i].statement.what # "query"
  BY <1>1, AloneMidway
<1>3. Filling(t)
  BY <1>2, Place
<1>4. Tail(todo[t]) = <<>> /\ Agreed /\ (held[t] = None \/ WillBe(held[t]))
  BY <1>2, <1>3, Tuples DEF Filling, Querying
<1>5. Agreed' /\ <<>> \in Handlers
  BY <1>1, <1>4 DEF Agreed, WillBe, Handlers
<1> QED BY <1>1, <1>2, <1>4, <1>5, QueueStays, MovedOn

-----------------------------------------------------------------------------
(***************************************************************************)
(* Handlers that go past the conversation, and those that are begun.       *)
(***************************************************************************)
\* A thread that is not disturbed is where it was.
LEMMA Undisturbed ==
    ASSUME NEW u \in Workers, Midway(u), todo'[u] = todo[u], UNCHANGED <<cached, row, queue, held>>
    PROVE  Midway(u)'
<1> USE DEF Agreed, WillBe
<1>1. CASE Starting(u) \/ Asking(u) \/ Filling(u) \/ Writing(u) \/ Saving(u)
  BY <1>1 DEF Midway, Starting, Asking, Filling, Writing, Saving, Querying
<1>2. CASE Deleting(u) \/ Clearing(u) \/ Keeping(u)
  BY <1>2 DEF Midway, Deleting, Clearing, Keeping
<1>3. CASE Showing(u)
  BY <1>3 DEF Midway, Showing
<1>4. CASE Raising(u) \/ RaisedWrite(u)
  BY <1>4 DEF Midway, Raising, RaisedWrite
<1> QED BY <1>1, <1>2, <1>3, <1>4 DEF Midway

\* A handler that does not touch the conversation disturbs nobody.
LEMMA Aside ==
    ASSUME Inv, Through, NEW t \in Workers, ~Touches(todo[t]), NEW h \in Handlers, ~Touches(h),
           todo' = [todo EXCEPT ![t] = h], UNCHANGED <<cached, row, queue, held>>
    PROVE  Through'
<1>1. todo'[t] = h /\ \A u \in Workers \ {t} : todo'[u] = todo[u]
  BY DEF Inv, Typed
<1>2. \A u, w \in Workers : Touches(todo'[u]) /\ Touches(todo'[w]) => u = w
  BY <1>1 DEF Through
<1>3. ASSUME NEW u \in Workers, Touches(todo'[u])
      PROVE  Midway(u)'
  <2>1. u # t
    BY <1>1, <1>3
  <2> QED BY <1>1, <1>3, <2>1, Undisturbed DEF Through
<1>4. (\A u \in Workers : ~Touches(todo'[u])) => Agreed'
  BY <1>1 DEF Through, Agreed, WillBe
<1>5. QueriesLast'
  <2>1. Touches(<<Does("ask")>>) /\ Touches(<<Does("fill")>>)
    BY DEF Touches, Does
  <2> QED BY <1>1, <2>1 DEF Through, QueriesLast
<1> QED BY <1>2, <1>3, <1>4, <1>5 DEF Through

\* The accesses to the message cache.
LEMMA MessagesGoThrough ==
    ASSUME Inv, Through, NEW t \in Workers, InsertMessage(t) \/ MarkMessage(t) \/ UpdateOrInsert(t)
    PROVE  Through'
<1>1. /\ Turn(t, {"insert", "mark", "withdraw"})
      /\ Head(todo[t]).do = "insert" => todo' = [todo EXCEPT ![t] = Tail(todo[t])]
      /\ Head(todo[t]).do # "insert" =>
            \/ todo' = [todo EXCEPT ![t] = Tail(todo[t])]
            \/ \E n : todo' = [todo EXCEPT ![t] = IF n \in DOMAIN bucket THEN <<>>
                                                  ELSE <<InsertMsg(n, "withdrawn")>>]
      /\ UNCHANGED <<cached, row, queue, held>>
  BY DEF InsertMessage, MarkMessage, UpdateOrInsert, Advance, Turn
<1>2. todo[t] \in Handlers /\ todo[t] # <<>> /\ todo' \in [Workers -> Handlers]
  <2>1. Inv'
    BY InsertMessageKeeps, MarksKeep
  <2> QED BY <1>1, <2>1, NextAccess DEF Inv, Typed
<1>3. CASE Touches(todo[t])
  <2>1. Midway(t)
    BY <1>3 DEF Through
  <2>2. Head(todo[t]).do = "insert" /\ Agreed /\ Unstarted(Tail(todo[t]))
    BY <1>1, <1>2, <2>1, Place DEF Turn
  <2>3. todo'[t] = Tail(todo[t]) /\ Tail(todo[t]) \in Handlers
    BY <1>1, <1>2, <2>2 DEF Inv, Typed
  <2>4. Starting(t)'
    BY <1>1, <2>2, <2>3 DEF Starting, Agreed, WillBe
  <2>5. QueriesLast'
    <3>1. \A x : <<Does(x)>> # <<>> /\ Head(<<Does(x)>>).do = x
      BY DEF Does
    <3>2. todo[t] \notin {<<Does("ask")>>, <<Does("fill")>>}
      BY <2>2, <3>1
    <3>3. \A u \in Workers : u # t => todo'[u] = todo[u]
      BY <1>1, <2>2 DEF Inv, Typed
    <3> QED BY <1>1, <3>2, <3>3 DEF Through, QueriesLast
  <2> QED BY <1>1, <1>3, <2>2, <2>3, <2>4, <2>5, MovedOn DEF Midway
<1>4. CASE ~Touches(todo[t])
  <2>1. ~Touches(Tail(todo[t])) /\ Tail(todo[t]) \in Handlers
    <3>1. \A i \in DOMAIN Tail(todo[t]) : i + 1 \in DOMAIN todo[t] /\ Tail(todo[t])[i] = todo[t][i + 1]
      BY <1>2 DEF Handlers
    <3> QED BY <1>2, <1>4, <3>1 DEF Touches, Handlers
  <2>2. ~Touches(<<>>) /\ \A n : ~Touches(<<InsertMsg(n, "withdrawn")>>)
    BY DEF Touches, InsertMsg
  <2>3. PICK h : todo' = [todo EXCEPT ![t] = h] /\ ~Touches(h)
    BY <1>1, <2>1, <2>2
  <2>4. h \in Handlers
    BY <1>2, <2>3 DEF Inv, Typed
  <2> QED BY <1>1, <1>4, <2>3, <2>4, Aside
<1> QED BY <1>3, <1>4

\* A handler is begun: past the conversation, or when nobody else is midway.
LEMMA BegunGoesThrough ==
    ASSUME Inv, Through, NEW t \in Workers, NEW h \in Handlers, Begin(t, h), ~parted',
           Unstarted(h) \/ ~Touches(h)
    PROVE  Through'
<1>1. /\ todo[t] = <<>> /\ todo' = [todo EXCEPT ![t] = h]
      /\ UNCHANGED <<cached, row, queue, held>>
      /\ Touches(h) => \A u \in Workers \ {t} : ~Touches(todo[u])
  BY DEF Begin, Idle
<1>2. ~Touches(todo[t])
  BY <1>1 DEF Touches
<1>3. CASE ~Touches(h)
  BY <1>1, <1>2, <1>3, Aside
<1>4. CASE Touches(h) /\ Unstarted(h)
  <2>1. \A u \in Workers : ~Touches(todo[u])
    BY <1>1, <1>2, <1>4
  <2>2. todo'[t] = h /\ \A u \in Workers \ {t} : todo'[u] = todo[u]
    BY <1>1 DEF Inv, Typed
  <2>3. Agreed'
    BY <1>1, <2>1 DEF Through, Agreed, WillBe
  <2>4. Starting(t)'
    BY <1>4, <2>2, <2>3 DEF Starting
  <2>5. QueriesLast'
    <3>1. <<Does("ask")>> # <<>> /\ <<Does("fill")>> # <<>>
      OBVIOUS
    <3> QED BY <1>1, <2>2, <3>1 DEF Through, QueriesLast
  <2>6. /\ \A u, w \in Workers : Touches(todo'[u]) /\ Touches(todo'[w]) => u = w
        /\ \A u \in Workers : Touches(todo'[u]) => Midway(u)'
    BY <2>1, <2>2, <2>4 DEF Midway
  <2> QED BY <2>3, <2>5, <2>6 DEF Through
<1> QED BY <1>3, <1>4

-----------------------------------------------------------------------------
(***************************************************************************)
(* What the handlers set out to do.                                        *)
(***************************************************************************)
\* A page of a sync inserts its messages first, and then counts them in.
LEMMA PagesMerge ==
    ASSUME NEW low \in Nat \ {0}, NEW high \in 0..MaxSeq, NEW gone
    PROVE  MergingOrDone(MergeMessages(low, high, gone))
<1> DEFINE p == MergeMessages(low, high, gone)
           ins == InsertAll(low, high, gone)
           m == high - low + 1
           q == <<Exec(Statement("raise", high)), [do |-> "raise", n |-> high], Does("write")>>
<1>1. CASE high < low
  BY <1>1 DEF MergeMessages, MergingOrDone
<1>2. CASE ~(high < low)
  <2>1. m \in Nat /\ p = ins \o q
    BY <1>2, BoundsAssumption DEF MergeMessages
  <2>2. ins \in Handlers /\ Len(ins) = m /\ \A i \in 1..m : ins[i].do = "insert"
    <3>1. ins \in Handlers
      BY PagesAreTyped
    <3> QED BY <2>1, <3>1 DEF InsertAll, InsertMsg
  <2>3. q \in Handlers /\ Len(q) = 3 /\ q[1] = Exec(Statement("raise", high))
        /\ q[2] = [do |-> "raise", n |-> high] /\ q[3] = Does("write")
    <3>1. /\ Exec(Statement("raise", high)) \in Accesses /\ [do |-> "raise", n |-> high] \in Accesses
          /\ Does("write") \in Accesses
      BY DEF Accesses, Exec, Statement, Statements, Does
    <3> QED BY <3>1 DEF Handlers
  <2> HIDE DEF p, ins, q, m
  <2>4. /\ p \in Handlers /\ DOMAIN p = 1..(m + 3)
        /\ \A i \in 1..m : p[i] = ins[i]
        /\ \A i \in 1..3 : p[m + i] = q[i]
    <3>1. /\ ins \o q \in Handlers /\ DOMAIN (ins \o q) = 1..(Len(ins) + Len(q))
          /\ \A i \in 1..Len(ins) : (ins \o q)[i] = ins[i]
          /\ \A i \in 1..Len(q) : (ins \o q)[Len(ins) + i] = q[i]
      BY <2>2, <2>3, Joined
    <3> QED BY <2>1, <2>2, <2>3, <3>1
  <2>5. Len(p) = m + 3
    BY <2>1, <2>4 DEF Handlers
  <2>6. (m + 3) - 3 = m /\ (m + 3) - 2 = m + 1 /\ (m + 3) - 1 = m + 2 /\ m + 3 >= 3
    BY <2>1
  <2>7. p[m + 1] = q[1] /\ p[m + 2] = q[2] /\ p[m + 3] = q[3]
    BY <2>4
  <2>8. Merging(p)
    BY <2>2, <2>3, <2>4, <2>5, <2>6, <2>7 DEF Merging
  <2> QED BY <2>8 DEF MergingOrDone, p
<1> QED BY <1>1, <1>2

\* The conversation of a sync's answer is merged before the page.
LEMMA SessionStarts ==
    ASSUME NEW v \in Values, NEW p \in Handlers, MergingOrDone(p)
    PROVE  Unstarted(MergeSession(v) \o p)
<1> DEFINE s == MergeSession(v)
           q == s \o p
<1>1. s \in Handlers /\ Len(s) = 2
  BY HandlersAreTyped DEF MergeSession
<1>2. p \in Seq(Accesses) /\ Len(p) \in Nat /\ DOMAIN p = 1..Len(p)
  BY DEF Handlers
<1> HIDE DEF s, q
<1>3. /\ q \in Seq(Accesses) /\ DOMAIN q = 1..(2 + Len(p))
      /\ q[1] = s[1] /\ q[2] = s[2] /\ \A i \in 1..Len(p) : q[2 + i] = p[i]
  BY <1>1, Joined DEF q, Handlers
<1>4. Len(q) = 2 + Len(p) /\ Len(q) >= 2
  BY <1>2, <1>3
<1> DEFINE t == Tail(q)
<1>5. t \in Seq(Accesses) /\ Len(t) = Len(p) + 1 /\ \A i \in 1..(Len(p) + 1) : t[i] = q[i + 1]
  BY <1>2, <1>3, <1>4
<1> HIDE DEF t
<1> DEFINE u == Tail(t)
<1>6. u \in Seq(Accesses) /\ Len(u) = Len(p) /\ \A i \in 1..Len(p) : u[i] = t[i + 1]
  BY <1>2, <1>5
<1> HIDE DEF u
<1>7. \A i \in 1..Len(p) : u[i] = p[i]
  <2> SUFFICES ASSUME NEW i \in 1..Len(p)
               PROVE  u[i] = p[i]
    OBVIOUS
  <2>1. i + 1 \in 1..(Len(p) + 1) /\ (i + 1) + 1 = 2 + i
    BY <1>2
  <2> QED BY <1>3, <1>5, <1>6, <2>1
<1>8. u = p
  BY <1>2, <1>6, <1>7, SeqEqual
<1> QED BY <1>3, <1>4, <1>8 DEF Unstarted, q, s, t, u

\* Handlers that are about messages only.
LEMMA AboutMessages ==
    /\ \A n, status : ~Touches(<<InsertMsg(n, status)>>)
    /\ \A n : ~Touches(<<[do |-> "mark", n |-> n]>>) /\ ~Touches(<<[do |-> "withdraw", n |-> n]>>)
    /\ \A low, high, gone : ~Touches(InsertAll(low, high, gone))
<1>1. \A n, status : InsertMsg(n, status).do = "insert"
  BY DEF InsertMsg
<1>2. \A n, status : ~Touches(<<InsertMsg(n, status)>>)
  BY <1>1 DEF Touches
<1>3. \A n : ~Touches(<<[do |-> "mark", n |-> n]>>) /\ ~Touches(<<[do |-> "withdraw", n |-> n]>>)
  BY DEF Touches
<1>4. ASSUME NEW low, NEW high, NEW gone
      PROVE  ~Touches(InsertAll(low, high, gone))
  <2>1. \A i \in DOMAIN InsertAll(low, high, gone) : InsertAll(low, high, gone)[i].do = "insert"
    BY <1>1 DEF InsertAll
  <2> QED BY <2>1 DEF Touches
<1> QED BY <1>2, <1>3, <1>4

\* A handler is begun that has not started, or is about messages only.
Begun == \E t \in Workers, h \in Handlers : Begin(t, h) /\ (Unstarted(h) \/ ~Touches(h))

\* The calls whose answers are handled.
LEMMA AnswersBegin ==
    ASSUME Inv,
           \/ SetField \/ MarkAllRead \/ DeleteConversation \/ GetConversation
           \/ GetMessageSequence \/ GetMessages \/ WithdrawMessage
    PROVE  Begun
<1>1. ASSUME NEW h \in Handlers, Answered(h), Unstarted(h) \/ ~Touches(h)
      PROVE  Begun
  BY <1>1 DEF Answered, Workers, Begun
<1>2. /\ \A f \in Fields, v \in Values : [do |-> "patch", field |-> f, v |-> v] \in Accesses
      /\ \A n \in 0..MaxSeq : [do |-> "learn", n |-> n] \in Accesses
  BY DEF Accesses
<1>3. CASE SetField
  <2>1. PICK f \in Fields, v \in Values : Answered(Patch(f, v))
    BY <1>3 DEF SetField
  <2>2. Unstarted(Patch(f, v))
    BY <1>2 DEF Unstarted, Patch, ChangeCached
  <2> QED BY <1>1, <2>1, <2>2, HandlersAreTyped
<1>4. CASE MarkAllRead \/ DeleteConversation
  BY <1>1, <1>4, HandlersAreTyped DEF MarkAllRead, DeleteConversation, Unstarted
<1>5. CASE GetConversation
  BY <1>1, <1>5, HandlersAreTyped, ConversationFacts DEF GetConversation, Unstarted
<1>6. CASE GetMessageSequence
  <2>1. PICK n \in 0..MaxSeq : Answered(Learn(n))
    BY <1>6 DEF GetMessageSequence
  <2>2. Unstarted(Learn(n))
    BY <1>2 DEF Unstarted, Learn
  <2> QED BY <1>1, <2>1, <2>2, HandlersAreTyped
<1>7. CASE GetMessages
  <2>1. PICK low \in 1..MaxSeq, high \in 1..MaxSeq, gone \in SUBSET (1..MaxSeq) :
          Answered(InsertAll(low, high, gone))
    BY <1>7 DEF GetMessages
  <2>2. low \in Nat \ {0} /\ high \in 0..MaxSeq
    BY BoundsAssumption
  <2> QED BY <1>1, <2>1, <2>2, PagesAreTyped, AboutMessages
<1>8. CASE WithdrawMessage
  <2>1. PICK n \in 1..MaxSeq : Answered(<<[do |-> "mark", n |-> n]>>)
    BY <1>8 DEF WithdrawMessage
  <2>2. "normal" \in Statuses
    BY DEF Statuses
  <2>3. <<[do |-> "mark", n |-> n]>> \in Handlers
    BY <2>2, HandlersAreTyped
  <2> QED BY <1>1, <2>1, <2>3, AboutMessages
<1> QED BY <1>3, <1>4, <1>5, <1>6, <1>7, <1>8

\* The notifications.
LEMMA NotificationsBegin ==
    ASSUME Inv, OnMessage \/ OnWithdrawn \/ OnConversation \/ OnDeleted
    PROVE  Begun
<1>1. ASSUME NEW h \in Handlers, Pushed(h), Unstarted(h) \/ ~Touches(h)
      PROVE  Begun
  BY <1>1 DEF Pushed, Workers, Begun
<1>2. CASE OnMessage
  BY <1>1, <1>2, HandlersAreTyped, AboutMessages DEF OnMessage, Statuses
<1>3. CASE OnWithdrawn
  <2>1. PICK n \in 1..MaxSeq : Pushed(<<[do |-> "withdraw", n |-> n]>>)
    BY <1>3 DEF OnWithdrawn
  <2>2. "normal" \in Statuses
    BY DEF Statuses
  <2>3. <<[do |-> "withdraw", n |-> n]>> \in Handlers
    BY <2>2, HandlersAreTyped
  <2> QED BY <1>1, <2>1, <2>3, AboutMessages
<1>4. CASE OnConversation
  <2>1. PICK f \in Fields, v \in Values : Pushed(Create(f, v))
    BY <1>4 DEF OnConversation
  <2>2. [do |-> "create", field |-> f, v |-> v] \in Accesses
    BY DEF Accesses
  <2>3. Unstarted(Create(f, v))
    BY <2>2 DEF Unstarted, Create, ChangeCached
  <2> QED BY <1>1, <2>1, <2>3, HandlersAreTyped
<1>5. CASE OnDeleted
  BY <1>1, <1>5, HandlersAreTyped DEF OnDeleted, Unstarted
<1> QED BY <1>2, <1>3, <1>4, <1>5

\* The syncs and the lists: begun, and answered.
LEMMA SyncsBegin ==
    ASSUME Inv,
           Sync \/ GetConversationList \/ \E r \in requests : OnSyncAnswer(r) \/ OnListAnswer(r)
    PROVE  Begun
<1>1. CASE Sync
  <2>1. Unstarted(<<Exec(Statement("query", 0)), Does("ask")>>)
    BY DEF Unstarted
  <2> QED BY <1>1, <2>1, HandlersAreTyped DEF Workers, Sync, Begun
<1>2. CASE GetConversationList
  <2>1. Unstarted(<<Exec(Statement("query", 0)), Does("fill")>>)
    BY DEF Unstarted
  <2> QED BY <1>2, <2>1, HandlersAreTyped DEF Workers, GetConversationList, Begun
<1>3. ASSUME NEW r \in requests, OnListAnswer(r)
      PROVE  Begun
  <2>1. PICK v \in Values : Begin("http", KeepAll(Told(v)))
    BY <1>3 DEF OnListAnswer
  <2>2. Unstarted(KeepAll(Told(v)))
    BY ConversationFacts DEF Unstarted
  <2> QED BY <2>1, <2>2, HandlersAreTyped DEF Workers, Begun
<1>4. ASSUME NEW r \in requests, OnSyncAnswer(r)
      PROVE  Begun
  <2>1. PICK session \in {<<>>} \cup {MergeSession(v) : v \in Values},
             high \in r.last_seq..MaxSeq, gone \in SUBSET (1..MaxSeq) :
          Begin("http", session \o MergeMessages(r.last_seq + 1, high, gone))
    BY <1>4 DEF OnSyncAnswer
  <2> DEFINE p == MergeMessages(r.last_seq + 1, high, gone)
  <2>2. p \in Handlers /\ MergingOrDone(p)
    <3>1. r.last_seq \in 0..MaxSeq
      BY <1>4 DEF Inv, Typed
    <3>2. r.last_seq + 1 \in Nat \ {0} /\ high \in 0..MaxSeq
      BY <3>1, BoundsAssumption
    <3> QED BY <3>2, PagesAreTyped, PagesMerge
  <2>3. Begin("http", session \o p)
    BY <2>1
  <2> HIDE DEF p
  <2>4. session \o p \in Handlers /\ (Unstarted(session \o p) \/ ~Touches(session \o p))
    <3>1. CASE session = <<>>
      <4>1. session \o p = p
        BY <2>2, <3>1, ConcatEmptySeq DEF Handlers
      <4>2. ~Touches(<<>>)
        BY DEF Touches
      <4> QED BY <2>2, <4>1, <4>2 DEF MergingOrDone, Unstarted
    <3>2. CASE session # <<>>
      <4>1. PICK v \in Values : session = MergeSession(v)
        BY <2>1, <3>2
      <4> QED BY <2>2, <4>1, SessionStarts, HandlersAreTyped, Joined
    <3> QED BY <3>1, <3>2
  <2> QED BY <2>3, <2>4 DEF Workers, Begun
<1> QED BY <1>1, <1>2, <1>3, <1>4

-----------------------------------------------------------------------------
(***************************************************************************)
(* The worker executes a statement; the process starts, or starts again.   *)
(***************************************************************************)
\* A statement that is executed decides for one of the ways the queue may end.
LEMMA ExecuteGoesThrough == ASSUME Inv, Inv', Through, Execute, ~parted' PROVE Through'
<1> DEFINE x == Head(queue).statement
           by == Head(queue).by
           n == Len(queue)
<1>1. /\ queue # <<>> /\ queue' = Tail(queue)
      /\ row' \in Outcomes(x, row) /\ Harmless(x, row)
      /\ held' = IF x.what = "query" THEN [held EXCEPT ![by] = row] ELSE held
      /\ todo' = todo /\ cached' = cached
  BY DEF Execute, Outcomes, Harmless
<1>2. /\ queue \in Queues /\ row \in Maybe /\ row' \in Maybe
      /\ queue' \in Queues /\ held \in [Workers -> Maybe]
  BY DEF Inv, Typed, Queues
<1>3. Ends(row', queue') \subseteq Ends(row, queue)
  BY <1>1, <1>2, EndsOfExecution
<1>4. /\ n \in Nat \ {0} /\ DOMAIN queue = 1..n /\ DOMAIN queue' = 1..(n - 1) /\ Len(queue') = n - 1
      /\ queue[1] = Head(queue) /\ \A i \in 1..(n - 1) : queue'[i] = queue[i + 1]
  BY <1>1, <1>2 DEF Queues
<1> HIDE DEF n, x, by
<1>5. \A i \in 1..(n - 1) : i + 1 \in 1..n /\ i + 1 = n <=> i = n - 1
  BY <1>4
<1>6. QueriesLast'
  <2> SUFFICES ASSUME NEW i \in DOMAIN queue', queue'[i].statement.what = "query"
               PROVE  /\ i = Len(queue') /\ queue'[i].by \in Workers
                      /\ todo'[queue'[i].by] \in {<<Does("ask")>>, <<Does("fill")>>}
    BY DEF QueriesLast
  <2>1. i \in 1..(n - 1) /\ i + 1 \in 1..n /\ queue'[i] = queue[i + 1]
    BY <1>4, <1>5
  <2>2. /\ i + 1 = n /\ queue[i + 1].by \in Workers
        /\ todo[queue[i + 1].by] \in {<<Does("ask")>>, <<Does("fill")>>}
    BY <1>4, <2>1 DEF Through, QueriesLast, n
  <2> QED BY <1>1, <1>4, <2>1, <2>2
<1>7. WillBe(cached) => WillBe(cached)'
  BY <1>1, <1>3 DEF WillBe
<1>8. Agreed => Agreed'
  BY <1>1, <1>7 DEF Agreed
<1>9. CASE x.what # "query"
  <2>1. held' = held
    BY <1>1, <1>9
  <2>2. ASSUME NEW u \in Workers, Querying(u)
        PROVE  Querying(u)'
    <3>1. PICK i \in 1..n : queue[i].by = u /\ queue[i].statement.what = "query"
      BY <1>4, <2>2 DEF Querying
    <3>2. i # 1
      BY <1>4, <1>9, <3>1 DEF x
    <3>3. i - 1 \in 1..(n - 1) /\ (i - 1) + 1 = i
      BY <1>4, <3>2
    <3>4. i - 1 \in DOMAIN queue' /\ queue'[i - 1] = queue[i]
      BY <1>4, <3>3
    <3> QED BY <3>1, <3>4 DEF Querying
  <2>3. ASSUME NEW u \in Workers, Midway(u)
        PROVE  Midway(u)'
    <3>1. CASE Starting(u) \/ Asking(u)
      BY <1>1, <1>8, <3>1 DEF Midway, Starting, Asking
    <3>2. CASE Filling(u)
      <4>1. todo'[u] = <<Does("fill")>> /\ Agreed'
        BY <1>1, <1>8, <3>2 DEF Filling
      <4>2. (Querying(u) \/ held[u] = None \/ WillBe(held[u]))'
        <5>1. Querying(u) \/ held[u] = None \/ WillBe(held[u])
          BY <3>2 DEF Filling
        <5>2. WillBe(held[u]) => WillBe(held[u])'
          BY <1>3, <2>1 DEF WillBe
        <5> QED BY <2>1, <2>2, <5>1, <5>2
      <4>3. Filling(u)'
        BY <4>1, <4>2 DEF Filling
      <4> QED BY <4>3 DEF Midway
    <3>3. CASE Writing(u) \/ Saving(u) \/ Deleting(u) \/ Keeping(u)
      BY <1>1, <2>1, <3>3 DEF Midway, Writing, Saving, Deleting, Keeping
    <3>4. CASE Clearing(u)
      BY <1>1, <1>3, <3>4 DEF Midway, Clearing
    <3>5. CASE Showing(u)
      <4>1. PICK c \in NewConvs :
               /\ todo[u] # <<>> /\ todo[u][1] = [do |-> "put", conv |-> c]
               /\ MergingOrDone(Tail(todo[u])) /\ WillBe(c)
        BY <3>5 DEF Showing
      <4>2. WillBe(c)'
        BY <1>3, <4>1 DEF WillBe
      <4>3. Showing(u)'
        BY <1>1, <4>1, <4>2 DEF Showing
      <4> QED BY <4>3 DEF Midway
    <3>6. CASE Raising(u)
      <4>1. PICK k \in 0..MaxSeq :
               /\ todo[u] = <<[do |-> "raise", n |-> k], Does("write")>>
               /\ cached # None => WillBe([cached EXCEPT !.local_seq = Larger(cached.local_seq, k)])
        BY <3>6 DEF Raising
      <4>2. cached' # None => WillBe([cached EXCEPT !.local_seq = Larger(cached.local_seq, k)])'
        BY <1>1, <1>3, <4>1 DEF WillBe
      <4>3. Raising(u)'
        BY <1>1, <4>1, <4>2 DEF Raising
      <4> QED BY <4>3 DEF Midway
    <3>7. CASE RaisedWrite(u)
      <4>1. WillBe(held[u])'
        BY <1>3, <2>1, <3>7 DEF WillBe, RaisedWrite
      <4>2. RaisedWrite(u)'
        BY <1>1, <2>1, <3>7, <4>1 DEF RaisedWrite
      <4> QED BY <4>2 DEF Midway
    <3> QED BY <2>3, <3>1, <3>2, <3>3, <3>4, <3>5, <3>6, <3>7 DEF Midway
  <2> QED BY <1>1, <1>6, <1>8, <2>3 DEF Through
<1>10. CASE x.what = "query"
  <2>0. n = 1 /\ by \in Workers /\ todo[by] \in {<<Does("ask")>>, <<Does("fill")>>}
    BY <1>4, <1>10 DEF Through, QueriesLast, n, x, by
  <2>1. PICK t \in Workers : by = t /\ n = 1 /\ todo[t] \in {<<Does("ask")>>, <<Does("fill")>>}
    BY <2>0
  <2>2. queue' = <<>> /\ row' = row
    <3>1. queue' = <<>>
      BY <1>2, <1>4, <2>1, EmptySeq DEF Queues
    <3>2. Outcomes(x, row) = {row}
      BY <1>10 DEF Outcomes, Applied
    <3> QED BY <1>1, <3>1, <3>2
  <2>3. held'[t] = row
    BY <1>1, <1>2, <1>10, <2>1
  <2>4. WillBe(held[t])'
    <3>1. Ends(row', queue') = {row'}
      BY <1>2, <2>2, EndsOfNothing
    <3> QED BY <2>2, <2>3, <3>1 DEF WillBe
  <2>5. Touches(todo[t]) /\ Agreed
    <3>1. /\ Touches(<<Does("ask")>>) /\ Touches(<<Does("fill")>>)
          /\ Head(<<Does("ask")>>).do = "ask" /\ Head(<<Does("fill")>>).do = "fill"
      BY DEF Touches, Does
    <3>2. Touches(todo[t]) /\ Head(todo[t]).do \in {"ask", "fill"}
      BY <2>1, <3>1
    <3>3. Midway(t) /\ todo[t] \in Handlers
      BY <2>1, <3>2 DEF Through, Inv, Typed
    <3>4. Asking(t) \/ Filling(t)
      BY <2>1, <3>2, <3>3, Place
    <3> QED BY <3>2, <3>4 DEF Asking, Filling
  <2>6. Midway(t)'
    <3>1. todo'[t] \in {<<Does("ask")>>, <<Does("fill")>>} /\ Agreed'
      BY <1>1, <1>8, <2>1, <2>5
    <3>2. Asking(t)' \/ Filling(t)'
      BY <2>4, <3>1 DEF Asking, Filling
    <3> QED BY <3>2 DEF Midway
  <2>7. \A u \in Workers : Touches(todo'[u]) => u = t
    BY <1>1, <2>1, <2>5 DEF Through
  <2> QED BY <1>1, <1>6, <1>8, <2>5, <2>6, <2>7 DEF Through
<1> QED BY <1>9, <1>10

\* When the process starts, the cache shows nothing and the queue is empty.
LEMMA StartsThrough ==
    /\ Init => Through
    /\ Restart => Through'
<1>1. ~Touches(<<>>)
  BY DEF Touches
<1>2. ASSUME Init
      PROVE  Through
  BY <1>1, <1>2 DEF Init, Through, Agreed, QueriesLast
<1>3. ASSUME Restart
      PROVE  Through'
  BY <1>1, <1>3 DEF Restart, Through, Agreed, QueriesLast
<1> QED BY <1>2, <1>3

\* A handler that nobody is in the way of writes the conversation to the cache, and the
\* same to the row next: whatever has parted the two, they are about to meet.
LEMMA WritersMeet ==
    ASSUME Inv, AskedInv, NEW t \in Workers, WriteCached(t) \/ PutCached(t) \/ RemoveCached(t),
           parted, ~parted'
    PROVE  Through'
<1> DEFINE h == Tail(todo[t])
<1>1. /\ Turn(t, {"write", "put", "remove"}) /\ todo' = [todo EXCEPT ![t] = h]
      /\ row' = row /\ queue' = queue
  BY DEF WriteCached, PutCached, RemoveCached, Advance, Turn
<1>2. /\ todo[t] \in Handlers /\ todo[t] # <<>> /\ Head(todo[t]) \in Accesses
      /\ todo \in [Workers -> Handlers]
  BY <1>1, NextAccess DEF Inv, Typed
<1>3. PICK x : WritesBoth(t, x)
  BY DEF WriteCached, PutCached, RemoveCached
<1>4. todo'[t] = h /\ \A u \in Workers : u # t => todo'[u] = todo[u] /\ ~Touches(todo[u])
  BY <1>1, <1>2, <1>3 DEF WritesBoth
<1>5. QueriesLast'
  <2> SUFFICES ASSUME NEW i \in DOMAIN queue, queue[i].statement.what = "query"
               PROVE  FALSE
    BY <1>1 DEF QueriesLast
  <2>1. queue[i].by \in Workers /\ Touches(todo[queue[i].by])
    BY DEF AskedInv
  <2>2. queue[i].by = t
    BY <1>4, <2>1
  <2> QED BY <1>1, <2>2 DEF Turn, Waiting
<1>6. Midway(t)' /\ Touches(h)
  <2>1. \A a, b : Touches(<<Does("save")>>) /\ Touches(<<Post(a)>>)
    BY DEF Touches, Does, Post
  <2>2. CASE WriteCached(t)
    <3>1. h = <<Does("save")>>
      BY <2>2 DEF WriteCached, WritesBoth
    <3>2. Len(todo[t]) = 2
      <4>1. Len(h) = Len(todo[t]) - 1 /\ Len(todo[t]) \in Nat
        BY <1>2 DEF Handlers
      <4> HIDE DEF h
      <4> QED BY <3>1, <4>1
    <3>3. cached' = held[t] /\ held' = held
      BY <2>2, <3>2 DEF WriteCached, Release
    <3> HIDE DEF h
    <3> QED BY <1>4, <2>1, <3>1, <3>3 DEF Midway, Saving
  <2>3. CASE PutCached(t)
    <3>1. cached' = Head(todo[t]).conv /\ h = <<Post(PutRow(cached'))>>
      BY <2>3 DEF PutCached, WritesBoth
    <3>2. Head(todo[t]).do = "put"
      BY <2>3 DEF PutCached, Turn
    <3>3. cached' \in NewConvs
      BY <1>2, <3>1, <3>2, AccessFields
    <3> HIDE DEF h
    <3> QED BY <1>4, <2>1, <3>1, <3>3 DEF Midway, Keeping
  <2>4. CASE RemoveCached(t)
    <3>1. cached' = None /\ h = <<Post(Statement("delete", 0))>>
      BY <2>4 DEF RemoveCached, WritesBoth
    <3> HIDE DEF h
    <3> QED BY <1>4, <2>1, <3>1 DEF Midway, Deleting
  <2> QED BY <2>2, <2>3, <2>4
<1> HIDE DEF h
<1> QED BY <1>4, <1>5, <1>6 DEF Through

\* Else what sets parted stays set until the process starts again.
LEMMA StaysParted ==
    ASSUME Inv, [Next]_vars, parted, ~parted'
    PROVE  Restart \/ \E t \in Workers : WriteCached(t) \/ PutCached(t) \/ RemoveCached(t)
<1>1. ~UNCHANGED vars
  OBVIOUS
<1>2. ~Begun
  BY DEF Begun, Begin
<1>3. ~\E t \in Workers :
         \/ Give(t) \/ ReadCached(t) \/ SaveRow(t) \/ ClearCached(t)
         \/ InsertMessage(t) \/ MarkMessage(t) \/ UpdateOrInsert(t) \/ Ask(t) \/ Fill(t)
  BY DEF Give, ReadCached, SaveRow, ClearCached,
     InsertMessage, MarkMessage, UpdateOrInsert, Ask, Fill
<1>4. ~Execute
  BY DEF Execute
<1> QED BY <1>1, <1>2, <1>3, <1>4, AnswersBegin, NotificationsBegin, SyncsBegin DEF Next

\* Every step keeps the invariant.
LEMMA NextThrough == Inv /\ Inv' /\ AskedInv /\ ThroughInv /\ [Next]_vars => ThroughInv'
<1> SUFFICES ASSUME Inv, Inv', AskedInv, ThroughInv, [Next]_vars, ~parted'
             PROVE  Through'
  BY DEF ThroughInv
<1>1. CASE Restart
  BY <1>1, StartsThrough
<1>2. CASE parted /\ ~Restart
  BY <1>2, StaysParted, WritersMeet
<1>3. CASE ~parted /\ ~Restart
  <2>1. Through
    BY <1>3 DEF ThroughInv
  <2>2. CASE UNCHANGED vars
    <3>1. \A u \in Workers : Midway(u) => Midway(u)'
      BY <2>2, Undisturbed
    <3>2. Agreed' <=> Agreed
      BY <2>2 DEF Agreed, WillBe
    <3>3. QueriesLast' <=> QueriesLast
      BY <2>2 DEF QueriesLast
    <3> QED BY <2>1, <2>2, <3>1, <3>2, <3>3 DEF Through
  <2>3. CASE Begun
    BY <2>1, <2>3, BegunGoesThrough DEF Begun
  <2>4. ASSUME NEW t \in Workers,
               \/ Give(t) \/ ReadCached(t) \/ WriteCached(t) \/ SaveRow(t) \/ PutCached(t)
               \/ RemoveCached(t) \/ ClearCached(t)
               \/ InsertMessage(t) \/ MarkMessage(t) \/ UpdateOrInsert(t)
               \/ Ask(t) \/ Fill(t)
        PROVE  Through'
    BY <2>1, <2>4, GiveGoesThrough, ReadGoesThrough, WriteGoesThrough, SaveGoesThrough,
       CacheGoesThrough, MessagesGoThrough, AskGoesThrough, FillGoesThrough
  <2>5. CASE Execute
    BY <2>1, <2>5, ExecuteGoesThrough
  <2> QED BY <1>3, <2>2, <2>3, <2>4, <2>5, AnswersBegin, NotificationsBegin, SyncsBegin DEF Next
<1> QED BY <1>1, <1>2, <1>3

-----------------------------------------------------------------------------
(***************************************************************************)
(* Who waits for the rows.                                                 *)
(***************************************************************************)
\* A handler that begins asks for the rows first, or not at all.
LEMMA AskedAtFirst ==
    ASSUME NEW h \in Handlers, Unstarted(h) \/ ~Touches(h)
    PROVE  AsksNothing(h) \/ AsksFirst(h)
<1>1. ASSUME ~Touches(h)
      PROVE  AsksNothing(h)
  BY <1>1 DEF Touches, AsksNothing, IsQuery
<1>2. ASSUME NEW p \in Handlers, Merging(p)
      PROVE  AsksNothing(p)
  <2> DEFINE k == Len(p)
  <2>1. k \in Nat /\ k >= 3 /\ DOMAIN p = 1..k
    BY <1>2 DEF Merging, Handlers
  <2>2. PICK n \in 0..MaxSeq :
           /\ p[k - 2] = Exec(Statement("raise", n))
           /\ p[k - 1] = [do |-> "raise", n |-> n]
           /\ p[k] = Does("write")
    BY <1>2 DEF Merging
  <2>3. \A i \in 1..(k - 3) : p[i].do = "insert"
    BY <1>2 DEF Merging
  <2> HIDE DEF k
  <2>4. ~IsQuery(p[k - 2]) /\ ~IsQuery(p[k - 1]) /\ ~IsQuery(p[k])
    BY <2>2 DEF IsQuery, Exec, Statement, Does
  <2>5. \A i \in 1..(k - 3) : ~IsQuery(p[i])
    BY <2>3 DEF IsQuery
  <2>6. \A i \in 1..k : i \in 1..(k - 3) \/ i = k - 2 \/ i = k - 1 \/ i = k
    BY <2>1
  <2> QED BY <2>1, <2>4, <2>5, <2>6 DEF AsksNothing
<1>3. ASSUME NEW s, s.do \in {"patch", "create", "learn"}, h = <<s, Does("write"), Does("save")>>
      PROVE  AsksNothing(h)
  BY <1>3 DEF AsksNothing, IsQuery, Does
<1>4. CASE h = Remove \/ h = ClearUnread
  BY <1>4 DEF Remove, ClearUnread, AsksNothing, IsQuery, Does, Post, Statement
<1>5. ASSUME NEW c, h = Keep(c) \/ h = KeepAll(c)
      PROVE  AsksNothing(h)
  BY <1>5 DEF Keep, KeepAll, AsksNothing, IsQuery, Post, PutRow
<1>6. ASSUME NEW do \in {"ask", "fill"}, h = <<Exec(Statement("query", 0)), Does(do)>>
      PROVE  AsksFirst(h)
  BY <1>6 DEF AsksFirst
<1>7. ASSUME NEW v \in Values, Len(h) >= 2, h[1] = MergeSession(v)[1], h[2] = MergeSession(v)[2],
             MergingOrDone(Tail(Tail(h)))
      PROVE  AsksNothing(h)
  <2> DEFINE t == Tail(h)
  <2>0. PICK k \in Nat : Len(h) = k + 2
    <3>1. Len(h) \in Nat /\ Len(h) - 2 \in Nat /\ Len(h) = (Len(h) - 2) + 2
      BY <1>7 DEF Handlers
    <3> QED BY <3>1
  <2>1. DOMAIN h = 1..(k + 2) /\ h # <<>>
    BY <2>0 DEF Handlers
  <2>2. t \in Seq(Accesses) /\ Len(t) = k + 1 /\ \A i \in 1..(k + 1) : t[i] = h[i + 1]
    BY <2>0, <2>1 DEF Handlers
  <2> HIDE DEF t
  <2> DEFINE u == Tail(t)
  <2>3. u \in Seq(Accesses) /\ Len(u) = k /\ \A i \in 1..k : u[i] = t[i + 1]
    BY <2>0, <2>2
  <2>4. MergingOrDone(u)
    BY <1>7 DEF t
  <2> HIDE DEF u
  <2>5. u \in Handlers /\ DOMAIN u = 1..k
    BY <2>3 DEF Handlers
  <2>6. AsksNothing(u)
    BY <1>2, <2>4, <2>5 DEF MergingOrDone, AsksNothing
  <2>7. ~IsQuery(h[1]) /\ ~IsQuery(h[2])
    BY <1>7 DEF MergeSession, IsQuery, Exec, Statement
  <2>8. ASSUME NEW i \in 1..(k + 2), i # 1, i # 2
        PROVE  ~IsQuery(h[i])
    <3>1. i - 2 \in 1..k /\ i - 1 \in 1..(k + 1) /\ (i - 2) + 1 = i - 1 /\ (i - 1) + 1 = i
      BY <2>8
    <3>2. u[i - 2] = h[i]
      BY <2>2, <2>3, <3>1
    <3> QED BY <2>5, <2>6, <3>1, <3>2 DEF AsksNothing
  <2> QED BY <2>1, <2>7, <2>8 DEF AsksNothing
<1>8. CASE Unstarted(h)
  BY <1>2, <1>3, <1>4, <1>5, <1>6, <1>7, <1>8 DEF Unstarted
<1> QED BY <1>1, <1>8

\* What is left of a handler asks for nothing.
LEMMA AskedOnce ==
    ASSUME NEW h \in Handlers, h # <<>>, AsksNothing(h) \/ AsksFirst(h)
    PROVE  /\ AsksNothing(Tail(h))
           /\ IsQuery(Head(h)) => Head(h).do = "exec" /\ Touches(Tail(h))
<1>1. CASE AsksNothing(h)
  <2>1. /\ DOMAIN h = 1..Len(h) /\ Len(h) \in Nat /\ Head(h) = h[1] /\ 1 \in DOMAIN h
        /\ DOMAIN Tail(h) = 1..(Len(h) - 1) /\ \A i \in 1..(Len(h) - 1) : Tail(h)[i] = h[i + 1]
    BY DEF Handlers
  <2>2. \A i \in 1..(Len(h) - 1) : i + 1 \in 1..Len(h)
    BY <2>1
  <2> QED BY <1>1, <2>1, <2>2 DEF AsksNothing
<1>2. CASE AsksFirst(h)
  <2>1. PICK do \in {"ask", "fill"} : h = <<Exec(Statement("query", 0)), Does(do)>>
    BY <1>2 DEF AsksFirst
  <2>2. Head(h).do = "exec" /\ Tail(h) = <<Does(do)>>
    BY <2>1, Tuples DEF Exec
  <2>3. AsksNothing(<<Does(do)>>) /\ Touches(<<Does(do)>>)
    BY DEF AsksNothing, IsQuery, Touches, Does
  <2> QED BY <2>2, <2>3
<1> QED BY <1>1, <1>2

\* An access leaves a handler that asks for nothing more, and gives the worker nothing,
\* no query, or the query whose rows the handler has yet to use.
LEMMA AccessIsAsked ==
    ASSUME Inv, AskedInv, NEW t \in Workers, NEW kinds, Turn(t, kinds), NEW h, AsksNothing(h),
           todo' = [todo EXCEPT ![t] = h],
           \/ queue' = queue
           \/ \E by, s : Enqueue(by, s) /\ (s.what = "query" => by = t /\ Touches(h))
    PROVE  AskedInv'
<1>1. todo'[t] = h /\ \A u \in Workers : u # t => todo'[u] = todo[u]
  BY DEF Inv, Typed
<1>2. ASSUME NEW i \in DOMAIN queue, queue[i].statement.what = "query"
      PROVE  queue[i].by \in Workers /\ Touches(todo'[queue[i].by])
  <2>1. queue[i].by \in Workers /\ Touches(todo[queue[i].by])
    BY <1>2 DEF AskedInv
  <2>2. queue[i].by # t
    BY <1>2 DEF Turn, Waiting
  <2> QED BY <1>1, <2>1, <2>2
<1>3. CASE queue' = queue
  BY <1>1, <1>2, <1>3 DEF AskedInv
<1>4. CASE queue' # queue
  <2>1. PICK by, s : Enqueue(by, s) /\ (s.what = "query" => by = t /\ Touches(h))
    BY <1>4
  <2> DEFINE n == Len(queue)
  <2>2. /\ n \in Nat /\ DOMAIN queue = 1..n /\ DOMAIN queue' = 1..(n + 1)
        /\ queue'[n + 1] = [by |-> by, statement |-> s] /\ \A i \in 1..n : queue'[i] = queue[i]
    BY <2>1 DEF Inv, Typed, Enqueue
  <2> HIDE DEF n
  <2>3. \A i \in 1..(n + 1) : i \in 1..n \/ i = n + 1
    BY <2>2
  <2>4. ASSUME NEW i \in DOMAIN queue', queue'[i].statement.what = "query"
        PROVE  queue'[i].by \in Workers /\ Touches(todo'[queue'[i].by])
    <3>1. CASE i \in 1..n
      BY <1>2, <2>2, <2>4, <3>1
    <3>2. CASE i = n + 1
      BY <1>1, <2>1, <2>2, <2>4, <3>2
    <3> QED BY <2>2, <2>3, <2>4, <3>1, <3>2
  <2> QED BY <1>1, <2>4 DEF AskedInv
<1> QED BY <1>3, <1>4

\* Every step keeps it.
LEMMA NextAsked == Inv /\ AskedInv /\ [Next]_vars => AskedInv'
<1> SUFFICES ASSUME Inv, AskedInv, [Next]_vars
             PROVE  AskedInv'
  OBVIOUS
<1>0. todo \in [Workers -> Handlers] /\ AsksNothing(<<>>) /\ ~Touches(<<>>)
  BY DEF Inv, Typed, AsksNothing, Touches
<1>1. CASE UNCHANGED vars
  BY <1>1 DEF AskedInv
<1>2. CASE Restart
  <2>1. queue' = <<>> /\ \A t \in Workers : todo'[t] = <<>>
    BY <1>2 DEF Restart
  <2> QED BY <1>0, <2>1 DEF AskedInv
<1>3. CASE Execute
  <2>1. queue # <<>> /\ queue' = Tail(queue) /\ todo' = todo
    BY <1>3 DEF Execute
  <2>2. \A i \in DOMAIN queue' : i + 1 \in DOMAIN queue /\ queue'[i] = queue[i + 1]
    BY <2>1 DEF Inv, Typed
  <2> QED BY <2>1, <2>2 DEF AskedInv
<1>4. CASE Begun
  <2>1. PICK t \in Workers, h \in Handlers : Begin(t, h) /\ (Unstarted(h) \/ ~Touches(h))
    BY <1>4 DEF Begun
  <2>2. todo[t] = <<>> /\ todo' = [todo EXCEPT ![t] = h] /\ queue' = queue
    BY <2>1 DEF Begin, Idle
  <2>3. todo'[t] = h /\ \A u \in Workers : u # t => todo'[u] = todo[u]
    BY <1>0, <2>2
  <2>4. AsksNothing(h) \/ AsksFirst(h)
    BY <2>1, AskedAtFirst
  <2> QED BY <1>0, <2>2, <2>3, <2>4 DEF AskedInv
<1>5. ASSUME NEW t \in Workers,
             \/ Give(t) \/ ReadCached(t) \/ WriteCached(t) \/ SaveRow(t) \/ PutCached(t)
             \/ RemoveCached(t) \/ ClearCached(t)
             \/ InsertMessage(t) \/ MarkMessage(t) \/ UpdateOrInsert(t)
             \/ Ask(t) \/ Fill(t)
      PROVE  AskedInv'
  <2> DEFINE h == Tail(todo[t])
  <2>1. PICK kinds : Turn(t, kinds)
    BY <1>5 DEF Give, ReadCached, WriteCached, SaveRow, PutCached, RemoveCached, ClearCached,
       InsertMessage, MarkMessage, UpdateOrInsert, Ask, Fill
  <2>2. /\ AsksNothing(h) /\ AsksNothing(<<>>) /\ \A n : AsksNothing(<<InsertMsg(n, "withdrawn")>>)
        /\ IsQuery(Head(todo[t])) => Head(todo[t]).do = "exec" /\ Touches(h)
    <3>1. todo[t] \in Handlers /\ todo[t] # <<>> /\ (AsksNothing(todo[t]) \/ AsksFirst(todo[t]))
      BY <2>1, NextAccess DEF AskedInv
    <3>2. \A n : AsksNothing(<<InsertMsg(n, "withdrawn")>>)
      BY DEF AsksNothing, IsQuery, InsertMsg
    <3> QED BY <1>0, <3>1, <3>2, AskedOnce
  <2> HIDE DEF h
  <2>3. CASE Give(t)
    <3>1. todo' = [todo EXCEPT ![t] = h] /\ Head(todo[t]).do \in {"exec", "post"}
      BY <2>3 DEF Give, Advance, Turn, h
    <3>2. PICK by, s : /\ Enqueue(by, s) /\ s = Head(todo[t]).statement
                       /\ Head(todo[t]).do = "exec" => by = t
      BY <2>3 DEF Give
    <3>3. s.what = "query" => by = t /\ Touches(h)
      BY <2>2, <3>1, <3>2 DEF IsQuery
    <3> QED BY <2>1, <2>2, <3>1, <3>2, <3>3, AccessIsAsked
  <2>4. CASE ReadCached(t)
    <3>1. todo' = [todo EXCEPT ![t] = h] \/ todo' = [todo EXCEPT ![t] = <<>>]
      BY <2>4 DEF ReadCached, Stop, Advance, h
    <3>2. queue' = queue \/ \E n : Enqueue("none", Statement("raise", n))
      BY <2>4 DEF ReadCached
    <3>3. \A n : Statement("raise", n).what # "query"
      BY DEF Statement
    <3>4. queue' = queue \/ \E by, s : Enqueue(by, s) /\ s.what # "query"
      BY <3>2, <3>3
    <3> QED BY <2>1, <2>2, <3>1, <3>4, AccessIsAsked
  <2>5. CASE SaveRow(t)
    <3>1. todo' = [todo EXCEPT ![t] = h] /\ Enqueue("none", PutRow(held[t]))
      BY <2>5 DEF SaveRow, Advance, h
    <3>2. PutRow(held[t]).what # "query"
      BY DEF PutRow
    <3> QED BY <2>1, <2>2, <3>1, <3>2, AccessIsAsked
  <2>6. CASE \/ WriteCached(t) \/ PutCached(t) \/ RemoveCached(t) \/ ClearCached(t)
             \/ InsertMessage(t) \/ MarkMessage(t) \/ Ask(t) \/ Fill(t)
    <3>1. todo' = [todo EXCEPT ![t] = h] /\ queue' = queue
      BY <2>6 DEF WriteCached, PutCached, RemoveCached, ClearCached,
         InsertMessage, MarkMessage, Ask, Fill, Advance, h
    <3> QED BY <2>1, <2>2, <3>1, AccessIsAsked
  <2>7. CASE UpdateOrInsert(t)
    <3>1. /\ queue' = queue
          /\ \/ todo' = [todo EXCEPT ![t] = <<>>]
             \/ \E n : todo' = [todo EXCEPT ![t] = <<InsertMsg(n, "withdrawn")>>]
      BY <2>7 DEF UpdateOrInsert
    <3> QED BY <2>1, <2>2, <3>1, AccessIsAsked
  <2> QED BY <1>5, <2>3, <2>4, <2>5, <2>6, <2>7
<1> QED BY <1>1, <1>2, <1>3, <1>4, <1>5, AnswersBegin, NotificationsBegin, SyncsBegin DEF Next

\* At first no handler has begun.
LEMMA InitAsked == Init => AskedInv
<1>1. AsksNothing(<<>>)
  BY DEF AsksNothing
<1> QED BY <1>1 DEF Init, AskedInv

\* While no handler runs and the database worker is done, the row is what the cache
\* shows: for every number of messages, syncs, calls, notifications and restarts, and
\* wherever the worker is with its queue.  Handlers that overlap, and a sync that resets
\* cached fields, can part the two, and no longer than until the next handler that
\* writes both with no other in its way.
THEOREM WrittenThrough == Spec => []WriteThrough
<1>1. Init => ThroughInv
  BY StartsThrough DEF ThroughInv
<1>2. Inv /\ ThroughInv => WriteThrough
  <2> SUFFICES ASSUME Inv, ThroughInv, Settled, ~parted, cached # None
               PROVE  row = cached
    BY DEF WriteThrough
  <2>1. \A t \in Workers : ~Touches(todo[t])
    BY DEF Settled, Idle, Touches
  <2>2. WillBe(cached)
    BY <2>1 DEF ThroughInv, Through, Agreed
  <2>3. queue = <<>> /\ row \in Maybe
    BY DEF Settled, Inv, Typed
  <2>4. Ends(row, queue) = {row}
    BY <2>3, EndsOfNothing
  <2> QED BY <2>2, <2>4 DEF WillBe
<1> QED BY <1>1, <1>2, InitAsked, NextAsked, NextThrough, Invariance, PTL DEF Spec

=============================================================================
