-------------------------- MODULE LocalStore_proofs --------------------------
(***************************************************************************)
(* Theorems about MessageCache and LocalStore, for a cache of any size and *)
(* any number of messages, syncs, calls, notifications and restarts.       *)
(***************************************************************************)
EXTENDS LocalStore, FiniteSetTheorems, WellFoundedInduction, SequenceTheorems, TLAPS

USE DEF vars, local, work, net, history, Elsewhere, Workers

-----------------------------------------------------------------------------
(***************************************************************************)
(* The message cache.                                                      *)
(***************************************************************************)
\* A set of sequence numbers that is not empty has an oldest one.
LEMMA OldestExists ==
    ASSUME NEW S \in SUBSET Nat, S # {}
    PROVE  Oldest(S) \in S /\ \A k \in S : Oldest(S) <= k
<1>1. \E n \in S : \A k \in S : ~(<<k, n>> \in OpToRel(<, Nat))
  BY NatLessThanWellFounded, WFMin
<1>2. \E n \in S : \A k \in S : n <= k
  <2>1. PICK n \in S : \A k \in S : ~(<<k, n>> \in OpToRel(<, Nat))
    BY <1>1
  <2>2. ASSUME NEW k \in S, k < n
        PROVE  <<k, n>> \in OpToRel(<, Nat)
    <3>1. <<k, n>> \in Nat \X Nat /\ <<k, n>>[1] < <<k, n>>[2]
      BY <2>2
    <3> QED BY <3>1 DEF OpToRel
  <2>3. ASSUME NEW k \in S
        PROVE  n <= k
    <3>1. ~(k < n) /\ k \in Nat /\ n \in Nat
      BY <2>1, <2>2
    <3> QED BY <3>1
  <2> QED BY <2>3
<1> QED BY <1>2 DEF Oldest

\* What insert does to the numbers that are cached, and that it changes no message.
LEMMA InsertKeeps ==
    ASSUME NEW b, NEW size, NEW n, NEW status
    PROVE  \A k \in DOMAIN b \cap DOMAIN Insert(b, size, n, status) :
              Insert(b, size, n, status)[k] = b[k]
BY DEF Insert, Evict, With, Without

\* Nor does an update, but for the message it is about.
LEMMA UpdateKeeps ==
    ASSUME NEW b, NEW n, NEW status
    PROVE  /\ DOMAIN UpdateMessageById(b, n, status) = DOMAIN b
           /\ \A k \in DOMAIN b :
                 UpdateMessageById(b, n, status)[k] = IF k = n THEN status ELSE b[k]
BY DEF UpdateMessageById

\* A message that is shown as recalled or deleted is not shown again while it is
\* cached, whatever is delivered twice or late.
THEOREM WithdrawnStays == Spec => StaysWithdrawn
<1>1. ASSUME [Next]_vars, NEW n \in DOMAIN bucket \cap DOMAIN bucket', bucket[n] = "withdrawn"
      PROVE  bucket'[n] = "withdrawn"
  <2>1. CASE bucket' = bucket
    BY <1>1, <2>1
  <2>2. ASSUME NEW t \in Workers, InsertMessage(t)
        PROVE  bucket'[n] = "withdrawn"
    BY <1>1, <2>2, InsertKeeps DEF InsertMessage
  <2>3. ASSUME NEW t \in Workers, MarkMessage(t) \/ UpdateOrInsert(t)
        PROVE  bucket'[n] = "withdrawn"
    BY <1>1, <2>3, UpdateKeeps DEF MarkMessage, UpdateOrInsert
  <2>4. CASE Restart
    BY <1>1, <2>4 DEF Restart, EmptyBucket
  <2>5. ASSUME NEW t \in Workers,
               \/ Give(t) \/ ReadCached(t) \/ WriteCached(t) \/ SaveRow(t) \/ PutCached(t)
               \/ RemoveCached(t) \/ ClearCached(t) \/ Ask(t) \/ Fill(t)
        PROVE  bucket' = bucket
    BY <2>5 DEF Give, ReadCached, WriteCached, SaveRow, PutCached, RemoveCached, ClearCached, Ask, Fill
  <2>6. \A t, handler : Begin(t, handler) => bucket' = bucket
    BY DEF Begin
  <2>7. \A handler : (Answered(handler) => bucket' = bucket) /\ (Pushed(handler) => bucket' = bucket)
    BY <2>6 DEF Answered, Pushed
  <2>8. CASE \/ SetField \/ MarkAllRead \/ DeleteConversation \/ GetConversation
             \/ GetMessageSequence \/ GetMessages \/ WithdrawMessage
             \/ OnMessage \/ OnWithdrawn \/ OnConversation \/ OnDeleted
    BY <2>1, <2>7, <2>8 DEF SetField, MarkAllRead, DeleteConversation, GetConversation,
       GetMessageSequence, GetMessages, WithdrawMessage, OnMessage, OnWithdrawn, OnConversation, OnDeleted
  <2>9. CASE Sync \/ GetConversationList \/ Execute
             \/ \E r \in requests : OnSyncAnswer(r) \/ OnListAnswer(r)
    BY <2>1, <2>6, <2>9 DEF Sync, GetConversationList, Execute, OnSyncAnswer, OnListAnswer
  <2> QED BY <1>1, <2>1, <2>2, <2>3, <2>4, <2>5, <2>8, <2>9 DEF Next
<1>2. [Next]_vars => [\A n \in DOMAIN bucket \cap DOMAIN bucket' :
                         bucket[n] = "withdrawn" => bucket'[n] = "withdrawn"]_vars
  BY <1>1
<1> QED BY <1>2, PTL DEF Spec, StaysWithdrawn

\* What the cache has of the messages it was given, `given': as many as it can
\* hold, and the newest.
Newestof(D, given, size) ==
    /\ D \subseteq given /\ Cardinality(D) <= size
    /\ \A n \in given \ D : Cardinality(D) = size /\ \A k \in D : n < k

\* Adding a number, and dropping the oldest when there are too many, leaves the newest.
LEMMA AddingKeepsNewest ==
    ASSUME NEW size \in Nat, NEW n \in Nat, NEW given \in SUBSET Nat, IsFiniteSet(given),
           NEW D, Newestof(D, given, size), n \notin D, NEW S, S = D \cup {n},
           NEW E, E = IF Cardinality(S) > size THEN S \ {Oldest(S)} ELSE S
    PROVE  Newestof(E, given \cup {n}, size)
<1>1. D \subseteq given /\ IsFiniteSet(D) /\ Cardinality(D) \in Nat /\ Cardinality(D) <= size
  BY FS_Subset, FS_CardinalityType DEF Newestof
<1>2. IsFiniteSet(S) /\ Cardinality(S) = Cardinality(D) + 1
  BY <1>1, FS_AddElement
<1>3. CASE ~(Cardinality(S) > size)
  <2>1. E = S
    BY <1>3
  <2>2. Cardinality(D) # size /\ Cardinality(S) <= size
    BY <1>1, <1>2, <1>3
  <2>3. given = D
    BY <1>1, <2>2 DEF Newestof
  <2> QED BY <2>1, <2>2, <2>3 DEF Newestof
<1>4. CASE Cardinality(S) > size
  <2>1. PICK o : o = Oldest(S)
    OBVIOUS
  <2>2. E = S \ {o}
    BY <1>4, <2>1
  <2>3. o \in S /\ \A k \in S : o <= k
    BY <1>1, <2>1, OldestExists
  <2>4. Cardinality(E) = Cardinality(S) - 1
    <3>1. Cardinality(S \ {o}) = Cardinality(S) - 1
      BY <1>2, <2>3, FS_RemoveElement
    <3> QED BY <2>2, <3>1
  <2>5. Cardinality(E) = size
    BY <1>1, <1>2, <1>4, <2>4
  <2>6. ASSUME NEW m \in (given \cup {n}) \ E, NEW k \in E
        PROVE  m < k
    <3>0. m \in Nat /\ k \in Nat /\ n \in Nat /\ o \in Nat
      BY <1>1, <2>2, <2>3, <2>6
    <3>1. CASE m = o
      BY <2>2, <2>3, <3>0, <3>1
    <3>2. CASE m # o
      <4>1. m \in given \ D
        BY <2>2, <3>2
      <4>2. \A d \in D : m < d
        BY <4>1 DEF Newestof
      <4>3. CASE k \in D
        BY <4>2, <4>3
      <4>4. CASE k = n
        <5>1. o \in D /\ o < n
          BY <2>2, <2>3, <3>0, <4>4
        <5> QED BY <3>0, <4>2, <4>4, <5>1
      <4> QED BY <2>2, <4>3, <4>4
    <3> QED BY <3>1, <3>2
  <2>7. E \subseteq given \cup {n} /\ Cardinality(E) <= size
    <3>1. E \subseteq given \cup {n}
      BY <1>1, <2>2
    <3>2. Cardinality(E) <= size
      BY ONLY <2>5, size \in Nat
    <3> QED BY <3>1, <3>2
  <2> QED BY <2>5, <2>6, <2>7 DEF Newestof
<1> QED BY <1>3, <1>4

\* An insert into a cache that has the newest leaves it with the newest.
LEMMA InsertKeepsNewest ==
    ASSUME NEW b, NEW size \in Nat, NEW n \in Nat, NEW status,
           NEW given \in SUBSET Nat, IsFiniteSet(given), Newestof(DOMAIN b, given, size)
    PROVE  Newestof(DOMAIN Insert(b, size, n, status), given \cup {n}, size)
<1>1. CASE n \in DOMAIN b
  <2>1. DOMAIN Insert(b, size, n, status) = DOMAIN b
    BY <1>1 DEF Insert
  <2>2. given \cup {n} = given
    BY <1>1 DEF Newestof
  <2> QED BY <2>1, <2>2
<1>2. CASE n \notin DOMAIN b
  <2>1. DOMAIN Insert(b, size, n, status) =
          IF Cardinality(DOMAIN b \cup {n}) > size
          THEN (DOMAIN b \cup {n}) \ {Oldest(DOMAIN b \cup {n})} ELSE DOMAIN b \cup {n}
    <3>1. DOMAIN With(b, n, status) = DOMAIN b \cup {n}
      BY DEF With
    <3>2. DOMAIN Evict(With(b, n, status), size) =
            IF Cardinality(DOMAIN b \cup {n}) > size
            THEN (DOMAIN b \cup {n}) \ {Oldest(DOMAIN b \cup {n})} ELSE DOMAIN b \cup {n}
      BY <3>1 DEF Evict, Without
    <3> QED BY <1>2, <3>2 DEF Insert
  <2> QED BY <1>2, <2>1, AddingKeepsNewest
<1> QED BY <1>1, <1>2

-----------------------------------------------------------------------------
(***************************************************************************)
(* Types: of statements, and of what handlers have left to do.             *)
(***************************************************************************)
Maybe     == Conversations \cup {None}
NewConvs  == {c \in Conversations : c.local_seq = 0}    \* an answer has no local_seq

Statements(Convs) ==
    [what : {"put"}, conv : Convs] \cup [what : {"merge"}, n : Values]
    \cup [what : {"raise"}, n : 0..MaxSeq] \cup [what : {"clear", "delete", "query"}, n : {0}]

Accesses ==
    [do : {"patch", "create"}, field : Fields, v : Values]
    \cup [do : {"write", "save", "remove", "clear", "ask", "fill"}]
    \cup [do : {"exec", "post"}, statement : Statements(NewConvs)]
    \cup [do : {"put"}, conv : NewConvs]
    \cup [do : {"learn", "raise"}, n : 0..MaxSeq]
    \cup [do : {"mark", "withdraw"}, n : 1..MaxSeq]
    \cup [do : {"insert"}, n : 1..MaxSeq, status : Statuses]

Handlers == Seq(Accesses)

\* What the name of an access says of its fields.
LEMMA AccessFields ==
    ASSUME NEW s \in Accesses
    PROVE  /\ s.do \in {"patch", "create"} => s.field \in Fields /\ s.v \in Values
           /\ s.do \in {"exec", "post"} => s.statement \in Statements(NewConvs)
           /\ s.do = "put" => s.conv \in NewConvs
           /\ s.do \in {"learn", "raise"} => s.n \in 0..MaxSeq
           /\ s.do \in {"mark", "withdraw"} => s.n \in 1..MaxSeq
           /\ s.do = "insert" => s.n \in 1..MaxSeq /\ s.status \in Statuses
BY DEF Accesses

\* The fields a queued statement carries.
LEMMA StatementFields ==
    ASSUME NEW C, NEW s \in Statements(C)
    PROVE  /\ s.what \in {"put", "merge", "raise", "clear", "delete", "query"}
           /\ s.what = "put" => s.conv \in C
           /\ s.what = "merge" => s.n \in Values
           /\ s.what = "raise" => s.n \in 0..MaxSeq
BY DEF Statements

Typed ==
    /\ cached \in Maybe /\ row \in Maybe
    /\ bucket \in Bucket(1..MaxSeq, Statuses)
    /\ queue \in Seq([by : Workers \cup {"none"}, statement : Statements(Maybe)])
    /\ todo \in [Workers -> Handlers] /\ held \in [Workers -> Maybe]
    /\ requests \subseteq [id : Nat, kind : {"sync", "list"}, last_seq : 0..MaxSeq]
    /\ syncs \in 0..MaxSyncs /\ calls \in 0..MaxCalls
    /\ pushed \in 0..MaxPushes /\ restarts \in 0..MaxRestarts
    /\ got \subseteq 1..MaxSeq /\ inserted \subseteq got /\ told \in 0..MaxSeq
    /\ parted \in BOOLEAN

\* Changing a field keeps a conversation one.
LEMMA ConversationChanged ==
    ASSUME NEW c \in Conversations
    PROVE  /\ \A f \in Fields, v \in Values :
                [c EXCEPT ![f] = v] \in Conversations /\ [c EXCEPT ![f] = v].local_seq = c.local_seq
           /\ \A v \in Values : [c EXCEPT !.synced = v] \in Conversations
                                /\ [c EXCEPT !.synced = v].local_seq = c.local_seq
           /\ \A n \in 0..MaxSeq : [c EXCEPT !.local_seq = n] \in Conversations
                                   /\ [c EXCEPT !.local_seq = n].local_seq = n
<1>1. ASSUME NEW f \in Fields, NEW v \in Values
      PROVE  [c EXCEPT ![f] = v] \in Conversations /\ [c EXCEPT ![f] = v].local_seq = c.local_seq
  <2>1. CASE f = "synced"
    BY <2>1 DEF Conversations
  <2>2. CASE f = "own"
    BY <2>2 DEF Conversations
  <2> QED BY <2>1, <2>2 DEF Fields
<1>2. ASSUME NEW v \in Values
      PROVE  [c EXCEPT !.synced = v] \in Conversations /\ [c EXCEPT !.synced = v].local_seq = c.local_seq
  BY DEF Conversations
<1>3. ASSUME NEW n \in 0..MaxSeq
      PROVE  [c EXCEPT !.local_seq = n] \in Conversations /\ [c EXCEPT !.local_seq = n].local_seq = n
  BY DEF Conversations
<1> QED BY <1>1, <1>2, <1>3

\* No conversation is taken for none, and a fresh one is a conversation.
LEMMA ConversationFacts ==
    /\ None \notin Conversations
    /\ Fresh \in NewConvs
    /\ \A v \in Values : Told(v) \in NewConvs /\ [Fresh EXCEPT !.synced = v] \in NewConvs
<1>1. None \notin Conversations
  BY DEF None, Conversations
<1>2. Fresh \in Conversations /\ Fresh.local_seq = 0
  BY BoundsAssumption DEF Fresh, Conversations, Values
<1>3. ASSUME NEW v \in Values
      PROVE  Told(v) \in Conversations /\ Told(v).local_seq = 0
  BY BoundsAssumption DEF Told, Conversations
<1>4. ASSUME NEW v \in Values
      PROVE  [Fresh EXCEPT !.synced = v] \in Conversations /\ [Fresh EXCEPT !.synced = v].local_seq = 0
  BY BoundsAssumption DEF Fresh, Conversations, Values
<1> QED BY <1>1, <1>2, <1>3, <1>4 DEF NewConvs

\* Every handler is made of accesses.
LEMMA HandlersAreTyped ==
    /\ \A f \in Fields, v \in Values : Patch(f, v) \in Handlers /\ Create(f, v) \in Handlers
    /\ Remove \in Handlers /\ ClearUnread \in Handlers
    /\ \A v \in Values : Keep(Told(v)) \in Handlers /\ KeepAll(Told(v)) \in Handlers /\ MergeSession(v) \in Handlers
    /\ \A n \in 0..MaxSeq : Learn(n) \in Handlers
    /\ \A n \in 1..MaxSeq, status \in Statuses :
          /\ <<InsertMsg(n, status)>> \in Handlers
          /\ <<[do |-> "mark", n |-> n]>> \in Handlers /\ <<[do |-> "withdraw", n |-> n]>> \in Handlers
    /\ <<Exec(Statement("query", 0)), Does("ask")>> \in Handlers
    /\ <<Exec(Statement("query", 0)), Does("fill")>> \in Handlers
<1>1. /\ \A do \in {"write", "save", "remove", "clear", "ask", "fill"} : Does(do) \in Accesses
      /\ \A do \in {"patch", "create"}, f \in Fields, v \in Values :
            [do |-> do, field |-> f, v |-> v] \in Accesses
      /\ \A s \in Statements(NewConvs) : Exec(s) \in Accesses /\ Post(s) \in Accesses
      /\ \A c \in NewConvs : [do |-> "put", conv |-> c] \in Accesses
      /\ \A do \in {"learn", "raise"}, n \in 0..MaxSeq : [do |-> do, n |-> n] \in Accesses
      /\ \A do \in {"mark", "withdraw"}, n \in 1..MaxSeq : [do |-> do, n |-> n] \in Accesses
      /\ \A n \in 1..MaxSeq, status \in Statuses : InsertMsg(n, status) \in Accesses
  BY DEF Accesses, Does, Exec, Post, InsertMsg
<1>2. /\ Statement("delete", 0) \in Statements(NewConvs) /\ Statement("clear", 0) \in Statements(NewConvs)
      /\ Statement("query", 0) \in Statements(NewConvs)
      /\ \A v \in Values : Statement("merge", v) \in Statements(NewConvs)
      /\ \A c \in NewConvs : PutRow(c) \in Statements(NewConvs)
  BY DEF Statements, Statement, PutRow
<1>a. \A a, b, c \in Accesses : <<a, b, c>> \in Handlers
  BY DEF Handlers
<1>b. \A a, b \in Accesses : <<a, b>> \in Handlers
  BY DEF Handlers
<1>3. ASSUME NEW f \in Fields, NEW v \in Values
      PROVE  Patch(f, v) \in Handlers /\ Create(f, v) \in Handlers
  <2>1. /\ [do |-> "patch", field |-> f, v |-> v] \in Accesses
        /\ [do |-> "create", field |-> f, v |-> v] \in Accesses
        /\ Does("write") \in Accesses /\ Does("save") \in Accesses
    BY <1>1
  <2> QED BY <1>a, <2>1 DEF Patch, Create, ChangeCached
<1>4. Remove \in Handlers /\ ClearUnread \in Handlers
  BY <1>1, <1>2, <1>b DEF Remove, ClearUnread
<1>5. \A v \in Values : Keep(Told(v)) \in Handlers /\ KeepAll(Told(v)) \in Handlers /\ MergeSession(v) \in Handlers
  BY <1>1, <1>2, <1>b, ConversationFacts DEF Keep, KeepAll, MergeSession
<1>6. ASSUME NEW n \in 0..MaxSeq
      PROVE  Learn(n) \in Handlers
  <2>1. [do |-> "learn", n |-> n] \in Accesses /\ Does("write") \in Accesses /\ Does("save") \in Accesses
    BY <1>1
  <2> QED BY <1>a, <2>1 DEF Learn
<1>7. \A n \in 1..MaxSeq, status \in Statuses :
          /\ <<InsertMsg(n, status)>> \in Handlers
          /\ <<[do |-> "mark", n |-> n]>> \in Handlers /\ <<[do |-> "withdraw", n |-> n]>> \in Handlers
  BY <1>1 DEF Handlers
<1>8. /\ <<Exec(Statement("query", 0)), Does("ask")>> \in Handlers
      /\ <<Exec(Statement("query", 0)), Does("fill")>> \in Handlers
  BY <1>1, <1>2, <1>b
<1> QED BY <1>3, <1>4, <1>5, <1>6, <1>7, <1>8

\* And so are the pages.
LEMMA PagesAreTyped ==
    ASSUME NEW low \in Nat \ {0}, NEW high \in 0..MaxSeq, NEW gone
    PROVE  /\ InsertAll(low, high, gone) \in Handlers
           /\ MergeMessages(low, high, gone) \in Handlers
<1>1. InsertAll(low, high, gone) \in Handlers
  <2> DEFINE m == high - low + 1
  <2>1. CASE m \in Nat
    <3>1. ASSUME NEW i \in 1..m
          PROVE  InsertMsg(low + i - 1, IF low + i - 1 \in gone THEN "withdrawn" ELSE "normal") \in Accesses
      <4>1. low + i - 1 \in 1..MaxSeq
        BY BoundsAssumption
      <4> QED BY <4>1 DEF Accesses, InsertMsg, Statuses
    <3> QED BY <2>1, <3>1 DEF InsertAll, Handlers
  <2>2. CASE m \notin Nat
    <3>1. 1..m = 1..0
      BY <2>2, BoundsAssumption
    <3>2. InsertAll(low, high, gone) = <<>>
      BY <3>1 DEF InsertAll
    <3> QED BY <3>2 DEF Handlers
  <2> QED BY <2>1, <2>2
<1>2. ASSUME ~(high < low)
      PROVE  MergeMessages(low, high, gone) \in Handlers
  <2>1. /\ Exec(Statement("raise", high)) \in Accesses /\ [do |-> "raise", n |-> high] \in Accesses
        /\ Does("write") \in Accesses
    BY DEF Accesses, Exec, Statement, Statements, Does
  <2>2. <<Exec(Statement("raise", high)), [do |-> "raise", n |-> high], Does("write")>> \in Handlers
    BY <2>1 DEF Handlers
  <2> QED BY <1>1, <1>2, <2>2 DEF MergeMessages, Handlers
<1> QED BY <1>1, <1>2 DEF MergeMessages, Handlers

-----------------------------------------------------------------------------
(***************************************************************************)
(* The inductive invariant: the cache has the newest of what it was given, *)
(* and no local_seq, wherever it is on its way, passes what was received   *)
(* or learned; `received' and `learned' are got and told.                  *)
(***************************************************************************)
Covered(n, received, learned) == \A k \in 1..n : k \in received \/ k <= learned

StatementCovered(s, received, learned) ==
    /\ s.what = "put" => (s.conv # None => Covered(s.conv.local_seq, received, learned))
    /\ s.what = "raise" => Covered(s.n, received, learned)

\* The local_seq that an access gives to the row, or to the cached conversation.
Raised(a) ==
    IF a.do = "raise" THEN a.n
    ELSE IF a.do \in {"exec", "post"} /\ a.statement.what = "raise" THEN a.statement.n ELSE 0

\* A handler inserts the messages before it counts them in.
Planned(p, received, learned) ==
    \A i \in DOMAIN p : \A k \in 1..Raised(p[i]) :
        \/ k \in received \/ k <= learned
        \/ \E j \in 1..(i - 1) : p[j].do = "insert" /\ p[j].n = k

NewestInv == Newestof(DOMAIN bucket, inserted, BucketSize)

CoverInv ==
    /\ cached # None => Covered(cached.local_seq, got, told)
    /\ row # None => Covered(row.local_seq, got, told)
    /\ \A t \in Workers : held[t] # None => Covered(held[t].local_seq, got, told)
    /\ \A i \in DOMAIN queue : StatementCovered(queue[i].statement, got, told)
    /\ \A r \in requests : Covered(r.last_seq, got, told)
    /\ \A t \in Workers : Planned(todo[t], got, told)

Inv == Typed /\ NewestInv /\ CoverInv

\* What is covered stays covered.
LEMMA CoverGrows ==
    ASSUME NEW received, NEW more, received \subseteq more,
           NEW learned \in Nat, NEW later \in Nat, learned <= later
    PROVE  /\ \A n \in Nat : Covered(n, received, learned) => Covered(n, more, later)
           /\ \A s \in Statements(Maybe) :
                 StatementCovered(s, received, learned) => StatementCovered(s, more, later)
           /\ \A p \in Handlers : Planned(p, received, learned) => Planned(p, more, later)
<1>1. \A n \in Nat : Covered(n, received, learned) => Covered(n, more, later)
  BY DEF Covered
<1>2. ASSUME NEW s \in Statements(Maybe), StatementCovered(s, received, learned)
      PROVE  StatementCovered(s, more, later)
  <2>1. s.what = "put" => s.conv \in Maybe
    BY StatementFields
  <2>2. s.what = "raise" => s.n \in Nat
    BY StatementFields
  <2>3. s.what = "put" /\ s.conv # None => s.conv.local_seq \in Nat
    BY <2>1 DEF Maybe, Conversations
  <2> QED BY <1>1, <1>2, <2>2, <2>3 DEF StatementCovered
<1>3. ASSUME NEW p \in Handlers, Planned(p, received, learned)
      PROVE  Planned(p, more, later)
  <2> SUFFICES ASSUME NEW i \in DOMAIN p, NEW k \in 1..Raised(p[i])
               PROVE  \/ k \in more \/ k <= later
                      \/ \E j \in 1..(i - 1) : p[j].do = "insert" /\ p[j].n = k
    BY DEF Planned
  <2>1. \/ k \in received \/ k <= learned
        \/ \E j \in 1..(i - 1) : p[j].do = "insert" /\ p[j].n = k
    BY <1>3 DEF Planned
  <2> QED BY <2>1
<1> QED BY <1>1, <1>2, <1>3

\* An access that comes next counts in nothing that was not received.
LEMMA HeadIsCovered ==
    ASSUME NEW p \in Handlers, p # <<>>, NEW received, NEW learned, Planned(p, received, learned)
    PROVE  Covered(Raised(Head(p)), received, learned)
<1>1. 1 \in DOMAIN p /\ p[1] = Head(p)
  BY DEF Handlers
<1>2. \A k \in 1..Raised(p[1]) : k \in received \/ k <= learned
  BY <1>1 DEF Planned
<1> QED BY <1>1, <1>2 DEF Covered

\* The rest of a handler, once its first access is made.
LEMMA TailIsPlanned ==
    ASSUME NEW p \in Handlers, p # <<>>, NEW received, NEW learned, Planned(p, received, learned),
           Head(p).do = "insert" => Head(p).n \in received
    PROVE  Tail(p) \in Handlers /\ Planned(Tail(p), received, learned)
<1>1. Tail(p) \in Handlers /\ DOMAIN Tail(p) = 1..(Len(p) - 1) /\ \A i \in 1..(Len(p) - 1) : Tail(p)[i] = p[i + 1]
  BY DEF Handlers
<1>2. p[1] = Head(p) /\ Len(p) \in Nat /\ DOMAIN p = 1..Len(p)
  BY DEF Handlers
<1>3. ASSUME NEW i \in DOMAIN Tail(p), NEW k \in 1..Raised(Tail(p)[i])
      PROVE  \/ k \in received \/ k <= learned
             \/ \E j \in 1..(i - 1) : Tail(p)[j].do = "insert" /\ Tail(p)[j].n = k
  <2>1. i \in 1..(Len(p) - 1) /\ i + 1 \in DOMAIN p /\ Tail(p)[i] = p[i + 1]
    BY <1>1, <1>2
  <2>2. \/ k \in received \/ k <= learned
        \/ \E j \in 1..i : p[j].do = "insert" /\ p[j].n = k
    <3>1. k \in 1..Raised(p[i + 1])
      BY <2>1
    <3>2. (i + 1) - 1 = i
      BY <2>1
    <3> QED BY <2>1, <3>1, <3>2 DEF Planned
  <2>3. ASSUME NEW j \in 1..i, p[j].do = "insert", p[j].n = k
        PROVE  k \in received \/ \E l \in 1..(i - 1) : Tail(p)[l].do = "insert" /\ Tail(p)[l].n = k
    <3>1. CASE j = 1
      BY <1>2, <2>3, <3>1
    <3>2. CASE j # 1
      <4>1. j - 1 \in 1..(i - 1) /\ j - 1 \in 1..(Len(p) - 1) /\ (j - 1) + 1 = j
        BY <2>1, <1>2, <3>2
      <4>2. Tail(p)[j - 1] = p[j]
        BY <1>1, <4>1
      <4> QED BY <2>3, <4>1, <4>2
    <3> QED BY <3>1, <3>2
  <2> QED BY <2>2, <2>3
<1> QED BY <1>1, <1>3 DEF Planned

\* A handler that counts nothing in, or nothing new.
LEMMA ModestPlans ==
    ASSUME NEW p \in Handlers, NEW received, NEW learned,
           \A i \in DOMAIN p : Raised(p[i]) = 0
    PROVE  Planned(p, received, learned)
BY DEF Planned

\* What each handler of the notifications, the syncs and the calls sets out to do is planned
\* properly: it counts in only what it inserts first, or what was received or learned before.
LEMMA HandlersArePlanned ==
    ASSUME NEW g, NEW m
    PROVE  /\ Planned(<<>>, g, m)
           /\ \A f \in Fields, v \in Values : Planned(Patch(f, v), g, m) /\ Planned(Create(f, v), g, m)
           /\ Planned(Remove, g, m) /\ Planned(ClearUnread, g, m)
           /\ \A v \in Values : Planned(Keep(Told(v)), g, m) /\ Planned(KeepAll(Told(v)), g, m)
           /\ \A n \in 0..MaxSeq : Planned(Learn(n), g, m)
           /\ \A n \in 1..MaxSeq, status \in Statuses :
                 /\ Planned(<<InsertMsg(n, status)>>, g, m)
                 /\ Planned(<<[do |-> "mark", n |-> n]>>, g, m) /\ Planned(<<[do |-> "withdraw", n |-> n]>>, g, m)
           /\ Planned(<<Exec(Statement("query", 0)), Does("ask")>>, g, m)
           /\ Planned(<<Exec(Statement("query", 0)), Does("fill")>>, g, m)
           /\ \A low \in Nat \ {0}, high \in 0..MaxSeq : \A gone : Planned(InsertAll(low, high, gone), g, m)
<1>1. /\ \A do \in {"write", "save", "remove", "clear", "ask", "fill"} : Raised(Does(do)) = 0
      /\ \A f, v : Raised([do |-> "patch", field |-> f, v |-> v]) = 0
      /\ \A f, v : Raised([do |-> "create", field |-> f, v |-> v]) = 0
      /\ \A s : s.what # "raise" => Raised(Exec(s)) = 0 /\ Raised(Post(s)) = 0
      /\ \A c : Raised([do |-> "put", conv |-> c]) = 0
      /\ \A n : /\ Raised([do |-> "learn", n |-> n]) = 0 /\ Raised([do |-> "mark", n |-> n]) = 0
                /\ Raised([do |-> "withdraw", n |-> n]) = 0
      /\ \A n, status : Raised(InsertMsg(n, status)) = 0
  BY DEF Raised, Does, Exec, Post, InsertMsg
<1>2. /\ \A n : Statement("delete", n).what # "raise" /\ Statement("clear", n).what # "raise"
                /\ Statement("query", n).what # "raise" /\ Statement("merge", n).what # "raise"
      /\ \A c : PutRow(c).what # "raise"
  BY DEF Statement, PutRow
<1>3. /\ \A a : Raised(a) = 0 => Planned(<<a>>, g, m)
      /\ \A a, b : Raised(a) = 0 /\ Raised(b) = 0 => Planned(<<a, b>>, g, m)
      /\ \A a, b, c : Raised(a) = 0 /\ Raised(b) = 0 /\ Raised(c) = 0 => Planned(<<a, b, c>>, g, m)
      /\ Planned(<<>>, g, m)
  BY DEF Planned
<1>4. \A f \in Fields, v \in Values : Planned(Patch(f, v), g, m) /\ Planned(Create(f, v), g, m)
  BY <1>1, <1>3 DEF Patch, Create, ChangeCached
<1>5. Planned(Remove, g, m) /\ Planned(ClearUnread, g, m)
  BY <1>1, <1>2, <1>3 DEF Remove, ClearUnread
<1>6. \A v \in Values : Planned(Keep(Told(v)), g, m) /\ Planned(KeepAll(Told(v)), g, m)
  BY <1>1, <1>2, <1>3 DEF Keep, KeepAll
<1>7. \A n \in 0..MaxSeq : Planned(Learn(n), g, m)
  BY <1>1, <1>3 DEF Learn
<1>8. \A n \in 1..MaxSeq, status \in Statuses :
          /\ Planned(<<InsertMsg(n, status)>>, g, m)
          /\ Planned(<<[do |-> "mark", n |-> n]>>, g, m) /\ Planned(<<[do |-> "withdraw", n |-> n]>>, g, m)
  BY <1>1, <1>3
<1>9. /\ Planned(<<Exec(Statement("query", 0)), Does("ask")>>, g, m)
      /\ Planned(<<Exec(Statement("query", 0)), Does("fill")>>, g, m)
  BY <1>1, <1>2, <1>3
<1>10. ASSUME NEW low \in Nat \ {0}, NEW high \in 0..MaxSeq, NEW gone
       PROVE  Planned(InsertAll(low, high, gone), g, m)
  <2>1. \A i \in DOMAIN InsertAll(low, high, gone) : Raised(InsertAll(low, high, gone)[i]) = 0
    BY <1>1 DEF InsertAll
  <2> QED BY <2>1, PagesAreTyped, ModestPlans
<1> QED BY <1>3, <1>4, <1>5, <1>6, <1>7, <1>8, <1>9, <1>10

\* The elements of two handlers, one after the other.
LEMMA Joined ==
    ASSUME NEW p \in Handlers, NEW q \in Handlers
    PROVE  /\ p \o q \in Handlers /\ DOMAIN (p \o q) = 1..(Len(p) + Len(q))
           /\ \A i \in 1..Len(p) : (p \o q)[i] = p[i]
           /\ \A i \in 1..Len(q) : (p \o q)[Len(p) + i] = q[i]
<1>1. /\ p \o q \in Seq(Accesses) /\ Len(p \o q) = Len(p) + Len(q)
      /\ \A i \in 1..(Len(p) + Len(q)) : (p \o q)[i] = IF i <= Len(p) THEN p[i] ELSE q[i - Len(p)]
  BY ConcatProperties DEF Handlers
<1>2. Len(p) \in Nat /\ Len(q) \in Nat
  BY DEF Handlers
<1>3. ASSUME NEW i \in 1..Len(q)
      PROVE  (p \o q)[Len(p) + i] = q[i]
  <2>1. Len(p) + i \in 1..(Len(p) + Len(q)) /\ ~(Len(p) + i <= Len(p)) /\ (Len(p) + i) - Len(p) = i
    BY <1>2
  <2> QED BY <1>1, <2>1
<1>4. \A i \in 1..Len(p) : (p \o q)[i] = p[i]
  BY <1>1, <1>2
<1> QED BY <1>1, <1>3, <1>4 DEF Handlers

\* A page is counted in after its messages, and what came before it is covered.
LEMMA MergeIsPlanned ==
    ASSUME NEW g, NEW m \in Nat, NEW last \in 0..MaxSeq, Covered(last, g, m),
           NEW high \in last..MaxSeq, NEW gone
    PROVE  Planned(MergeMessages(last + 1, high, gone), g, m)
<1> DEFINE p == MergeMessages(last + 1, high, gone)
           ins == InsertAll(last + 1, high, gone)
           n == high - last
<1>0. last \in Nat /\ high \in Nat /\ last <= high /\ n \in Nat /\ high - (last + 1) + 1 = n
  BY BoundsAssumption
<1>1. CASE high < last + 1
  <2>1. p = <<>>
    BY <1>1 DEF MergeMessages
  <2> QED BY <2>1, HandlersArePlanned
<1>2. CASE ~(high < last + 1)
  <2>1. /\ ins = [i \in 1..n |-> InsertMsg(last + 1 + i - 1, IF last + 1 + i - 1 \in gone THEN "withdrawn" ELSE "normal")]
        /\ ins \in Handlers
    <3>1. ins \in Handlers
      BY <1>0, PagesAreTyped
    <3> QED BY <1>0, <3>1 DEF InsertAll
  <2>2. p = ins \o <<Exec(Statement("raise", high)), [do |-> "raise", n |-> high], Does("write")>>
    BY <1>2 DEF MergeMessages
  <2> HIDE DEF p, ins, n
  <2>3. Len(ins) = n /\ ins \in Seq(Accesses)
    BY <1>0, <2>1 DEF Handlers
  <2>4. /\ DOMAIN p = 1..(n + 3)
        /\ \A i \in 1..n : p[i] = ins[i]
        /\ p[n + 1] = Exec(Statement("raise", high)) /\ p[n + 2] = [do |-> "raise", n |-> high]
        /\ p[n + 3] = Does("write")
    <3> DEFINE q == <<Exec(Statement("raise", high)), [do |-> "raise", n |-> high], Does("write")>>
    <3>1. q \in Handlers
      BY <1>0 DEF Handlers, Accesses, Exec, Statement, Statements, Does
    <3>2. /\ Len(q) = 3 /\ q[1] = Exec(Statement("raise", high))
          /\ q[2] = [do |-> "raise", n |-> high] /\ q[3] = Does("write")
      OBVIOUS
    <3> HIDE DEF q
    <3>3. /\ DOMAIN p = 1..(n + 3)
          /\ \A i \in 1..n : p[i] = ins[i]
          /\ \A i \in 1..3 : p[n + i] = q[i]
      <4>1. p = ins \o q
        BY <2>2 DEF q
      <4>2. /\ DOMAIN (ins \o q) = 1..(Len(ins) + Len(q))
            /\ \A i \in 1..Len(ins) : (ins \o q)[i] = ins[i]
            /\ \A i \in 1..Len(q) : (ins \o q)[Len(ins) + i] = q[i]
        BY <2>1, <3>1, Joined
      <4> QED BY <2>3, <3>2, <4>1, <4>2
    <3> QED BY <3>2, <3>3
  <2>5. \A i \in 1..n : p[i].do = "insert" /\ p[i].n = last + i /\ Raised(p[i]) = 0
    <3> SUFFICES ASSUME NEW i \in 1..n
                 PROVE  p[i].do = "insert" /\ p[i].n = last + i /\ Raised(p[i]) = 0
      OBVIOUS
    <3>1. p[i] = InsertMsg(last + 1 + i - 1, IF last + 1 + i - 1 \in gone THEN "withdrawn" ELSE "normal")
      BY <2>1, <2>4
    <3>2. last + 1 + i - 1 = last + i
      BY <1>0
    <3> QED BY <3>1, <3>2 DEF InsertMsg, Raised
  <2>6. Raised(p[n + 1]) = high /\ Raised(p[n + 2]) = high /\ Raised(p[n + 3]) = 0
    BY <2>4 DEF Raised, Exec, Statement, Does
  <2>7. ASSUME NEW i \in DOMAIN p, NEW k \in 1..Raised(p[i])
        PROVE  \/ k \in g \/ k <= m
               \/ \E j \in 1..(i - 1) : p[j].do = "insert" /\ p[j].n = k
    <3>1. i \in {n + 1, n + 2} /\ k \in 1..high
      <4>1. n \in Nat /\ i \in 1..(n + 3)
        BY <1>0, <2>4
      <4>2. CASE i \in 1..n
        BY <2>5, <2>7, <4>2
      <4>3. CASE i = n + 3
        BY <2>6, <2>7, <4>3
      <4>4. CASE i \in {n + 1, n + 2}
        BY <2>6, <2>7, <4>4
      <4> QED BY <4>1, <4>2, <4>3, <4>4
    <3>2. CASE k <= last
      BY <1>0, <3>1, <3>2 DEF Covered
    <3>3. CASE ~(k <= last)
      <4>1. k - last \in 1..n /\ k - last \in 1..(i - 1) /\ last + (k - last) = k
        BY <1>0, <3>1, <3>3 DEF n
      <4> QED BY <2>5, <4>1
    <3> QED BY <3>2, <3>3
  <2> QED BY <2>7 DEF Planned, p
<1> QED BY <1>1, <1>2

\* Also with the conversation before it.
LEMMA SessionIsPlanned ==
    ASSUME NEW g, NEW m, NEW v \in Values, NEW p \in Handlers, Planned(p, g, m)
    PROVE  MergeSession(v) \o p \in Handlers /\ Planned(MergeSession(v) \o p, g, m)
<1> DEFINE a == MergeSession(v)[1]
           b == MergeSession(v)[2]
           q == MergeSession(v) \o p
<1>1. MergeSession(v) \in Handlers
  BY HandlersAreTyped
<1>2. Len(MergeSession(v)) = 2 /\ Raised(a) = 0 /\ Raised(b) = 0
  BY DEF MergeSession, Raised, Exec, Statement
<1> HIDE DEF a, b
<1>3. /\ q \in Handlers /\ DOMAIN q = 1..(2 + Len(p))
      /\ q[1] = a /\ q[2] = b /\ \A i \in DOMAIN p : q[2 + i] = p[i]
  <2>1. /\ q \in Handlers /\ DOMAIN q = 1..(2 + Len(p))
        /\ \A i \in 1..2 : q[i] = MergeSession(v)[i]
        /\ \A i \in 1..Len(p) : q[2 + i] = p[i]
    <3>1. /\ q \in Handlers /\ DOMAIN q = 1..(Len(MergeSession(v)) + Len(p))
          /\ \A i \in 1..Len(MergeSession(v)) : q[i] = MergeSession(v)[i]
          /\ \A i \in 1..Len(p) : q[Len(MergeSession(v)) + i] = p[i]
      BY <1>1, Joined
    <3> HIDE DEF q
    <3> QED BY <1>2, <3>1
  <2>2. Len(p) \in Nat /\ DOMAIN p = 1..Len(p)
    BY DEF Handlers
  <2> QED BY <2>1, <2>2 DEF a, b
<1> HIDE DEF q
<1>4. DOMAIN p = 1..Len(p) /\ Len(p) \in Nat
  BY DEF Handlers
<1>5. ASSUME NEW i \in DOMAIN q, NEW k \in 1..Raised(q[i])
      PROVE  \/ k \in g \/ k <= m
             \/ \E j \in 1..(i - 1) : q[j].do = "insert" /\ q[j].n = k
  <2>1. i # 1 /\ i # 2
    BY <1>2, <1>3
  <2>2. i - 2 \in DOMAIN p /\ 2 + (i - 2) = i
    BY <1>3, <1>4, <2>1
  <2>3. q[i] = p[i - 2]
    BY <1>3, <2>2
  <2>4. \/ k \in g \/ k <= m
        \/ \E j \in 1..((i - 2) - 1) : p[j].do = "insert" /\ p[j].n = k
    BY <2>2, <2>3 DEF Planned
  <2>5. ASSUME NEW j \in 1..((i - 2) - 1)
        PROVE  2 + j \in 1..(i - 1) /\ q[2 + j] = p[j]
    BY <1>3, <1>4, <2>2
  <2> QED BY <2>4, <2>5
<1> QED BY <1>3, <1>5 DEF Planned, q

-----------------------------------------------------------------------------
(***************************************************************************)
(* Handlers that are begun keep the invariant.                             *)
(***************************************************************************)
\* Whichever thread takes it up.
LEMMA BeginKeeps ==
    ASSUME Inv, NEW t \in Workers, NEW h \in Handlers, Planned(h, got, told), Begin(t, h),
           requests' \subseteq requests, syncs' \in 0..MaxSyncs, calls' \in 0..MaxCalls,
           pushed' \in 0..MaxPushes
    PROVE  Inv'
<1>1. /\ UNCHANGED <<local, queue, held, restarts, got, told, inserted>>
      /\ todo' = [todo EXCEPT ![t] = h]
  BY DEF Begin
<1>2. parted' \in BOOLEAN
  BY DEF Inv, Typed, Begin
<1>3. todo' \in [Workers -> Handlers]
  BY <1>1 DEF Inv, Typed
<1>4. Typed'
  BY <1>1, <1>2, <1>3 DEF Inv, Typed
<1>5. NewestInv'
  BY <1>1 DEF Inv, NewestInv
<1>6. \A u \in Workers : Planned(todo'[u], got, told)
  BY <1>1 DEF Inv, Typed, CoverInv
<1>7. CoverInv'
  BY <1>1, <1>6 DEF Inv, CoverInv
<1> QED BY <1>4, <1>5, <1>7 DEF Inv

\* An answer's handler.
LEMMA AnsweredKeeps ==
    ASSUME Inv, NEW h \in Handlers, Planned(h, got, told), Answered(h)
    PROVE  Inv'
<1>1. calls' \in 0..MaxCalls
  BY BoundsAssumption DEF Inv, Typed, Answered
<1>2. syncs' \in 0..MaxSyncs /\ pushed' \in 0..MaxPushes /\ requests' = requests
  BY DEF Inv, Typed, Answered
<1> QED BY <1>1, <1>2, BeginKeeps DEF Answered

\* A notification's handler.
LEMMA PushedKeeps ==
    ASSUME Inv, NEW h \in Handlers, Planned(h, got, told), Pushed(h)
    PROVE  Inv'
<1>1. pushed' \in 0..MaxPushes
  BY BoundsAssumption DEF Inv, Typed, Pushed
<1>2. syncs' \in 0..MaxSyncs /\ calls' \in 0..MaxCalls /\ requests' = requests
  BY DEF Inv, Typed, Pushed
<1> QED BY <1>1, <1>2, BeginKeeps DEF Pushed

\* Every call whose answer is handled.
LEMMA AnswersKeep ==
    ASSUME Inv,
           \/ SetField \/ MarkAllRead \/ DeleteConversation \/ GetConversation
           \/ GetMessageSequence \/ GetMessages \/ WithdrawMessage
    PROVE  Inv'
<1>1. CASE SetField
  BY <1>1, HandlersAreTyped, HandlersArePlanned, AnsweredKeeps DEF SetField
<1>2. CASE MarkAllRead \/ DeleteConversation
  BY <1>2, HandlersAreTyped, HandlersArePlanned, AnsweredKeeps DEF MarkAllRead, DeleteConversation
<1>3. CASE GetConversation
  BY <1>3, HandlersAreTyped, HandlersArePlanned, AnsweredKeeps DEF GetConversation
<1>4. CASE GetMessageSequence
  BY <1>4, HandlersAreTyped, HandlersArePlanned, AnsweredKeeps DEF GetMessageSequence
<1>5. CASE GetMessages
  <2>1. PICK low \in 1..MaxSeq, high \in 1..MaxSeq, gone \in SUBSET (1..MaxSeq) :
          Answered(InsertAll(low, high, gone))
    BY <1>5 DEF GetMessages
  <2>2. low \in Nat \ {0} /\ high \in 0..MaxSeq
    BY BoundsAssumption
  <2> QED BY <2>1, <2>2, PagesAreTyped, HandlersArePlanned, AnsweredKeeps
<1>6. CASE WithdrawMessage
  <2>1. PICK n \in 1..MaxSeq : Answered(<<[do |-> "mark", n |-> n]>>)
    BY <1>6 DEF WithdrawMessage
  <2>2. "normal" \in Statuses
    BY DEF Statuses
  <2>3. <<[do |-> "mark", n |-> n]>> \in Handlers
    BY <2>2, HandlersAreTyped
  <2>4. Planned(<<[do |-> "mark", n |-> n]>>, got, told)
    BY <2>2, HandlersArePlanned
  <2> QED BY <2>1, <2>3, <2>4, AnsweredKeeps
<1> QED BY <1>1, <1>2, <1>3, <1>4, <1>5, <1>6

\* Every notification.
LEMMA NotificationsKeep ==
    ASSUME Inv, OnMessage \/ OnWithdrawn \/ OnConversation \/ OnDeleted
    PROVE  Inv'
<1>1. CASE OnMessage
  BY <1>1, HandlersAreTyped, HandlersArePlanned, PushedKeeps DEF OnMessage, Statuses
<1>2. CASE OnWithdrawn
  <2>1. PICK n \in 1..MaxSeq : Pushed(<<[do |-> "withdraw", n |-> n]>>)
    BY <1>2 DEF OnWithdrawn
  <2>2. "normal" \in Statuses
    BY DEF Statuses
  <2>3. <<[do |-> "withdraw", n |-> n]>> \in Handlers
    BY <2>2, HandlersAreTyped
  <2>4. Planned(<<[do |-> "withdraw", n |-> n]>>, got, told)
    BY <2>2, HandlersArePlanned
  <2> QED BY <2>1, <2>3, <2>4, PushedKeeps
<1>3. CASE OnConversation
  BY <1>3, HandlersAreTyped, HandlersArePlanned, PushedKeeps DEF OnConversation
<1>4. CASE OnDeleted
  BY <1>4, HandlersAreTyped, HandlersArePlanned, PushedKeeps DEF OnDeleted
<1> QED BY <1>1, <1>2, <1>3, <1>4

\* The syncs and the lists: begun, and answered.
LEMMA SyncsKeep ==
    ASSUME Inv, Sync \/ GetConversationList \/ \E r \in requests : OnSyncAnswer(r) \/ OnListAnswer(r)
    PROVE  Inv'
<1>1. CASE Sync
  <2>1. syncs' \in 0..MaxSyncs
    BY <1>1, BoundsAssumption DEF Inv, Typed, Sync
  <2>2. calls' \in 0..MaxCalls /\ pushed' \in 0..MaxPushes /\ requests' = requests
    BY <1>1 DEF Inv, Typed, Sync
  <2> QED BY <1>1, <2>1, <2>2, HandlersAreTyped, HandlersArePlanned, BeginKeeps DEF Sync
<1>2. CASE GetConversationList
  <2>1. calls' \in 0..MaxCalls
    BY <1>2, BoundsAssumption DEF Inv, Typed, GetConversationList
  <2>2. syncs' \in 0..MaxSyncs /\ pushed' \in 0..MaxPushes /\ requests' = requests
    BY <1>2 DEF Inv, Typed, GetConversationList
  <2> QED BY <1>2, <2>1, <2>2, HandlersAreTyped, HandlersArePlanned, BeginKeeps DEF GetConversationList
<1>3. ASSUME NEW r \in requests, OnListAnswer(r)
      PROVE  Inv'
  <2>1. /\ syncs' \in 0..MaxSyncs /\ calls' \in 0..MaxCalls /\ pushed' \in 0..MaxPushes
        /\ requests' \subseteq requests
    BY <1>3 DEF Inv, Typed, OnListAnswer
  <2> QED BY <1>3, <2>1, HandlersAreTyped, HandlersArePlanned, BeginKeeps DEF OnListAnswer
<1>4. ASSUME NEW r \in requests, OnSyncAnswer(r)
      PROVE  Inv'
  <2>1. /\ syncs' \in 0..MaxSyncs /\ calls' \in 0..MaxCalls /\ pushed' \in 0..MaxPushes
        /\ requests' \subseteq requests
    BY <1>4 DEF Inv, Typed, OnSyncAnswer
  <2>2. PICK session \in {<<>>} \cup {MergeSession(v) : v \in Values},
             high \in r.last_seq..MaxSeq, gone \in SUBSET (1..MaxSeq) :
          Begin("http", session \o MergeMessages(r.last_seq + 1, high, gone))
    BY <1>4 DEF OnSyncAnswer
  <2>3. r.last_seq \in 0..MaxSeq /\ Covered(r.last_seq, got, told) /\ told \in Nat
    BY <1>4 DEF Inv, Typed, CoverInv
  <2> DEFINE p == MergeMessages(r.last_seq + 1, high, gone)
  <2>4. Planned(p, got, told)
    BY <2>3, MergeIsPlanned
  <2>5. p \in Handlers
    <3>1. r.last_seq + 1 \in Nat \ {0} /\ high \in 0..MaxSeq
      BY <2>3, BoundsAssumption
    <3> QED BY <3>1, PagesAreTyped
  <2> HIDE DEF p
  <2>6. session \o p \in Handlers /\ Planned(session \o p, got, told)
    <3>1. CASE session = <<>>
      <4>1. session \o p = p
        BY <2>5, <3>1, ConcatEmptySeq DEF Handlers
      <4> QED BY <2>4, <2>5, <4>1
    <3>2. CASE session # <<>>
      BY <2>2, <2>4, <2>5, <3>2, SessionIsPlanned
    <3> QED BY <3>1, <3>2
  <2>7. Begin("http", session \o p)
    BY <2>2 DEF p
  <2> QED BY <2>1, <2>6, <2>7, BeginKeeps
<1> QED BY <1>1, <1>2, <1>3, <1>4

-----------------------------------------------------------------------------
(***************************************************************************)
(* And so does every access.                                               *)
(***************************************************************************)
\* What is known of the access that thread t makes next.
LEMMA NextAccess ==
    ASSUME Inv, NEW t \in Workers, NEW kinds, Turn(t, kinds)
    PROVE  /\ todo[t] \in Handlers /\ todo[t] # <<>>
           /\ Head(todo[t]) \in Accesses /\ Head(todo[t]).do \in kinds
           /\ Covered(Raised(Head(todo[t])), got, told)
<1>1. todo[t] \in Handlers /\ todo[t] # <<>> /\ Head(todo[t]).do \in kinds
  BY DEF Inv, Typed, Turn, Idle
<1>2. Head(todo[t]) \in Accesses
  BY <1>1 DEF Handlers
<1>3. Covered(Raised(Head(todo[t])), got, told)
  BY <1>1, HeadIsCovered DEF Inv, CoverInv
<1> QED BY <1>1, <1>2, <1>3

\* What is left when it is made, or when the handler stops.
LEMMA Left ==
    ASSUME Inv, NEW t \in Workers, NEW kinds, Turn(t, kinds), "insert" \notin kinds,
           Advance(t) \/ Stop(t), NEW later \in Nat, told <= later
    PROVE  /\ todo' \in [Workers -> Handlers]
           /\ \A u \in Workers : Planned(todo'[u], got, later)
<1>1. /\ todo[t] \in Handlers /\ todo[t] # <<>> /\ Head(todo[t]).do # "insert"
      /\ \A u \in Workers : todo[u] \in Handlers /\ Planned(todo[u], got, told)
      /\ told \in Nat
  BY NextAccess DEF Inv, Typed, CoverInv
<1>2. Tail(todo[t]) \in Handlers /\ Planned(Tail(todo[t]), got, told)
  BY <1>1, TailIsPlanned
<1>3. <<>> \in Handlers /\ Planned(<<>>, got, told)
  BY HandlersArePlanned DEF Handlers
<1>4. todo' = [todo EXCEPT ![t] = Tail(todo[t])] \/ todo' = [todo EXCEPT ![t] = <<>>]
  BY DEF Advance, Stop
<1>5. todo' \in [Workers -> Handlers] /\ \A u \in Workers : Planned(todo'[u], got, told)
  BY <1>1, <1>2, <1>3, <1>4 DEF Inv, Typed
<1>6. \A p \in Handlers : Planned(p, got, told) => Planned(p, got, later)
  BY <1>1, CoverGrows
<1> QED BY <1>5, <1>6

\* What statements there are in the queue, and those given to it.
LEMMA QueueGrows ==
    ASSUME Inv, NEW by \in Workers \cup {"none"}, NEW s \in Statements(Maybe),
           NEW later \in Nat, told <= later, StatementCovered(s, got, later), Enqueue(by, s)
    PROVE  /\ queue' \in Seq([by : Workers \cup {"none"}, statement : Statements(Maybe)])
           /\ \A i \in DOMAIN queue' : StatementCovered(queue'[i].statement, got, later)
<1> DEFINE Q == [by : Workers \cup {"none"}, statement : Statements(Maybe)]
           q == [by |-> by, statement |-> s]
<1>1. queue \in Seq(Q) /\ q \in Q /\ q.statement = s /\ queue' = Append(queue, q)
  BY DEF Inv, Typed, Enqueue
<1>2. \A p \in Q : p.statement \in Statements(Maybe)
  OBVIOUS
<1>3. \A p \in Statements(Maybe) : StatementCovered(p, got, told) => StatementCovered(p, got, later)
  <2>1. told \in Nat /\ got \subseteq got
    BY DEF Inv, Typed
  <2> QED BY <2>1, CoverGrows
<1> HIDE DEF Q, q
<1>4. \A i \in DOMAIN queue : StatementCovered(queue[i].statement, got, later)
  <2> SUFFICES ASSUME NEW i \in DOMAIN queue
               PROVE  StatementCovered(queue[i].statement, got, later)
    OBVIOUS
  <2>1. queue[i] \in Q
    BY <1>1
  <2>2. StatementCovered(queue[i].statement, got, told)
    BY DEF Inv, CoverInv
  <2> QED BY <1>2, <1>3, <2>1, <2>2
<1>5. queue' \in Seq(Q)
  BY <1>1
<1>6. /\ Len(queue) \in Nat /\ DOMAIN queue = 1..Len(queue)
      /\ DOMAIN queue' = 1..(Len(queue) + 1) /\ queue'[Len(queue) + 1] = q
      /\ \A i \in 1..Len(queue) : queue'[i] = queue[i]
  BY <1>1
<1>7. ASSUME NEW i \in DOMAIN queue'
      PROVE  StatementCovered(queue'[i].statement, got, later)
  <2>1. CASE i = Len(queue) + 1
    BY <1>1, <1>6, <2>1
  <2>2. CASE i # Len(queue) + 1
    <3>1. i \in 1..Len(queue)
      BY <1>6, <2>2
    <3> QED BY <1>4, <1>6, <3>1
  <2> QED BY <2>1, <2>2
<1> QED BY <1>5, <1>7 DEF Q

\* What was covered stays so when more is received or learned.
LEMMA StaysCovered ==
    ASSUME Inv, NEW more, got \subseteq more, NEW later \in Nat, told <= later
    PROVE  /\ cached # None => Covered(cached.local_seq, more, later)
           /\ row # None => Covered(row.local_seq, more, later)
           /\ \A t \in Workers : held[t] # None => Covered(held[t].local_seq, more, later)
           /\ \A i \in DOMAIN queue : StatementCovered(queue[i].statement, more, later)
           /\ \A r \in requests : Covered(r.last_seq, more, later)
           /\ \A u \in Workers : Planned(todo[u], more, later)
<1>0. told \in Nat
  BY DEF Inv, Typed
<1>1. /\ \A n \in Nat : Covered(n, got, told) => Covered(n, more, later)
      /\ \A s \in Statements(Maybe) : StatementCovered(s, got, told) => StatementCovered(s, more, later)
      /\ \A p \in Handlers : Planned(p, got, told) => Planned(p, more, later)
  BY <1>0, CoverGrows
<1>2. \A c \in Maybe : c # None => c.local_seq \in Nat
  BY BoundsAssumption DEF Maybe, Conversations
<1>3. cached # None => Covered(cached.local_seq, more, later)
  BY <1>1, <1>2 DEF Inv, Typed, CoverInv
<1>4. row # None => Covered(row.local_seq, more, later)
  BY <1>1, <1>2 DEF Inv, Typed, CoverInv
<1>5. ASSUME NEW t \in Workers, held[t] # None
      PROVE  Covered(held[t].local_seq, more, later)
  <2>1. held[t] \in Maybe /\ Covered(held[t].local_seq, got, told)
    BY <1>5 DEF Inv, Typed, CoverInv
  <2> QED BY <1>1, <1>2, <1>5, <2>1
<1>6. ASSUME NEW i \in DOMAIN queue
      PROVE  StatementCovered(queue[i].statement, more, later)
  <2> DEFINE Q == [by : Workers \cup {"none"}, statement : Statements(Maybe)]
  <2>1. queue \in Seq(Q)
    BY DEF Inv, Typed
  <2>2. \A p \in Q : p.statement \in Statements(Maybe)
    OBVIOUS
  <2> HIDE DEF Q
  <2>3. queue[i] \in Q
    BY <2>1
  <2>4. StatementCovered(queue[i].statement, got, told)
    BY DEF Inv, CoverInv
  <2> QED BY <1>1, <2>2, <2>3, <2>4
<1>7. ASSUME NEW r \in requests
      PROVE  Covered(r.last_seq, more, later)
  <2>1. r.last_seq \in Nat /\ Covered(r.last_seq, got, told)
    BY BoundsAssumption DEF Inv, Typed, CoverInv
  <2> QED BY <1>1, <2>1
<1>8. ASSUME NEW u \in Workers
      PROVE  Planned(todo[u], more, later)
  <2>1. todo[u] \in Handlers /\ Planned(todo[u], got, told)
    BY DEF Inv, Typed, CoverInv
  <2> QED BY <1>1, <2>1
<1> QED BY <1>3, <1>4, <1>5, <1>6, <1>7, <1>8

\* An access keeps the invariant if what it writes is covered.
LEMMA AccessKeeps ==
    ASSUME Inv,
           todo' \in [Workers -> Handlers], \A u \in Workers : Planned(todo'[u], got, told'),
           cached' \in Maybe, cached' # None => Covered(cached'.local_seq, got, told'),
           held' \in [Workers -> Maybe],
           \A u \in Workers : held'[u] # None => Covered(held'[u].local_seq, got, told'),
           \/ queue' = queue
           \/ \E by \in Workers \cup {"none"}, s \in Statements(Maybe) :
                 StatementCovered(s, got, told') /\ Enqueue(by, s),
           \/ requests' = requests
           \/ \E kind \in {"sync", "list"}, n \in 0..MaxSeq : Covered(n, got, told) /\ Request(kind, n),
           bucket' \in Bucket(1..MaxSeq, Statuses), DOMAIN bucket' = DOMAIN bucket,
           told' \in 0..MaxSeq, told <= told',
           parted' = parted \/ parted' \in BOOLEAN,
           UNCHANGED <<row, syncs, calls, pushed, restarts, got, inserted>>
    PROVE  Inv'
<1>1. /\ queue' \in Seq([by : Workers \cup {"none"}, statement : Statements(Maybe)])
      /\ \A i \in DOMAIN queue' : StatementCovered(queue'[i].statement, got, told')
  <2>1. told' \in Nat
    BY BoundsAssumption
  <2>2. CASE queue' = queue
    <3>1. \A i \in DOMAIN queue : StatementCovered(queue[i].statement, got, told')
      BY <2>1, StaysCovered
    <3> QED BY <2>2, <3>1 DEF Inv, Typed
  <2>3. CASE \E by \in Workers \cup {"none"}, s \in Statements(Maybe) :
                 StatementCovered(s, got, told') /\ Enqueue(by, s)
    BY <2>1, <2>3, QueueGrows
  <2> QED BY <2>2, <2>3
<1>2. /\ requests' \subseteq [id : Nat, kind : {"sync", "list"}, last_seq : 0..MaxSeq]
      /\ \A r \in requests' : Covered(r.last_seq, got, told')
  <2>0. told' \in Nat /\ told \in Nat /\ syncs + calls \in Nat
    BY BoundsAssumption DEF Inv, Typed
  <2>1. \A r \in requests : Covered(r.last_seq, got, told')
    BY <2>0, StaysCovered
  <2>2. CASE requests' = requests
    BY <2>1, <2>2 DEF Inv, Typed
  <2>3. ASSUME NEW kind \in {"sync", "list"}, NEW n \in 0..MaxSeq, Covered(n, got, told), Request(kind, n)
        PROVE  /\ requests' \subseteq [id : Nat, kind : {"sync", "list"}, last_seq : 0..MaxSeq]
               /\ \A r \in requests' : Covered(r.last_seq, got, told')
    <3>1. requests' = requests \cup {[id |-> syncs + calls, kind |-> kind, last_seq |-> n]}
      BY <2>3 DEF Request
    <3>2. Covered(n, got, told')
      <4>1. n \in Nat
        BY BoundsAssumption
      <4> QED BY <2>0, <2>3, <4>1, CoverGrows
    <3> QED BY <2>0, <2>1, <3>1, <3>2 DEF Inv, Typed
  <2> QED BY <2>2, <2>3
<1>3. row # None => Covered(row.local_seq, got, told')
  <2>1. told' \in Nat
    BY BoundsAssumption
  <2> QED BY <2>1, StaysCovered
<1>4. Typed'
  BY <1>1, <1>2 DEF Inv, Typed
<1>5. NewestInv'
  BY DEF Inv, NewestInv
<1>6. CoverInv'
  BY <1>1, <1>2, <1>3 DEF CoverInv
<1> QED BY <1>4, <1>5, <1>6 DEF Inv
\* What stays as it is, when nothing is learned.
LEMMA AsItIs ==
    ASSUME Inv
    PROVE  /\ cached \in Maybe /\ (cached # None => Covered(cached.local_seq, got, told))
           /\ held \in [Workers -> Maybe]
           /\ \A t \in Workers : held[t] \in Maybe /\ (held[t] # None => Covered(held[t].local_seq, got, told))
           /\ bucket \in Bucket(1..MaxSeq, Statuses)
           /\ told \in Nat /\ told \in 0..MaxSeq /\ told <= told
           /\ None \in Maybe /\ None \notin Conversations /\ NewConvs \subseteq Maybe
           /\ \A c \in NewConvs : Covered(c.local_seq, got, told)
<1>1. told \in Nat /\ told \in 0..MaxSeq
  BY BoundsAssumption DEF Inv, Typed
<1>2. \A c \in NewConvs : Covered(c.local_seq, got, told)
  BY DEF NewConvs, Covered
<1> QED BY <1>1, <1>2, ConversationFacts DEF Inv, Typed, CoverInv, Maybe, NewConvs

\* The copy a handler works on, or none at its end.
LEMMA Released ==
    ASSUME Inv, NEW t \in Workers, Release(t)
    PROVE  /\ held' \in [Workers -> Maybe]
           /\ \A u \in Workers : held'[u] # None => Covered(held'[u].local_seq, got, told)
<1>1. held' = held \/ held' = [held EXCEPT ![t] = None]
  BY DEF Release
<1>2. CASE held' = held
  BY <1>2, AsItIs
<1>3. CASE held' = [held EXCEPT ![t] = None]
  <2>1. \A u \in Workers : held'[u] = IF u = t THEN None ELSE held[u]
    BY <1>3, AsItIs
  <2> QED BY <1>3, <2>1, AsItIs
<1> QED BY <1>1, <1>2, <1>3

\* A statement is given to the database.
LEMMA GiveKeeps == ASSUME Inv, NEW t \in Workers, Give(t) PROVE Inv'
<1>1. Turn(t, {"exec", "post"}) /\ Advance(t) /\ told' = told
  BY DEF Give, history
<1>2. /\ Head(todo[t]).do \in {"exec", "post"} /\ Head(todo[t]) \in Accesses
      /\ Covered(Raised(Head(todo[t])), got, told)
  BY <1>1, NextAccess
<1>3. Head(todo[t]).statement \in Statements(NewConvs)
  BY <1>2, AccessFields
<1> DEFINE s == Head(todo[t]).statement
<1>4. s \in Statements(Maybe)
  BY <1>3 DEF Statements, NewConvs, Maybe
<1>5. StatementCovered(s, got, told)
  <2>1. s.what = "put" => Covered(s.conv.local_seq, got, told)
    BY <1>3, StatementFields, AsItIs
  <2>2. s.what = "raise" => Covered(s.n, got, told)
    BY <1>2 DEF Raised
  <2> QED BY <2>1, <2>2 DEF StatementCovered
<1>6. \E by \in Workers \cup {"none"} : Enqueue(by, s)
  BY DEF Give
<1>7. \E by \in Workers \cup {"none"}, q \in Statements(Maybe) :
          StatementCovered(q, got, told') /\ Enqueue(by, q)
  BY <1>1, <1>4, <1>5, <1>6
<1>8. todo' \in [Workers -> Handlers] /\ \A u \in Workers : Planned(todo'[u], got, told')
  BY <1>1, Left, AsItIs
<1>9. UNCHANGED <<cached, bucket, held, row, requests, syncs, calls, pushed, restarts, got, inserted, parted>>
  BY DEF Give
<1> QED BY <1>1, <1>7, <1>8, <1>9, AsItIs, AccessKeeps

\* The cached conversation is read, and what is to be written computed.
LEMMA ReadCachedKeeps == ASSUME Inv, NEW t \in Workers, ReadCached(t) PROVE Inv'
<1> DEFINE a == Head(todo[t])
           c == Changed(a, cached)
<1>1. Turn(t, {"patch", "create", "raise", "learn"})
  BY DEF ReadCached
<1>2. a \in Accesses /\ a.do \in {"patch", "create", "raise", "learn"} /\ Covered(Raised(a), got, told)
  BY <1>1, NextAccess
<1>3. /\ a.do \in {"patch", "create"} => a.field \in Fields /\ a.v \in Values
      /\ a.do \in {"raise", "learn"} => a.n \in 0..MaxSeq
  BY <1>2, AccessFields
<1>4. /\ held' = [held EXCEPT ![t] = c]
      /\ Advance(t) \/ Stop(t)
      /\ queue' = queue \/ (a.do = "learn" /\ Enqueue("none", Statement("raise", a.n)))
      /\ told' = IF a.do = "learn" THEN Larger(told, a.n) ELSE told
      /\ UNCHANGED <<local, net, restarts, got, inserted, parted>>
  BY DEF ReadCached
<1> HIDE DEF a, c
<1>5. told' \in 0..MaxSeq /\ told' \in Nat /\ told <= told' /\ (a.do = "learn" => a.n <= told')
  <2>1. told \in Nat /\ told \in 0..MaxSeq
    BY AsItIs
  <2>2. CASE a.do = "learn"
    <3>1. told' = Larger(told, a.n) /\ a.n \in 0..MaxSeq
      BY <1>3, <1>4, <2>2
    <3> QED BY <2>1, <3>1, BoundsAssumption DEF Larger
  <2>3. CASE a.do # "learn"
    BY <1>4, <2>1, <2>3
  <2> QED BY <2>2, <2>3
<1>6. todo' \in [Workers -> Handlers] /\ \A u \in Workers : Planned(todo'[u], got, told')
  BY <1>1, <1>4, <1>5, Left
<1>7. /\ cached # None => Covered(cached.local_seq, got, told')
      /\ \A u \in Workers : held[u] # None => Covered(held[u].local_seq, got, told')
  BY <1>5, StaysCovered
<1>8. c \in Maybe /\ (c # None => Covered(c.local_seq, got, told'))
  <2>1. CASE a.do \in {"patch", "create"}
    <3>1. \A d \in Conversations : [d EXCEPT ![a.field] = a.v] \in Conversations
                                   /\ [d EXCEPT ![a.field] = a.v].local_seq = d.local_seq
      BY <1>3, <2>1, ConversationChanged
    <3>2. CASE cached # None
      <4>1. cached \in Conversations
        BY <3>2, AsItIs DEF Maybe
      <4>2. c = [cached EXCEPT ![a.field] = a.v]
        BY <2>1, <3>2 DEF c, Changed, applyNotificationPatch
      <4> QED BY <1>7, <3>1, <3>2, <4>1, <4>2 DEF Maybe
    <3>3. CASE cached = None
      <4>1. c = None \/ c = [Fresh EXCEPT ![a.field] = a.v]
        BY <2>1, <3>3 DEF c, Changed, applyNotificationPatch
      <4>2. Fresh \in Conversations /\ Fresh.local_seq = 0
        BY ConversationFacts DEF NewConvs
      <4>3. [Fresh EXCEPT ![a.field] = a.v] \in Conversations
            /\ [Fresh EXCEPT ![a.field] = a.v].local_seq = 0
        BY <3>1, <4>2
      <4>4. Covered(0, got, told')
        BY DEF Covered
      <4> QED BY <4>1, <4>3, <4>4 DEF Maybe
    <3> QED BY <3>2, <3>3
  <2>2. CASE a.do \in {"raise", "learn"}
    <3>1. c = None \/ (cached # None /\ c = [cached EXCEPT !.local_seq = a.n])
      BY <2>2 DEF c, Changed
    <3>2. Covered(a.n, got, told')
      <4>1. CASE a.do = "raise"
        <5>1. Covered(a.n, got, told) /\ told \in Nat /\ a.n \in Nat
          BY <1>2, <1>3, <4>1, AsItIs, BoundsAssumption DEF Raised
        <5> QED BY <1>5, <5>1, CoverGrows
      <4>2. CASE a.do = "learn"
        BY <1>3, <1>5, <4>2, BoundsAssumption DEF Covered
      <4> QED BY <2>2, <4>1, <4>2
    <3>3. CASE c = None
      BY <3>3, AsItIs
    <3>4. CASE c # None
      <4>1. cached \in Conversations
        BY <3>1, <3>4, AsItIs DEF Maybe
      <4>2. [cached EXCEPT !.local_seq = a.n] \in Conversations
            /\ [cached EXCEPT !.local_seq = a.n].local_seq = a.n
        BY <1>3, <2>2, <4>1, ConversationChanged
      <4> QED BY <3>1, <3>2, <3>4, <4>2 DEF Maybe
    <3> QED BY <3>3, <3>4
  <2> QED BY <1>2, <2>1, <2>2
<1>9. /\ held' \in [Workers -> Maybe]
      /\ \A u \in Workers : held'[u] # None => Covered(held'[u].local_seq, got, told')
  <2>1. \A u \in Workers : held'[u] = IF u = t THEN c ELSE held[u]
    BY <1>4, AsItIs
  <2>2. held' \in [Workers -> Maybe]
    BY <1>4, <1>8, AsItIs
  <2> QED BY <1>7, <1>8, <2>1, <2>2
<1>10. \/ queue' = queue
       \/ \E by \in Workers \cup {"none"}, q \in Statements(Maybe) :
             StatementCovered(q, got, told') /\ Enqueue(by, q)
  <2>1. CASE a.do = "learn"
    <3>1. a.n \in 0..MaxSeq /\ a.n <= told'
      BY <1>3, <1>5, <2>1
    <3>2. Statement("raise", a.n) \in Statements(Maybe)
      BY <3>1 DEF Statement, Statements
    <3>3. StatementCovered(Statement("raise", a.n), got, told')
      BY <1>5, <3>1, BoundsAssumption DEF Statement, StatementCovered, Covered
    <3> QED BY <1>4, <3>2, <3>3
  <2>2. CASE a.do # "learn"
    BY <1>4, <2>2
  <2> QED BY <2>1, <2>2
<1>11. UNCHANGED <<cached, bucket, row, requests, syncs, calls, pushed, restarts, got, inserted, parted>>
  BY <1>4
<1> QED BY <1>5, <1>6, <1>7, <1>9, <1>10, <1>11, AsItIs, AccessKeeps

\* The copy is written to the cache.
LEMMA WriteCachedKeeps == ASSUME Inv, NEW t \in Workers, WriteCached(t) PROVE Inv'
<1>1. Turn(t, {"write"}) /\ Advance(t) /\ Release(t) /\ cached' = held[t] /\ told' = told
  BY DEF WriteCached
<1>2. todo' \in [Workers -> Handlers] /\ \A u \in Workers : Planned(todo'[u], got, told')
  BY <1>1, Left, AsItIs
<1>3. UNCHANGED <<bucket, queue, row, requests, syncs, calls, pushed, restarts, got, inserted>>
  BY DEF WriteCached
<1>4. parted' \in BOOLEAN
  BY DEF WriteCached
<1> QED BY <1>1, <1>2, <1>3, <1>4, Released, AsItIs, AccessKeeps

\* And to the table.
LEMMA SaveRowKeeps == ASSUME Inv, NEW t \in Workers, SaveRow(t) PROVE Inv'
<1>1. Turn(t, {"save"}) /\ Advance(t) /\ Release(t) /\ Enqueue("none", PutRow(held[t])) /\ told' = told
  BY DEF SaveRow
<1>2. todo' \in [Workers -> Handlers] /\ \A u \in Workers : Planned(todo'[u], got, told')
  BY <1>1, Left, AsItIs
<1>3. PutRow(held[t]) \in Statements(Maybe) /\ StatementCovered(PutRow(held[t]), got, told')
  <2>1. held[t] \in Maybe /\ (held[t] # None => Covered(held[t].local_seq, got, told))
    BY AsItIs
  <2> QED BY <1>1, <2>1 DEF PutRow, Statements, StatementCovered
<1>4. \E by \in Workers \cup {"none"}, q \in Statements(Maybe) :
          StatementCovered(q, got, told') /\ Enqueue(by, q)
  BY <1>1, <1>3
<1>5. UNCHANGED <<cached, bucket, row, requests, syncs, calls, pushed, restarts, got, inserted, parted>>
  BY DEF SaveRow
<1> QED BY <1>1, <1>2, <1>4, <1>5, Released, AsItIs, AccessKeeps

\* The other ways the cached conversation changes.
LEMMA PutRemoveClearKeep ==
    ASSUME Inv, NEW t \in Workers, PutCached(t) \/ RemoveCached(t) \/ ClearCached(t)
    PROVE  Inv'
<1>1. Turn(t, {"put"}) \/ Turn(t, {"remove"}) \/ Turn(t, {"clear"})
  BY DEF PutCached, RemoveCached, ClearCached
<1>2. Advance(t) /\ told' = told
  BY DEF PutCached, RemoveCached, ClearCached
<1>3. todo' \in [Workers -> Handlers] /\ \A u \in Workers : Planned(todo'[u], got, told')
  BY <1>1, <1>2, Left, AsItIs
<1>4. UNCHANGED <<bucket, queue, held, row, requests, syncs, calls, pushed, restarts, got, inserted>>
  BY DEF PutCached, RemoveCached, ClearCached
<1>6. parted' = parted \/ parted' \in BOOLEAN
  BY DEF PutCached, RemoveCached, ClearCached
<1>5. cached' \in Maybe /\ (cached' # None => Covered(cached'.local_seq, got, told'))
  <2>1. CASE PutCached(t)
    <3>1. Head(todo[t]) \in Accesses /\ Head(todo[t]).do \in {"put"}
      BY <2>1, NextAccess DEF PutCached
    <3>2. Head(todo[t]).conv \in NewConvs
      BY <3>1, AccessFields
    <3>3. cached' = Head(todo[t]).conv
      BY <2>1 DEF PutCached
    <3> QED BY <1>2, <3>2, <3>3, AsItIs
  <2>2. CASE RemoveCached(t)
    BY <2>2, AsItIs DEF RemoveCached
  <2>3. CASE ClearCached(t)
    <3>1. cached' = None \/ (cached # None /\ cached' = [cached EXCEPT !.synced = 0])
      BY <2>3 DEF ClearCached
    <3>2. CASE cached' = None
      BY <3>2, AsItIs
    <3>3. CASE cached # None /\ cached' = [cached EXCEPT !.synced = 0]
      <4>1. cached \in Conversations /\ 0 \in Values
        BY <3>3, AsItIs DEF Maybe, Values
      <4>2. cached' \in Conversations /\ cached'.local_seq = cached.local_seq
        BY <3>3, <4>1, ConversationChanged
      <4> QED BY <1>2, <3>3, <4>2, AsItIs DEF Maybe
    <3> QED BY <3>1, <3>2, <3>3
  <2> QED BY <2>1, <2>2, <2>3
<1> QED BY <1>2, <1>3, <1>4, <1>5, <1>6, AsItIs, AccessKeeps
\* A bucket after an update, and after an insertion.
LEMMA BucketChanged ==
    ASSUME Inv, NEW n \in 1..MaxSeq, NEW status \in Statuses
    PROVE  /\ UpdateMessageById(bucket, n, status) \in Bucket(1..MaxSeq, Statuses)
           /\ Insert(bucket, BucketSize, n, status) \in Bucket(1..MaxSeq, Statuses)
<1>1. PICK S \in SUBSET (1..MaxSeq) : bucket \in [S -> Statuses]
  BY AsItIs DEF Bucket
<1>2. UpdateMessageById(bucket, n, status) \in [S -> Statuses]
  BY <1>1 DEF UpdateMessageById
<1>3. With(bucket, n, status) \in [S \cup {n} -> Statuses]
  BY <1>1 DEF With
<1>4. \E T \in SUBSET (1..MaxSeq) : Insert(bucket, BucketSize, n, status) \in [T -> Statuses]
  <2>1. CASE Insert(bucket, BucketSize, n, status) = bucket
    BY <1>1, <2>1
  <2>2. CASE Insert(bucket, BucketSize, n, status) = With(bucket, n, status)
    BY <1>3, <2>2
  <2>3. ASSUME NEW k, Insert(bucket, BucketSize, n, status) = Without(With(bucket, n, status), k)
        PROVE  \E T \in SUBSET (1..MaxSeq) : Insert(bucket, BucketSize, n, status) \in [T -> Statuses]
    <3>1. Without(With(bucket, n, status), k) \in [(S \cup {n}) \ {k} -> Statuses]
      BY <1>3 DEF Without
    <3> QED BY <2>3, <3>1
  <2>4. \/ Insert(bucket, BucketSize, n, status) = bucket
        \/ Insert(bucket, BucketSize, n, status) = With(bucket, n, status)
        \/ \E k : Insert(bucket, BucketSize, n, status) = Without(With(bucket, n, status), k)
    BY DEF Insert, Evict
  <2> QED BY <2>1, <2>2, <2>3, <2>4
<1> QED BY <1>2, <1>4 DEF Bucket

\* A message is marked, and inserted later if it is not there.
LEMMA MarksKeep ==
    ASSUME Inv, NEW t \in Workers, MarkMessage(t) \/ UpdateOrInsert(t)
    PROVE  Inv'
<1>1. PICK kind \in {"mark", "withdraw"} : Turn(t, {kind})
  BY DEF MarkMessage, UpdateOrInsert
<1> DEFINE n == Head(todo[t]).n
<1>2. n \in 1..MaxSeq
  <2>1. Head(todo[t]) \in Accesses /\ Head(todo[t]).do \in {kind}
    BY <1>1, NextAccess
  <2> QED BY <2>1, AccessFields
<1> HIDE DEF n
<1>3. "withdrawn" \in Statuses
  BY DEF Statuses
<1>4. bucket' = UpdateMessageById(bucket, n, "withdrawn")
  BY DEF MarkMessage, UpdateOrInsert, n
<1>5. bucket' \in Bucket(1..MaxSeq, Statuses) /\ DOMAIN bucket' = DOMAIN bucket
  BY <1>2, <1>3, <1>4, BucketChanged, UpdateKeeps
<1>6. /\ UNCHANGED <<cached, queue, held, row, requests, syncs, calls, pushed, restarts, got, inserted, parted>>
      /\ told' = told
  BY DEF MarkMessage, UpdateOrInsert
<1>7. todo' \in [Workers -> Handlers] /\ \A u \in Workers : Planned(todo'[u], got, told')
  <2>1. CASE MarkMessage(t)
    <3>1. Advance(t) /\ Turn(t, {"mark"})
      BY <2>1 DEF MarkMessage
    <3> QED BY <1>6, <3>1, Left, AsItIs
  <2>2. CASE UpdateOrInsert(t)
    <3>1. PICK p \in {<<>>, <<InsertMsg(n, "withdrawn")>>} : todo' = [todo EXCEPT ![t] = p]
      BY <2>2 DEF UpdateOrInsert, n
    <3>2. <<InsertMsg(n, "withdrawn")>> \in Handlers /\ Planned(<<InsertMsg(n, "withdrawn")>>, got, told)
      BY <1>2, <1>3, HandlersAreTyped, HandlersArePlanned
    <3>3. <<>> \in Handlers /\ Planned(<<>>, got, told)
      BY HandlersArePlanned DEF Handlers
    <3>4. p \in Handlers /\ Planned(p, got, told)
      BY <3>1, <3>2, <3>3
    <3>5. todo \in [Workers -> Handlers] /\ \A u \in Workers : Planned(todo[u], got, told)
      BY DEF Inv, Typed, CoverInv
    <3>6. \A u \in Workers : todo'[u] = IF u = t THEN p ELSE todo[u]
      BY <3>1, <3>5
    <3>7. todo' \in [Workers -> Handlers]
      BY <3>1, <3>4, <3>5
    <3> QED BY <1>6, <3>4, <3>5, <3>6, <3>7
  <2> QED BY <2>1, <2>2
<1> QED BY <1>5, <1>6, <1>7, AsItIs, AccessKeeps

\* A message is inserted: it is received, and the cache keeps the newest.
LEMMA InsertMessageKeeps == ASSUME Inv, NEW t \in Workers, InsertMessage(t) PROVE Inv'
<1> DEFINE m == Head(todo[t])
<1>1. todo[t] \in Handlers /\ todo[t] # <<>> /\ m \in Accesses /\ m.do \in {"insert"}
  BY NextAccess DEF InsertMessage
<1>2. m.n \in 1..MaxSeq /\ m.status \in Statuses
  BY <1>1, AccessFields
<1>3. /\ bucket' = Insert(bucket, BucketSize, m.n, m.status)
      /\ got' = got \cup {m.n} /\ inserted' = inserted \cup {m.n}
      /\ todo' = [todo EXCEPT ![t] = Tail(todo[t])]
      /\ UNCHANGED <<cached, row, queue, held, net, restarts, told, parted>>
  BY DEF InsertMessage, Advance
<1> HIDE DEF m
<1>4. got \subseteq got' /\ told \in Nat /\ told <= told /\ m.n \in got'
  BY <1>3, AsItIs
<1>5. /\ cached # None => Covered(cached.local_seq, got', told)
      /\ row # None => Covered(row.local_seq, got', told)
      /\ \A u \in Workers : held[u] # None => Covered(held[u].local_seq, got', told)
      /\ \A i \in DOMAIN queue : StatementCovered(queue[i].statement, got', told)
      /\ \A r \in requests : Covered(r.last_seq, got', told)
      /\ \A u \in Workers : Planned(todo[u], got', told)
  BY <1>4, StaysCovered
<1>6. Tail(todo[t]) \in Handlers /\ Planned(Tail(todo[t]), got', told)
  BY <1>1, <1>4, <1>5, TailIsPlanned DEF m
<1>7. todo' \in [Workers -> Handlers] /\ \A u \in Workers : Planned(todo'[u], got', told)
  <2>1. todo \in [Workers -> Handlers]
    BY DEF Inv, Typed
  <2>2. \A u \in Workers : todo'[u] = IF u = t THEN Tail(todo[t]) ELSE todo[u]
    BY <1>3, <2>1
  <2>3. todo' \in [Workers -> Handlers]
    BY <1>3, <1>6, <2>1
  <2> QED BY <1>5, <1>6, <2>2, <2>3
<1>8. bucket' \in Bucket(1..MaxSeq, Statuses)
  BY <1>2, <1>3, BucketChanged
<1>9. got' \subseteq 1..MaxSeq /\ inserted' \subseteq got'
  BY <1>2, <1>3 DEF Inv, Typed
<1>10. Typed'
  BY <1>3, <1>7, <1>8, <1>9 DEF Inv, Typed
<1>11. NewestInv'
  <2>1. inserted \in SUBSET (1..MaxSeq)
    BY DEF Inv, Typed
  <2>2. IsFiniteSet(inserted) /\ inserted \in SUBSET Nat
    <3>1. IsFiniteSet(1..MaxSeq)
      BY FS_Interval, BoundsAssumption
    <3>2. IsFiniteSet(inserted)
      BY <2>1, <3>1, FS_Subset
    <3> QED BY <2>1, <3>2, BoundsAssumption
  <2>3. BucketSize \in Nat /\ m.n \in Nat /\ Newestof(DOMAIN bucket, inserted, BucketSize)
    BY <1>2, BoundsAssumption DEF Inv, NewestInv
  <2>4. Newestof(DOMAIN Insert(bucket, BucketSize, m.n, m.status), inserted \cup {m.n}, BucketSize)
    BY <2>2, <2>3, InsertKeepsNewest
  <2> QED BY <1>3, <2>4 DEF NewestInv
<1>12. CoverInv'
  BY <1>3, <1>5, <1>7 DEF CoverInv
<1> QED BY <1>10, <1>11, <1>12 DEF Inv

\* sync() asks for what comes after a covered number.
LEMMA AskKeeps == ASSUME Inv, NEW t \in Workers, Ask(t) PROVE Inv'
<1>1. Turn(t, {"ask"}) /\ Advance(t) /\ Release(t) /\ told' = told
  BY DEF Ask
<1>2. todo' \in [Workers -> Handlers] /\ \A u \in Workers : Planned(todo'[u], got, told')
  BY <1>1, Left, AsItIs
<1>3. \E n \in 0..MaxSeq : Covered(n, got, told) /\ Request("sync", n)
  <2> DEFINE n == IF held[t] = None THEN 0
                  ELSE IF cached = None THEN held[t].local_seq ELSE cached.local_seq
  <2>1. Request("sync", n)
    BY DEF Ask
  <2>2. \A c \in Maybe : c # None => c.local_seq \in 0..MaxSeq
    BY DEF Maybe, Conversations
  <2>3. 0 \in 0..MaxSeq /\ Covered(0, got, told)
    BY BoundsAssumption DEF Covered
  <2>4. n \in 0..MaxSeq /\ Covered(n, got, told)
    BY <2>2, <2>3, AsItIs
  <2> QED BY <2>1, <2>4
<1>4. UNCHANGED <<cached, bucket, queue, row, syncs, calls, pushed, restarts, got, inserted, parted>>
  BY DEF Ask
<1> QED BY <1>1, <1>2, <1>3, <1>4, Released, AsItIs, AccessKeeps

\* getConversationList fills the cache from the table, or asks.
LEMMA FillKeeps == ASSUME Inv, NEW t \in Workers, Fill(t) PROVE Inv'
<1>1. Turn(t, {"fill"}) /\ Advance(t) /\ Release(t) /\ told' = told
  BY DEF Fill
<1>2. todo' \in [Workers -> Handlers] /\ \A u \in Workers : Planned(todo'[u], got, told')
  BY <1>1, Left, AsItIs
<1>3. 0 \in 0..MaxSeq /\ Covered(0, got, told)
  BY BoundsAssumption DEF Covered
<1>4. \/ requests' = requests
      \/ \E kind \in {"sync", "list"}, n \in 0..MaxSeq : Covered(n, got, told) /\ Request(kind, n)
  BY <1>3 DEF Fill
<1>5. cached' \in Maybe /\ (cached' # None => Covered(cached'.local_seq, got, told'))
  <2>1. cached' = cached \/ cached' = held[t]
    BY DEF Fill
  <2> QED BY <1>1, <2>1, AsItIs
<1>6. UNCHANGED <<bucket, queue, row, syncs, calls, pushed, restarts, got, inserted, parted>>
  BY DEF Fill
<1> QED BY <1>1, <1>2, <1>4, <1>5, <1>6, Released, AsItIs, AccessKeeps
-----------------------------------------------------------------------------
(***************************************************************************)
(* The database worker, a restart, and the invariant.                      *)
(***************************************************************************)
\* What a statement leaves in the row.
LEMMA AppliedIsCovered ==
    ASSUME NEW g, NEW m, NEW s \in Statements(Maybe), StatementCovered(s, g, m),
           NEW r \in Maybe, r # None => Covered(r.local_seq, g, m)
    PROVE  Applied(s, r) \in Maybe /\ (Applied(s, r) # None => Covered(Applied(s, r).local_seq, g, m))
<1>0. /\ None \in Maybe /\ None \notin Conversations
      /\ Fresh \in Conversations /\ Fresh.local_seq = 0 /\ Covered(0, g, m)
      /\ s.what = "put" => s.conv \in Maybe
      /\ s.what = "merge" => s.n \in Values
      /\ s.what = "raise" => s.n \in 0..MaxSeq
      /\ s.what \in {"put", "merge", "raise", "clear", "delete", "query"}
  BY StatementFields, ConversationFacts DEF Maybe, NewConvs, Covered
<1>1. r # None => r \in Conversations
  BY DEF Maybe
<1>2. CASE s.what = "put"
  <2>1. Applied(s, r) = s.conv
    BY <1>2 DEF Applied
  <2> QED BY <1>0, <1>2, <2>1 DEF StatementCovered
<1>3. CASE s.what = "raise"
  <2>1. CASE r = None
    <3>1. Applied(s, r) = None
      BY <1>3, <2>1 DEF Applied
    <3> QED BY <1>0, <3>1
  <2>2. CASE r # None
    <3> DEFINE n == Larger(r.local_seq, s.n)
    <3>1. Applied(s, r) = [r EXCEPT !.local_seq = n]
      BY <1>3, <2>2 DEF Applied
    <3>2. r.local_seq \in 0..MaxSeq
      BY <1>1, <2>2 DEF Conversations
    <3>3. n \in {r.local_seq, s.n}
      BY DEF Larger
    <3>4. n \in 0..MaxSeq /\ Covered(n, g, m)
      BY <1>0, <1>3, <2>2, <3>2, <3>3 DEF StatementCovered
    <3> HIDE DEF n
    <3>5. [r EXCEPT !.local_seq = n] \in Conversations /\ [r EXCEPT !.local_seq = n].local_seq = n
      BY <1>1, <2>2, <3>4, ConversationChanged
    <3> QED BY <3>1, <3>4, <3>5 DEF Maybe
  <2> QED BY <2>1, <2>2
<1>4. CASE s.what = "merge" \/ s.what = "clear"
  <2>1. PICK c \in Conversations, v \in Values :
          /\ Covered(c.local_seq, g, m)
          /\ Applied(s, r) = None \/ Applied(s, r) = [c EXCEPT !.synced = v]
    <3>1. 0 \in Values
      BY DEF Values
    <3>2. CASE r = None
      BY <1>0, <1>4, <3>1, <3>2 DEF Applied
    <3>3. CASE r # None
      BY <1>0, <1>1, <1>4, <3>1, <3>3 DEF Applied
    <3> QED BY <3>2, <3>3
  <2>2. [c EXCEPT !.synced = v] \in Conversations /\ [c EXCEPT !.synced = v].local_seq = c.local_seq
    BY ConversationChanged
  <2> QED BY <1>0, <2>1, <2>2 DEF Maybe
<1>5. CASE s.what = "delete"
  <2>1. Applied(s, r) = None
    BY <1>5 DEF Applied
  <2> QED BY <1>0, <2>1
<1>6. CASE s.what = "query"
  <2>1. Applied(s, r) = r
    BY <1>6 DEF Applied
  <2> QED BY <2>1
<1> QED BY <1>0, <1>2, <1>3, <1>4, <1>5, <1>6

\* The database worker executes a statement.
LEMMA ExecuteKeeps == ASSUME Inv, Execute PROVE Inv'
<1> DEFINE Q == [by : Workers \cup {"none"}, statement : Statements(Maybe)]
           s == Head(queue).statement
           t == Head(queue).by
<1>1. /\ queue # <<>> /\ queue' = Tail(queue)
      /\ row' = Applied(s, row) \/ row' = row
      /\ held' = held \/ held' = [held EXCEPT ![t] = row]
      /\ parted' \in BOOLEAN
      /\ UNCHANGED <<cached, bucket, todo, net, restarts, got, told, inserted>>
  BY DEF Execute, Inv, Typed
<1>2. queue \in Seq(Q) /\ \A i \in DOMAIN queue : StatementCovered(queue[i].statement, got, told)
  BY DEF Inv, Typed, CoverInv
<1>3. \A p \in Q : p.statement \in Statements(Maybe)
  OBVIOUS
<1>4. row \in Maybe /\ (row # None => Covered(row.local_seq, got, told))
  BY DEF Inv, Typed, CoverInv
<1> HIDE DEF Q, s, t
<1>5. Head(queue) \in Q /\ 1 \in DOMAIN queue /\ queue[1] = Head(queue)
  BY <1>1, <1>2
<1>6. s \in Statements(Maybe) /\ StatementCovered(s, got, told)
  BY <1>2, <1>3, <1>5 DEF s
<1>7. row' \in Maybe /\ (row' # None => Covered(row'.local_seq, got, told))
  <2>1. Applied(s, row) \in Maybe /\ (Applied(s, row) # None => Covered(Applied(s, row).local_seq, got, told))
    BY <1>4, <1>6, AppliedIsCovered
  <2> QED BY <1>1, <1>4, <2>1
<1>8. /\ held' \in [Workers -> Maybe]
      /\ \A u \in Workers : held'[u] # None => Covered(held'[u].local_seq, got, told)
  <2>1. CASE held' = held
    BY <2>1, AsItIs
  <2>2. CASE held' = [held EXCEPT ![t] = row]
    <3>1. \A u \in Workers : held'[u] = held[u] \/ held'[u] = row
      BY <2>2, AsItIs
    <3>2. held' \in [Workers -> Maybe]
      BY <1>4, <2>2, AsItIs
    <3> QED BY <1>4, <3>1, <3>2, AsItIs
  <2> QED BY <1>1, <2>1, <2>2
<1>9. queue' \in Seq(Q) /\ \A i \in DOMAIN queue' : StatementCovered(queue'[i].statement, got, told)
  <2>1. queue' \in Seq(Q) /\ Len(queue) \in Nat /\ DOMAIN queue = 1..Len(queue)
    BY <1>1, <1>2
  <2>2. DOMAIN queue' = 1..(Len(queue) - 1) /\ \A i \in 1..(Len(queue) - 1) : queue'[i] = queue[i + 1]
    BY <1>1, <1>2
  <2>3. \A i \in DOMAIN queue' : i + 1 \in DOMAIN queue /\ queue'[i] = queue[i + 1]
    BY <2>1, <2>2
  <2> QED BY <1>2, <2>1, <2>3
<1>10. Typed'
  BY <1>1, <1>7, <1>8, <1>9 DEF Inv, Typed, Q
<1>11. NewestInv'
  BY <1>1 DEF Inv, NewestInv
<1>12. CoverInv'
  BY <1>1, <1>7, <1>8, <1>9 DEF Inv, CoverInv
<1> QED BY <1>10, <1>11, <1>12 DEF Inv

\* An empty bucket is the newest of nothing.
LEMMA EmptyIsNewest ==
    /\ EmptyBucket \in Bucket(1..MaxSeq, Statuses)
    /\ Newestof(DOMAIN EmptyBucket, {}, BucketSize)
<1>1. DOMAIN EmptyBucket = {} /\ EmptyBucket \in [{} -> Statuses]
  BY DEF EmptyBucket
<1>2. Cardinality({}) = 0
  BY FS_EmptySet
<1>3. EmptyBucket \in Bucket(1..MaxSeq, Statuses)
  BY <1>1 DEF Bucket
<1>4. Newestof(DOMAIN EmptyBucket, {}, BucketSize)
  BY <1>1, <1>2, BoundsAssumption DEF Newestof
<1> QED BY <1>3, <1>4

\* The process starts again.
LEMMA RestartKeeps == ASSUME Inv, Restart PROVE Inv'
<1>1. <<>> \in Handlers /\ Planned(<<>>, got, told) /\ None \in Maybe
  BY HandlersArePlanned DEF Handlers, Maybe
<1>2. restarts' \in 0..MaxRestarts
  BY BoundsAssumption DEF Inv, Typed, Restart
<1>3. Typed'
  <2>1. todo' \in [Workers -> Handlers] /\ held' \in [Workers -> Maybe]
    BY <1>1 DEF Restart
  <2>2. queue' \in Seq([by : Workers \cup {"none"}, statement : Statements(Maybe)])
    BY DEF Restart
  <2>3. cached' \in Maybe /\ row' \in Maybe /\ bucket' \in Bucket(1..MaxSeq, Statuses)
    BY <1>1, EmptyIsNewest DEF Inv, Typed, Restart
  <2>4. /\ requests' \subseteq [id : Nat, kind : {"sync", "list"}, last_seq : 0..MaxSeq]
        /\ syncs' \in 0..MaxSyncs /\ calls' \in 0..MaxCalls /\ pushed' \in 0..MaxPushes
        /\ got' \subseteq 1..MaxSeq /\ inserted' \subseteq got' /\ told' \in 0..MaxSeq
        /\ parted' \in BOOLEAN
    BY DEF Inv, Typed, Restart
  <2> QED BY <1>2, <2>1, <2>2, <2>3, <2>4 DEF Typed
<1>4. NewestInv'
  BY EmptyIsNewest DEF NewestInv, Restart
<1>5. CoverInv'
  BY <1>1 DEF Inv, CoverInv, Restart
<1> QED BY <1>3, <1>4, <1>5 DEF Inv

\* At the start nothing is stored, and nothing is on its way.
LEMMA InitInv == Init => Inv
<1> SUFFICES ASSUME Init PROVE Inv
  OBVIOUS
<1>1. <<>> \in Handlers /\ Planned(<<>>, got, told) /\ None \in Maybe
  BY HandlersArePlanned DEF Handlers, Maybe
<1>2. Typed
  <2>1. todo \in [Workers -> Handlers] /\ held \in [Workers -> Maybe]
    BY <1>1 DEF Init
  <2>2. queue \in Seq([by : Workers \cup {"none"}, statement : Statements(Maybe)])
    BY DEF Init
  <2>3. cached \in Maybe /\ row \in Maybe /\ bucket \in Bucket(1..MaxSeq, Statuses)
    BY <1>1, EmptyIsNewest DEF Init
  <2>4. /\ requests \subseteq [id : Nat, kind : {"sync", "list"}, last_seq : 0..MaxSeq]
        /\ syncs \in 0..MaxSyncs /\ calls \in 0..MaxCalls
        /\ pushed \in 0..MaxPushes /\ restarts \in 0..MaxRestarts
        /\ got \subseteq 1..MaxSeq /\ inserted \subseteq got /\ told \in 0..MaxSeq
        /\ parted \in BOOLEAN
    <3>1. \A n \in Nat : 0 \in 0..n
      OBVIOUS
    <3>2. /\ requests = {} /\ syncs = 0 /\ calls = 0 /\ pushed = 0 /\ restarts = 0
          /\ got = {} /\ inserted = {} /\ told = 0 /\ parted = FALSE
      BY DEF Init
    <3> QED BY <3>1, <3>2, BoundsAssumption
  <2> QED BY <2>1, <2>2, <2>3, <2>4 DEF Typed
<1>3. NewestInv
  BY EmptyIsNewest DEF NewestInv, Init
<1>4. CoverInv
  BY <1>1 DEF CoverInv, Init
<1> QED BY <1>2, <1>3, <1>4 DEF Inv

\* Every step keeps the invariant.
LEMMA NextInv == Inv /\ [Next]_vars => Inv'
<1> SUFFICES ASSUME Inv, [Next]_vars PROVE Inv'
  OBVIOUS
<1>1. CASE UNCHANGED vars
  <2>1. Typed'
    BY <1>1 DEF Inv, Typed
  <2>2. NewestInv' /\ CoverInv'
    BY <1>1 DEF Inv, NewestInv, CoverInv
  <2> QED BY <2>1, <2>2 DEF Inv
<1>2. CASE \/ SetField \/ MarkAllRead \/ DeleteConversation \/ GetConversation
           \/ GetMessageSequence \/ GetMessages \/ WithdrawMessage
  BY <1>2, AnswersKeep
<1>3. CASE OnMessage \/ OnWithdrawn \/ OnConversation \/ OnDeleted
  BY <1>3, NotificationsKeep
<1>4. CASE Sync \/ GetConversationList \/ \E r \in requests : OnSyncAnswer(r) \/ OnListAnswer(r)
  BY <1>4, SyncsKeep
<1>5. ASSUME NEW t \in Workers,
             \/ Give(t) \/ ReadCached(t) \/ WriteCached(t) \/ SaveRow(t) \/ PutCached(t)
             \/ RemoveCached(t) \/ ClearCached(t)
             \/ InsertMessage(t) \/ MarkMessage(t) \/ UpdateOrInsert(t)
             \/ Ask(t) \/ Fill(t)
      PROVE  Inv'
  BY <1>5, GiveKeeps, ReadCachedKeeps, WriteCachedKeeps, SaveRowKeeps, PutRemoveClearKeep,
     InsertMessageKeeps, MarksKeep, AskKeeps, FillKeeps
<1>6. CASE Execute
  BY <1>6, ExecuteKeeps
<1>7. CASE Restart
  BY <1>7, RestartKeeps
<1> QED BY <1>1, <1>2, <1>3, <1>4, <1>5, <1>6, <1>7 DEF Next

\* The invariant holds throughout.
THEOREM Invariance == Spec => []Inv
BY InitInv, NextInv, PTL DEF Spec

\* The stored data keep their shape, and a bucket is never over its size, whatever
\* handlers of the three threads overlap.
THEOREM TypeCorrect == Spec => []TypeOK
<1>1. Inv => TypeOK
  BY DEF Inv, Typed, NewestInv, Newestof, TypeOK, Maybe
<1> QED BY <1>1, Invariance, PTL

\* The message cache holds the newest messages it was given, whatever order pages,
\* syncs and notifications insert them in.
THEOREM NewestAreKept == Spec => []KeepsNewest
<1>1. Inv => KeepsNewest
  BY DEF Inv, NewestInv, Newestof, KeepsNewest
<1> QED BY <1>1, Invariance, PTL

\* local_seq, in the cache and in the row, never passes a message the client has
\* not received, but for what getMessageSequence has stored: with syncs that overlap,
\* answers older than what is stored, and crashes between any two accesses.
THEOREM NothingSkipped == Spec => []NoSkip
<1>1. Inv => NoSkip
  <2> SUFFICES ASSUME Inv, NEW c \in {cached, row} \ {None}, NEW n \in 1..c.local_seq
               PROVE  n \in got \/ n <= told
    BY DEF NoSkip
  <2>1. Covered(c.local_seq, got, told)
    BY DEF Inv, CoverInv
  <2> QED BY <2>1 DEF Covered
<1> QED BY <1>1, Invariance, PTL
=============================================================================
