---------------------- MODULE ConnectionManager_proofs ----------------------
(***************************************************************************)
(* Proofs about ConnectionManager: the types, that Connected is not shown  *)
(* over a dead socket, and that a disconnect() that is over is shown.      *)
(***************************************************************************)
EXTENDS ConnectionManager, SequenceTheorems, TLAPS

USE DEF vars, cmVars, timerVars, hbVars, wsVars, bounds

(***************************************************************************)
(* What a thread has left to do: which steps, and what they are always     *)
(* followed by.                                                            *)
(***************************************************************************)
Has(p, s) == \E i \in DOMAIN p : p[i] = s

\* Every s in p has a q after it.
Follows(p, s, q) == \A i \in DOMAIN p : p[i] = s => \E j \in DOMAIN p : j > i /\ p[j] = q

\* Nothing comes after an s.
Final(p, s) == \A i \in DOMAIN p : p[i] = s => i = Len(p)

WsSteps == {"setConnected", "setDisconnected", "setReconnecting", "schedule", "resetRetries", "lostTest",
            "wsError", "retry", "hbStop", "hbJoin", "hbClear", "hbSpawn"}
HbSteps == {"hbStop", "hbJoin", "lostTest"}
CallSteps == {"setConnecting", "setDisconnected", "cancel", "resetRetries", "connectTest", "upTest",
              "downTest", "wsTest", "wsRun", "wsSpawn", "wsStop", "wsJoin", "hbStop", "hbJoin"}
StepsOf(a) ==
    IF a = "ws" THEN WsSteps
    ELSE IF a = "hb" THEN HbSteps
    ELSE IF a = "app" THEN CallSteps \cup {"unwant"}
    ELSE IF a = "http" THEN CallSteps \cup {"want"} ELSE CallSteps

\* A call that says it connects goes on to the WebSocketClient, and one that closes
\* the socket shows Disconnected after that.
Ordered(p) ==
    /\ Follows(p, "setConnecting", "wsTest")
    /\ Follows(p, "wsStop", "setDisconnected") /\ Follows(p, "wsJoin", "setDisconnected")
    /\ Follows(p, "unwant", "wsJoin")
    /\ Final(p, "wsError") /\ Final(p, "retry")

\* The first step of a program, and those after it.
LEMMA HeadAndTail ==
    ASSUME NEW S, NEW p \in Seq(S), p # <<>>
    PROVE  /\ Head(p) \in S /\ Tail(p) \in Seq(S)
           /\ \A s : Has(p, s) <=> Head(p) = s \/ Has(Tail(p), s)
           /\ \A s, q : Follows(p, s, q) => Follows(Tail(p), s, q) /\ (Head(p) = s => Has(Tail(p), q))
           /\ \A s : Final(p, s) => Final(Tail(p), s) /\ (Head(p) = s => Tail(p) = <<>>)
<1>1. /\ Len(p) \in Nat /\ DOMAIN p = 1..Len(p) /\ 1 \in DOMAIN p /\ Head(p) = p[1] /\ p[1] \in S
      /\ Tail(p) \in Seq(S) /\ Len(Tail(p)) = Len(p) - 1 /\ DOMAIN Tail(p) = 1..(Len(p) - 1)
      /\ \A i \in 1..(Len(p) - 1) : Tail(p)[i] = p[i + 1]
  OBVIOUS
<1>2. \A i \in DOMAIN Tail(p) : i + 1 \in DOMAIN p /\ Tail(p)[i] = p[i + 1]
  BY <1>1
<1>3. \A i \in DOMAIN p : i = 1 \/ (i - 1 \in DOMAIN Tail(p) /\ Tail(p)[i - 1] = p[i])
  <2> SUFFICES ASSUME NEW i \in DOMAIN p, i # 1
               PROVE  i - 1 \in DOMAIN Tail(p) /\ Tail(p)[i - 1] = p[i]
    OBVIOUS
  <2>1. i - 1 \in 1..(Len(p) - 1) /\ (i - 1) + 1 = i
    BY <1>1
  <2> QED BY <1>1, <2>1
<1>4. ASSUME NEW s
      PROVE  Has(p, s) <=> Head(p) = s \/ Has(Tail(p), s)
  <2>1. ASSUME NEW i \in DOMAIN p, p[i] = s
        PROVE  Head(p) = s \/ Has(Tail(p), s)
    BY <1>1, <1>3, <2>1 DEF Has
  <2>2. ASSUME NEW i \in DOMAIN Tail(p), Tail(p)[i] = s
        PROVE  Has(p, s)
    BY <1>2, <2>2 DEF Has
  <2>3. Head(p) = s => Has(p, s)
    BY <1>1 DEF Has
  <2> QED BY <2>1, <2>2, <2>3 DEF Has
<1>5. ASSUME NEW s, NEW q, Follows(p, s, q)
      PROVE  Follows(Tail(p), s, q) /\ (Head(p) = s => Has(Tail(p), q))
  <2>1. ASSUME NEW i \in DOMAIN Tail(p), Tail(p)[i] = s
        PROVE  \E j \in DOMAIN Tail(p) : j > i /\ Tail(p)[j] = q
    <3>1. PICK j \in DOMAIN p : j > i + 1 /\ p[j] = q
      BY <1>2, <1>5, <2>1 DEF Follows
    <3>2. j # 1 /\ j - 1 > i
      BY <1>1, <3>1
    <3> QED BY <1>3, <3>1, <3>2
  <2>2. ASSUME Head(p) = s
        PROVE  Has(Tail(p), q)
    <3>1. PICK j \in DOMAIN p : j > 1 /\ p[j] = q
      BY <1>1, <1>5, <2>2 DEF Follows
    <3>2. j # 1
      BY <1>1, <3>1
    <3> QED BY <1>3, <3>1, <3>2 DEF Has
  <2> QED BY <2>1, <2>2 DEF Follows
<1>6. ASSUME NEW s, Final(p, s)
      PROVE  Final(Tail(p), s) /\ (Head(p) = s => Tail(p) = <<>>)
  <2>1. ASSUME NEW i \in DOMAIN Tail(p), Tail(p)[i] = s
        PROVE  i = Len(Tail(p))
    <3>1. i + 1 = Len(p)
      BY <1>2, <1>6, <2>1 DEF Final
    <3> QED BY <1>1, <3>1
  <2>2. ASSUME Head(p) = s
        PROVE  Tail(p) = <<>>
    <3>1. 1 = Len(p)
      BY <1>1, <1>6, <2>2 DEF Final
    <3> DEFINE t == Tail(p)
               n == Len(p)
    <3>2. t \in Seq(S) /\ Len(t) = n - 1 /\ n = 1
      BY <1>1, <3>1
    <3> HIDE DEF t, n
    <3>3. Len(t) = 0
      BY <3>2
    <3>4. t = <<>>
      BY <3>2, <3>3, EmptySeq
    <3> QED BY <3>4 DEF t
  <2> QED BY <2>1, <2>2 DEF Final
<1> QED BY <1>1, <1>4, <1>5, <1>6

\* The steps of two programs, one after the other.
LEMMA OneAfterTheOther ==
    ASSUME NEW S, NEW p \in Seq(S), NEW q \in Seq(S)
    PROVE  /\ p \o q \in Seq(S)
           /\ \A s : Has(p \o q, s) <=> Has(p, s) \/ Has(q, s)
           /\ \A s, u : (Follows(p, s, u) \/ Has(q, u)) /\ Follows(q, s, u) => Follows(p \o q, s, u)
           /\ \A s : ~Has(p, s) /\ Final(q, s) => Final(p \o q, s)
           /\ \A s : q = <<>> /\ Final(p, s) => Final(p \o q, s)
<1> DEFINE r == p \o q
           m == Len(p)
           n == Len(q)
<1>1. /\ m \in Nat /\ n \in Nat /\ DOMAIN p = 1..m /\ DOMAIN q = 1..n
      /\ r \in Seq(S) /\ Len(r) = m + n /\ DOMAIN r = 1..(m + n)
      /\ \A i \in 1..(m + n) : r[i] = IF i <= m THEN p[i] ELSE q[i - m]
  BY ConcatProperties
<1>0. q = <<>> => r = p
  BY ConcatEmptySeq
<1> HIDE DEF r
<1>2. \A i \in DOMAIN p : i \in DOMAIN r /\ r[i] = p[i]
  BY <1>1
<1>3. \A i \in DOMAIN q : m + i \in DOMAIN r /\ r[m + i] = q[i] /\ m + i > m
  <2> SUFFICES ASSUME NEW i \in DOMAIN q
               PROVE  m + i \in DOMAIN r /\ r[m + i] = q[i] /\ m + i > m
    OBVIOUS
  <2>1. m + i \in 1..(m + n) /\ ~(m + i <= m) /\ (m + i) - m = i /\ m + i > m
    BY <1>1
  <2> QED BY <1>1, <2>1
<1>4. \A i \in DOMAIN r : \/ i \in DOMAIN p /\ r[i] = p[i]
                          \/ i > m /\ i - m \in DOMAIN q /\ r[i] = q[i - m]
  <2> SUFFICES ASSUME NEW i \in DOMAIN r
               PROVE  \/ i \in DOMAIN p /\ r[i] = p[i]
                      \/ i > m /\ i - m \in DOMAIN q /\ r[i] = q[i - m]
    OBVIOUS
  <2>1. i \in 1..m \/ (i > m /\ i - m \in 1..n)
    BY <1>1
  <2> QED BY <1>1, <2>1
<1>5. ASSUME NEW s
      PROVE  Has(r, s) <=> Has(p, s) \/ Has(q, s)
  BY <1>2, <1>3, <1>4 DEF Has
<1>6. ASSUME NEW s, NEW u, Follows(p, s, u) \/ Has(q, u), Follows(q, s, u), NEW i \in DOMAIN r, r[i] = s
      PROVE  \E j \in DOMAIN r : j > i /\ r[j] = u
  <2>1. CASE i \in DOMAIN p /\ r[i] = p[i]
    <3>1. CASE Follows(p, s, u)
      BY <1>2, <1>6, <2>1, <3>1 DEF Follows
    <3>2. CASE Has(q, u)
      <4>1. PICK j \in DOMAIN q : q[j] = u
        BY <3>2 DEF Has
      <4>2. m + j > i
        BY <1>1, <2>1
      <4> QED BY <1>3, <4>1, <4>2
    <3> QED BY <1>6, <3>1, <3>2
  <2>2. CASE i > m /\ i - m \in DOMAIN q /\ r[i] = q[i - m]
    <3>1. PICK j \in DOMAIN q : j > i - m /\ q[j] = u
      BY <1>6, <2>2 DEF Follows
    <3>2. m + j > i
      BY <1>1, <3>1
    <3> QED BY <1>3, <3>1, <3>2
  <2> QED BY <1>4, <2>1, <2>2
<1>7. ASSUME NEW s, ~Has(p, s), Final(q, s), NEW i \in DOMAIN r, r[i] = s
      PROVE  i = Len(r)
  <2>1. i > m /\ i - m \in DOMAIN q /\ q[i - m] = s
    BY <1>4, <1>7 DEF Has
  <2>2. i - m = n
    BY <1>7, <2>1 DEF Final
  <2> QED BY <1>1, <2>1, <2>2
<1>8. /\ \A s, u : (Follows(p, s, u) \/ Has(q, u)) /\ Follows(q, s, u) => Follows(r, s, u)
      /\ \A s : ~Has(p, s) /\ Final(q, s) => Final(r, s)
  BY <1>6, <1>7 DEF Follows, Final
<1> QED BY <1>0, <1>1, <1>5, <1>8 DEF r

-----------------------------------------------------------------------------
(***************************************************************************)
(* The programs.                                                           *)
(***************************************************************************)
Proper(a, p) == p \in Seq(StepsOf(a)) /\ Ordered(p)

\* Steps that go in front of the rest of a call.
Modest(p) == ~Has(p, "wsError") /\ ~Has(p, "retry")

\* The steps of short programs.
LEMMA Short ==
    /\ \A s : ~Has(<<>>, s)
    /\ \A a, s : Has(<<a>>, s) <=> s = a
    /\ \A a, b, s : Has(<<a, b>>, s) <=> s \in {a, b}
    /\ \A a, b, c, s : Has(<<a, b, c>>, s) <=> s \in {a, b, c}
BY DEF Has

\* A step that is not there is followed by anything.
LEMMA NothingFollows == ASSUME NEW p, NEW s, NEW q, ~Has(p, s) PROVE Follows(p, s, q) /\ Final(p, s)
BY DEF Has, Follows, Final

\* Steps before an ordered program.
LEMMA InFront ==
    ASSUME NEW S, NEW p \in Seq(S), NEW q \in Seq(S), Modest(p), Ordered(q),
           Follows(p, "setConnecting", "wsTest") \/ Has(q, "wsTest"),
           Follows(p, "wsStop", "setDisconnected") \/ Has(q, "setDisconnected"),
           Follows(p, "wsJoin", "setDisconnected") \/ Has(q, "setDisconnected"),
           Follows(p, "unwant", "wsJoin") \/ Has(q, "wsJoin")
    PROVE  p \o q \in Seq(S) /\ Ordered(p \o q) /\ \A s : Has(p \o q, s) <=> Has(p, s) \/ Has(q, s)
BY OneAfterTheOther DEF Ordered, Modest

\* The pieces: opening, closing, and the heartbeat.
LEMMA Pieces ==
    /\ Ordered(<<>>) /\ Modest(<<>>)
    /\ Ordered(DoConnect) /\ Modest(DoConnect)
    /\ \A s : Has(DoConnect, s) <=> s \in {"setConnecting", "wsTest"}
    /\ Ordered(DoDisconnect) /\ Modest(DoDisconnect)
    /\ \A s : Has(DoDisconnect, s) <=> s \in {"wsStop", "wsJoin", "setDisconnected"}
    /\ Ordered(StopHeartbeat) /\ Modest(StopHeartbeat)
    /\ \A s : Has(StopHeartbeat, s) <=> s \in {"hbStop", "hbJoin"}
<1>1. Ordered(<<>>) /\ Modest(<<>>)
  BY Short, NothingFollows DEF Ordered, Modest
<1>2. /\ \A s : Has(DoConnect, s) <=> s \in {"setConnecting", "wsTest"}
      /\ \A s : Has(DoDisconnect, s) <=> s \in {"wsStop", "wsJoin", "setDisconnected"}
      /\ \A s : Has(StopHeartbeat, s) <=> s \in {"hbStop", "hbJoin"}
  BY Short DEF DoConnect, DoDisconnect, StopHeartbeat
<1>3. Modest(DoConnect) /\ Modest(DoDisconnect) /\ Modest(StopHeartbeat)
  BY <1>2 DEF Modest
<1>4. Ordered(StopHeartbeat)
  <2>1. \A s \in {"setConnecting", "wsStop", "wsJoin", "unwant", "wsError", "retry"} : ~Has(StopHeartbeat, s)
    BY <1>2
  <2>2. \A s, q : ~Has(StopHeartbeat, s) => Follows(StopHeartbeat, s, q) /\ Final(StopHeartbeat, s)
    BY NothingFollows
  <2> QED BY <2>1, <2>2 DEF Ordered
<1>5. Ordered(DoConnect)
  <2>1. Follows(DoConnect, "setConnecting", "wsTest")
    BY DEF DoConnect, Follows
  <2>2. \A s \in {"wsStop", "wsJoin", "unwant", "wsError", "retry"} : ~Has(DoConnect, s)
    BY <1>2
  <2>3. /\ Follows(DoConnect, "wsStop", "setDisconnected") /\ Follows(DoConnect, "wsJoin", "setDisconnected")
        /\ Follows(DoConnect, "unwant", "wsJoin") /\ Final(DoConnect, "wsError") /\ Final(DoConnect, "retry")
    BY <2>2, NothingFollows
  <2> QED BY <2>1, <2>3 DEF Ordered
<1>6. Ordered(DoDisconnect)
  <2>1. Follows(DoDisconnect, "wsStop", "setDisconnected") /\ Follows(DoDisconnect, "wsJoin", "setDisconnected")
    BY DEF DoDisconnect, Follows
  <2>2. \A s \in {"setConnecting", "unwant", "wsError", "retry"} : ~Has(DoDisconnect, s)
    BY <1>2
  <2>3. /\ Follows(DoDisconnect, "setConnecting", "wsTest") /\ Follows(DoDisconnect, "unwant", "wsJoin")
        /\ Final(DoDisconnect, "wsError") /\ Final(DoDisconnect, "retry")
    BY <2>2, NothingFollows
  <2> QED BY <2>1, <2>3 DEF Ordered
<1> QED BY <1>1, <1>2, <1>3, <1>4, <1>5, <1>6

\* A program of steps that need nothing after them.
LEMMA Plain ==
    ASSUME NEW p, Modest(p),
           \A s \in {"setConnecting", "wsStop", "wsJoin", "unwant"} : ~Has(p, s)
    PROVE  Ordered(p)
BY NothingFollows DEF Ordered, Modest

\* What a step goes on with.
LEMMA GoesOnProperly ==
    /\ \A a \in Actors : Proper(a, <<>>) /\ Modest(<<>>)
    /\ \A a \in {"app", "http", "mon", "rt"} :
          /\ Proper(a, DoConnect) /\ Modest(DoConnect)
          /\ Proper(a, <<"wsRun", "wsSpawn">>) /\ Modest(<<"wsRun", "wsSpawn">>)
    /\ \A a \in {"app", "http", "mon", "rt"} :
          /\ Proper(a, <<"resetRetries", "cancel">> \o DoConnect) /\ Modest(<<"resetRetries", "cancel">> \o DoConnect)
          /\ Proper(a, StopHeartbeat \o DoDisconnect) /\ Modest(StopHeartbeat \o DoDisconnect)
    /\ \A a \in {"app", "http", "mon", "rt", "ws"} : Proper(a, <<"setDisconnected">>) /\ Modest(<<"setDisconnected">>)
    /\ Proper("ws", <<"setReconnecting">>) /\ Modest(<<"setReconnecting">>)
    /\ Proper("ws", <<"setReconnecting", "schedule">>) /\ Modest(<<"setReconnecting", "schedule">>)
<1>1. \A a \in Actors : Proper(a, <<>>) /\ Modest(<<>>)
  BY Pieces DEF Proper
<1>2. ASSUME NEW a \in {"app", "http", "mon", "rt"}
      PROVE  /\ Proper(a, DoConnect) /\ Modest(DoConnect)
             /\ Proper(a, <<"wsRun", "wsSpawn">>) /\ Modest(<<"wsRun", "wsSpawn">>)
  <2>1. CallSteps \subseteq StepsOf(a)
    BY DEF StepsOf
  <2>2. DoConnect \in Seq(StepsOf(a)) /\ <<"wsRun", "wsSpawn">> \in Seq(StepsOf(a))
    BY <2>1 DEF DoConnect, CallSteps
  <2>3. Modest(<<"wsRun", "wsSpawn">>)
    BY Short DEF Modest
  <2>4. Ordered(<<"wsRun", "wsSpawn">>)
    BY <2>3, Short, Plain
  <2> QED BY <2>2, <2>3, <2>4, Pieces DEF Proper
<1>3. ASSUME NEW a \in {"app", "http", "mon", "rt"}
      PROVE  /\ Proper(a, <<"resetRetries", "cancel">> \o DoConnect) /\ Modest(<<"resetRetries", "cancel">> \o DoConnect)
             /\ Proper(a, StopHeartbeat \o DoDisconnect) /\ Modest(StopHeartbeat \o DoDisconnect)
  <2> DEFINE p == <<"resetRetries", "cancel">>
  <2>1. CallSteps \subseteq StepsOf(a)
    BY DEF StepsOf
  <2>2. /\ DoConnect \in Seq(StepsOf(a)) /\ p \in Seq(StepsOf(a))
        /\ StopHeartbeat \in Seq(StepsOf(a)) /\ DoDisconnect \in Seq(StepsOf(a))
    BY <2>1 DEF DoConnect, DoDisconnect, StopHeartbeat, CallSteps
  <2>3. Modest(p) /\ \A s : Has(p, s) <=> s \in {"resetRetries", "cancel"}
    BY Short DEF Modest
  <2>4. Ordered(p)
    BY <2>3, Plain
  <2> HIDE DEF p
  <2>5. p \o DoConnect \in Seq(StepsOf(a)) /\ Ordered(p \o DoConnect)
        /\ \A s : Has(p \o DoConnect, s) <=> Has(p, s) \/ Has(DoConnect, s)
    BY <2>2, <2>3, <2>4, Pieces, InFront DEF Ordered
  <2>6. /\ StopHeartbeat \o DoDisconnect \in Seq(StepsOf(a)) /\ Ordered(StopHeartbeat \o DoDisconnect)
        /\ \A s : Has(StopHeartbeat \o DoDisconnect, s) <=> Has(StopHeartbeat, s) \/ Has(DoDisconnect, s)
    BY <2>2, Pieces, InFront DEF Ordered
  <2> QED BY <2>3, <2>5, <2>6, Pieces DEF Proper, Modest, p
<1>4. ASSUME NEW a \in {"app", "http", "mon", "rt", "ws"}
      PROVE  Proper(a, <<"setDisconnected">>) /\ Modest(<<"setDisconnected">>)
  <2>1. <<"setDisconnected">> \in Seq(StepsOf(a))
    <3>1. "setDisconnected" \in StepsOf(a)
      BY DEF StepsOf, CallSteps, WsSteps
    <3> QED BY <3>1
  <2>2. Modest(<<"setDisconnected">>)
    BY Short DEF Modest
  <2>3. Ordered(<<"setDisconnected">>)
    BY <2>2, Short, Plain
  <2> QED BY <2>1, <2>2, <2>3 DEF Proper
<1>5. /\ Proper("ws", <<"setReconnecting">>) /\ Modest(<<"setReconnecting">>)
      /\ Proper("ws", <<"setReconnecting", "schedule">>) /\ Modest(<<"setReconnecting", "schedule">>)
  <2>1. <<"setReconnecting">> \in Seq(StepsOf("ws")) /\ <<"setReconnecting", "schedule">> \in Seq(StepsOf("ws"))
    BY DEF StepsOf, WsSteps
  <2>2. Modest(<<"setReconnecting">>) /\ Modest(<<"setReconnecting", "schedule">>)
    BY Short DEF Modest
  <2>3. Ordered(<<"setReconnecting">>) /\ Ordered(<<"setReconnecting", "schedule">>)
    BY <2>2, Short, Plain
  <2> QED BY <2>1, <2>2, <2>3 DEF Proper
<1> QED BY <1>1, <1>2, <1>3, <1>4, <1>5

\* What a thread begins with, and what is in it.
LEMMA BeginsProperly ==
    /\ Proper("http", Connect) /\ Proper("app", Disconnect)
    /\ Proper("mon", OnNetworkUp) /\ Proper("mon", OnNetworkDown)
    /\ Proper("ws", OnWsConnected)
    /\ \A s : Has(OnWsConnected, s) <=> s \in {"resetRetries", "setConnected", "hbStop", "hbJoin", "hbClear", "hbSpawn"}
    /\ Proper("ws", OnWsDisconnected) /\ Proper("ws", OnWsDisconnected \o OnWsError)
    /\ \A s : Has(OnWsDisconnected, s) <=> s \in {"hbStop", "hbJoin", "lostTest"}
    /\ \A s : Has(OnWsDisconnected \o OnWsError, s) <=> s \in {"hbStop", "hbJoin", "lostTest", "wsError"}
    /\ Proper("hb", OnWsDisconnected) /\ Final(OnWsDisconnected, "lostTest")
    /\ Proper("ws", <<"retry">>) /\ \A s : Has(<<"retry">>, s) <=> s = "retry"
<1>1. Proper("http", Connect)
  <2>1. Connect \in Seq(StepsOf("http"))
    BY DEF Connect, StepsOf, CallSteps
  <2>2. \A s : Has(Connect, s) <=> s \in {"want", "resetRetries", "cancel", "connectTest"}
    BY DEF Connect, Has
  <2> QED BY <2>1, <2>2, Plain DEF Proper, Modest
<1>2. Proper("app", Disconnect)
  <2> DEFINE p == <<"unwant", "cancel">>
             q == StopHeartbeat \o DoDisconnect
             S == StepsOf("app")
  <2>1. p \in Seq(S) /\ StopHeartbeat \in Seq(S) /\ DoDisconnect \in Seq(S)
    BY DEF DoDisconnect, StopHeartbeat, CallSteps, StepsOf
  <2>2. \A s : Has(p, s) <=> s \in {"unwant", "cancel"}
    BY Short
  <2>3. /\ p \o StopHeartbeat \in Seq(S)
        /\ \A s : Has(p \o StopHeartbeat, s) <=> Has(p, s) \/ Has(StopHeartbeat, s)
    <3> HIDE DEF p, S
    <3> QED BY <2>1, OneAfterTheOther
  <2> DEFINE r == p \o StopHeartbeat
  <2>4. Disconnect = r \o DoDisconnect
    BY DEF Disconnect
  <2> HIDE DEF p, S, r
  <2>5. Modest(r)
    BY <2>2, <2>3, Pieces DEF Modest, r
  <2>6. /\ Follows(r, "setConnecting", "wsTest")
        /\ Has(DoDisconnect, "setDisconnected") /\ Has(DoDisconnect, "wsJoin")
    BY <2>2, <2>3, Pieces, NothingFollows DEF r
  <2>7. r \o DoDisconnect \in Seq(S) /\ Ordered(r \o DoDisconnect)
    <3>1. r \in Seq(S)
      BY <2>3 DEF r
    <3> QED BY <2>1, <2>5, <2>6, <3>1, Pieces, InFront
  <2> QED BY <2>4, <2>7 DEF Proper, S
<1>3. Proper("mon", OnNetworkUp) /\ Proper("mon", OnNetworkDown)
  <2>1. OnNetworkUp \in Seq(StepsOf("mon")) /\ OnNetworkDown \in Seq(StepsOf("mon"))
    BY DEF OnNetworkUp, OnNetworkDown, StepsOf, CallSteps
  <2>2. /\ \A s : Has(OnNetworkUp, s) <=> s = "upTest"
        /\ \A s : Has(OnNetworkDown, s) <=> s \in {"cancel", "downTest"}
    BY Short DEF OnNetworkUp, OnNetworkDown
  <2> QED BY <2>1, <2>2, Plain DEF Proper, Modest
<1>4. /\ Proper("ws", OnWsConnected)
      /\ \A s : Has(OnWsConnected, s) <=> s \in {"resetRetries", "setConnected", "hbStop", "hbJoin", "hbClear", "hbSpawn"}
  <2> DEFINE S == StepsOf("ws")
             a == <<"resetRetries", "setConnected">>
             b == <<"hbClear", "hbSpawn">>
  <2>1. a \in Seq(S) /\ b \in Seq(S) /\ StopHeartbeat \in Seq(S)
    BY DEF StepsOf, WsSteps, StopHeartbeat
  <2>2. /\ \A s : Has(a, s) <=> s \in {"resetRetries", "setConnected"}
        /\ \A s : Has(b, s) <=> s \in {"hbClear", "hbSpawn"}
    BY Short
  <2>3. OnWsConnected = a \o (StopHeartbeat \o b)
    BY DEF OnWsConnected, StartHeartbeat
  <2> HIDE DEF S, a, b
  <2>4. StopHeartbeat \o b \in Seq(S) /\ \A s : Has(StopHeartbeat \o b, s) <=> Has(StopHeartbeat, s) \/ Has(b, s)
    BY <2>1, OneAfterTheOther
  <2> DEFINE c == StopHeartbeat \o b
  <2> HIDE DEF c
  <2>5. a \o c \in Seq(S) /\ \A s : Has(a \o c, s) <=> Has(a, s) \/ Has(c, s)
    <3>1. c \in Seq(S)
      BY <2>4 DEF c
    <3> QED BY <2>1, <3>1, OneAfterTheOther
  <2>6. \A s : Has(OnWsConnected, s) <=> s \in {"resetRetries", "setConnected", "hbStop", "hbJoin", "hbClear", "hbSpawn"}
    BY <2>2, <2>3, <2>4, <2>5, Pieces DEF c
  <2>7. OnWsConnected \in Seq(S)
    BY <2>3, <2>5 DEF c
  <2> QED BY <2>6, <2>7, Plain DEF Proper, Modest, S
<1>5. /\ Proper("ws", OnWsDisconnected) /\ Proper("ws", OnWsDisconnected \o OnWsError)
      /\ \A s : Has(OnWsDisconnected, s) <=> s \in {"hbStop", "hbJoin", "lostTest"}
      /\ \A s : Has(OnWsDisconnected \o OnWsError, s) <=> s \in {"hbStop", "hbJoin", "lostTest", "wsError"}
  <2> DEFINE S == StepsOf("ws")
             a == <<"lostTest">>
  <2>1. a \in Seq(S) /\ OnWsError \in Seq(S) /\ StopHeartbeat \in Seq(S)
    BY DEF StepsOf, WsSteps, StopHeartbeat, OnWsError
  <2>2. /\ \A s : Has(a, s) <=> s = "lostTest"
        /\ \A s : Has(OnWsError, s) <=> s = "wsError"
    BY Short DEF OnWsError
  <2>3. OnWsDisconnected = StopHeartbeat \o a
    BY DEF OnWsDisconnected
  <2> HIDE DEF S, a
  <2>4. OnWsDisconnected \in Seq(S)
        /\ \A s : Has(OnWsDisconnected, s) <=> s \in {"hbStop", "hbJoin", "lostTest"}
    BY <2>1, <2>2, <2>3, Pieces, OneAfterTheOther
  <2>5. OnWsDisconnected \o OnWsError \in Seq(S)
        /\ \A s : Has(OnWsDisconnected \o OnWsError, s) <=> s \in {"hbStop", "hbJoin", "lostTest", "wsError"}
    BY <2>1, <2>2, <2>4, OneAfterTheOther
  <2>6. Modest(OnWsDisconnected) /\ Ordered(OnWsDisconnected)
    BY <2>4, Plain DEF Modest
  <2>7. Ordered(OnWsError)
    <3>1. Final(OnWsError, "wsError")
      BY DEF OnWsError, Final
    <3> QED BY <2>2, <3>1, NothingFollows DEF Ordered
  <2>8. Ordered(OnWsDisconnected \o OnWsError)
    BY <2>1, <2>4, <2>6, <2>7, InFront DEF Ordered
  <2> QED BY <2>4, <2>5, <2>6, <2>8 DEF Proper, S
<1>7. Proper("hb", OnWsDisconnected) /\ Final(OnWsDisconnected, "lostTest")
  <2> DEFINE S == StepsOf("hb")
             a == <<"lostTest">>
  <2>1. a \in Seq(S) /\ StopHeartbeat \in Seq(S)
    BY DEF StepsOf, HbSteps, StopHeartbeat
  <2>2. \A s : Has(a, s) <=> s = "lostTest"
    BY Short
  <2>3. Final(a, "lostTest")
    BY DEF Final
  <2>4. OnWsDisconnected = StopHeartbeat \o a
    BY DEF OnWsDisconnected
  <2> HIDE DEF S, a
  <2>5. OnWsDisconnected \in Seq(S) /\ Final(OnWsDisconnected, "lostTest")
    BY <2>1, <2>2, <2>3, <2>4, Pieces, OneAfterTheOther
  <2> QED BY <1>5, <2>5 DEF Proper, S
<1>6. Proper("ws", <<"retry">>) /\ \A s : Has(<<"retry">>, s) <=> s = "retry"
  <2>1. <<"retry">> \in Seq(StepsOf("ws"))
    BY DEF StepsOf, WsSteps
  <2>2. Final(<<"retry">>, "retry") /\ \A s : Has(<<"retry">>, s) <=> s = "retry"
    BY Short DEF Final
  <2> QED BY <2>1, <2>2, NothingFollows DEF Proper, Ordered
<1> QED BY <1>1, <1>2, <1>3, <1>4, <1>5, <1>6, <1>7

-----------------------------------------------------------------------------
(***************************************************************************)
(* The inductive invariant.                                                *)
(***************************************************************************)
Typed ==
  /\ state_ \in States
  /\ want_connected_ \in BOOLEAN /\ network_ok_ \in BOOLEAN
  /\ super_retry_count_ \in Nat
  /\ reconnect_pending_ \in BOOLEAN /\ reconnect_cancel_ \in BOOLEAN
  /\ rt \in {"wait", "sleep", "fire"}
  /\ heartbeat_stopping_ \in BOOLEAN
  /\ heartbeat \in {"none", "run", "exited"}
  /\ running \in BOOLEAN /\ connected \in BOOLEAN
  /\ reconnect_count \in 0..MAX_RECONNECT
  /\ worker \in {"none", "run", "exited"}
  /\ attempts \in Nat /\ sockets \in Nat
  /\ aborted \in BOOLEAN
  /\ calls \in Nat /\ logouts \in Nat /\ failures \in Nat /\ dropped \in Nat
  /\ netChanges \in Nat

\* Each thread has a proper program.
Programs == todo \in [Actors -> Seq(Steps)] /\ \A a \in Actors : Proper(a, todo[a])

\* When the heartbeat calls onWsDisconnected it waits for itself, for ever.
HbInv ==
  /\ Final(todo["hb"], "lostTest")
  /\ todo["hb"] # <<>> => heartbeat = "run" /\ Has(todo["hb"], "hbJoin")

\* What the WebSocket worker runs, and what it has left when it does.
WorkerInv ==
  /\ todo["ws"] # <<>> => worker = "run"
  /\ Has(todo["ws"], "setConnected") => connected /\ sockets > 0
  /\ Has(todo["ws"], "wsError") => ~connected
  /\ Has(todo["ws"], "retry") => reconnect_count < MAX_RECONNECT

\* The worker is about to show another state, or to look for one.
WillChange ==
  Has(todo["ws"], "lostTest") \/ Has(todo["ws"], "setDisconnected") \/ Has(todo["ws"], "setReconnecting")

ShownInv == state_ = "Connected" => connected \/ WillChange

\* A plan to reconnect is only made for an application that wants it; if it does not
\* any more, disconnect() has still to wait for the worker that makes it.
PlanInv == ~want_connected_ /\ Has(todo["ws"], "setReconnecting") => Has(todo["app"], "wsJoin")

\* Who opens the client shows Connecting before, and who closes it Disconnected after.
ShutInv ==
  \/ want_connected_ \/ running
  \/ state_ = "Disconnected"
  \/ \E a \in Actors : Has(todo[a], "wsTest") \/ Has(todo[a], "wsRun") \/ Has(todo[a], "setDisconnected")
  \/ worker = "run" /\ (sockets > 0 \/ Has(todo["ws"], "lostTest"))

Inv == Typed /\ Programs /\ HbInv /\ WorkerInv /\ ShownInv /\ PlanInv /\ ShutInv

(***************************************************************************)
(* A step of a call, and the beginning of one.                             *)
(***************************************************************************)
\* Thread a took step s, and has more to do in front of what was left.
Went(a, s, more) ==
  /\ todo[a] # <<>> /\ s \in StepsOf(a)
  /\ \A b \in Actors : b # a => todo'[b] = todo[b]
  /\ \A q : Has(todo[a], q) <=> q = s \/ Has(Tail(todo[a]), q)
  /\ \A q : Has(todo'[a], q) <=> Has(more, q) \/ Has(Tail(todo[a]), q)
  /\ s = "setConnecting" => Has(Tail(todo[a]), "wsTest")
  /\ s \in {"wsStop", "wsJoin"} => Has(Tail(todo[a]), "setDisconnected")
  /\ s = "unwant" => Has(Tail(todo[a]), "wsJoin")
  /\ s \in {"wsError", "retry"} => \A q : ~Has(Tail(todo[a]), q)
  /\ more = <<>> => todo'[a] = Tail(todo[a])

\* Every thread takes steps of the program.
LEMMA StepsOfThreads == \A a \in Actors : StepsOf(a) \subseteq Steps
BY DEF Actors, StepsOf, WsSteps, HbSteps, CallSteps, Steps

\* A proper program is a sequence of steps.
LEMMA ProgramTyped == ASSUME NEW a \in Actors, NEW p, Proper(a, p) PROVE p \in Seq(Steps)
<1>1. p \in Seq(StepsOf(a)) /\ StepsOf(a) \subseteq Steps
  BY StepsOfThreads DEF Proper
<1> QED BY <1>1

\* What a step does to the programs.
LEMMA StepTaken ==
  ASSUME Inv, NEW a \in Actors, NEW s, At(a, s), NEW more, Proper(a, more), Modest(more), Go(a, more)
  PROVE  Programs' /\ Went(a, s, more)
<1> DEFINE p == todo[a]
           S == StepsOf(a)
<1>1. /\ p \in Seq(S) /\ Ordered(p) /\ p # <<>> /\ Head(p) = s
      /\ more \in Seq(S) /\ Ordered(more)
  BY DEF Inv, Programs, Proper, At
<1>2. todo' = [todo EXCEPT ![a] = more \o Tail(p)] /\ todo \in [Actors -> Seq(Steps)]
  BY DEF Go, Inv, Programs
<1>0. \A b \in Actors : Proper(b, todo[b])
  BY DEF Inv, Programs
<1> HIDE DEF p, S
<1>3. /\ Head(p) \in S /\ Tail(p) \in Seq(S)
      /\ \A q : Has(p, q) <=> Head(p) = q \/ Has(Tail(p), q)
      /\ \A u, q : Follows(p, u, q) => Follows(Tail(p), u, q) /\ (Head(p) = u => Has(Tail(p), q))
      /\ \A u : Final(p, u) => Final(Tail(p), u) /\ (Head(p) = u => Tail(p) = <<>>)
  BY <1>1, HeadAndTail
<1>4. Ordered(Tail(p))
  BY <1>1, <1>3 DEF Ordered
<1>5. /\ more \o Tail(p) \in Seq(S) /\ Ordered(more \o Tail(p))
      /\ \A q : Has(more \o Tail(p), q) <=> Has(more, q) \/ Has(Tail(p), q)
  BY <1>1, <1>3, <1>4, InFront DEF Ordered
<1>6. Proper(a, more \o Tail(p))
  BY <1>5 DEF Proper, S
<1>7. more \o Tail(p) \in Seq(Steps)
  BY <1>6, ProgramTyped
<1>8. todo'[a] = more \o Tail(p) /\ \A b \in Actors : b # a => todo'[b] = todo[b]
  BY <1>2
<1>9. Programs'
  BY <1>0, <1>2, <1>6, <1>7, <1>8 DEF Programs
<1>10. more = <<>> => more \o Tail(p) = Tail(p)
  BY <1>3, ConcatEmptySeq
<1>11. /\ s = "setConnecting" => Has(Tail(p), "wsTest")
       /\ s \in {"wsStop", "wsJoin"} => Has(Tail(p), "setDisconnected")
       /\ s = "unwant" => Has(Tail(p), "wsJoin")
       /\ s \in {"wsError", "retry"} => Tail(p) = <<>>
  BY <1>1, <1>3 DEF Ordered
<1>12. \A q : ~Has(<<>>, q)
  BY Short
<1> QED BY <1>1, <1>3, <1>5, <1>8, <1>9, <1>10, <1>11, <1>12 DEF Went, p, S

\* Thread a, that had nothing to do, begins program p.
Began(a, p) ==
  /\ todo[a] = <<>> /\ todo'[a] = p
  /\ \A b \in Actors : b # a => todo'[b] = todo[b]
  /\ \A q : ~Has(todo[a], q)

\* A thread with nothing to do begins a proper program and the others go on with theirs.
LEMMA CallBegun ==
  ASSUME Inv, NEW a \in Actors, Idle(a), NEW p, Proper(a, p), Begin(a, p)
  PROVE  Programs' /\ Began(a, p)
<1>1. todo' = [todo EXCEPT ![a] = p] /\ todo \in [Actors -> Seq(Steps)] /\ todo[a] = <<>>
  BY DEF Begin, Idle, Inv, Programs
<1>2. p \in Seq(Steps)
  BY ProgramTyped
<1>3. todo'[a] = p /\ \A b \in Actors : b # a => todo'[b] = todo[b]
  BY <1>1
<1>4. Programs'
  BY <1>1, <1>2, <1>3 DEF Inv, Programs
<1>5. \A q : ~Has(<<>>, q)
  BY Short
<1> QED BY <1>1, <1>3, <1>4, <1>5 DEF Began

\* The heartbeat only ever tells itself to stop.
LEMMA HeartbeatSteps ==
  ASSUME Inv, NEW s, At("hb", s)
  PROVE  heartbeat = "run" /\ s \in {"hbStop", "hbJoin"}
<1> DEFINE p == todo["hb"]
<1>1. "hb" \in Actors /\ StepsOf("hb") = HbSteps
  BY DEF Actors, StepsOf
<1>2. p \in Seq(HbSteps) /\ p # <<>> /\ Head(p) = s
  BY <1>1 DEF Inv, Programs, Proper, At
<1>3. heartbeat = "run" /\ Has(p, "hbJoin") /\ Final(p, "lostTest")
  BY <1>2 DEF Inv, HbInv
<1> HIDE DEF p
<1>4. /\ Head(p) \in HbSteps
      /\ Has(p, "hbJoin") <=> Head(p) = "hbJoin" \/ Has(Tail(p), "hbJoin")
      /\ Head(p) = "lostTest" => Tail(p) = <<>>
  BY <1>2, <1>3, HeadAndTail
<1>5. ~Has(<<>>, "hbJoin")
  BY Short
<1> QED BY <1>2, <1>3, <1>4, <1>5 DEF HbSteps

\* So a step leaves it as it is, or it is not running.
LEMMA HeartbeatStays ==
  ASSUME Inv, NEW a \in Actors, NEW s, At(a, s), NEW more, Went(a, s, more),
         a = "hb" => s = "hbStop" /\ more = <<>>,
         heartbeat' = heartbeat \/ heartbeat # "run" \/ heartbeat' = "run"
  PROVE  HbInv'
<1>1. CASE a # "hb"
  <2>1. "hb" \in Actors
    BY DEF Actors
  <2>2. todo'["hb"] = todo["hb"]
    BY <1>1, <2>1 DEF Went
  <2> QED BY <2>2 DEF Inv, HbInv
<1>2. CASE a = "hb"
  <2> DEFINE p == todo["hb"]
  <2>1. p \in Seq(StepsOf("hb")) /\ p # <<>> /\ Head(p) = "hbStop"
    BY <1>2 DEF Inv, Programs, Proper, At
  <2>2. heartbeat = "run" /\ Has(p, "hbJoin") /\ Final(p, "lostTest")
    BY <2>1 DEF Inv, HbInv
  <2>3. todo'["hb"] = Tail(p)
    BY <1>2 DEF Went
  <2> HIDE DEF p
  <2>4. Has(Tail(p), "hbJoin") /\ Final(Tail(p), "lostTest")
    BY <2>1, <2>2, HeadAndTail
  <2> QED BY <2>2, <2>3, <2>4 DEF HbInv
<1> QED BY <1>1, <1>2

-----------------------------------------------------------------------------
(***************************************************************************)
(* Every step keeps the invariant.                                         *)
(***************************************************************************)
\* Who may take which step.
LEMMA WhoSteps ==
  ASSUME Inv, NEW a \in Actors, NEW s, At(a, s)
  PROVE  s \in StepsOf(a) /\ (a = "hb" => heartbeat = "run" /\ s \in {"hbStop", "hbJoin"})
<1>1. todo[a] \in Seq(StepsOf(a)) /\ todo[a] # <<>> /\ Head(todo[a]) = s
  BY DEF Inv, Programs, Proper, At
<1>2. s \in StepsOf(a)
  BY <1>1
<1> QED BY <1>2, HeartbeatSteps

\* Connecting is shown, and the WebSocketClient called next.
LEMMA ConnectingKeeps == ASSUME Inv, NEW a \in Actors, SetState(a, "setConnecting", "Connecting") PROVE Inv'
<1>1. At(a, "setConnecting") /\ Go(a, <<>>)
  BY DEF SetState
<1>2. Proper(a, <<>>) /\ Modest(<<>>)
  BY GoesOnProperly
<1>3. Programs' /\ Went(a, "setConnecting", <<>>) /\ \A q : ~Has(<<>>, q)
  BY <1>1, <1>2, StepTaken, Short
<1>4. "setConnecting" \in StepsOf(a) /\ (a = "hb" => heartbeat = "run" /\ "setConnecting" \in {"hbStop", "hbJoin"})
  BY <1>1, WhoSteps
<1>5. Typed'
  BY <1>4 DEF Inv, Typed, SetState, States
<1>6. HbInv'
  BY <1>1, <1>3, <1>4, HeartbeatStays DEF SetState
<1>7. WorkerInv'
  BY <1>3, <1>4 DEF Inv, WorkerInv, Went, SetState, StepsOf, HbSteps, WsSteps, CallSteps, Actors
<1>8. ShownInv'
  BY <1>3, <1>4 DEF Inv, ShownInv, WillChange, WorkerInv, Went, SetState, StepsOf, HbSteps, WsSteps, CallSteps, Actors
<1>9. PlanInv'
  BY <1>3, <1>4 DEF Inv, PlanInv, WorkerInv, Went, SetState, StepsOf, HbSteps, WsSteps, CallSteps, Actors
<1>10. ShutInv'
  BY <1>3, <1>4 DEF Inv, ShutInv, PlanInv, WorkerInv, Went, SetState, StepsOf, HbSteps, WsSteps, CallSteps, Actors
<1> QED BY <1>3, <1>5, <1>6, <1>7, <1>8, <1>9, <1>10 DEF Inv

\* Connected is shown, by the worker of an open socket.
LEMMA ConnectedKeeps == ASSUME Inv, NEW a \in Actors, SetState(a, "setConnected", "Connected") PROVE Inv'
<1>1. At(a, "setConnected") /\ Go(a, <<>>)
  BY DEF SetState
<1>2. Proper(a, <<>>) /\ Modest(<<>>)
  BY GoesOnProperly
<1>3. Programs' /\ Went(a, "setConnected", <<>>) /\ \A q : ~Has(<<>>, q)
  BY <1>1, <1>2, StepTaken, Short
<1>4. "setConnected" \in StepsOf(a) /\ (a = "hb" => heartbeat = "run" /\ "setConnected" \in {"hbStop", "hbJoin"})
  BY <1>1, WhoSteps
<1>5. Typed'
  BY <1>4 DEF Inv, Typed, SetState, States
<1>6. HbInv'
  BY <1>1, <1>3, <1>4, HeartbeatStays DEF SetState
<1>7. WorkerInv'
  BY <1>3, <1>4 DEF Inv, WorkerInv, Went, SetState, StepsOf, HbSteps, WsSteps, CallSteps, Actors
<1>8. ShownInv'
  BY <1>3, <1>4 DEF Inv, ShownInv, WillChange, WorkerInv, Went, SetState, StepsOf, HbSteps, WsSteps, CallSteps, Actors
<1>9. PlanInv'
  BY <1>3, <1>4 DEF Inv, PlanInv, WorkerInv, Went, SetState, StepsOf, HbSteps, WsSteps, CallSteps, Actors
<1>10. ShutInv'
  BY <1>3, <1>4 DEF Inv, ShutInv, PlanInv, WorkerInv, Went, SetState, StepsOf, HbSteps, WsSteps, CallSteps, Actors
<1> QED BY <1>3, <1>5, <1>6, <1>7, <1>8, <1>9, <1>10 DEF Inv

\* Reconnecting is shown, by the worker that has made the plan.
LEMMA ReconnectingKeeps == ASSUME Inv, NEW a \in Actors, SetState(a, "setReconnecting", "Reconnecting") PROVE Inv'
<1>1. At(a, "setReconnecting") /\ Go(a, <<>>)
  BY DEF SetState
<1>2. Proper(a, <<>>) /\ Modest(<<>>)
  BY GoesOnProperly
<1>3. Programs' /\ Went(a, "setReconnecting", <<>>) /\ \A q : ~Has(<<>>, q)
  BY <1>1, <1>2, StepTaken, Short
<1>4. "setReconnecting" \in StepsOf(a) /\ (a = "hb" => heartbeat = "run" /\ "setReconnecting" \in {"hbStop", "hbJoin"})
  BY <1>1, WhoSteps
<1>5. Typed'
  BY <1>4 DEF Inv, Typed, SetState, States
<1>6. HbInv'
  BY <1>1, <1>3, <1>4, HeartbeatStays DEF SetState
<1>7. WorkerInv'
  BY <1>3, <1>4 DEF Inv, WorkerInv, Went, SetState, StepsOf, HbSteps, WsSteps, CallSteps, Actors
<1>8. ShownInv'
  BY <1>3, <1>4 DEF Inv, ShownInv, WillChange, WorkerInv, Went, SetState, StepsOf, HbSteps, WsSteps, CallSteps, Actors
<1>9. PlanInv'
  BY <1>3, <1>4 DEF Inv, PlanInv, WorkerInv, Went, SetState, StepsOf, HbSteps, WsSteps, CallSteps, Actors
<1>10. ShutInv'
  <2>1. want_connected_ \/ Has(todo["app"], "wsJoin")
    BY <1>3, <1>4 DEF Inv, PlanInv, Went, StepsOf, HbSteps, WsSteps, CallSteps, Actors
  <2>2. \A b \in Actors : Ordered(todo[b])
    BY DEF Inv, Programs, Proper
  <2>3. Has(todo["app"], "wsJoin") => Has(todo["app"], "setDisconnected")
    BY <2>2 DEF Actors, Ordered, Follows, Has
  <2>4. a = "ws" /\ "app" \in Actors
    BY <1>4 DEF StepsOf, HbSteps, WsSteps, CallSteps, Actors
  <2> QED BY <1>3, <2>1, <2>3, <2>4 DEF ShutInv, Went, SetState
<1> QED BY <1>3, <1>5, <1>6, <1>7, <1>8, <1>9, <1>10 DEF Inv

\* Disconnected is shown.
LEMMA DisconnectedKeeps == ASSUME Inv, NEW a \in Actors, SetState(a, "setDisconnected", "Disconnected") PROVE Inv'
<1>1. At(a, "setDisconnected") /\ Go(a, <<>>)
  BY DEF SetState
<1>2. Proper(a, <<>>) /\ Modest(<<>>)
  BY GoesOnProperly
<1>3. Programs' /\ Went(a, "setDisconnected", <<>>) /\ \A q : ~Has(<<>>, q)
  BY <1>1, <1>2, StepTaken, Short
<1>4. "setDisconnected" \in StepsOf(a) /\ (a = "hb" => heartbeat = "run" /\ "setDisconnected" \in {"hbStop", "hbJoin"})
  BY <1>1, WhoSteps
<1>5. Typed'
  BY <1>4 DEF Inv, Typed, SetState, States
<1>6. HbInv'
  BY <1>1, <1>3, <1>4, HeartbeatStays DEF SetState
<1>7. WorkerInv'
  BY <1>3, <1>4 DEF Inv, WorkerInv, Went, SetState, StepsOf, HbSteps, WsSteps, CallSteps, Actors
<1>8. ShownInv'
  BY <1>3, <1>4 DEF Inv, ShownInv, WillChange, WorkerInv, Went, SetState, StepsOf, HbSteps, WsSteps, CallSteps, Actors
<1>9. PlanInv'
  BY <1>3, <1>4 DEF Inv, PlanInv, WorkerInv, Went, SetState, StepsOf, HbSteps, WsSteps, CallSteps, Actors
<1>10. ShutInv'
  BY <1>3, <1>4 DEF Inv, ShutInv, PlanInv, WorkerInv, Went, SetState, StepsOf, HbSteps, WsSteps, CallSteps, Actors
<1> QED BY <1>3, <1>5, <1>6, <1>7, <1>8, <1>9, <1>10 DEF Inv

\* The application wants a connection.
LEMMA WantKeeps == ASSUME Inv, NEW a \in Actors, Want(a) PROVE Inv'
<1>1. At(a, "want") /\ Go(a, <<>>)
  BY DEF Want
<1>2. Proper(a, <<>>) /\ Modest(<<>>)
  BY GoesOnProperly
<1>3. Programs' /\ Went(a, "want", <<>>) /\ \A q : ~Has(<<>>, q)
  BY <1>1, <1>2, StepTaken, Short
<1>4. "want" \in StepsOf(a) /\ (a = "hb" => heartbeat = "run" /\ "want" \in {"hbStop", "hbJoin"})
  BY <1>1, WhoSteps
<1>5. Typed'
  BY <1>4 DEF Inv, Typed, Want, States
<1>6. HbInv'
  BY <1>1, <1>3, <1>4, HeartbeatStays DEF Want
<1>7. WorkerInv'
  BY <1>3, <1>4 DEF Inv, WorkerInv, Went, Want, StepsOf, HbSteps, WsSteps, CallSteps, Actors
<1>8. ShownInv'
  BY <1>3, <1>4 DEF Inv, ShownInv, WillChange, WorkerInv, Went, Want, StepsOf, HbSteps, WsSteps, CallSteps, Actors
<1>9. PlanInv'
  BY <1>3, <1>4 DEF Inv, PlanInv, WorkerInv, Went, Want, StepsOf, HbSteps, WsSteps, CallSteps, Actors
<1>10. ShutInv'
  BY <1>3, <1>4 DEF Inv, ShutInv, PlanInv, WorkerInv, Went, Want, StepsOf, HbSteps, WsSteps, CallSteps, Actors
<1> QED BY <1>3, <1>5, <1>6, <1>7, <1>8, <1>9, <1>10 DEF Inv

\* It does not want it any more.
LEMMA UnwantKeeps == ASSUME Inv, NEW a \in Actors, Unwant(a) PROVE Inv'
<1>1. At(a, "unwant") /\ Go(a, <<>>)
  BY DEF Unwant
<1>2. Proper(a, <<>>) /\ Modest(<<>>)
  BY GoesOnProperly
<1>3. Programs' /\ Went(a, "unwant", <<>>) /\ \A q : ~Has(<<>>, q)
  BY <1>1, <1>2, StepTaken, Short
<1>4. "unwant" \in StepsOf(a) /\ (a = "hb" => heartbeat = "run" /\ "unwant" \in {"hbStop", "hbJoin"})
  BY <1>1, WhoSteps
<1>5. Typed'
  <2>1. want_connected_' \in BOOLEAN
    BY <1>3, <1>4, ParametersAssumption DEF Unwant
  <2> QED BY <2>1 DEF Inv, Typed, Unwant
<1>6. HbInv'
  BY <1>1, <1>3, <1>4, HeartbeatStays DEF Unwant
<1>7. WorkerInv'
  BY <1>3, <1>4 DEF Inv, WorkerInv, Went, Unwant, StepsOf, HbSteps, WsSteps, CallSteps, Actors
<1>8. ShownInv'
  BY <1>3, <1>4 DEF Inv, ShownInv, WillChange, WorkerInv, Went, Unwant, StepsOf, HbSteps, WsSteps, CallSteps, Actors
<1>9. PlanInv'
  BY <1>3, <1>4 DEF Inv, PlanInv, WorkerInv, Went, Unwant, StepsOf, HbSteps, WsSteps, CallSteps, Actors
<1>10. ShutInv'
  <2>1. todo'[a] = Tail(todo[a]) /\ Has(todo'[a], "wsJoin")
    BY <1>3 DEF Went
  <2>2. Ordered(todo'[a])
    BY <1>3 DEF Programs, Proper
  <2>3. Has(todo'[a], "setDisconnected")
    BY <2>1, <2>2 DEF Ordered, Follows, Has
  <2> QED BY <2>3 DEF ShutInv
<1> QED BY <1>3, <1>5, <1>6, <1>7, <1>8, <1>9, <1>10 DEF Inv

\* The outer retries are counted from 0.
LEMMA ResetKeeps == ASSUME Inv, NEW a \in Actors, ResetRetries(a) PROVE Inv'
<1>1. At(a, "resetRetries") /\ Go(a, <<>>)
  BY DEF ResetRetries
<1>2. Proper(a, <<>>) /\ Modest(<<>>)
  BY GoesOnProperly
<1>3. Programs' /\ Went(a, "resetRetries", <<>>) /\ \A q : ~Has(<<>>, q)
  BY <1>1, <1>2, StepTaken, Short
<1>4. "resetRetries" \in StepsOf(a) /\ (a = "hb" => heartbeat = "run" /\ "resetRetries" \in {"hbStop", "hbJoin"})
  BY <1>1, WhoSteps
<1>5. Typed'
  BY <1>4 DEF Inv, Typed, ResetRetries, States
<1>6. HbInv'
  BY <1>1, <1>3, <1>4, HeartbeatStays DEF ResetRetries
<1>7. WorkerInv'
  BY <1>3, <1>4 DEF Inv, WorkerInv, Went, ResetRetries, StepsOf, HbSteps, WsSteps, CallSteps, Actors
<1>8. ShownInv'
  BY <1>3, <1>4 DEF Inv, ShownInv, WillChange, WorkerInv, Went, ResetRetries, StepsOf, HbSteps, WsSteps, CallSteps, Actors
<1>9. PlanInv'
  BY <1>3, <1>4 DEF Inv, PlanInv, WorkerInv, Went, ResetRetries, StepsOf, HbSteps, WsSteps, CallSteps, Actors
<1>10. ShutInv'
  BY <1>3, <1>4 DEF Inv, ShutInv, PlanInv, WorkerInv, Went, ResetRetries, StepsOf, HbSteps, WsSteps, CallSteps, Actors
<1> QED BY <1>3, <1>5, <1>6, <1>7, <1>8, <1>9, <1>10 DEF Inv

\* A plan to reconnect.
LEMMA ScheduleKeeps == ASSUME Inv, NEW a \in Actors, ScheduleReconnect(a) PROVE Inv'
<1>1. At(a, "schedule") /\ Go(a, <<>>)
  BY DEF ScheduleReconnect
<1>2. Proper(a, <<>>) /\ Modest(<<>>)
  BY GoesOnProperly
<1>3. Programs' /\ Went(a, "schedule", <<>>) /\ \A q : ~Has(<<>>, q)
  BY <1>1, <1>2, StepTaken, Short
<1>4. "schedule" \in StepsOf(a) /\ (a = "hb" => heartbeat = "run" /\ "schedule" \in {"hbStop", "hbJoin"})
  BY <1>1, WhoSteps
<1>5. Typed'
  <2>1. reconnect_cancel_' \in BOOLEAN /\ reconnect_pending_' \in BOOLEAN
    BY <1>3, <1>4, ParametersAssumption DEF ScheduleReconnect
  <2> QED BY <2>1 DEF Inv, Typed, ScheduleReconnect
<1>6. HbInv'
  BY <1>1, <1>3, <1>4, HeartbeatStays DEF ScheduleReconnect
<1>7. WorkerInv'
  BY <1>3, <1>4 DEF Inv, WorkerInv, Went, ScheduleReconnect, StepsOf, HbSteps, WsSteps, CallSteps, Actors
<1>8. ShownInv'
  BY <1>3, <1>4 DEF Inv, ShownInv, WillChange, WorkerInv, Went, ScheduleReconnect, StepsOf, HbSteps, WsSteps, CallSteps, Actors
<1>9. PlanInv'
  BY <1>3, <1>4 DEF Inv, PlanInv, WorkerInv, Went, ScheduleReconnect, StepsOf, HbSteps, WsSteps, CallSteps, Actors
<1>10. ShutInv'
  BY <1>3, <1>4 DEF Inv, ShutInv, PlanInv, WorkerInv, Went, ScheduleReconnect, StepsOf, HbSteps, WsSteps, CallSteps, Actors
<1> QED BY <1>3, <1>5, <1>6, <1>7, <1>8, <1>9, <1>10 DEF Inv

\* No plan to reconnect.
LEMMA CancelKeeps == ASSUME Inv, NEW a \in Actors, CancelReconnect(a) PROVE Inv'
<1>1. At(a, "cancel") /\ Go(a, <<>>)
  BY DEF CancelReconnect
<1>2. Proper(a, <<>>) /\ Modest(<<>>)
  BY GoesOnProperly
<1>3. Programs' /\ Went(a, "cancel", <<>>) /\ \A q : ~Has(<<>>, q)
  BY <1>1, <1>2, StepTaken, Short
<1>4. "cancel" \in StepsOf(a) /\ (a = "hb" => heartbeat = "run" /\ "cancel" \in {"hbStop", "hbJoin"})
  BY <1>1, WhoSteps
<1>5. Typed'
  <2>1. reconnect_cancel_' \in BOOLEAN /\ reconnect_pending_' \in BOOLEAN
    BY <1>3, <1>4, ParametersAssumption DEF CancelReconnect
  <2> QED BY <2>1 DEF Inv, Typed, CancelReconnect
<1>6. HbInv'
  BY <1>1, <1>3, <1>4, HeartbeatStays DEF CancelReconnect
<1>7. WorkerInv'
  BY <1>3, <1>4 DEF Inv, WorkerInv, Went, CancelReconnect, StepsOf, HbSteps, WsSteps, CallSteps, Actors
<1>8. ShownInv'
  BY <1>3, <1>4 DEF Inv, ShownInv, WillChange, WorkerInv, Went, CancelReconnect, StepsOf, HbSteps, WsSteps, CallSteps, Actors
<1>9. PlanInv'
  BY <1>3, <1>4 DEF Inv, PlanInv, WorkerInv, Went, CancelReconnect, StepsOf, HbSteps, WsSteps, CallSteps, Actors
<1>10. ShutInv'
  BY <1>3, <1>4 DEF Inv, ShutInv, PlanInv, WorkerInv, Went, CancelReconnect, StepsOf, HbSteps, WsSteps, CallSteps, Actors
<1> QED BY <1>3, <1>5, <1>6, <1>7, <1>8, <1>9, <1>10 DEF Inv

\* The heartbeat is told to stop.
LEMMA HbStopKeeps == ASSUME Inv, NEW a \in Actors, HbStop(a) PROVE Inv'
<1>1. At(a, "hbStop") /\ Go(a, <<>>)
  BY DEF HbStop
<1>2. Proper(a, <<>>) /\ Modest(<<>>)
  BY GoesOnProperly
<1>3. Programs' /\ Went(a, "hbStop", <<>>) /\ \A q : ~Has(<<>>, q)
  BY <1>1, <1>2, StepTaken, Short
<1>4. "hbStop" \in StepsOf(a) /\ (a = "hb" => heartbeat = "run" /\ "hbStop" \in {"hbStop", "hbJoin"})
  BY <1>1, WhoSteps
<1>5. Typed'
  BY <1>4 DEF Inv, Typed, HbStop, States
<1>6. HbInv'
  BY <1>1, <1>3, <1>4, HeartbeatStays DEF HbStop
<1>7. WorkerInv'
  BY <1>3, <1>4 DEF Inv, WorkerInv, Went, HbStop, StepsOf, HbSteps, WsSteps, CallSteps, Actors
<1>8. ShownInv'
  BY <1>3, <1>4 DEF Inv, ShownInv, WillChange, WorkerInv, Went, HbStop, StepsOf, HbSteps, WsSteps, CallSteps, Actors
<1>9. PlanInv'
  BY <1>3, <1>4 DEF Inv, PlanInv, WorkerInv, Went, HbStop, StepsOf, HbSteps, WsSteps, CallSteps, Actors
<1>10. ShutInv'
  BY <1>3, <1>4 DEF Inv, ShutInv, PlanInv, WorkerInv, Went, HbStop, StepsOf, HbSteps, WsSteps, CallSteps, Actors
<1> QED BY <1>3, <1>5, <1>6, <1>7, <1>8, <1>9, <1>10 DEF Inv

\* It is joined.
LEMMA HbJoinKeeps == ASSUME Inv, NEW a \in Actors, HbJoin(a) PROVE Inv'
<1>1. At(a, "hbJoin") /\ Go(a, <<>>)
  BY DEF HbJoin
<1>2. Proper(a, <<>>) /\ Modest(<<>>)
  BY GoesOnProperly
<1>3. Programs' /\ Went(a, "hbJoin", <<>>) /\ \A q : ~Has(<<>>, q)
  BY <1>1, <1>2, StepTaken, Short
<1>4. "hbJoin" \in StepsOf(a) /\ (a = "hb" => heartbeat = "run" /\ "hbJoin" \in {"hbStop", "hbJoin"})
  BY <1>1, WhoSteps
<1>5. Typed'
  BY <1>4 DEF Inv, Typed, HbJoin, States
<1>6. HbInv'
  BY <1>1, <1>3, <1>4, HeartbeatStays DEF HbJoin
<1>7. WorkerInv'
  BY <1>3, <1>4 DEF Inv, WorkerInv, Went, HbJoin, StepsOf, HbSteps, WsSteps, CallSteps, Actors
<1>8. ShownInv'
  BY <1>3, <1>4 DEF Inv, ShownInv, WillChange, WorkerInv, Went, HbJoin, StepsOf, HbSteps, WsSteps, CallSteps, Actors
<1>9. PlanInv'
  BY <1>3, <1>4 DEF Inv, PlanInv, WorkerInv, Went, HbJoin, StepsOf, HbSteps, WsSteps, CallSteps, Actors
<1>10. ShutInv'
  BY <1>3, <1>4 DEF Inv, ShutInv, PlanInv, WorkerInv, Went, HbJoin, StepsOf, HbSteps, WsSteps, CallSteps, Actors
<1> QED BY <1>3, <1>5, <1>6, <1>7, <1>8, <1>9, <1>10 DEF Inv

\* It is not to stop any more.
LEMMA HbClearKeeps == ASSUME Inv, NEW a \in Actors, HbClear(a) PROVE Inv'
<1>1. At(a, "hbClear") /\ Go(a, <<>>)
  BY DEF HbClear
<1>2. Proper(a, <<>>) /\ Modest(<<>>)
  BY GoesOnProperly
<1>3. Programs' /\ Went(a, "hbClear", <<>>) /\ \A q : ~Has(<<>>, q)
  BY <1>1, <1>2, StepTaken, Short
<1>4. "hbClear" \in StepsOf(a) /\ (a = "hb" => heartbeat = "run" /\ "hbClear" \in {"hbStop", "hbJoin"})
  BY <1>1, WhoSteps
<1>5. Typed'
  <2>1. heartbeat_stopping_' \in BOOLEAN
    BY <1>3, <1>4, ParametersAssumption DEF HbClear
  <2> QED BY <2>1 DEF Inv, Typed, HbClear
<1>6. HbInv'
  BY <1>1, <1>3, <1>4, HeartbeatStays DEF HbClear
<1>7. WorkerInv'
  BY <1>3, <1>4 DEF Inv, WorkerInv, Went, HbClear, StepsOf, HbSteps, WsSteps, CallSteps, Actors
<1>8. ShownInv'
  BY <1>3, <1>4 DEF Inv, ShownInv, WillChange, WorkerInv, Went, HbClear, StepsOf, HbSteps, WsSteps, CallSteps, Actors
<1>9. PlanInv'
  BY <1>3, <1>4 DEF Inv, PlanInv, WorkerInv, Went, HbClear, StepsOf, HbSteps, WsSteps, CallSteps, Actors
<1>10. ShutInv'
  BY <1>3, <1>4 DEF Inv, ShutInv, PlanInv, WorkerInv, Went, HbClear, StepsOf, HbSteps, WsSteps, CallSteps, Actors
<1> QED BY <1>3, <1>5, <1>6, <1>7, <1>8, <1>9, <1>10 DEF Inv

\* It is started.
LEMMA HbSpawnKeeps == ASSUME Inv, NEW a \in Actors, HbSpawn(a) PROVE Inv'
<1>1. At(a, "hbSpawn") /\ Go(a, <<>>)
  BY DEF HbSpawn
<1>2. Proper(a, <<>>) /\ Modest(<<>>)
  BY GoesOnProperly
<1>3. Programs' /\ Went(a, "hbSpawn", <<>>) /\ \A q : ~Has(<<>>, q)
  BY <1>1, <1>2, StepTaken, Short
<1>4. "hbSpawn" \in StepsOf(a) /\ (a = "hb" => heartbeat = "run" /\ "hbSpawn" \in {"hbStop", "hbJoin"})
  BY <1>1, WhoSteps
<1>5. Typed'
  BY <1>4 DEF Inv, Typed, HbSpawn, States
<1>6. HbInv'
  BY <1>1, <1>3, <1>4, HeartbeatStays DEF HbSpawn
<1>7. WorkerInv'
  BY <1>3, <1>4 DEF Inv, WorkerInv, Went, HbSpawn, StepsOf, HbSteps, WsSteps, CallSteps, Actors
<1>8. ShownInv'
  BY <1>3, <1>4 DEF Inv, ShownInv, WillChange, WorkerInv, Went, HbSpawn, StepsOf, HbSteps, WsSteps, CallSteps, Actors
<1>9. PlanInv'
  BY <1>3, <1>4 DEF Inv, PlanInv, WorkerInv, Went, HbSpawn, StepsOf, HbSteps, WsSteps, CallSteps, Actors
<1>10. ShutInv'
  BY <1>3, <1>4 DEF Inv, ShutInv, PlanInv, WorkerInv, Went, HbSpawn, StepsOf, HbSteps, WsSteps, CallSteps, Actors
<1> QED BY <1>3, <1>5, <1>6, <1>7, <1>8, <1>9, <1>10 DEF Inv

\* The client is to run.
LEMMA WsRunKeeps == ASSUME Inv, NEW a \in Actors, WsRun(a) PROVE Inv'
<1>1. At(a, "wsRun") /\ Go(a, <<>>)
  BY DEF WsRun
<1>2. Proper(a, <<>>) /\ Modest(<<>>)
  BY GoesOnProperly
<1>3. Programs' /\ Went(a, "wsRun", <<>>) /\ \A q : ~Has(<<>>, q)
  BY <1>1, <1>2, StepTaken, Short
<1>4. "wsRun" \in StepsOf(a) /\ (a = "hb" => heartbeat = "run" /\ "wsRun" \in {"hbStop", "hbJoin"})
  BY <1>1, WhoSteps
<1>5. Typed'
  BY <1>4 DEF Inv, Typed, WsRun, States
<1>6. HbInv'
  BY <1>1, <1>3, <1>4, HeartbeatStays DEF WsRun
<1>7. WorkerInv'
  BY <1>3, <1>4 DEF Inv, WorkerInv, Went, WsRun, StepsOf, HbSteps, WsSteps, CallSteps, Actors
<1>8. ShownInv'
  BY <1>3, <1>4 DEF Inv, ShownInv, WillChange, WorkerInv, Went, WsRun, StepsOf, HbSteps, WsSteps, CallSteps, Actors
<1>9. PlanInv'
  BY <1>3, <1>4 DEF Inv, PlanInv, WorkerInv, Went, WsRun, StepsOf, HbSteps, WsSteps, CallSteps, Actors
<1>10. ShutInv'
  BY <1>3, <1>4 DEF Inv, ShutInv, PlanInv, WorkerInv, Went, WsRun, StepsOf, HbSteps, WsSteps, CallSteps, Actors
<1> QED BY <1>3, <1>5, <1>6, <1>7, <1>8, <1>9, <1>10 DEF Inv

\* Its worker is started.
LEMMA WsSpawnKeeps == ASSUME Inv, NEW a \in Actors, WsSpawn(a) PROVE Inv'
<1>1. At(a, "wsSpawn") /\ Go(a, <<>>)
  BY DEF WsSpawn
<1>2. Proper(a, <<>>) /\ Modest(<<>>)
  BY GoesOnProperly
<1>3. Programs' /\ Went(a, "wsSpawn", <<>>) /\ \A q : ~Has(<<>>, q)
  BY <1>1, <1>2, StepTaken, Short
<1>4. "wsSpawn" \in StepsOf(a) /\ (a = "hb" => heartbeat = "run" /\ "wsSpawn" \in {"hbStop", "hbJoin"})
  BY <1>1, WhoSteps
<1>5. Typed'
  <2>1. aborted' \in BOOLEAN /\ worker' \in {"none", "run", "exited"} /\ attempts' \in Nat
    <3>1. CASE worker = "none"
      BY <3>1 DEF WsSpawn, Inv, Typed
    <3>2. CASE worker # "none"
      <4>1. aborted' = TRUE /\ UNCHANGED <<worker, attempts>>
        BY <3>2 DEF WsSpawn
      <4>2. worker \in {"none", "run", "exited"} /\ attempts \in Nat
        BY DEF Inv, Typed
      <4> QED BY <4>1, <4>2
    <3> QED BY <3>1, <3>2
  <2> QED BY <2>1 DEF Inv, Typed, WsSpawn
<1>6. HbInv'
  BY <1>1, <1>3, <1>4, HeartbeatStays DEF WsSpawn
<1>7. WorkerInv'
  BY <1>3, <1>4 DEF Inv, WorkerInv, Went, WsSpawn, StepsOf, HbSteps, WsSteps, CallSteps, Actors
<1>8. ShownInv'
  BY <1>3, <1>4 DEF Inv, ShownInv, WillChange, WorkerInv, Went, WsSpawn, StepsOf, HbSteps, WsSteps, CallSteps, Actors
<1>9. PlanInv'
  BY <1>3, <1>4 DEF Inv, PlanInv, WorkerInv, Went, WsSpawn, StepsOf, HbSteps, WsSteps, CallSteps, Actors
<1>10. ShutInv'
  BY <1>3, <1>4 DEF Inv, ShutInv, PlanInv, WorkerInv, Went, WsSpawn, StepsOf, HbSteps, WsSteps, CallSteps, Actors
<1> QED BY <1>3, <1>5, <1>6, <1>7, <1>8, <1>9, <1>10 DEF Inv

\* The client is to stop.
LEMMA WsStopKeeps == ASSUME Inv, NEW a \in Actors, WsStop(a) PROVE Inv'
<1>1. At(a, "wsStop") /\ Go(a, <<>>)
  BY DEF WsStop
<1>2. Proper(a, <<>>) /\ Modest(<<>>)
  BY GoesOnProperly
<1>3. Programs' /\ Went(a, "wsStop", <<>>) /\ \A q : ~Has(<<>>, q)
  BY <1>1, <1>2, StepTaken, Short
<1>4. "wsStop" \in StepsOf(a) /\ (a = "hb" => heartbeat = "run" /\ "wsStop" \in {"hbStop", "hbJoin"})
  BY <1>1, WhoSteps
<1>5. Typed'
  <2>1. running' \in BOOLEAN
    BY <1>3, <1>4, ParametersAssumption DEF WsStop
  <2> QED BY <2>1 DEF Inv, Typed, WsStop
<1>6. HbInv'
  BY <1>1, <1>3, <1>4, HeartbeatStays DEF WsStop
<1>7. WorkerInv'
  BY <1>3, <1>4 DEF Inv, WorkerInv, Went, WsStop, StepsOf, HbSteps, WsSteps, CallSteps, Actors
<1>8. ShownInv'
  BY <1>3, <1>4 DEF Inv, ShownInv, WillChange, WorkerInv, Went, WsStop, StepsOf, HbSteps, WsSteps, CallSteps, Actors
<1>9. PlanInv'
  BY <1>3, <1>4 DEF Inv, PlanInv, WorkerInv, Went, WsStop, StepsOf, HbSteps, WsSteps, CallSteps, Actors
<1>10. ShutInv'
  BY <1>3, <1>4 DEF Inv, ShutInv, PlanInv, WorkerInv, Went, WsStop, StepsOf, HbSteps, WsSteps, CallSteps, Actors
<1> QED BY <1>3, <1>5, <1>6, <1>7, <1>8, <1>9, <1>10 DEF Inv

\* Its worker has exited, and is joined.
LEMMA WsJoinKeeps == ASSUME Inv, NEW a \in Actors, WsJoin(a) PROVE Inv'
<1>1. At(a, "wsJoin") /\ Go(a, <<>>)
  BY DEF WsJoin
<1>2. Proper(a, <<>>) /\ Modest(<<>>)
  BY GoesOnProperly
<1>3. Programs' /\ Went(a, "wsJoin", <<>>) /\ \A q : ~Has(<<>>, q)
  BY <1>1, <1>2, StepTaken, Short
<1>4. "wsJoin" \in StepsOf(a) /\ (a = "hb" => heartbeat = "run" /\ "wsJoin" \in {"hbStop", "hbJoin"})
  BY <1>1, WhoSteps
<1>5. Typed'
  BY <1>4 DEF Inv, Typed, WsJoin, States
<1>6. HbInv'
  BY <1>1, <1>3, <1>4, HeartbeatStays DEF WsJoin
<1>7. WorkerInv'
  BY <1>3, <1>4 DEF Inv, WorkerInv, Went, WsJoin, StepsOf, HbSteps, WsSteps, CallSteps, Actors
<1>8. ShownInv'
  BY <1>3, <1>4 DEF Inv, ShownInv, WillChange, WorkerInv, Went, WsJoin, StepsOf, HbSteps, WsSteps, CallSteps, Actors
<1>9. PlanInv'
  BY <1>3, <1>4 DEF Inv, PlanInv, WorkerInv, Went, WsJoin, StepsOf, HbSteps, WsSteps, CallSteps, Actors
<1>10. ShutInv'
  BY <1>3, <1>4 DEF Inv, ShutInv, PlanInv, WorkerInv, Went, WsJoin, StepsOf, HbSteps, WsSteps, CallSteps, Actors
<1> QED BY <1>3, <1>5, <1>6, <1>7, <1>8, <1>9, <1>10 DEF Inv

\* The worker tries again.
LEMMA RetryKeeps == ASSUME Inv, NEW a \in Actors, Retry(a) PROVE Inv'
<1>1. At(a, "retry") /\ Go(a, <<>>)
  BY DEF Retry
<1>2. Proper(a, <<>>) /\ Modest(<<>>)
  BY GoesOnProperly
<1>3. Programs' /\ Went(a, "retry", <<>>) /\ \A q : ~Has(<<>>, q)
  BY <1>1, <1>2, StepTaken, Short
<1>4. "retry" \in StepsOf(a) /\ (a = "hb" => heartbeat = "run" /\ "retry" \in {"hbStop", "hbJoin"})
  BY <1>1, WhoSteps
<1>5. Typed'
  <2>1. reconnect_count' \in 0..MAX_RECONNECT /\ attempts' \in Nat
    BY <1>3, <1>4, ParametersAssumption DEF Retry, Inv, Typed, WorkerInv, Went, StepsOf, HbSteps, WsSteps, CallSteps, Actors
  <2> QED BY <2>1 DEF Inv, Typed, Retry
<1>6. HbInv'
  BY <1>1, <1>3, <1>4, HeartbeatStays DEF Retry
<1>7. WorkerInv'
  BY <1>3, <1>4 DEF Inv, WorkerInv, Went, Retry, StepsOf, HbSteps, WsSteps, CallSteps, Actors
<1>8. ShownInv'
  BY <1>3, <1>4 DEF Inv, ShownInv, WillChange, WorkerInv, Went, Retry, StepsOf, HbSteps, WsSteps, CallSteps, Actors
<1>9. PlanInv'
  BY <1>3, <1>4 DEF Inv, PlanInv, WorkerInv, Went, Retry, StepsOf, HbSteps, WsSteps, CallSteps, Actors
<1>10. ShutInv'
  BY <1>3, <1>4 DEF Inv, ShutInv, PlanInv, WorkerInv, Went, Retry, StepsOf, HbSteps, WsSteps, CallSteps, Actors
<1> QED BY <1>3, <1>5, <1>6, <1>7, <1>8, <1>9, <1>10 DEF Inv
\* A test changes nothing but what its thread goes on with.
LEMMA TestKeeps ==
  ASSUME Inv, NEW a \in {"app", "http", "mon", "rt"}, NEW s, NEW more, At(a, s), Went(a, s, more), Programs',
         s \in {"connectTest", "upTest", "downTest"}
         \/ (s = "wsTest" /\ (running \/ Has(more, "wsRun"))),
         UNCHANGED <<cmVars, timerVars, hbVars, wsVars, aborted, bounds>>
  PROVE  Inv'
<1>0. "ws" \in Actors /\ "hb" \in Actors /\ "app" \in Actors /\ a \in Actors
  BY DEF Actors
<1>1. todo'["ws"] = todo["ws"] /\ todo'["hb"] = todo["hb"]
  BY <1>0 DEF Went
<1>2. Typed'
  BY DEF Inv, Typed
<1>3. HbInv' /\ WorkerInv' /\ ShownInv'
  BY <1>1 DEF Inv, HbInv, WorkerInv, ShownInv, WillChange
<1>4. \A b \in Actors : \A q : Has(todo[b], q) /\ q # s => Has(todo'[b], q)
  BY DEF Went
<1>5. PlanInv'
  BY <1>0, <1>1, <1>4 DEF Inv, PlanInv
<1>6. ShutInv'
  <2>1. CASE s # "wsTest"
    BY <1>1, <1>4, <2>1 DEF Inv, ShutInv
  <2>2. CASE running
    BY <2>2 DEF ShutInv
  <2>3. CASE Has(more, "wsRun")
    BY <1>0, <2>3 DEF ShutInv, Went
  <2> QED BY <2>1, <2>2, <2>3
<1> QED BY <1>2, <1>3, <1>5, <1>6 DEF Inv

\* The tests that decide what a call goes on with.
LEMMA ConnectTestKeeps == ASSUME Inv, NEW a \in Actors, ConnectTest(a) PROVE Inv'
<1>1. PICK more \in {DoConnect, <<"setDisconnected">>} : At(a, "connectTest") /\ Go(a, more)
  BY DEF ConnectTest
<1>2. "connectTest" \in StepsOf(a) /\ (a = "hb" => "connectTest" \in {"hbStop", "hbJoin"})
  BY <1>1, WhoSteps
<1>3. a \in {"app", "http", "mon", "rt"}
  BY <1>2 DEF StepsOf, HbSteps, WsSteps, CallSteps, Actors
<1>4. Proper(a, more) /\ Modest(more)
  BY <1>1, <1>3, GoesOnProperly
<1>5. Programs' /\ Went(a, "connectTest", more)
  BY <1>1, <1>4, StepTaken
<1>6. UNCHANGED <<cmVars, timerVars, hbVars, wsVars, aborted, bounds>>
  BY DEF ConnectTest
<1>7. Has(more, "wsTest") \/ Has(more, "setDisconnected")
  BY <1>1, Pieces, Short
<1> QED BY <1>1, <1>3, <1>5, <1>6, <1>7, TestKeeps

\* The network is up again.
LEMMA UpTestKeeps == ASSUME Inv, NEW a \in Actors, UpTest(a) PROVE Inv'
<1>1. PICK more \in {<<>>, <<"resetRetries", "cancel">> \o DoConnect} : At(a, "upTest") /\ Go(a, more)
  BY DEF UpTest
<1>2. "upTest" \in StepsOf(a) /\ (a = "hb" => "upTest" \in {"hbStop", "hbJoin"})
  BY <1>1, WhoSteps
<1>3. a \in {"app", "http", "mon", "rt"}
  BY <1>2 DEF StepsOf, HbSteps, WsSteps, CallSteps, Actors
<1>4. Proper(a, more) /\ Modest(more)
  <2>1. a \in Actors
    OBVIOUS
  <2> QED BY <1>1, <1>3, <2>1, GoesOnProperly
<1>5. Programs' /\ Went(a, "upTest", more)
  BY <1>1, <1>4, StepTaken
<1>6. UNCHANGED <<cmVars, timerVars, hbVars, wsVars, aborted, bounds>>
  BY DEF UpTest
<1> QED BY <1>1, <1>3, <1>5, <1>6, TestKeeps

\* The network is lost.
LEMMA DownTestKeeps == ASSUME Inv, NEW a \in Actors, DownTest(a) PROVE Inv'
<1>1. PICK more \in {<<>>, StopHeartbeat \o DoDisconnect} : At(a, "downTest") /\ Go(a, more)
  BY DEF DownTest
<1>2. "downTest" \in StepsOf(a) /\ (a = "hb" => "downTest" \in {"hbStop", "hbJoin"})
  BY <1>1, WhoSteps
<1>3. a \in {"app", "http", "mon", "rt"}
  BY <1>2 DEF StepsOf, HbSteps, WsSteps, CallSteps, Actors
<1>4. Proper(a, more) /\ Modest(more)
  <2>1. a \in Actors
    OBVIOUS
  <2> QED BY <1>1, <1>3, <2>1, GoesOnProperly
<1>5. Programs' /\ Went(a, "downTest", more)
  BY <1>1, <1>4, StepTaken
<1>6. UNCHANGED <<cmVars, timerVars, hbVars, wsVars, aborted, bounds>>
  BY DEF DownTest
<1> QED BY <1>1, <1>3, <1>5, <1>6, TestKeeps

\* WebSocketClient::connect finds the client running, or sets it going.
LEMMA WsTestKeeps == ASSUME Inv, NEW a \in Actors, WsTest(a) PROVE Inv'
<1>1. PICK more \in {<<>>, <<"wsRun", "wsSpawn">>} :
        At(a, "wsTest") /\ Go(a, more) /\ (running \/ more = <<"wsRun", "wsSpawn">>)
  BY DEF WsTest
<1>2. "wsTest" \in StepsOf(a) /\ (a = "hb" => "wsTest" \in {"hbStop", "hbJoin"})
  BY <1>1, WhoSteps
<1>3. a \in {"app", "http", "mon", "rt"}
  BY <1>2 DEF StepsOf, HbSteps, WsSteps, CallSteps, Actors
<1>4. Proper(a, more) /\ Modest(more)
  <2>1. a \in Actors
    OBVIOUS
  <2> QED BY <1>1, <1>3, <2>1, GoesOnProperly
<1>5. Programs' /\ Went(a, "wsTest", more)
  BY <1>1, <1>4, StepTaken
<1>6. UNCHANGED <<cmVars, timerVars, hbVars, wsVars, aborted, bounds>>
  BY DEF WsTest
<1>7. running \/ Has(more, "wsRun")
  BY <1>1, Short
<1> QED BY <1>1, <1>3, <1>5, <1>6, <1>7, TestKeeps

\* onWsError has nothing to show, for it comes after onWsDisconnected.
LEMMA WsErrorKeeps == ASSUME Inv, NEW a \in Actors, WsError(a) PROVE Inv'
<1>1. PICK more \in {<<>>, <<"setReconnecting">>} :
        At(a, "wsError") /\ Go(a, more) /\ (state_ = "Connected" \/ more = <<>>)
  BY DEF WsError
<1>2. "wsError" \in StepsOf(a) /\ (a = "hb" => "wsError" \in {"hbStop", "hbJoin"})
  BY <1>1, WhoSteps
<1>3. a = "ws"
  BY <1>2 DEF StepsOf, HbSteps, WsSteps, CallSteps, Actors
<1>4. Proper(a, more) /\ Modest(more)
  <2>1. a \in Actors
    OBVIOUS
  <2> QED BY <1>1, <1>3, <2>1, GoesOnProperly
<1>5. Programs' /\ Went(a, "wsError", more)
  BY <1>1, <1>4, StepTaken
<1>6. UNCHANGED <<cmVars, timerVars, hbVars, wsVars, aborted, bounds>>
  BY DEF WsError
<1>7. state_ # "Connected"
  BY <1>3, <1>5 DEF Inv, WorkerInv, ShownInv, WillChange, Went
<1>8. /\ more = <<>> /\ \A q : ~Has(<<>>, q)
  BY <1>1, <1>7, Short
<1>9. Typed'
  BY <1>6 DEF Inv, Typed
<1>10. HbInv'
  BY <1>1, <1>3, <1>5, <1>6, HeartbeatStays
<1>11. WorkerInv' /\ ShownInv' /\ PlanInv'
  BY <1>3, <1>5, <1>6, <1>7, <1>8 DEF Inv, WorkerInv, ShownInv, PlanInv, Went, Actors
<1>12. ShutInv'
  BY <1>3, <1>5, <1>6, <1>8 DEF Inv, ShutInv, Went, Actors
<1> QED BY <1>5, <1>9, <1>10, <1>11, <1>12 DEF Inv

\* onWsDisconnected gives up, or plans an outer retry if the application wants one.
LEMMA LostTestKeeps == ASSUME Inv, NEW a \in Actors, LostTest(a) PROVE Inv'
<1>1. PICK more \in {<<"setDisconnected">>, <<"setReconnecting", "schedule">>} :
        At(a, "lostTest") /\ Go(a, more) /\ (want_connected_ \/ more = <<"setDisconnected">>)
  BY DEF LostTest
<1>2. "lostTest" \in StepsOf(a) /\ (a = "hb" => "lostTest" \in {"hbStop", "hbJoin"})
  BY <1>1, WhoSteps
<1>3. a = "ws"
  BY <1>2 DEF StepsOf, HbSteps, WsSteps, CallSteps, Actors
<1>4. Proper(a, more) /\ Modest(more)
  BY <1>1, <1>3, GoesOnProperly
<1>5. Programs' /\ Went(a, "lostTest", more)
  BY <1>1, <1>4, StepTaken
<1>6. UNCHANGED <<state_, want_connected_, network_ok_, timerVars, hbVars, wsVars, aborted, bounds>>
  BY DEF LostTest
<1>7. /\ ~Has(more, "setConnected") /\ ~Has(more, "wsError") /\ ~Has(more, "retry")
      /\ Has(more, "setDisconnected") \/ Has(more, "setReconnecting")
      /\ want_connected_ \/ (Has(more, "setDisconnected") /\ ~Has(more, "setReconnecting"))
  BY <1>1, Short
<1>8. super_retry_count_' \in Nat
  BY DEF LostTest, Inv, Typed
<1>9. Typed'
  BY <1>6, <1>8 DEF Inv, Typed
<1>10. HbInv'
  BY <1>1, <1>3, <1>5, <1>6, HeartbeatStays
<1>11. WorkerInv' /\ ShownInv' /\ PlanInv'
  BY <1>3, <1>5, <1>6, <1>7 DEF Inv, WorkerInv, ShownInv, WillChange, PlanInv, Went, Actors
<1>12. ShutInv'
  BY <1>3, <1>5, <1>6, <1>7 DEF Inv, ShutInv, Went, Actors
<1> QED BY <1>5, <1>9, <1>10, <1>11, <1>12 DEF Inv

-----------------------------------------------------------------------------
\* Two threads join at once, or the heartbeat joins itself: the process ends.
LEMMA JoinFailsKeeps == ASSUME Inv, NEW a \in Actors, JoinFails(a) PROVE Inv'
<1>1. aborted' = TRUE /\ UNCHANGED <<cmVars, timerVars, hbVars, wsVars, todo, bounds>>
  BY DEF JoinFails
<1>2. aborted' \in BOOLEAN
  BY <1>1
<1>3. Typed'
  BY <1>1, <1>2 DEF Inv, Typed
<1>4. Programs' /\ HbInv' /\ WorkerInv' /\ ShownInv' /\ PlanInv' /\ ShutInv'
  BY <1>1 DEF Inv, Programs, HbInv, WorkerInv, ShownInv, WillChange, PlanInv, ShutInv
<1> QED BY <1>3, <1>4 DEF Inv

\* What the worker's loop begins.
LEMMA LoopKeeps ==
  ASSUME Inv, Established \/ AttemptFails \/ Closed \/ InnerRetry
  PROVE  Inv'
<1>0. "ws" \in Actors /\ "hb" \in Actors
  BY DEF Actors
<1>1. PICK p \in {OnWsConnected, OnWsDisconnected \o OnWsError, OnWsDisconnected, <<"retry">>} : Begin("ws", p)
  BY DEF Established, AttemptFails, Closed, InnerRetry
<1>2. Idle("ws") /\ worker = "run"
  BY DEF Established, AttemptFails, Closed, InnerRetry, Looping
<1>3. Proper("ws", p)
  BY <1>1, BeginsProperly
<1>4. Programs' /\ Began("ws", p)
  BY <1>0, <1>1, <1>2, <1>3, CallBegun
<1>5. UNCHANGED <<cmVars, timerVars, hbVars, running, worker, aborted, calls, logouts, netChanges>>
  BY DEF Established, AttemptFails, Closed, InnerRetry
<1>6. /\ connected' \in BOOLEAN /\ reconnect_count' \in 0..MAX_RECONNECT
      /\ attempts' \in Nat /\ sockets' \in Nat /\ failures' \in Nat /\ dropped' \in Nat
  <2>1. 0 \in 0..MAX_RECONNECT
    BY ParametersAssumption
  <2>2. CASE Established
    BY <2>1, <2>2 DEF Established, Inv, Typed
  <2>3. CASE AttemptFails
    <3>1. /\ attempts > 0 /\ attempts' = attempts - 1 /\ connected' = FALSE
          /\ failures' \in {failures, failures + 1}
          /\ UNCHANGED <<reconnect_count, sockets, dropped>>
      BY <2>3 DEF AttemptFails
    <3>2. /\ attempts \in Nat /\ sockets \in Nat /\ failures \in Nat /\ dropped \in Nat
          /\ reconnect_count \in 0..MAX_RECONNECT
      BY DEF Inv, Typed
    <3>3. connected' \in BOOLEAN
      BY <3>1
    <3>4. attempts' \in Nat /\ failures' \in Nat
      BY <3>1, <3>2
    <3> QED BY <3>1, <3>2, <3>3, <3>4
  <2>4. CASE Closed
    <3>1. /\ sockets > 0 /\ sockets' = sockets - 1 /\ connected' = FALSE
          /\ dropped' \in {dropped, dropped + 1}
          /\ UNCHANGED <<reconnect_count, attempts, failures>>
      BY <2>4 DEF Closed
    <3>2. /\ attempts \in Nat /\ sockets \in Nat /\ failures \in Nat /\ dropped \in Nat
          /\ reconnect_count \in 0..MAX_RECONNECT
      BY DEF Inv, Typed
    <3>3. connected' \in BOOLEAN
      BY <3>1
    <3>4. sockets' \in Nat /\ dropped' \in Nat
      BY <3>1, <3>2
    <3> QED BY <3>1, <3>2, <3>3, <3>4
  <2>5. CASE InnerRetry
    BY <2>5 DEF InnerRetry, Inv, Typed
  <2> QED BY <2>2, <2>3, <2>4, <2>5
<1>7. Typed'
  BY <1>5, <1>6 DEF Inv, Typed
<1>8. HbInv'
  <2>1. todo'["hb"] = todo["hb"]
    BY <1>0, <1>4 DEF Began
  <2> QED BY <1>5, <2>1 DEF Inv, HbInv
<1>9. todo'["ws"] = p /\ \A b \in Actors : b # "ws" => todo'[b] = todo[b]
  BY <1>4 DEF Began
<1>10. \A q : ~Has(todo["ws"], q)
  BY <1>4 DEF Began
<1>11. WorkerInv' /\ ShownInv' /\ PlanInv'
  <2>1. CASE Established
    <3>1. todo'["ws"] = OnWsConnected /\ connected' /\ sockets' = sockets + 1
      BY <2>1 DEF Established, Begin, Inv, Programs, Actors
    <3>2. sockets' > 0
      BY <3>1 DEF Inv, Typed
    <3>3. ~Has(OnWsConnected, "wsError") /\ ~Has(OnWsConnected, "retry") /\ ~Has(OnWsConnected, "setReconnecting")
      BY BeginsProperly
    <3> QED BY <1>2, <1>5, <3>1, <3>2, <3>3 DEF WorkerInv, ShownInv, PlanInv
  <2>2. CASE AttemptFails \/ Closed
    <3>1. todo'["ws"] \in {OnWsDisconnected \o OnWsError, OnWsDisconnected} /\ ~connected'
      BY <2>2 DEF AttemptFails, Closed, Begin, Inv, Programs, Actors
    <3>2. /\ Has(todo'["ws"], "lostTest") /\ ~Has(todo'["ws"], "setConnected")
          /\ ~Has(todo'["ws"], "retry") /\ ~Has(todo'["ws"], "setReconnecting")
      <4>1. CASE todo'["ws"] = OnWsDisconnected
        BY <4>1, BeginsProperly
      <4>2. CASE todo'["ws"] = OnWsDisconnected \o OnWsError
        BY <4>2, BeginsProperly
      <4> QED BY <3>1, <4>1, <4>2
    <3> QED BY <1>2, <1>5, <3>1, <3>2 DEF WorkerInv, ShownInv, PlanInv, WillChange
  <2>3. CASE InnerRetry
    <3>1. todo'["ws"] = <<"retry">> /\ reconnect_count' = reconnect_count /\ reconnect_count < MAX_RECONNECT
          /\ connected' = connected /\ state_' = state_
      BY <2>3 DEF InnerRetry, Begin, Inv, Programs, Actors
    <3>2. \A q : Has(<<"retry">>, q) <=> q = "retry"
      BY BeginsProperly
    <3>3. WorkerInv' /\ PlanInv'
      BY <1>2, <1>5, <3>1, <3>2 DEF WorkerInv, PlanInv
    <3>4. ShownInv'
      BY <1>10, <3>1 DEF Inv, ShownInv, WillChange
    <3> QED BY <3>3, <3>4
  <2> QED BY <2>1, <2>2, <2>3
<1>12. ShutInv'
  <2>1. ASSUME NEW b \in Actors, Has(todo[b], "wsTest") \/ Has(todo[b], "wsRun") \/ Has(todo[b], "setDisconnected")
        PROVE  Has(todo'[b], "wsTest") \/ Has(todo'[b], "wsRun") \/ Has(todo'[b], "setDisconnected")
    BY <1>9, <1>10, <2>1
  <2>2. ASSUME sockets > 0
        PROVE  sockets' > 0 \/ Has(todo'["ws"], "lostTest")
    <3>1. CASE Established
      BY <2>2, <3>1 DEF Established, Inv, Typed
    <3>2. CASE AttemptFails \/ InnerRetry
      BY <2>2, <3>2 DEF AttemptFails, InnerRetry
    <3>3. CASE Closed
      <4>1. todo'["ws"] = OnWsDisconnected
        BY <3>3 DEF Closed, Begin, Inv, Programs, Actors
      <4> QED BY <4>1, BeginsProperly
    <3> QED BY <3>1, <3>2, <3>3
  <2> QED BY <1>5, <1>10, <2>1, <2>2 DEF Inv, ShutInv
<1> QED BY <1>4, <1>7, <1>8, <1>11, <1>12 DEF Inv

\* The worker exits: it has reported that its sockets are closed.
LEMMA ExitKeeps == ASSUME Inv, WorkerExit PROVE Inv'
<1>1. /\ todo["ws"] = <<>> /\ sockets = 0 /\ worker' = "exited"
      /\ UNCHANGED <<cmVars, timerVars, hbVars, running, connected, reconnect_count, attempts, sockets,
                     todo, aborted, bounds>>
  BY DEF WorkerExit, Looping, Idle
<1>2. ~Has(todo["ws"], "lostTest")
  BY <1>1, Short
<1>3. Typed'
  BY <1>1 DEF Inv, Typed
<1>4. Programs' /\ HbInv' /\ ShownInv' /\ PlanInv'
  BY <1>1 DEF Inv, Programs, HbInv, ShownInv, WillChange, PlanInv
<1>5. WorkerInv'
  BY <1>1 DEF Inv, WorkerInv
<1>6. ShutInv'
  BY <1>1, <1>2 DEF Inv, ShutInv, Typed
<1> QED BY <1>3, <1>4, <1>5, <1>6 DEF Inv

\* The timer goes on, and the heartbeat exits.
LEMMA TimersKeep == ASSUME Inv, RtWake \/ RtSleepEnds \/ HbExit PROVE Inv'
<1>1. /\ UNCHANGED <<cmVars, wsVars, todo, aborted, bounds, heartbeat_stopping_>>
      /\ heartbeat' = heartbeat \/ (todo["hb"] = <<>> /\ heartbeat' = "exited")
  BY DEF RtWake, RtSleepEnds, HbExit, Idle
<1>2. reconnect_pending_' \in BOOLEAN /\ reconnect_cancel_' \in BOOLEAN /\ rt' \in {"wait", "sleep", "fire"}
  <2>1. CASE RtWake
    BY <2>1 DEF RtWake, Inv, Typed
  <2>2. CASE RtSleepEnds
    BY <2>2 DEF RtSleepEnds, Inv, Typed
  <2>3. CASE HbExit
    BY <2>3 DEF HbExit, Inv, Typed
  <2> QED BY <2>1, <2>2, <2>3
<1>3. Typed'
  BY <1>1, <1>2 DEF Inv, Typed
<1>4. Programs' /\ WorkerInv' /\ ShownInv' /\ PlanInv' /\ ShutInv'
  BY <1>1 DEF Inv, Programs, WorkerInv, ShownInv, WillChange, PlanInv, ShutInv
<1>5. HbInv'
  BY <1>1 DEF Inv, HbInv
<1> QED BY <1>3, <1>4, <1>5 DEF Inv

\* A call that begins on a thread other than the worker's.
LEMMA CallKeeps ==
  ASSUME Inv, NEW a \in Actors, a # "ws", NEW p, Proper(a, p), Idle(a), Begin(a, p),
         a = "hb" => heartbeat = "run" /\ Has(p, "hbJoin") /\ Final(p, "lostTest"),
         UNCHANGED <<state_, want_connected_, super_retry_count_, hbVars, wsVars, aborted>>, Typed'
  PROVE  Inv'
<1>1. Programs' /\ Began(a, p)
  BY CallBegun
<1>2. "ws" \in Actors /\ "hb" \in Actors /\ "app" \in Actors
  BY DEF Actors
<1>3. todo'["ws"] = todo["ws"] /\ (a # "hb" => todo'["hb"] = todo["hb"])
  BY <1>1, <1>2 DEF Began
<1>4. HbInv'
  <2>1. CASE a = "hb"
    BY <1>1, <2>1 DEF Began, HbInv
  <2>2. CASE a # "hb"
    BY <1>3, <2>2 DEF Inv, HbInv
  <2> QED BY <2>1, <2>2
<1>5. WorkerInv' /\ ShownInv'
  BY <1>3 DEF Inv, WorkerInv, ShownInv, WillChange
<1>6. \A b \in Actors : \A q : Has(todo[b], q) => Has(todo'[b], q)
  BY <1>1 DEF Began
<1>7. PlanInv'
  BY <1>2, <1>3, <1>6 DEF Inv, PlanInv
<1>8. ShutInv'
  BY <1>3, <1>6 DEF Inv, ShutInv
<1> QED BY <1>1, <1>4, <1>5, <1>7, <1>8 DEF Inv

\* The calls of the application, the platform, the timer and the heartbeat.
LEMMA CallsKeep ==
  ASSUME Inv, RtFire \/ PongTimeout \/ CallConnect \/ CallDisconnect \/ NetworkChanged
  PROVE  Inv'
<1>0. {"app", "http", "mon", "rt", "hb"} \subseteq Actors
  BY DEF Actors
<1>1. CASE RtFire
  <2>1. PICK p \in {DoConnect, <<>>} : Begin("rt", p)
    BY <1>1 DEF RtFire
  <2>2. Proper("rt", p)
    BY <1>0, <2>1, GoesOnProperly
  <2>3. Typed'
    BY <1>1 DEF RtFire, Inv, Typed
  <2>4. Idle("rt") /\ UNCHANGED <<state_, want_connected_, super_retry_count_, hbVars, wsVars, aborted>>
    BY <1>1 DEF RtFire
  <2> QED BY <1>0, <2>1, <2>2, <2>3, <2>4, CallKeeps
<1>2. CASE PongTimeout
  <2>1. Begin("hb", OnWsDisconnected) /\ Idle("hb") /\ heartbeat = "run"
    BY <1>2 DEF PongTimeout
  <2>2. /\ Proper("hb", OnWsDisconnected) /\ Final(OnWsDisconnected, "lostTest")
        /\ Has(OnWsDisconnected, "hbJoin")
    BY BeginsProperly
  <2>3. Typed'
    BY <1>2 DEF PongTimeout, Inv, Typed
  <2>4. UNCHANGED <<state_, want_connected_, super_retry_count_, hbVars, wsVars, aborted>>
    BY <1>2 DEF PongTimeout
  <2> QED BY <1>0, <2>1, <2>2, <2>3, <2>4, CallKeeps
<1>3. CASE CallConnect
  <2>1. Begin("http", Connect) /\ Idle("http") /\ Proper("http", Connect)
    BY <1>3, BeginsProperly DEF CallConnect
  <2>2. Typed'
    BY <1>3 DEF CallConnect, Inv, Typed
  <2>3. UNCHANGED <<state_, want_connected_, super_retry_count_, hbVars, wsVars, aborted>>
    BY <1>3 DEF CallConnect
  <2> QED BY <1>0, <2>1, <2>2, <2>3, CallKeeps
<1>4. CASE CallDisconnect
  <2>1. Begin("app", Disconnect) /\ Idle("app") /\ Proper("app", Disconnect)
    BY <1>4, BeginsProperly DEF CallDisconnect
  <2>2. Typed'
    BY <1>4 DEF CallDisconnect, Inv, Typed
  <2>3. UNCHANGED <<state_, want_connected_, super_retry_count_, hbVars, wsVars, aborted>>
    BY <1>4 DEF CallDisconnect
  <2> QED BY <1>0, <2>1, <2>2, <2>3, CallKeeps
<1>5. CASE NetworkChanged
  <2>1. PICK p \in {OnNetworkDown, OnNetworkUp} : Begin("mon", p)
    BY <1>5 DEF NetworkChanged
  <2>2. Proper("mon", p)
    BY <2>1, BeginsProperly
  <2>3. network_ok_' \in BOOLEAN /\ netChanges' \in Nat
    BY <1>5 DEF NetworkChanged, Inv, Typed
  <2>4. Typed'
    BY <1>5, <2>3 DEF NetworkChanged, Inv, Typed
  <2>5. Idle("mon") /\ UNCHANGED <<state_, want_connected_, super_retry_count_, hbVars, wsVars, aborted>>
    BY <1>5 DEF NetworkChanged
  <2> QED BY <1>0, <2>1, <2>2, <2>4, <2>5, CallKeeps
<1> QED BY <1>1, <1>2, <1>3, <1>4, <1>5

-----------------------------------------------------------------------------
\* At the start nothing runs, and Disconnected is shown.
LEMMA InitInv == Init => Inv
<1> SUFFICES ASSUME Init PROVE Inv
  OBVIOUS
<1>1. todo = [a \in Actors |-> <<>>] /\ \A q : ~Has(<<>>, q)
  BY Short DEF Init
<1>2. Typed
  <2>1. 0 \in 0..MAX_RECONNECT
    BY ParametersAssumption
  <2>2. /\ network_ok_ \in BOOLEAN /\ want_connected_ \in BOOLEAN
        /\ reconnect_pending_ \in BOOLEAN /\ reconnect_cancel_ \in BOOLEAN
        /\ heartbeat_stopping_ \in BOOLEAN
        /\ running \in BOOLEAN /\ connected \in BOOLEAN /\ aborted \in BOOLEAN
    BY DEF Init
  <2> QED BY <2>1, <2>2 DEF Init, Typed, States
<1>3. Programs
  <2>1. todo \in [Actors -> Seq(Steps)]
    BY <1>1
  <2>2. \A a \in Actors : Proper(a, todo[a])
    BY <1>1, GoesOnProperly
  <2> QED BY <2>1, <2>2 DEF Programs
<1>4. "hb" \in Actors /\ "ws" \in Actors
  BY DEF Actors
<1>5. HbInv
  BY <1>1, <1>4, NothingFollows DEF HbInv
<1>6. WorkerInv /\ ShownInv /\ PlanInv /\ ShutInv
  BY <1>1, <1>4 DEF Init, WorkerInv, ShownInv, PlanInv, ShutInv
<1> QED BY <1>2, <1>3, <1>5, <1>6 DEF Inv

\* Every step keeps the invariant.
LEMMA NextInv == Inv /\ [Next]_vars => Inv'
<1> SUFFICES ASSUME Inv, [Next]_vars PROVE Inv'
  OBVIOUS
<1>1. CASE UNCHANGED vars
  BY <1>1 DEF Inv, Typed, Programs, HbInv, WorkerInv, ShownInv, WillChange, PlanInv, ShutInv
<1>2. ASSUME NEW a \in Actors, Step(a)
      PROVE  Inv'
  <2>1. CASE \/ SetState(a, "setConnecting", "Connecting") \/ SetState(a, "setConnected", "Connected")
             \/ SetState(a, "setReconnecting", "Reconnecting") \/ SetState(a, "setDisconnected", "Disconnected")
             \/ Want(a) \/ Unwant(a) \/ ResetRetries(a)
    BY <2>1, ConnectingKeeps, ConnectedKeeps, ReconnectingKeeps, DisconnectedKeeps, WantKeeps, UnwantKeeps, ResetKeeps
  <2>2. CASE ConnectTest(a) \/ UpTest(a) \/ DownTest(a) \/ LostTest(a) \/ WsError(a)
    BY <2>2, ConnectTestKeeps, UpTestKeeps, DownTestKeeps, LostTestKeeps, WsErrorKeeps
  <2>3. CASE \/ ScheduleReconnect(a) \/ CancelReconnect(a)
             \/ HbStop(a) \/ HbJoin(a) \/ HbClear(a) \/ HbSpawn(a)
    BY <2>3, ScheduleKeeps, CancelKeeps, HbStopKeeps, HbJoinKeeps, HbClearKeeps, HbSpawnKeeps
  <2>4. CASE WsTest(a) \/ WsRun(a) \/ WsSpawn(a) \/ WsStop(a) \/ WsJoin(a) \/ Retry(a)
    BY <2>4, WsTestKeeps, WsRunKeeps, WsSpawnKeeps, WsStopKeeps, WsJoinKeeps, RetryKeeps
  <2> QED BY <1>2, <2>1, <2>2, <2>3, <2>4 DEF Step
<1>3. ASSUME NEW a \in Actors, JoinFails(a)
      PROVE  Inv'
  BY <1>3, JoinFailsKeeps
<1>4. CASE Established \/ AttemptFails \/ Closed \/ InnerRetry
  BY <1>4, LoopKeeps
<1>5. CASE WorkerExit
  BY <1>5, ExitKeeps
<1>6. CASE RtWake \/ RtSleepEnds \/ HbExit
  BY <1>6, TimersKeep
<1>7. CASE RtFire \/ PongTimeout \/ CallConnect \/ CallDisconnect \/ NetworkChanged
  BY <1>7, CallsKeep
<1> QED BY <1>1, <1>2, <1>3, <1>4, <1>5, <1>6, <1>7 DEF Next

\* The invariant holds throughout.
THEOREM Invariance == Spec => []Inv
BY InitInv, NextInv, PTL DEF Spec

\* The variables keep their types; the worker's inner retries stay within
\* MAX_RECONNECT, for none is begun while one is under way.
THEOREM TypeCorrect == Spec => []TypeOK
<1>1. Inv => TypeOK
  BY DEF Inv, Typed, Programs, TypeOK
<1> QED BY <1>1, Invariance, PTL

\* Connected is not shown over a dead socket once the worker has reported it.
THEOREM ConnectedIsNoLie == Spec => []ConnectedIsTrue
<1>1. Inv => ConnectedIsTrue
  BY Short DEF Inv, ShownInv, WillChange, ConnectedIsTrue
<1> QED BY <1>1, Invariance, PTL

\* When a disconnect() is over and nothing has opened the client again, the
\* application has been shown Disconnected, whatever the timer, the network monitor
\* and the worker did meanwhile.
THEOREM DisconnectIsSeen == Spec => []DisconnectedIsShown
<1>1. Inv => DisconnectedIsShown
  BY Short DEF Inv, ShutInv, DisconnectedIsShown, Shut
<1> QED BY <1>1, Invariance, PTL

-----------------------------------------------------------------------------
(***************************************************************************)
(* Once it is shut, only a call of connect() opens it.                     *)
(***************************************************************************)
\* No thread is on the way to an open connection.
NoneOpens == \A a \in Actors : \A q \in Opening : ~Has(todo[a], q)

\* What it is to be shut, with the steps on their way counted by NoneOpens.
LEMMA ShutMeans == Shut <=> ~aborted /\ ~want_connected_ /\ ~running /\ worker # "run" /\ NoneOpens
BY DEF Shut, NoneOpens, Has

\* A step that opens a connection is not there to be taken.
LEMMA StepIsThere == ASSUME Inv, NEW a \in Actors, NEW s, At(a, s) PROVE Has(todo[a], s)
<1>1. todo[a] \in Seq(StepsOf(a)) /\ todo[a] # <<>> /\ Head(todo[a]) = s
  BY DEF Inv, Programs, Proper, At
<1> QED BY <1>1, HeadAndTail

\* A step goes on with nothing that opens one.
LEMMA StepOpensNothing ==
  ASSUME Inv, NoneOpens, NEW a \in Actors, NEW s, At(a, s), NEW more, Proper(a, more), Modest(more),
         Go(a, more), \A q \in Opening : ~Has(more, q)
  PROVE  NoneOpens'
<1>1. Went(a, s, more)
  BY StepTaken
<1>2. \A b \in Actors : b # a => todo'[b] = todo[b]
  BY <1>1 DEF Went
<1>3. \A q : Has(todo'[a], q) => Has(more, q) \/ Has(todo[a], q)
  BY <1>1 DEF Went
<1> QED BY <1>2, <1>3 DEF NoneOpens

\* Most steps go on with what was left.
LEMMA SimpleStepsStayShut ==
  ASSUME Inv, Shut, NEW a \in Actors, NEW s, At(a, s), Go(a, <<>>), ~aborted',
         want_connected_' = want_connected_ \/ ~want_connected_',
         running' = running \/ ~running', worker' = worker \/ worker' = "none"
  PROVE  Shut'
<1>1. ~want_connected_ /\ ~running /\ worker # "run" /\ NoneOpens
  BY ShutMeans
<1>2. Proper(a, <<>>) /\ Modest(<<>>) /\ \A q : ~Has(<<>>, q)
  BY GoesOnProperly, Short
<1>3. NoneOpens'
  BY <1>1, <1>2, StepOpensNothing
<1>4. ~want_connected_' /\ ~running' /\ worker' # "run"
  BY <1>1
<1> QED BY <1>3, <1>4, ShutMeans DEF Shut, NoneOpens, Has

\* The steps of threads.
LEMMA StepsStayShut == ASSUME Inv, Shut, NEW a \in Actors, Step(a), ~aborted' PROVE Shut'
<1>0. ~want_connected_ /\ ~running /\ worker # "run" /\ NoneOpens
  BY ShutMeans
<1>1. ASSUME NEW s, At(a, s)
      PROVE  s \notin Opening
  BY <1>0, <1>1, StepIsThere DEF NoneOpens
<1>2. CASE \/ SetState(a, "setConnecting", "Connecting") \/ SetState(a, "setConnected", "Connected")
           \/ SetState(a, "setReconnecting", "Reconnecting") \/ SetState(a, "setDisconnected", "Disconnected")
           \/ ResetRetries(a) \/ ScheduleReconnect(a) \/ CancelReconnect(a)
           \/ HbStop(a) \/ HbJoin(a) \/ HbClear(a) \/ HbSpawn(a) \/ Retry(a)
  <2>1. \E s : At(a, s) /\ Go(a, <<>>)
    BY <1>2 DEF SetState, ResetRetries, ScheduleReconnect, CancelReconnect, HbStop, HbJoin, HbClear, HbSpawn, Retry
  <2>2. UNCHANGED <<want_connected_, running, worker>>
    BY <1>2 DEF SetState, ResetRetries, ScheduleReconnect, CancelReconnect, HbStop, HbJoin, HbClear, HbSpawn, Retry
  <2> QED BY <2>1, <2>2, SimpleStepsStayShut
<1>3. CASE Unwant(a) \/ WsStop(a) \/ WsJoin(a)
  <2>1. \E s : At(a, s) /\ Go(a, <<>>)
    BY <1>3 DEF Unwant, WsStop, WsJoin
  <2>2. /\ want_connected_' = want_connected_ \/ ~want_connected_'
        /\ running' = running \/ ~running'
        /\ worker' = worker \/ worker' = "none"
    BY <1>3 DEF Unwant, WsStop, WsJoin
  <2> QED BY <2>1, <2>2, SimpleStepsStayShut
<1>4. CASE Want(a) \/ ConnectTest(a) \/ WsTest(a) \/ WsRun(a) \/ WsSpawn(a)
  BY <1>1, <1>4 DEF Want, ConnectTest, WsTest, WsRun, WsSpawn, Opening
<1>5. CASE UpTest(a)
  <2>1. At(a, "upTest") /\ Go(a, <<>>) /\ UNCHANGED <<want_connected_, running, worker>>
    BY <1>0, <1>5 DEF UpTest
  <2> QED BY <2>1, SimpleStepsStayShut
<1>6. CASE LostTest(a) \/ WsError(a)
  <2>1. \E s \in {"lostTest", "wsError"} : At(a, s)
    BY <1>6 DEF LostTest, WsError
  <2>2. a = "ws"
    BY <2>1, WhoSteps DEF StepsOf, CallSteps, Actors
  <2>3. todo["ws"] # <<>>
    BY <2>1, <2>2 DEF At
  <2> QED BY <1>0, <2>3 DEF Inv, WorkerInv
<1>7. CASE DownTest(a)
  <2>1. PICK more \in {<<>>, StopHeartbeat \o DoDisconnect} : At(a, "downTest") /\ Go(a, more)
    BY <1>7 DEF DownTest
  <2>2. UNCHANGED <<want_connected_, running, worker>>
    BY <1>7 DEF DownTest
  <2>3. a \in {"app", "http", "mon", "rt"}
    BY <2>1, WhoSteps DEF StepsOf, HbSteps, WsSteps, Actors
  <2>4. Proper(a, more) /\ Modest(more)
    BY <2>1, <2>3, GoesOnProperly
  <2>5. \A q \in Opening : ~Has(more, q)
    <3> DEFINE S == {"hbStop", "hbJoin", "wsStop", "wsJoin", "setDisconnected"}
    <3>1. StopHeartbeat \in Seq(S) /\ DoDisconnect \in Seq(S)
      BY DEF StopHeartbeat, DoDisconnect
    <3>2. \A q : Has(StopHeartbeat \o DoDisconnect, q) <=> Has(StopHeartbeat, q) \/ Has(DoDisconnect, q)
      BY <3>1, OneAfterTheOther
    <3>3. CASE more = <<>>
      BY <3>3, Short
    <3>4. CASE more = StopHeartbeat \o DoDisconnect
      BY <3>2, <3>4, Pieces DEF Opening
    <3> QED BY <2>1, <3>3, <3>4
  <2>6. NoneOpens'
    BY <1>0, <2>1, <2>4, <2>5, StepOpensNothing
  <2> QED BY <1>0, <2>2, <2>6 DEF Shut, NoneOpens, Has
<1> QED BY <1>2, <1>3, <1>4, <1>5, <1>6, <1>7 DEF Step

\* A thread that begins something that opens no connection.
LEMMA CallOpensNothing ==
  ASSUME Inv, Shut, NEW a \in Actors, Idle(a), NEW p, Begin(a, p), \A q \in Opening : ~Has(p, q),
         UNCHANGED <<want_connected_, running, worker, aborted>>
  PROVE  Shut'
<1>1. todo' = [todo EXCEPT ![a] = p] /\ todo \in [Actors -> Seq(Steps)]
  BY DEF Begin, Inv, Programs
<1>2. \A b \in Actors : todo'[b] = IF b = a THEN p ELSE todo[b]
  BY <1>1
<1>3. NoneOpens
  BY ShutMeans
<1>4. NoneOpens'
  BY <1>2, <1>3 DEF NoneOpens
<1> QED BY <1>4 DEF Shut, NoneOpens, Has

\* disconnect() lasts: no timer that has not fired, no plan made late, no retry and no
\* network recovery opens a connection before the application calls connect().
THEOREM DisconnectLasts == Spec => StaysDisconnected
<1>1. ASSUME Inv, [Next]_vars, Shut, calls' = calls, ~aborted'
      PROVE  Shut'
  <2>0. ~aborted /\ ~want_connected_ /\ ~running /\ worker # "run" /\ NoneOpens
    BY <1>1, ShutMeans
  <2>00. {"app", "http", "mon", "rt", "hb", "ws"} \subseteq Actors
    BY DEF Actors
  <2>1. CASE UNCHANGED vars
    BY <1>1, <2>1 DEF Shut
  <2>2. ASSUME NEW a \in Actors, Step(a)
        PROVE  Shut'
    BY <1>1, <2>2, StepsStayShut
  <2>3. ASSUME NEW a \in Actors, JoinFails(a)
        PROVE  Shut'
    BY <1>1, <2>3 DEF JoinFails
  <2>4. CASE Established \/ AttemptFails \/ Closed \/ InnerRetry \/ WorkerExit
    BY <2>0, <2>4 DEF Established, AttemptFails, Closed, InnerRetry, WorkerExit, Looping
  <2>5. CASE RtWake \/ RtSleepEnds \/ HbExit
    <3>1. UNCHANGED <<cmVars, wsVars, todo, aborted>>
      BY <2>5 DEF RtWake, RtSleepEnds, HbExit
    <3> QED BY <1>1, <3>1 DEF Shut
  <2>6. CASE RtFire
    <3>1. Begin("rt", <<>>) /\ Idle("rt") /\ UNCHANGED <<want_connected_, running, worker, aborted>>
      BY <2>0, <2>6 DEF RtFire
    <3>2. \A q \in Opening : ~Has(<<>>, q)
      BY Short
    <3> QED BY <1>1, <2>00, <3>1, <3>2, CallOpensNothing
  <2>7. CASE PongTimeout
    <3>1. Begin("hb", OnWsDisconnected) /\ Idle("hb") /\ UNCHANGED <<want_connected_, running, worker, aborted>>
      BY <2>7 DEF PongTimeout
    <3>2. \A q \in Opening : ~Has(OnWsDisconnected, q)
      BY BeginsProperly DEF Opening
    <3> QED BY <1>1, <2>00, <3>1, <3>2, CallOpensNothing
  <2>8. CASE CallConnect
    BY <1>1, <2>8 DEF CallConnect, Inv, Typed
  <2>9. CASE CallDisconnect
    <3> DEFINE S == {"unwant", "cancel", "hbStop", "hbJoin", "wsStop", "wsJoin", "setDisconnected"}
    <3>1. Begin("app", Disconnect) /\ Idle("app") /\ UNCHANGED <<want_connected_, running, worker, aborted>>
      BY <2>9 DEF CallDisconnect
    <3>2. Disconnect \in Seq(S)
      BY DEF Disconnect, StopHeartbeat, DoDisconnect
    <3>3. \A q : Has(Disconnect, q) => q \in S
      BY <3>2 DEF Has
    <3>4. \A q \in Opening : ~Has(Disconnect, q)
      BY <3>3 DEF Opening
    <3> QED BY <1>1, <2>00, <3>1, <3>4, CallOpensNothing
  <2>10. CASE NetworkChanged
    <3>1. PICK p \in {OnNetworkDown, OnNetworkUp} :
            Begin("mon", p) /\ Idle("mon") /\ UNCHANGED <<want_connected_, running, worker, aborted>>
      BY <2>10 DEF NetworkChanged
    <3>2. \A q \in Opening : ~Has(p, q)
      BY <3>1, Short DEF OnNetworkDown, OnNetworkUp, Opening
    <3> QED BY <1>1, <2>00, <3>1, <3>2, CallOpensNothing
  <2> QED BY <1>1, <2>1, <2>2, <2>3, <2>4, <2>5, <2>6, <2>7, <2>8, <2>9, <2>10 DEF Next
<1>2. Inv /\ [Next]_vars => [Shut => Shut' \/ calls' # calls \/ aborted']_vars
  BY <1>1
<1> QED BY <1>2, Invariance, PTL DEF Spec, StaysDisconnected
=============================================================================
