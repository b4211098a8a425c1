------------------------- MODULE AuthSession_proofs -------------------------
(***************************************************************************)
(* Theorems of AuthSession, for any number of requests, pushes and         *)
(* restarts.                                                               *)
(***************************************************************************)
EXTENDS AuthSession, TLAPS

\* What a step leaves alone, and the empty credential, cited by every lemma.
USE DEF creds, busy, net, outside, crash, trust, Empty

-----------------------------------------------------------------------------
(* Type correctness. *)

\* A request that the application queues is a request, under a number of its own.
LEMMA SendTypes ==
  ASSUME TypeOK, NEW k \in Kinds, NEW p \in Held, Send(k, p),
         k \in {"refresh", "ensure"} => p # Empty,
         pc' \in [Workers \cup {"app"} -> Points], pc'["app"] \in {"idle", "logout"},
         pc'["http"] = pc["http"], pc'["ws"] = pc["ws"],
         told' \subseteq {"expired", "forced"}, raced' \in BOOLEAN
  PROVE  TypeOK'
<1> DEFINE r == [id |-> sent + 1, kind |-> k, bearer |-> auth_token,
                 presented |-> p, answer |-> "none", grant |-> Empty]
<1>1. r \in Requests
  BY BoundsAssumption DEF TypeOK, Send, Requests, Grants, Held
<1>2. requests' = requests \cup {r}
  BY DEF Send
<1>3. requests' \subseteq Requests
  BY <1>1, <1>2 DEF TypeOK
<1>4. \A q \in requests' : q.kind \in {"refresh", "ensure"} => q.presented # Empty
  BY <1>2 DEF TypeOK
<1>5. sent' \in 0..MaxRequests
  BY BoundsAssumption DEF TypeOK, Send
<1>6. alone' \in Held /\ doubt' \in BOOLEAN
  BY BoundsAssumption DEF TypeOK, Send, Grants, Held
<1> QED
  BY <1>3, <1>4, <1>5, <1>6 DEF TypeOK, Send

\* The server's verdict and the loss of an answer leave a request a request.
LEMMA AnsweredTypes ==
  ASSUME TypeOK, NEW r \in requests, NEW answer \in {"none", "ok", "failed"}, NEW g \in Held,
         Answered(r, answer, g)
  PROVE  /\ requests' \subseteq Requests
         /\ \A q \in requests' : q.kind \in {"refresh", "ensure"} => q.presented # Empty
<1> DEFINE s == [r EXCEPT !.answer = answer, !.grant = g]
<1>1. r \in Requests
  BY DEF TypeOK
<1>2. s \in Requests /\ s.kind = r.kind /\ s.presented = r.presented
  BY <1>1 DEF Requests
<1> QED
  BY <1>2 DEF TypeOK, Answered

\* Every action keeps every variable's type.
LEMMA TypeStep == TypeOK /\ [Next]_vars => TypeOK'
<1> SUFFICES ASSUME TypeOK, [Next]_vars PROVE TypeOK'
  OBVIOUS
<1> USE BoundsAssumption
<1>1. CASE ClientLogin \/ Login \/ Register
  <2>1. Empty \in Held
    BY DEF Held
  <2> QED
    BY <1>1, <2>1, SendTypes DEF ClientLogin, Login, Register, SignIn, TypeOK, Kinds
<1>2. CASE RefreshToken
  BY <1>2, SendTypes DEF RefreshToken, TypeOK, Kinds, Credentials
<1>3. CASE Logout
  BY <1>3, SendTypes DEF Logout, TypeOK, Kinds, Held
<1>4. CASE ClientLogout
  <2>1. /\ pc' \in [Workers \cup {"app"} -> Points]
        /\ pc'["app"] = "logout" /\ pc'["http"] = pc["http"] /\ pc'["ws"] = pc["ws"]
    BY <1>4 DEF ClientLogout, TypeOK, Points, Workers
  <2>2. /\ pushes' \in 0..kicks'
        /\ ws' \in BOOLEAN
        /\ doubt' \in BOOLEAN
    <3>1. pushes' = 0 /\ kicks' = kicks /\ kicks \in Nat
      BY <1>4 DEF ClientLogout, TypeOK
    <3>2. pushes' \in 0..kicks'
      BY <3>1
    <3>3. doubt' \in BOOLEAN /\ ws' \in BOOLEAN
      BY <1>4 DEF ClientLogout
    <3> QED
      BY <3>2, <3>3
  <2>3. pc'["app"] \in {"idle", "logout"}
    BY <2>1
  <2>4. UNCHANGED <<token_, metadata, auth_token, writing, connecting, requests, sent,
                    session, told, kicks, restarts, overlapped, cuts, alone, raced>>
    BY <1>4 DEF ClientLogout
  <2> QED
    BY <2>1, <2>2, <2>3, <2>4 DEF TypeOK
<1>5. CASE ClientLogoutSends
  <2>1. /\ pc' \in [Workers \cup {"app"} -> Points]
        /\ pc'["app"] = "idle" /\ pc'["http"] = pc["http"] /\ pc'["ws"] = pc["ws"]
    BY <1>5 DEF ClientLogoutSends, TypeOK, Points, Workers
  <2> QED
    BY <1>5, <2>1, SendTypes DEF ClientLogoutSends, TypeOK, Kinds, Held
<1>6. CASE EnsureValidToken
  <2>1. CASE token_.refresh # Empty
    BY <1>6, <2>1, SendTypes DEF EnsureValidToken, TypeOK, Kinds, Credentials
  <2>2. CASE token_.refresh = Empty
    BY <1>6, <2>2 DEF EnsureValidToken, TypeOK
  <2> QED
    BY <2>1, <2>2
<1>7. ASSUME NEW r \in requests, ServerAccepts(r) PROVE TypeOK'
  <2>1. session' \in Held
    BY <1>7 DEF ServerAccepts, TypeOK, Requests, Held
  <2>2. /\ requests' \subseteq Requests
        /\ \A q \in requests' : q.kind \in {"refresh", "ensure"} => q.presented # Empty
    BY <1>7, <2>1, AnsweredTypes DEF ServerAccepts
  <2> QED
    BY <1>7, <2>1, <2>2 DEF ServerAccepts, TypeOK
<1>8. ASSUME NEW r \in requests, ServerRefuses(r) \/ Lost(r) PROVE TypeOK'
  <2>1. /\ requests' \subseteq Requests
        /\ \A q \in requests' : q.kind \in {"refresh", "ensure"} => q.presented # Empty
    BY <1>8, AnsweredTypes DEF ServerRefuses, Lost, Held
  <2> QED
    BY <1>8, <2>1 DEF ServerRefuses, Lost, TypeOK
<1>9. ASSUME NEW r \in requests, OnFailure(r) PROVE TypeOK'
  BY <1>9 DEF OnFailure, TypeOK
<1>10. ASSUME NEW r \in requests, OnAnswer(r) PROVE TypeOK'
  BY <1>10 DEF OnAnswer, BeginWrite, TypeOK, Requests, Workers, Points, Places
<1>11. CASE Kick
  BY <1>11 DEF Kick, TypeOK, Held
<1>12. CASE PushLost
  BY <1>12 DEF PushLost, TypeOK
<1>13. CASE ForceLogout
  BY <1>13 DEF ForceLogout, BeginWrite, TypeOK, Held, Workers, Points, Places
<1>14. ASSUME NEW t \in Workers, SetToken(t) PROVE TypeOK'
  BY <1>14 DEF SetToken, Advance, After, AfterWrite, Whole, TypeOK, Credentials, Workers, Points, Places
<1>15. ASSUME NEW t \in Workers, SetMeta(t) PROVE TypeOK'
  <2>1. metadata' \in Credentials
    BY <1>15 DEF SetMeta, TypeOK, Credentials
  <2> QED
    BY <1>15, <2>1 DEF SetMeta, Advance, After, AfterWrite, TypeOK, Workers, Points, Places
<1>16. ASSUME NEW t \in Workers, SetHeader(t) PROVE TypeOK'
  BY <1>16 DEF SetHeader, Advance, After, AfterWrite, TypeOK, Workers, Points, Places
<1>17. CASE Connect
  BY <1>17 DEF Connect, TypeOK, Workers, Points
<1>18. CASE Tell
  BY <1>18 DEF Tell, TypeOK, Workers, Points
<1>19. CASE Restart
  <2>1. Restored \in Credentials
    BY DEF Restored, Whole, TypeOK, Credentials, Held
  <2>2. token_' \in Credentials /\ auth_token' \in Held
    BY <1>19, <2>1 DEF Restart, Credentials
  <2>3. DOMAIN pc = Workers \cup {"app"}
    BY DEF TypeOK
  <2>4. pc' = [t \in Workers \cup {"app"} |-> "idle"]
    BY <1>19, <2>3 DEF Restart
  <2>5. /\ pc' \in [Workers \cup {"app"} -> Points]
        /\ pc'["app"] = "idle" /\ pc'["http"] = "idle" /\ pc'["ws"] = "idle"
    BY <2>4 DEF Points, Workers
  <2>6. writing' \in [Workers -> Held]
    BY <1>19 DEF Restart, Held
  <2>7. pushes' \in 0..kicks' /\ restarts' \in 0..MaxRestarts /\ cuts' \in 0..restarts'
    BY <1>19 DEF Restart, TypeOK
  <2>8. /\ requests' = {} /\ told' = {} /\ ws' = FALSE /\ connecting' = FALSE
        /\ doubt' \in BOOLEAN /\ raced' \in BOOLEAN
    BY <1>19 DEF Restart
  <2>9. alone' \in Held
    BY <1>19 DEF Restart, Held
  <2> QED
    BY <1>19, <2>2, <2>5, <2>6, <2>7, <2>8, <2>9 DEF Restart, TypeOK
<1>20. CASE UNCHANGED vars
  BY <1>20 DEF vars, TypeOK
<1> QED
  BY <1>1, <1>2, <1>3, <1>4, <1>5, <1>6, <1>7, <1>8, <1>9, <1>10, <1>11, <1>12, <1>13,
     <1>14, <1>15, <1>16, <1>17, <1>18, <1>19, <1>20 DEF Next

\* Every variable keeps its type, whatever the two workers, the server and crashes do.
THEOREM TypeCorrect == Spec => []TypeOK
<1>1. ASSUME Init PROVE TypeOK
  <2>1. Whole(Empty) \in Credentials /\ Empty \in Held
    BY DEF Whole, Credentials, Held
  <2>2. /\ pc \in [Workers \cup {"app"} -> Points]
        /\ pc["app"] = "idle" /\ pc["http"] = "idle" /\ pc["ws"] = "idle"
    BY <1>1 DEF Init, Points, Workers
  <2>3. writing \in [Workers -> Held]
    BY <1>1, <2>1 DEF Init
  <2>4. /\ token_ \in Credentials /\ metadata \in Credentials
        /\ auth_token \in Held /\ session \in Held /\ alone \in Held
    BY <1>1, <2>1 DEF Init
  <2>5. requests = {} /\ told = {} /\ connecting = FALSE /\ ws = FALSE
        /\ overlapped = FALSE /\ doubt = FALSE /\ raced = FALSE
    BY <1>1 DEF Init
  <2>6. /\ sent \in 0..MaxRequests /\ kicks \in 0..MaxKicks /\ pushes \in 0..kicks
        /\ restarts \in 0..MaxRestarts /\ cuts \in 0..restarts
    BY <1>1, BoundsAssumption DEF Init
  <2> QED
    BY <2>2, <2>3, <2>4, <2>5, <2>6 DEF TypeOK
<1> QED
  BY <1>1, TypeStep, PTL DEF Spec

-----------------------------------------------------------------------------
(* Agreement of memory, metadata and header. *)

\* What a worker has written already, place by place.
Written(t) ==
    /\ pc[t] \in {"access", "refresh", "expires", "header"} => token_ = Whole(writing[t])
    /\ pc[t] \in {"refresh", "expires", "header"} => metadata.access = writing[t]
    /\ pc[t] \in {"expires", "header"} => metadata.refresh = writing[t]
    /\ pc[t] = "header" => metadata.expires = writing[t]

\* The rows that a worker has not yet written are of one grant.
Unwritten(t) ==
    /\ pc[t] \in {"token", "access"} => metadata = Whole(metadata.access)
    /\ pc[t] = "refresh" => metadata.refresh = metadata.expires

\* The inductive strengthening of Agreement: until two workers have written at once,
\* only one writes, and what it has not written is whole unless a crash cut it.
WriteInv ==
    ~overlapped =>
        /\ ~(pc["http"] \in Places /\ pc["ws"] \in Places)
        /\ \A t \in Workers : Written(t)
        /\ cuts = 0 => \A t \in Workers : Unwritten(t)
        /\ cuts = 0 /\ ~Writing => token_ = metadata /\ token_ = Whole(auth_token)

CanRefresh(c) == LoggedIn(c) => c.refresh # Empty

\* The inductive strengthening of LoggedInCanRefresh: one cut leaves rows that are
\* usable until the next write touches them.
RefreshInv ==
    ~overlapped =>
        /\ cuts <= 1 => CanRefresh(token_)
        /\ cuts = 1 /\ (\A t \in Workers : pc[t] \notin {"refresh", "expires", "header"})
               => CanRefresh(metadata)

-----------------------------------------------------------------------------
(* What client and server know of each other. *)

\* Every grant that the client holds or is writing.
Known == {token_.access, token_.refresh, token_.expires,
          metadata.access, metadata.refresh, metadata.expires,
          auth_token, writing["http"], writing["ws"]}

\* The grant of a request that is under way is new: nobody holds it, and no request
\* presents it.
Unheld == \A g \in Known : g <= sent /\ \A r \in requests : g # r.id

Unasked ==
    \A r \in requests :
        /\ r.id <= sent /\ r.presented <= sent /\ r.bearer <= sent
        /\ r.answer = "none" => session # r.id
        /\ r.grant = IF r.answer = "ok" /\ r.kind # "logout" THEN r.id ELSE Empty
        /\ \A q \in requests :
              r.presented # q.id /\ r.bearer # q.id /\ (q.id = r.id => q = r)

FreshInv == Unheld /\ Unasked /\ session <= sent /\ writing["ws"] = Empty

\* A request that nothing is beside: its answer is the session.
AloneInv ==
    alone # Empty =>
        /\ pushes = 0 /\ pc["ws"] = "idle"
        /\ \A r \in requests :
              r.id = alone /\ pc["http"] = "idle" /\ (r.answer = "ok" => r.grant = session)

Granted == {r \in requests : r.answer = "ok"}

\* The access token that memory will hold once what has reached the client is written.
Coming ==
    IF pc["http"] = "token" THEN writing["http"]
    ELSE IF pushes > 0 \/ pc["ws"] = "token" THEN Empty ELSE token_.access

\* The inductive strengthening of SameSession: the session is what one answer that is
\* under way grants or, if there is none, what memory will hold.
SessionInv ==
    ~doubt =>
        /\ Granted = {} => session = Coming
        /\ \A r \in Granted :
              r.grant = session /\ pushes = 0 /\ pc["ws"] = "idle" /\ Granted = {r}
        /\ \A r \in SigningIn : requests = {r} /\ Idle /\ pushes = 0
        /\ pushes > 0 \/ pc["ws"] # "idle" =>
              session = Empty /\ pc["http"] = "idle" /\ Granted = {}
        /\ pc["http"] \notin Places => cuts = 0

\* The inductive strengthening of ExpiredMeansOver.  ensureValidToken's refresh has no
\* rival, so when it fails the session is over; and from then on nothing is under way
\* that could make the client's refresh token the server's.
Useless(g) == session = Empty \/ g # session

Unrivalled(r) ==
    /\ Granting = {r} /\ token_.refresh \in {r.presented, Empty}
    /\ pc["http"] = "token" => writing["http"] = Empty
    /\ r.answer = "ok" => session \in {Empty, r.id}
    /\ r.answer = "failed" => Useless(token_.refresh)

NothingUsable ==
    /\ Useless(token_.refresh)
    /\ pc["http"] = "token" => Useless(writing["http"])
    /\ \A r \in Granting :
          r.kind \in {"refresh", "ensure"} /\ r.answer # "ok" /\ Useless(r.presented)

ExpiryInv ==
    ~raced =>
        /\ \A r \in requests : r.kind = "ensure" => Unrivalled(r)
        /\ "expired" \in told => NothingUsable

-----------------------------------------------------------------------------
(* The steps that write nothing. *)

\* Nothing of what the two workers write, or of where they are, changes.
Aside ==
    /\ UNCHANGED <<token_, metadata, auth_token, writing, overlapped, cuts>>
    /\ pc'["http"] = pc["http"] /\ pc'["ws"] = pc["ws"]

\* The calls, the server, and a callback for a failed request write nothing.
Other ==
    \/ ClientLogin \/ Login \/ Register
    \/ RefreshToken \/ Logout \/ ClientLogout \/ ClientLogoutSends \/ EnsureValidToken
    \/ \E r \in requests : ServerAccepts(r) \/ ServerRefuses(r) \/ Lost(r) \/ OnFailure(r)
    \/ Kick \/ PushLost
    \/ UNCHANGED vars

\* What is not a callback that writes, a connection, a notice or a restart is Aside.
LEMMA OtherIsAside == TypeOK /\ Other => Aside
<1> SUFFICES ASSUME TypeOK, Other PROVE Aside
  OBVIOUS
<1>1. CASE ClientLogin \/ Login \/ Register
  BY <1>1 DEF ClientLogin, Login, Register, SignIn, Send, Aside
<1>2. CASE RefreshToken \/ Logout
  BY <1>2 DEF RefreshToken, Logout, Send, Aside
<1>3. CASE ClientLogout
  BY <1>3 DEF ClientLogout, Aside, TypeOK
<1>4. CASE ClientLogoutSends
  BY <1>4 DEF ClientLogoutSends, Send, Aside, TypeOK
<1>5. CASE EnsureValidToken
  BY <1>5 DEF EnsureValidToken, Send, Aside
<1>6. ASSUME NEW r \in requests, ServerAccepts(r) \/ ServerRefuses(r) \/ Lost(r) \/ OnFailure(r)
      PROVE Aside
  BY <1>6 DEF ServerAccepts, ServerRefuses, Lost, OnFailure, Aside
<1>7. CASE Kick \/ PushLost
  BY <1>7 DEF Kick, PushLost, Aside
<1>8. CASE UNCHANGED vars
  BY <1>8 DEF vars, Aside
<1> QED
  BY <1>1, <1>2, <1>3, <1>4, <1>5, <1>6, <1>7, <1>8 DEF Other

\* Next, by what its steps do to the places.
LEMMA NextCases ==
  [Next]_vars =>
      \/ Other
      \/ \E r \in requests : OnAnswer(r)
      \/ ForceLogout
      \/ \E t \in Workers : SetToken(t) \/ SetMeta(t) \/ SetHeader(t)
      \/ Connect \/ Tell \/ Restart
  BY DEF Next, Other

-----------------------------------------------------------------------------
(* WriteInv is inductive. *)

\* A worker that begins a write finds the places as the last one left them.
LEMMA BeginKeepsWriteInv ==
  ASSUME TypeOK, WriteInv, NEW t \in Workers, NEW g, pc[t] = "idle", BeginWrite(t, g),
         UNCHANGED <<token_, metadata, auth_token, cuts>>
  PROVE  WriteInv'
<1> SUFFICES ASSUME ~overlapped' PROVE WriteInv'
  BY DEF WriteInv
<1>1. ~overlapped /\ ~Writing
  BY DEF BeginWrite
<1>2. pc[t]' = "token" /\ writing[t]' = g /\ \A u \in Workers : u # t => pc[u]' \notin Places
  BY <1>1 DEF BeginWrite, TypeOK, Writing
<1>3. ~(pc["http"] \in Places /\ pc["ws"] \in Places)'
  BY <1>2 DEF Workers
<1>4. \A u \in Workers : Written(u)'
  BY <1>2 DEF Written, Places
<1>5. cuts' = 0 => \A u \in Workers : Unwritten(u)'
  <2>1. cuts' = 0 => metadata = Whole(metadata.access)
    BY <1>1 DEF WriteInv, Whole
  <2> QED
    BY <1>2, <2>1 DEF Unwritten, Places
<1>6. Writing'
  BY <1>2 DEF Writing, Places
<1> QED
  BY <1>3, <1>4, <1>5, <1>6 DEF WriteInv

\* Each write adds a place to what is written, and the last one makes them agree.
LEMMA PlaceKeepsWriteInv ==
  ASSUME TypeOK, WriteInv, NEW t \in Workers, SetToken(t) \/ SetMeta(t) \/ SetHeader(t)
  PROVE  WriteInv'
<1> SUFFICES ASSUME ~overlapped' PROVE WriteInv'
  BY DEF WriteInv
<1>1. ~overlapped /\ writing' = writing /\ pc[t] \in Places /\ pc[t]' = After(t, pc[t])
  BY DEF SetToken, SetMeta, SetHeader, AfterWrite, Advance, TypeOK, Places
<1>2. \A u \in Workers : u # t => pc[u]' \notin Places
  BY <1>1 DEF SetToken, SetMeta, SetHeader, Advance, TypeOK, WriteInv, Workers
<1>3. ~(pc["http"] \in Places /\ pc["ws"] \in Places)'
  BY <1>2 DEF Workers
<1>4. \A u \in Workers : u # t => Written(u)' /\ Unwritten(u)'
  BY <1>2 DEF Written, Unwritten, Places
<1>5. CASE SetToken(t)
  <2>1. pc[t] = "token" /\ pc[t]' = "access" /\ UNCHANGED <<metadata, cuts>>
    BY <1>1, <1>5 DEF SetToken, After
  <2>2. Written(t)' /\ (cuts' = 0 => Unwritten(t)')
    BY <1>1, <1>5, <2>1 DEF SetToken, Written, Unwritten, WriteInv
  <2>3. Writing'
    BY <2>1 DEF Writing, Places
  <2> QED
    BY <1>3, <1>4, <2>2, <2>3 DEF WriteInv
<1>6. CASE SetMeta(t)
  <2> DEFINE p == pc[t]
  <2>1. /\ p \in {"access", "refresh", "expires"}
        /\ UNCHANGED <<token_, cuts>>
        /\ pc[t]' = IF p = "access" THEN "refresh" ELSE IF p = "refresh" THEN "expires" ELSE "header"
    BY <1>1, <1>6 DEF SetMeta, After
  <2>2. metadata' = [metadata EXCEPT ![p] = writing[t]]
    BY <1>6 DEF SetMeta
  <2>3. metadata \in Credentials
    BY DEF TypeOK
  <2>4. Written(t)
    BY <1>1 DEF WriteInv
  <2>5. cuts = 0 => Unwritten(t)
    BY <1>1 DEF WriteInv
  <2>6. Written(t)'
    BY <1>1, <2>1, <2>2, <2>3, <2>4 DEF Written, Credentials
  <2>7. cuts' = 0 => Unwritten(t)'
    <3>1. CASE p = "access"
      BY <2>1, <2>2, <2>3, <2>5, <3>1 DEF Unwritten, Whole, Credentials
    <3>2. CASE p # "access"
      BY <2>1, <3>2 DEF Unwritten
    <3> QED
      BY <3>1, <3>2
  <2>8. Writing'
    BY <2>1 DEF Writing, Places
  <2> QED
    BY <1>3, <1>4, <2>6, <2>7, <2>8 DEF WriteInv
<1>7. CASE SetHeader(t)
  <2>1. pc[t] = "header" /\ auth_token' = writing[t] /\ UNCHANGED <<token_, metadata>>
    BY <1>7 DEF SetHeader
  <2>2. pc[t]' \in {"tell", "connect", "idle"}
    BY <1>1, <2>1 DEF After
  <2>3. Written(t)' /\ Unwritten(t)'
    BY <2>2 DEF Written, Unwritten
  <2>4. token_ = Whole(writing[t]) /\ metadata = Whole(writing[t])
    <3>1. Written(t) /\ metadata \in Credentials
      BY <1>1 DEF WriteInv, TypeOK
    <3> QED
      BY <2>1, <3>1 DEF Written, Whole, Credentials
  <2> QED
    BY <1>3, <1>4, <2>1, <2>3, <2>4 DEF WriteInv
<1> QED
  BY <1>5, <1>6, <1>7

\* Every step keeps WriteInv.
LEMMA WriteStep == TypeOK /\ WriteInv /\ [Next]_vars => WriteInv'
<1> SUFFICES ASSUME TypeOK, WriteInv, [Next]_vars PROVE WriteInv'
  OBVIOUS
<1>1. CASE Other
  BY <1>1, OtherIsAside DEF Aside, WriteInv, Written, Unwritten, Writing, Workers
<1>2. ASSUME NEW r \in requests, OnAnswer(r) PROVE WriteInv'
  <2>1. /\ pc["http"] = "idle" /\ BeginWrite("http", r.grant)
        /\ UNCHANGED <<token_, metadata, auth_token, cuts>>
    BY <1>2 DEF OnAnswer
  <2> QED
    BY <2>1, BeginKeepsWriteInv DEF Workers
<1>3. CASE ForceLogout
  <2>1. /\ pc["ws"] = "idle" /\ BeginWrite("ws", Empty)
        /\ UNCHANGED <<token_, metadata, auth_token, cuts>>
    BY <1>3 DEF ForceLogout
  <2> QED
    BY <2>1, BeginKeepsWriteInv DEF Workers
<1>4. ASSUME NEW t \in Workers, SetToken(t) \/ SetMeta(t) \/ SetHeader(t) PROVE WriteInv'
  BY <1>4, PlaceKeepsWriteInv
<1>5. CASE Connect \/ Tell
  <2>1. /\ UNCHANGED <<token_, metadata, auth_token, writing, overlapped, cuts>>
        /\ \A t \in Workers :
              \/ pc'[t] = pc[t]
              \/ pc[t] \in {"connect", "tell"} /\ pc'[t] = "idle"
    BY <1>5 DEF Connect, Tell, TypeOK, Workers
  <2> QED
    BY <2>1 DEF WriteInv, Written, Unwritten, Writing, Workers, Places
<1>6. CASE Restart
  <2>1. pc'["http"] = "idle" /\ pc'["ws"] = "idle"
    BY <1>6 DEF Restart, TypeOK, Workers
  <2>2. ~Writing' /\ \A t \in Workers : Written(t)' /\ Unwritten(t)'
    BY <2>1 DEF Writing, Written, Unwritten, Places, Workers
  <2>3. ASSUME ~overlapped', cuts' = 0 PROVE token_' = metadata' /\ token_' = Whole(auth_token)'
    <3>1. cuts = 0 /\ ~Writing /\ ~overlapped
      BY <1>6, <2>3 DEF Restart, TypeOK
    <3>2. token_ = metadata /\ token_ = Whole(auth_token)
      BY <3>1 DEF WriteInv
    <3>3. Restored = metadata /\ metadata = Whole(metadata.access)
      BY <3>2 DEF Restored, Whole
    <3> QED
      BY <1>6, <3>3 DEF Restart, Whole
  <2> QED
    BY <2>1, <2>2, <2>3 DEF WriteInv, Places
<1> QED
  BY <1>1, <1>2, <1>3, <1>4, <1>5, <1>6, NextCases

\* It holds when the process starts for the first time.
LEMMA InitWrite == Init => WriteInv
  BY DEF Init, WriteInv, Written, Unwritten, Writing, Workers, Places

\* While neither worker writes, memory, metadata and header hold one whole grant.
THEOREM AgreementHolds == Spec => []Agreement
<1>1. TypeOK /\ WriteInv => Agreement
  BY DEF WriteInv, Agreement
<1> QED
  BY <1>1, InitWrite, WriteStep, TypeCorrect, PTL DEF Spec

-----------------------------------------------------------------------------
(* RefreshInv is inductive. *)

\* Until a crash cuts a write, the rows can be restored at every point of it.
LEMMA UncutRowsCanRefresh ==
  ASSUME TypeOK, WriteInv, ~overlapped, cuts = 0
  PROVE  CanRefresh(metadata)
<1>1. CASE ~Writing
  BY <1>1 DEF WriteInv, CanRefresh, LoggedIn, Whole
<1>2. ASSUME NEW t \in Workers, pc[t] \in Places PROVE CanRefresh(metadata)
  <2>1. Written(t) /\ Unwritten(t)
    BY DEF WriteInv
  <2>2. CASE pc[t] \in {"token", "access"}
    BY <2>1, <2>2 DEF Unwritten, CanRefresh, LoggedIn, Whole
  <2>3. CASE pc[t] = "refresh"
    BY <2>1, <2>3 DEF Unwritten, CanRefresh, LoggedIn
  <2>4. CASE pc[t] \in {"expires", "header"}
    BY <2>1, <2>4 DEF Written, CanRefresh, LoggedIn
  <2> QED
    BY <1>2, <2>2, <2>3, <2>4 DEF Places
<1> QED
  BY <1>1, <1>2 DEF Writing

\* Every step keeps RefreshInv.
LEMMA RefreshStep == TypeOK /\ WriteInv /\ RefreshInv /\ [Next]_vars => RefreshInv'
<1> SUFFICES ASSUME TypeOK, WriteInv, RefreshInv, [Next]_vars, ~overlapped' PROVE RefreshInv'
  BY DEF RefreshInv
<1> DEFINE Touching(t) == pc[t] \in {"refresh", "expires", "header"}
<1>1. CASE Other
  BY <1>1, OtherIsAside DEF Aside, RefreshInv, Workers, CanRefresh, LoggedIn
<1>2. ASSUME NEW t \in Workers, NEW g, pc[t] = "idle", BeginWrite(t, g),
             UNCHANGED <<token_, metadata, cuts>>
      PROVE  RefreshInv'
  <2>1. ~overlapped /\ \A u \in Workers : Touching(u)' => Touching(u)
    BY <1>2 DEF BeginWrite, TypeOK
  <2>2. \A u \in Workers : Touching(u) => Touching(u)'
    BY <1>2 DEF BeginWrite, TypeOK
  <2> QED
    BY <1>2, <2>1, <2>2 DEF RefreshInv, CanRefresh, LoggedIn
<1>3. ASSUME NEW r \in requests, OnAnswer(r) PROVE RefreshInv'
  BY <1>2, <1>3 DEF OnAnswer, Workers
<1>4. CASE ForceLogout
  BY <1>2, <1>4 DEF ForceLogout, Workers
<1>5. ASSUME NEW t \in Workers, SetToken(t) PROVE RefreshInv'
  <2>1. CanRefresh(token_')
    BY <1>5 DEF SetToken, CanRefresh, LoggedIn, Whole
  <2>2. \A u \in Workers : Touching(u) <=> Touching(u)'
    BY <1>5 DEF SetToken, Advance, After, TypeOK
  <2>3. UNCHANGED <<metadata, cuts, overlapped>>
    BY <1>5 DEF SetToken, AfterWrite
  <2> QED
    BY <2>1, <2>2, <2>3 DEF RefreshInv, CanRefresh, LoggedIn
<1>6. ASSUME NEW t \in Workers, SetMeta(t) PROVE RefreshInv'
  <2>1. Touching(t)'
    BY <1>6 DEF SetMeta, Advance, After, TypeOK
  <2>2. UNCHANGED <<token_, cuts, overlapped>>
    BY <1>6 DEF SetMeta, AfterWrite
  <2> QED
    BY <2>1, <2>2 DEF RefreshInv, CanRefresh, LoggedIn
<1>7. ASSUME NEW t \in Workers, SetHeader(t) PROVE RefreshInv'
  <2>1. ~overlapped /\ cuts' = 0 /\ pc[t] = "header" /\ token_' = token_
    BY <1>7 DEF SetHeader, AfterWrite
  <2>2. token_ = Whole(writing[t])
    BY <2>1 DEF WriteInv, Written
  <2> QED
    BY <2>1, <2>2 DEF RefreshInv, CanRefresh, LoggedIn, Whole
<1>8. CASE Connect \/ Tell
  <2>1. UNCHANGED <<token_, metadata, cuts, overlapped>>
    BY <1>8 DEF Connect, Tell
  <2>2. \A u \in Workers : Touching(u) <=> Touching(u)'
    BY <1>8 DEF Connect, Tell, TypeOK
  <2> QED
    BY <2>1, <2>2 DEF RefreshInv, CanRefresh, LoggedIn
<1>9. CASE Restart
  <2>1. ~overlapped /\ metadata' = metadata /\ token_' = Restored
    BY <1>9 DEF Restart
  <2>2. cuts \in Nat /\ cuts' = IF Writing THEN cuts + 1 ELSE cuts
    BY <1>9 DEF Restart, TypeOK
  <2>3. ASSUME cuts' <= 1 PROVE CanRefresh(metadata)
    <3>1. CASE cuts = 0
      BY <2>1, <3>1, UncutRowsCanRefresh
    <3>2. CASE cuts = 1 /\ ~Writing
      BY <2>1, <3>2 DEF RefreshInv, Writing, Places
    <3> QED
      BY <2>2, <2>3, <3>1, <3>2
  <2>4. CanRefresh(metadata) => CanRefresh(Restored)
    BY DEF Restored, CanRefresh, LoggedIn, Whole
  <2>5. cuts' <= 1 => CanRefresh(token_') /\ CanRefresh(metadata')
    BY <2>1, <2>3, <2>4
  <2>6. cuts' \in Nat
    BY <2>2
  <2> QED
    BY <2>5, <2>6 DEF RefreshInv, CanRefresh, LoggedIn
<1> QED
  BY <1>1, <1>3, <1>4, <1>5, <1>6, <1>7, <1>8, <1>9, NextCases

\* It holds at first: there is no token.
LEMMA InitRefresh == Init => RefreshInv
  BY DEF Init, RefreshInv, CanRefresh, LoggedIn, Whole

\* Whoever isLoggedIn() can refresh, though one crash has cut the last write.
THEOREM RefreshHolds == Spec => []LoggedInCanRefresh
<1>1. RefreshInv => LoggedInCanRefresh
  BY DEF RefreshInv, LoggedInCanRefresh, CanRefresh
<1> QED
  BY <1>1, InitWrite, WriteStep, InitRefresh, RefreshStep, TypeCorrect, PTL DEF Spec

-----------------------------------------------------------------------------
(* The steps, by what they do to the requests. *)

\* A call that queues a request of kind k, and presents p.
Called(k, p) ==
    /\ Send(k, p) /\ pc'["http"] = pc["http"] /\ pc'["ws"] = pc["ws"]
    /\ k \in {"refresh", "ensure"} =>
          p = token_.refresh /\ told' = told /\ raced' = (raced \/ Arriving)
    /\ k \in {"clientLogin", "login"} =>
          p = Empty /\ told' = {} /\ raced' = (\E r \in requests : r.kind = "ensure")
    /\ k = "logout" => p = Empty /\ told' = told /\ raced' = raced

\* ensureValidToken finds no refresh token.
FoundExpired ==
    /\ token_.refresh = Empty
    /\ told' = told \cup {"expired"} /\ raced' = (raced \/ Arriving)
    /\ UNCHANGED <<creds, busy, net, requests, sent, outside, crash, alone, doubt>>

\* The steps that touch neither a request nor a credential.
Elsewhere == ClientLogout \/ PushLost \/ Connect \/ Tell \/ UNCHANGED vars

LEMMA NextKinds ==
  ASSUME TypeOK, [Next]_vars
  PROVE  \/ \E k \in Kinds, p \in Held : Called(k, p)
         \/ FoundExpired \/ Elsewhere \/ Kick
         \/ \E r \in requests :
               ServerAccepts(r) \/ ServerRefuses(r) \/ Lost(r) \/ OnFailure(r) \/ OnAnswer(r)
         \/ ForceLogout
         \/ \E t \in Workers : SetToken(t) \/ SetMeta(t) \/ SetHeader(t)
         \/ Restart
<1> DEFINE Calls == \E k \in Kinds, p \in Held : Called(k, p)
<1>0. Empty \in Held /\ token_.refresh \in Held
  BY DEF TypeOK, Credentials, Held
<1>1. CASE ClientLogin \/ Login \/ Register
  <2>1. PICK k \in {"clientLogin", "login"} : SignIn(k)
    BY <1>1 DEF ClientLogin, Login, Register
  <2>2. Called(k, Empty)
    BY <2>1 DEF SignIn, Called
  <2> QED BY <1>0, <2>2 DEF Kinds
<1>2. CASE RefreshToken
  <2>1. Called("refresh", token_.refresh)
    BY <1>2 DEF RefreshToken, Called
  <2> QED BY <1>0, <2>1 DEF Kinds
<1>3. CASE Logout \/ ClientLogoutSends
  <2>1. Send("logout", Empty) /\ told' = told /\ raced' = raced
    BY <1>3 DEF Logout, ClientLogoutSends
  <2>2. pc'["http"] = pc["http"] /\ pc'["ws"] = pc["ws"]
    <3>1. DOMAIN pc = Workers \cup {"app"}
      BY DEF TypeOK
    <3>2. pc' = pc \/ pc' = [pc EXCEPT !["app"] = "idle"]
      BY <1>3 DEF Logout, ClientLogoutSends
    <3> QED BY <3>1, <3>2 DEF Workers
  <2>3. Called("logout", Empty)
    BY <2>1, <2>2 DEF Called
  <2> QED BY <1>0, <2>3 DEF Kinds
<1>4. CASE EnsureValidToken
  <2>1. CASE token_.refresh # Empty
    <3>1. Called("ensure", token_.refresh)
      BY <1>4, <2>1 DEF EnsureValidToken, Called
    <3> QED BY <1>0, <3>1 DEF Kinds
  <2>2. CASE token_.refresh = Empty
    <3>1. FoundExpired
      BY <1>4, <2>2 DEF EnsureValidToken, FoundExpired
    <3> QED BY <3>1
  <2> QED BY <2>1, <2>2
<1> QED BY <1>1, <1>2, <1>3, <1>4 DEF Next, Elsewhere

\* A request that is queued.
LEMMA Queued ==
  ASSUME NEW k, NEW p, Send(k, p)
  PROVE  \E r : /\ requests' = requests \cup {r} /\ r.id = sent + 1 /\ r.kind = k
                /\ r.presented = p /\ r.bearer = auth_token
                /\ r.answer = "none" /\ r.grant = Empty
<1> DEFINE r == [id |-> sent + 1, kind |-> k, bearer |-> auth_token,
                 presented |-> p, answer |-> "none", grant |-> Empty]
<1>1. requests' = requests \cup {r}
  BY DEF Send
<1>2. /\ r.id = sent + 1 /\ r.kind = k /\ r.presented = p /\ r.bearer = auth_token
      /\ r.answer = "none" /\ r.grant = Empty
  OBVIOUS
<1> HIDE DEF r
<1> QED BY <1>1, <1>2

\* A request that gets an answer, or loses it.
LEMMA Replied ==
  ASSUME TypeOK, NEW r \in requests, NEW a, NEW g, Answered(r, a, g)
  PROVE  \E s : /\ requests' = (requests \ {r}) \cup {s} /\ s.id = r.id /\ s.kind = r.kind
                /\ s.presented = r.presented /\ s.bearer = r.bearer
                /\ s.answer = a /\ s.grant = g
<1> DEFINE s == [r EXCEPT !.answer = a, !.grant = g]
<1>1. r \in Requests
  BY DEF TypeOK
<1>2. /\ s.id = r.id /\ s.kind = r.kind /\ s.presented = r.presented /\ s.bearer = r.bearer
      /\ s.answer = a /\ s.grant = g
  BY <1>1 DEF Requests
<1>3. requests' = (requests \ {r}) \cup {s}
  BY DEF Answered
<1> QED BY <1>2, <1>3

-----------------------------------------------------------------------------
(* FreshInv is inductive. *)

\* What is held is the empty credential or a grant.
LEMMA KnownIsHeld == TypeOK => Known \subseteq Held
BY DEF TypeOK, Known, Credentials, Workers

LEMMA CallKeepsFresh ==
  ASSUME TypeOK, FreshInv, NEW k \in Kinds, NEW p \in Held, Called(k, p)
  PROVE  FreshInv'
<1>1. PICK r : /\ requests' = requests \cup {r} /\ r.id = sent + 1 /\ r.kind = k
               /\ r.presented = p /\ r.bearer = auth_token
               /\ r.answer = "none" /\ r.grant = Empty
  BY Queued DEF Called
<1>2. /\ sent \in Nat /\ sent' = sent + 1 /\ session' = session /\ session \in Nat
      /\ UNCHANGED <<token_, metadata, auth_token, writing>>
  BY BoundsAssumption DEF Called, Send, TypeOK, Held, Grants
<1>3. Known' = Known
  BY <1>2 DEF Known
<1>4. \A g \in Known : g \in Nat /\ g <= sent
  BY KnownIsHeld DEF FreshInv, Unheld, Unasked, Held, Grants
<1>5. p \in Known \/ p = Empty
  BY DEF Called, Known, Kinds
<1>6. auth_token \in Known
  BY DEF Known
<1>7. \A q \in requests : /\ q.id \in Nat /\ q.id # Empty /\ q.presented \in Nat /\ q.bearer \in Nat
  BY DEF TypeOK, Requests, Grants, Held
<1>8. ASSUME NEW g \in Known
      PROVE  g <= sent' /\ \A q \in requests' : g # q.id
  BY <1>1, <1>2, <1>4 DEF FreshInv, Unheld, Unasked
<1>9. ASSUME NEW q \in requests'
      PROVE  /\ q.id <= sent' /\ q.presented <= sent' /\ q.bearer <= sent'
             /\ q.answer = "none" => session # q.id
             /\ q.grant = IF q.answer = "ok" /\ q.kind # "logout" THEN q.id ELSE Empty
  <2>1. CASE q \in requests
    BY <1>2, <1>7, <2>1 DEF FreshInv, Unheld, Unasked
  <2>2. CASE q = r
    BY <1>1, <1>2, <1>4, <1>5, <1>6, <2>2 DEF FreshInv, Unheld, Unasked
  <2> QED BY <1>1, <2>1, <2>2
<1>10. ASSUME NEW q \in requests', NEW s \in requests'
       PROVE  q.presented # s.id /\ q.bearer # s.id /\ (s.id = q.id => s = q)
  <2>1. CASE q \in requests /\ s \in requests
    BY <2>1 DEF FreshInv, Unheld, Unasked
  <2>2. CASE q \in requests /\ s = r
    BY <1>1, <1>2, <1>7, <2>2 DEF FreshInv, Unheld, Unasked
  <2>3. CASE q = r /\ s \in requests
    BY <1>1, <1>2, <1>4, <1>5, <1>6, <1>7, <2>3 DEF FreshInv, Unheld, Unasked
  <2>4. CASE q = r /\ s = r
    BY <1>1, <1>2, <1>4, <1>5, <1>6, <2>4
  <2> QED BY <1>1, <2>1, <2>2, <2>3, <2>4
<1>11. writing'["ws"] = Empty /\ session' <= sent'
  BY <1>2 DEF FreshInv, Unheld, Unasked
<1>12. Unheld'
  BY <1>3, <1>8 DEF Unheld
<1>13. Unasked'
  BY <1>2, <1>9, <1>10 DEF Unasked
<1> QED BY <1>11, <1>12, <1>13 DEF FreshInv

\* The server answers, or the network does for it.
LEMMA ReplyKeepsFresh ==
  ASSUME TypeOK, FreshInv, NEW r \in requests, ServerAccepts(r) \/ ServerRefuses(r) \/ Lost(r)
  PROVE  FreshInv'
<1>1. PICK s : /\ requests' = (requests \ {r}) \cup {s} /\ s.id = r.id /\ s.kind = r.kind
               /\ s.presented = r.presented /\ s.bearer = r.bearer /\ s.answer # "none"
               /\ s.grant = IF s.answer = "ok" /\ s.kind # "logout" THEN s.id ELSE Empty
  <2>1. CASE ServerAccepts(r)
    <3>1. Answered(r, "ok", session') /\ session' = IF r.kind = "logout" THEN Empty ELSE r.id
      BY <2>1 DEF ServerAccepts
    <3> QED BY <3>1, Replied
  <2>2. CASE ServerRefuses(r) \/ Lost(r)
    <3>1. Answered(r, "failed", Empty)
      BY <2>2 DEF ServerRefuses, Lost
    <3> QED BY <3>1, Replied
  <2> QED BY <2>1, <2>2
<1>2. UNCHANGED <<token_, metadata, auth_token, writing, sent>>
  BY DEF ServerAccepts, ServerRefuses, Lost
<1>3. Known' = Known
  BY <1>2 DEF Known
<1>4. session' = session \/ session' = Empty \/ session' = r.id
  BY DEF ServerAccepts, ServerRefuses, Lost
<1>5. \A q \in requests : q.id # Empty
  BY DEF TypeOK, Requests, Grants
<1>6. \A q \in requests : q.answer = "none" /\ q # r => session' # q.id
  BY <1>4, <1>5 DEF FreshInv, Unheld, Unasked
<1>7. 0 <= sent /\ session' <= sent'
  BY <1>2, <1>4 DEF TypeOK, FreshInv, Unasked
<1>8. \A g \in Known : g <= sent' /\ \A q \in requests' : g # q.id
  BY <1>1, <1>2 DEF FreshInv, Unheld, Unasked
<1>9. ASSUME NEW q \in requests'
      PROVE  /\ q.id <= sent' /\ q.presented <= sent' /\ q.bearer <= sent'
             /\ q.answer = "none" => session' # q.id
             /\ q.grant = IF q.answer = "ok" /\ q.kind # "logout" THEN q.id ELSE Empty
             /\ \A v \in requests' :
                   q.presented # v.id /\ q.bearer # v.id /\ (v.id = q.id => v = q)
  BY <1>1, <1>2, <1>6 DEF FreshInv, Unheld, Unasked
<1> QED BY <1>2, <1>3, <1>7, <1>8, <1>9 DEF FreshInv, Unheld, Unasked

\* A step that makes nothing known but what was, or what a request under way granted.
LEMMA OthersKeepFresh ==
  ASSUME TypeOK, FreshInv, requests' \subseteq requests, sent' = sent,
         session' = session \/ session' = Empty, writing'["ws"] = Empty,
         NEW x, Known' \subseteq Known \cup {x}, x <= sent, \A q \in requests' : x # q.id
  PROVE  FreshInv'
<1>1. \A q \in requests : q.id # Empty
  BY DEF TypeOK, Requests, Grants
<1>2. session' <= sent'
  BY DEF TypeOK, FreshInv
<1>3. \A q \in requests' : q.answer = "none" => session' # q.id
  BY <1>1 DEF FreshInv, Unheld, Unasked
<1> QED BY <1>2, <1>3 DEF FreshInv, Unheld, Unasked

\* Every step keeps FreshInv.
LEMMA FreshStep == TypeOK /\ FreshInv /\ [Next]_vars => FreshInv'
<1> SUFFICES ASSUME TypeOK, FreshInv, [Next]_vars PROVE FreshInv'
  OBVIOUS
<1>0. 0 <= sent /\ (\A q \in requests : 0 # q.id) /\ writing["ws"] = Empty
  BY DEF TypeOK, Requests, Grants, FreshInv
<1>1. ASSUME NEW k \in Kinds, NEW p \in Held, Called(k, p) PROVE FreshInv'
  BY <1>1, CallKeepsFresh
<1>2. CASE FoundExpired \/ Elsewhere \/ Kick
  <2>1. UNCHANGED <<token_, metadata, auth_token, writing, requests, sent>>
    BY <1>2 DEF FoundExpired, Elsewhere, ClientLogout, PushLost, Connect, Tell, Kick, vars
  <2>2. session' = session \/ session' = Empty
    BY <1>2 DEF FoundExpired, Elsewhere, ClientLogout, PushLost, Connect, Tell, Kick, vars
  <2>3. Known' \subseteq Known \cup {0}
    BY <2>1 DEF Known
  <2> QED BY <1>0, <2>1, <2>2, <2>3, OthersKeepFresh
<1>3. ASSUME NEW r \in requests, ServerAccepts(r) \/ ServerRefuses(r) \/ Lost(r) PROVE FreshInv'
  BY <1>3, ReplyKeepsFresh
<1>4. ASSUME NEW r \in requests, OnFailure(r) PROVE FreshInv'
  <2>1. /\ UNCHANGED <<token_, metadata, auth_token, writing, sent, session>>
        /\ requests' \subseteq requests
    BY <1>4 DEF OnFailure
  <2>2. Known' \subseteq Known \cup {0}
    BY <2>1 DEF Known
  <2> QED BY <1>0, <2>1, <2>2, OthersKeepFresh
<1>5. ASSUME NEW r \in requests, OnAnswer(r) PROVE FreshInv'
  <2>1. /\ UNCHANGED <<token_, metadata, auth_token, sent, session>>
        /\ requests' = requests \ {r} /\ writing' = [writing EXCEPT !["http"] = r.grant]
    BY <1>5 DEF OnAnswer, BeginWrite
  <2>2. writing'["http"] = r.grant /\ writing'["ws"] = writing["ws"]
    BY <2>1 DEF TypeOK, Workers
  <2>3. Known' \subseteq Known \cup {r.grant}
    BY <2>1, <2>2 DEF Known
  <2>4. r.grant <= sent /\ \A q \in requests' : r.grant # q.id
    BY <1>0, <2>1 DEF FreshInv, Unheld, Unasked
  <2> QED BY <1>0, <2>1, <2>2, <2>3, <2>4, OthersKeepFresh
<1>6. CASE ForceLogout
  <2>1. /\ UNCHANGED <<token_, metadata, auth_token, sent, session, requests>>
        /\ writing' = [writing EXCEPT !["ws"] = Empty]
    BY <1>6 DEF ForceLogout, BeginWrite
  <2>2. writing'["ws"] = Empty /\ writing'["http"] = writing["http"]
    BY <2>1 DEF TypeOK, Workers
  <2>3. Known' \subseteq Known \cup {0}
    BY <2>1, <2>2 DEF Known
  <2> QED BY <1>0, <2>1, <2>2, <2>3, OthersKeepFresh
<1>7. ASSUME NEW t \in Workers, SetToken(t) \/ SetMeta(t) \/ SetHeader(t) PROVE FreshInv'
  <2>1. UNCHANGED <<writing, requests, sent, session>>
    BY <1>7 DEF SetToken, SetMeta, SetHeader, AfterWrite
  <2>2. writing[t] \in Known
    BY DEF Known, Workers
  <2>3. Known' \subseteq Known \cup {0}
    <3>1. CASE SetToken(t)
      <4>1. token_' = Whole(writing[t]) /\ UNCHANGED <<metadata, auth_token>>
        BY <3>1 DEF SetToken
      <4> QED BY <2>1, <2>2, <4>1 DEF Known, Whole
    <3>2. CASE SetMeta(t)
      <4>1. /\ metadata' = [metadata EXCEPT ![pc[t]] = writing[t]]
            /\ UNCHANGED <<token_, auth_token>> /\ pc[t] \in {"access", "refresh", "expires"}
        BY <3>2 DEF SetMeta
      <4>2. /\ metadata'.access \in {metadata.access, writing[t]}
            /\ metadata'.refresh \in {metadata.refresh, writing[t]}
            /\ metadata'.expires \in {metadata.expires, writing[t]}
        BY <4>1 DEF TypeOK, Credentials
      <4> QED BY <2>1, <2>2, <4>1, <4>2 DEF Known
    <3>3. CASE SetHeader(t)
      <4>1. auth_token' = writing[t] /\ UNCHANGED <<token_, metadata>>
        BY <3>3 DEF SetHeader
      <4> QED BY <2>1, <2>2, <4>1 DEF Known
    <3> QED BY <1>7, <3>1, <3>2, <3>3
  <2> QED BY <1>0, <2>1, <2>3, OthersKeepFresh
<1>8. CASE Restart
  <2>1. /\ token_' = Restored /\ auth_token' = Restored.access /\ metadata' = metadata
        /\ sent' = sent /\ session' = session /\ requests' = {}
        /\ writing' = [t \in Workers |-> Empty]
    BY <1>8 DEF Restart
  <2>2. writing'["ws"] = Empty /\ writing'["http"] = Empty
    BY <2>1 DEF Workers
  <2>3. Known' \subseteq Known \cup {0}
    BY <2>1, <2>2 DEF Known, Restored, Whole
  <2> QED BY <1>0, <2>1, <2>2, <2>3, OthersKeepFresh
<1> QED BY <1>1, <1>2, <1>3, <1>4, <1>5, <1>6, <1>7, <1>8, NextKinds

\* It holds at first: nothing was sent.
LEMMA InitFresh == Init => FreshInv
<1> SUFFICES ASSUME Init PROVE FreshInv
  OBVIOUS
<1>1. Known = {0}
  BY DEF Init, Known, Whole, Workers
<1> QED BY <1>1 DEF Init, FreshInv, Unheld, Unasked, Workers

-----------------------------------------------------------------------------
(* AloneInv is inductive. *)

LEMMA AloneStep == TypeOK /\ FreshInv /\ AloneInv /\ [Next]_vars => AloneInv'
<1> SUFFICES ASSUME TypeOK, FreshInv, AloneInv, [Next]_vars, alone' # Empty PROVE AloneInv'
  BY DEF AloneInv
<1>0. pushes \in Nat /\ (\A q \in requests : q.id # Empty)
  BY DEF TypeOK, Requests, Grants
<1>1. ASSUME NEW k \in Kinds, NEW p \in Held, Called(k, p) PROVE AloneInv'
  <2>1. PICK r : requests' = requests \cup {r} /\ r.id = sent + 1 /\ r.answer = "none"
    BY <1>1, Queued DEF Called
  <2>2. Quiet /\ alone' = sent + 1 /\ pushes' = pushes
    BY <1>1 DEF Called, Send
  <2>3. requests = {} /\ pushes = 0 /\ pc["http"] = "idle" /\ pc["ws"] = "idle"
    BY <2>2 DEF Quiet, Idle, Workers
  <2> QED BY <1>1, <2>1, <2>2, <2>3 DEF Called, AloneInv
<1>2. CASE FoundExpired \/ Elsewhere
  <2>1. /\ alone' = alone /\ requests' = requests /\ session' = session
        /\ pushes' = pushes \/ pushes' = 0
    BY <1>2 DEF FoundExpired, Elsewhere, ClientLogout, PushLost, Connect, Tell, vars
  <2>2. /\ pc'["http"] = pc["http"] \/ pc'["http"] = "idle"
        /\ pc'["ws"] = pc["ws"] \/ pc'["ws"] = "idle"
    BY <1>2 DEF FoundExpired, Elsewhere, ClientLogout, PushLost, Connect, Tell, vars, TypeOK, Workers
  <2> QED BY <2>1, <2>2 DEF AloneInv
<1>3. CASE Kick
  BY <1>3 DEF Kick
<1>4. ASSUME NEW r \in requests, ServerAccepts(r) \/ ServerRefuses(r) \/ Lost(r) PROVE AloneInv'
  <2>1. alone' = alone /\ UNCHANGED <<pc, pushes>>
    BY <1>4 DEF ServerAccepts, ServerRefuses, Lost
  <2>2. requests = {r}
    BY <2>1 DEF AloneInv, FreshInv, Unasked
  <2>3. CASE ServerAccepts(r)
    <3>1. Answered(r, "ok", session')
      BY <2>3 DEF ServerAccepts
    <3>2. PICK s : requests' = (requests \ {r}) \cup {s} /\ s.id = r.id /\ s.grant = session'
      BY <3>1, Replied
    <3> QED BY <2>1, <2>2, <3>2 DEF AloneInv
  <2>4. CASE ServerRefuses(r) \/ Lost(r)
    <3>1. Answered(r, "failed", Empty)
      BY <2>4 DEF ServerRefuses, Lost
    <3>2. PICK s : requests' = (requests \ {r}) \cup {s} /\ s.id = r.id /\ s.answer = "failed"
      BY <3>1, Replied
    <3> QED BY <2>1, <2>2, <3>2 DEF AloneInv
  <2> QED BY <1>4, <2>3, <2>4
<1>5. ASSUME NEW r \in requests, OnFailure(r) PROVE AloneInv'
  BY <1>5 DEF OnFailure, AloneInv
<1>6. ASSUME NEW r \in requests, OnAnswer(r) PROVE AloneInv'
  <2>1. /\ alone' = alone /\ requests' = requests \ {r} /\ pushes' = pushes
        /\ pc' = [pc EXCEPT !["http"] = "token"]
    BY <1>6 DEF OnAnswer, BeginWrite
  <2>2. requests' = {}
    BY <2>1 DEF AloneInv, FreshInv, Unasked
  <2>3. pc'["ws"] = pc["ws"]
    BY <2>1 DEF TypeOK, Workers
  <2> QED BY <2>1, <2>2, <2>3 DEF AloneInv
<1>7. CASE ForceLogout
  BY <1>0, <1>7 DEF ForceLogout, AloneInv
<1>8. ASSUME NEW t \in Workers, SetToken(t) \/ SetMeta(t) \/ SetHeader(t) PROVE AloneInv'
  <2>1. /\ alone' = alone /\ UNCHANGED <<requests, pushes, session>>
        /\ pc[t] \in Places /\ pc' = [pc EXCEPT ![t] = After(t, pc[t])]
    BY <1>8 DEF SetToken, SetMeta, SetHeader, AfterWrite, Advance, Places
  <2>2. t = "http"
    BY <2>1 DEF AloneInv, Workers, Places
  <2>3. pc'["ws"] = pc["ws"] /\ requests = {}
    BY <2>1, <2>2 DEF AloneInv, TypeOK, Workers, Places
  <2> QED BY <2>1, <2>3 DEF AloneInv
<1>9. CASE Restart
  BY <1>9 DEF Restart
<1> QED BY <1>1, <1>2, <1>3, <1>4, <1>5, <1>6, <1>7, <1>8, <1>9, NextKinds

-----------------------------------------------------------------------------
(* SessionInv is inductive. *)

\* A reply that grants nothing changes nothing of what is on its way.
LEMMA FailedReplyKeepsSession ==
  ASSUME TypeOK, SessionInv, ~doubt, NEW r \in requests, r.answer = "none",
         Answered(r, "failed", Empty),
         UNCHANGED <<token_, pc, writing, pushes, session, cuts>>
  PROVE  SessionInv'
<1>1. PICK s : /\ requests' = (requests \ {r}) \cup {s} /\ s.kind = r.kind
               /\ s.answer = "failed"
  BY Replied
<1>2. Granted' = Granted
  BY <1>1 DEF Granted
<1>3. Coming' = Coming
  BY DEF Coming
<1>4. ASSUME NEW q \in SigningIn' PROVE requests' = {q} /\ Idle' /\ pushes' = 0
  <2>1. CASE q = s
    <3>1. r \in SigningIn
      BY <1>1, <1>4, <2>1 DEF SigningIn
    <3>2. requests = {r} /\ Idle /\ pushes = 0
      BY <3>1 DEF SessionInv
    <3> QED BY <1>1, <2>1, <3>2 DEF Idle
  <2>2. CASE q # s
    <3>1. q \in SigningIn /\ q # r
      BY <1>1, <1>4, <2>2 DEF SigningIn
    <3>2. requests = {q}
      BY <3>1 DEF SessionInv
    <3> QED BY <3>1, <3>2
  <2> QED BY <2>1, <2>2
<1> QED BY <1>2, <1>3, <1>4 DEF SessionInv

\* The server accepts one request at a time: what it presents is the session, and no
\* answer that is under way has granted that.
LEMMA AcceptKeepsSession ==
  ASSUME TypeOK, FreshInv, SessionInv, ~doubt, NEW r \in requests, ServerAccepts(r)
  PROVE  SessionInv'
<1>1. /\ r.answer = "none" /\ Accepts(r) /\ Answered(r, "ok", session')
      /\ UNCHANGED <<token_, pc, writing, pushes, cuts>>
  BY DEF ServerAccepts
<1>2. PICK s : /\ requests' = (requests \ {r}) \cup {s} /\ s.kind = r.kind
               /\ s.answer = "ok" /\ s.grant = session'
  BY <1>1, Replied
<1>3. r.kind \in Kinds
  BY DEF TypeOK, Requests
<1>4. Granted = {} /\ pushes = 0 /\ pc["ws"] = "idle"
  <2>1. CASE r \in SigningIn
    <3>1. requests = {r} /\ Idle /\ pushes = 0
      BY <2>1 DEF SessionInv
    <3> QED BY <1>1, <3>1 DEF Granted, Idle, Workers
  <2>2. CASE r \notin SigningIn
    <3>1. session # Empty /\ (r.presented = session \/ r.bearer = session)
      BY <1>1, <1>3, <2>2 DEF Accepts, SigningIn, Kinds
    <3>2. ~(pushes > 0) /\ pc["ws"] = "idle"
      BY <3>1 DEF SessionInv
    <3>3. ASSUME NEW g \in Granted PROVE FALSE
      <4>1. g \in requests /\ g.answer = "ok" /\ g.grant = session
        BY <3>3 DEF Granted, SessionInv
      <4>2. g.grant = g.id
        BY <3>1, <4>1 DEF FreshInv, Unasked
      <4> QED BY <3>1, <4>1, <4>2 DEF FreshInv, Unasked
    <3>4. pushes \in Nat
      BY DEF TypeOK
    <3> QED BY <3>2, <3>3, <3>4
  <2> QED BY <2>1, <2>2
<1>5. Granted' = {s}
  BY <1>2, <1>4 DEF Granted
<1>6. ASSUME NEW q \in SigningIn' PROVE requests' = {q} /\ Idle' /\ pushes' = 0
  <2>1. CASE q = s
    <3>1. r \in SigningIn
      BY <1>2, <1>6, <2>1 DEF SigningIn
    <3>2. requests = {r} /\ Idle /\ pushes = 0
      BY <3>1 DEF SessionInv
    <3> QED BY <1>1, <1>2, <2>1, <3>2 DEF Idle
  <2>2. CASE q # s
    <3>1. q \in SigningIn /\ q # r
      BY <1>2, <1>6, <2>2 DEF SigningIn
    <3>2. requests = {q}
      BY <3>1 DEF SessionInv
    <3> QED BY <3>1, <3>2
  <2> QED BY <2>1, <2>2
<1> QED BY <1>1, <1>2, <1>4, <1>5, <1>6 DEF SessionInv

\* The worker takes up an answer: that of the only request it can be, or of one that
\* nothing was beside.
LEMMA AnswerKeepsSession ==
  ASSUME TypeOK, FreshInv, AloneInv, SessionInv, NEW r \in requests, OnAnswer(r), ~doubt'
  PROVE  SessionInv'
<1>1. /\ r.answer = "ok" /\ requests' = requests \ {r} /\ BeginWrite("http", r.grant)
      /\ UNCHANGED <<token_, pushes, session, cuts>> /\ (~doubt \/ r.id = alone)
  BY DEF OnAnswer
<1>2. pc'["http"] = "token" /\ pc'["ws"] = pc["ws"] /\ writing'["http"] = r.grant
  BY <1>1 DEF BeginWrite, TypeOK, Workers
<1>3. r.id # Empty
  BY DEF TypeOK, Requests, Grants
<1>4. r.grant = session /\ pushes = 0 /\ pc["ws"] = "idle" /\ Granted' = {} /\ SigningIn' = {}
  <2>1. CASE ~doubt
    <3>1. r \in Granted
      BY <1>1 DEF Granted
    <3>2. r.grant = session /\ pushes = 0 /\ pc["ws"] = "idle" /\ Granted = {r}
      BY <2>1, <3>1 DEF SessionInv
    <3>3. Granted' = {}
      BY <1>1, <3>2 DEF Granted
    <3>4. ASSUME NEW q \in SigningIn' PROVE FALSE
      <4>1. q \in SigningIn /\ q # r
        BY <1>1, <3>4 DEF SigningIn
      <4>2. requests = {q}
        BY <2>1, <4>1 DEF SessionInv
      <4> QED BY <4>1, <4>2
    <3> QED BY <3>2, <3>3, <3>4
  <2>2. CASE r.id = alone
    <3>1. r.grant = session /\ pushes = 0 /\ pc["ws"] = "idle"
      BY <1>1, <1>3, <2>2 DEF AloneInv
    <3>2. requests' = {}
      BY <1>1, <1>3, <2>2 DEF AloneInv, FreshInv, Unasked
    <3> QED BY <3>1, <3>2 DEF Granted, SigningIn
  <2> QED BY <1>1, <2>1, <2>2
<1>5. Coming' = session'
  BY <1>1, <1>2, <1>4 DEF Coming
<1> QED BY <1>1, <1>2, <1>4, <1>5 DEF SessionInv, Places

\* Each place that is written brings memory nearer to what is coming.
LEMMA PlaceKeepsSession ==
  ASSUME TypeOK, FreshInv, SessionInv, ~doubt, NEW t \in Workers,
         SetToken(t) \/ SetMeta(t) \/ SetHeader(t)
  PROVE  SessionInv'
<1>1. /\ pc[t] \in Places /\ pc'[t] = After(t, pc[t])
      /\ \A u \in Workers : u # t => pc'[u] = pc[u]
      /\ UNCHANGED <<writing, pushes, requests, session>>
  BY DEF SetToken, SetMeta, SetHeader, AfterWrite, Advance, TypeOK, Places
<1>2. SigningIn = {} /\ SigningIn' = {} /\ Granted' = Granted
  <2>1. ~Idle
    BY <1>1 DEF Idle, Places
  <2>2. SigningIn = {}
    BY <2>1 DEF SessionInv
  <2> QED BY <1>1, <2>2 DEF SigningIn, Granted
<1>3. cuts' = cuts \/ cuts' = 0
  BY DEF SetToken, SetMeta, SetHeader
<1>4. pushes \in Nat /\ pc'[t] # "token"
  BY <1>1 DEF TypeOK, Places, After
<1>5. CASE t = "http"
  <2>1. pc["http"] \in Places /\ pc["http"] # "idle"
    BY <1>1, <1>5 DEF Places
  <2>2. ~(pushes > 0) /\ pc["ws"] = "idle" /\ pc'["ws"] = "idle" /\ pc'["http"] # "token"
    BY <1>1, <1>4, <1>5, <2>1 DEF SessionInv, Workers
  <2>3. Coming' = Coming
    <3>1. CASE SetToken(t)
      BY <1>1, <1>5, <2>2, <3>1 DEF SetToken, Coming, Whole
    <3>2. CASE SetMeta(t) \/ SetHeader(t)
      BY <1>1, <1>5, <2>2, <3>2 DEF SetMeta, SetHeader, Coming
    <3> QED BY <3>1, <3>2
  <2>4. pc'["http"] \notin Places => cuts' = 0
    BY <1>1, <1>5 DEF SetToken, SetMeta, SetHeader, After, Places
  <2> QED BY <1>1, <1>2, <2>2, <2>3, <2>4 DEF SessionInv
<1>6. CASE t = "ws"
  <2>1. session = Empty /\ pc["http"] = "idle" /\ Granted = {} /\ pc'["http"] = "idle"
    BY <1>1, <1>6 DEF SessionInv, Places, Workers
  <2>2. writing["ws"] = Empty /\ Coming = Empty
    BY <2>1 DEF FreshInv, SessionInv
  <2>3. Coming' = Empty
    <3>1. CASE SetToken(t)
      BY <1>1, <1>6, <2>1, <2>2, <3>1 DEF SetToken, Coming, Whole
    <3>2. CASE SetMeta(t) \/ SetHeader(t)
      BY <1>1, <1>4, <1>6, <2>1, <2>2, <3>2 DEF SetMeta, SetHeader, Coming
    <3> QED BY <3>1, <3>2
  <2>4. cuts = 0
    BY <2>1 DEF SessionInv, Places
  <2> QED BY <1>1, <1>2, <1>3, <2>1, <2>3, <2>4 DEF SessionInv
<1> QED BY <1>5, <1>6 DEF Workers

\* Every step keeps SessionInv.
LEMMA SessionStep ==
  TypeOK /\ WriteInv /\ FreshInv /\ AloneInv /\ SessionInv /\ [Next]_vars => SessionInv'
<1> SUFFICES ASSUME TypeOK, WriteInv, FreshInv, AloneInv, SessionInv, [Next]_vars, ~doubt'
             PROVE  SessionInv'
  BY DEF SessionInv
<1>0. pushes \in Nat
  BY DEF TypeOK
<1>1. ASSUME NEW k \in Kinds, NEW p \in Held, Called(k, p) PROVE SessionInv'
  <2>1. PICK r : requests' = requests \cup {r} /\ r.kind = k /\ r.answer = "none"
    BY <1>1, Queued DEF Called
  <2>2. /\ ~doubt /\ SigningIn = {} /\ (k \in {"clientLogin", "login"} => Quiet)
        /\ UNCHANGED <<token_, writing, pushes, session, cuts>>
        /\ pc'["http"] = pc["http"] /\ pc'["ws"] = pc["ws"]
    BY <1>1 DEF Called, Send
  <2>3. Granted' = Granted /\ Coming' = Coming
    BY <2>1, <2>2 DEF Granted, Coming
  <2>4. ASSUME NEW q \in SigningIn' PROVE requests' = {q} /\ Idle' /\ pushes' = 0
    <3>1. q = r /\ Quiet
      BY <2>1, <2>2, <2>4 DEF SigningIn
    <3> QED BY <2>1, <2>2, <3>1 DEF Quiet, Idle, Workers
  <2> QED BY <2>2, <2>3, <2>4 DEF SessionInv
<1>2. CASE FoundExpired \/ ClientLogout \/ UNCHANGED vars
  <2>1. /\ ~doubt /\ pushes' = pushes
        /\ UNCHANGED <<token_, writing, requests, session, cuts>>
        /\ pc'["http"] = pc["http"] /\ pc'["ws"] = pc["ws"]
    <3>1. CASE FoundExpired
      BY <3>1 DEF FoundExpired
    <3>2. CASE ClientLogout
      <4>1. /\ ~doubt /\ ~(pushes > 0) /\ pushes' = 0
            /\ pc' = [pc EXCEPT !["app"] = "logout"]
            /\ UNCHANGED <<token_, writing, requests, session, cuts>>
        BY <3>2 DEF ClientLogout
      <4>2. pushes' = pushes
        BY <1>0, <4>1
      <4>3. pc'["http"] = pc["http"] /\ pc'["ws"] = pc["ws"]
        BY <4>1 DEF TypeOK, Workers
      <4> QED BY <4>1, <4>2, <4>3
    <3>3. CASE UNCHANGED vars
      BY <3>3 DEF vars
    <3> QED BY <1>2, <3>1, <3>2, <3>3
  <2>2. Granted' = Granted /\ SigningIn' = SigningIn /\ Coming' = Coming /\ Idle' = Idle
    BY <2>1 DEF Granted, SigningIn, Coming, Idle, Workers
  <2> QED BY <2>1, <2>2 DEF SessionInv
<1>3. CASE PushLost
  BY <1>3 DEF PushLost
<1>4. CASE Connect
  <2>1. /\ ~doubt /\ pc["http"] = "connect" /\ pushes' = 0 /\ pc["ws"] = "idle"
        /\ pc' = [pc EXCEPT !["http"] = "idle"]
        /\ UNCHANGED <<token_, writing, requests, session, cuts>>
    BY <1>4 DEF Connect
  <2>2. pc'["http"] = "idle" /\ pc'["ws"] = "idle"
    BY <2>1 DEF TypeOK, Workers
  <2>3. pushes = 0 /\ cuts = 0 /\ SigningIn = {}
    BY <1>0, <2>1 DEF SessionInv, Places, Idle, Workers
  <2>4. Granted' = Granted /\ SigningIn' = {} /\ Coming' = Coming
    BY <2>1, <2>2, <2>3 DEF Granted, SigningIn, Coming
  <2> QED BY <2>1, <2>2, <2>3, <2>4 DEF SessionInv
<1>5. CASE Tell
  <2>1. /\ ~doubt /\ pc["ws"] = "tell" /\ pc' = [pc EXCEPT !["ws"] = "idle"]
        /\ UNCHANGED <<token_, writing, pushes, requests, session, cuts>>
    BY <1>5 DEF Tell
  <2>2. pc'["ws"] = "idle" /\ pc'["http"] = pc["http"]
    BY <2>1 DEF TypeOK, Workers
  <2>3. session = Empty /\ pc["http"] = "idle" /\ Granted = {} /\ SigningIn = {}
    BY <2>1 DEF SessionInv, Idle, Workers
  <2>4. Granted' = Granted /\ SigningIn' = {} /\ Coming' = Coming
    BY <2>1, <2>2, <2>3 DEF Granted, SigningIn, Coming
  <2> QED BY <2>1, <2>2, <2>3, <2>4 DEF SessionInv
<1>6. CASE Kick
  <2>1. /\ ~doubt /\ ~Changing /\ session' = Empty /\ pushes' = pushes + 1
        /\ UNCHANGED <<token_, pc, writing, requests, cuts>>
    BY <1>6 DEF Kick
  <2>2. pc["http"] = "idle" /\ SigningIn = {} /\ Granted = {}
    BY <2>1 DEF Changing, Idle, Workers, Granted
  <2>3. Granted' = {} /\ SigningIn' = {}
    BY <2>1, <2>2 DEF Granted, SigningIn
  <2>4. pushes' > 0 /\ Coming' = Empty
    BY <1>0, <2>1, <2>2 DEF Coming
  <2> QED BY <2>1, <2>2, <2>3, <2>4 DEF SessionInv
<1>7. ASSUME NEW r \in requests, ServerAccepts(r) PROVE SessionInv'
  <2>1. ~doubt
    BY <1>7 DEF ServerAccepts
  <2> QED BY <1>7, <2>1, AcceptKeepsSession
<1>8. ASSUME NEW r \in requests, ServerRefuses(r) \/ Lost(r) PROVE SessionInv'
  <2>1. /\ ~doubt /\ r.answer = "none" /\ Answered(r, "failed", Empty)
        /\ UNCHANGED <<token_, pc, writing, pushes, session, cuts>>
    <3>1. CASE ServerRefuses(r)
      BY <3>1 DEF ServerRefuses
    <3>2. CASE Lost(r)
      <4>1. /\ r.answer \in {"none", "ok"} /\ doubt' = (doubt \/ r.answer = "ok")
            /\ Answered(r, "failed", Empty)
            /\ UNCHANGED <<token_, pc, writing, pushes, session, cuts>>
        BY <3>2 DEF Lost
      <4> QED BY <4>1
    <3> QED BY <1>8, <3>1, <3>2
  <2> QED BY <2>1, FailedReplyKeepsSession
<1>9. ASSUME NEW r \in requests, OnFailure(r) PROVE SessionInv'
  <2>1. /\ ~doubt /\ r.answer = "failed" /\ requests' = requests \ {r}
        /\ UNCHANGED <<token_, pc, writing, pushes, session, cuts>>
    BY <1>9 DEF OnFailure
  <2>2. Granted' = Granted /\ Coming' = Coming
    BY <2>1 DEF Granted, Coming
  <2>3. ASSUME NEW q \in SigningIn' PROVE FALSE
    <3>1. q \in SigningIn /\ q # r
      BY <2>1, <2>3 DEF SigningIn
    <3>2. requests = {q}
      BY <2>1, <3>1 DEF SessionInv
    <3> QED BY <3>1, <3>2
  <2> QED BY <2>1, <2>2, <2>3 DEF SessionInv
<1>10. ASSUME NEW r \in requests, OnAnswer(r) PROVE SessionInv'
  BY <1>10, AnswerKeepsSession
<1>11. CASE ForceLogout
  <2>1. /\ ~doubt /\ pushes > 0 /\ BeginWrite("ws", Empty)
        /\ UNCHANGED <<token_, requests, session, cuts>>
    BY <1>11 DEF ForceLogout
  <2>2. pc'["ws"] = "token" /\ pc'["http"] = pc["http"]
    BY <2>1 DEF BeginWrite, TypeOK, Workers
  <2>3. session = Empty /\ pc["http"] = "idle" /\ Granted = {} /\ SigningIn = {}
    BY <2>1 DEF SessionInv
  <2>4. Granted' = {} /\ SigningIn' = {} /\ Coming' = Empty
    BY <2>1, <2>2, <2>3 DEF Granted, SigningIn, Coming
  <2> QED BY <2>1, <2>2, <2>3, <2>4 DEF SessionInv
<1>12. ASSUME NEW t \in Workers, SetToken(t) \/ SetMeta(t) \/ SetHeader(t) PROVE SessionInv'
  <2>1. ~doubt
    BY <1>12 DEF SetToken, SetMeta, SetHeader, AfterWrite
  <2> QED BY <1>12, <2>1, PlaceKeepsSession
<1>13. CASE Restart
  <2>1. ~doubt /\ ~Changing /\ ~overlapped
    BY <1>13 DEF Restart
  <2>2. Idle /\ pushes = 0 /\ Granted = {} /\ ~Writing
    BY <1>0, <2>1 DEF Changing, Granted, Idle, Writing, Places
  <2>3. cuts = 0 /\ session = token_.access
    BY <2>1, <2>2 DEF SessionInv, Coming, Idle, Workers, Places
  <2>4. token_ = metadata
    BY <2>1, <2>2, <2>3 DEF WriteInv
  <2>5. Restored.access = metadata.access
    BY DEF Restored, Whole
  <2>6. /\ token_'.access = session' /\ session' = session /\ requests' = {} /\ pushes' = 0
        /\ cuts' = 0 /\ pc'["http"] = "idle" /\ pc'["ws"] = "idle"
    BY <1>13, <2>2, <2>3, <2>4, <2>5 DEF Restart, TypeOK, Workers
  <2>7. Granted' = {} /\ SigningIn' = {} /\ Coming' = session'
    BY <2>6 DEF Granted, SigningIn, Coming
  <2> QED BY <2>6, <2>7 DEF SessionInv
<1> QED BY <1>1, <1>2, <1>3, <1>4, <1>5, <1>6, <1>7, <1>8, <1>9, <1>10, <1>11, <1>12,
        <1>13, NextKinds DEF Elsewhere

\* They hold at first: there is no session.
LEMMA InitSession == Init => AloneInv /\ SessionInv
BY DEF Init, AloneInv, SessionInv, Granted, SigningIn, Coming, Workers, Whole

\* When nothing is under way the client and the server agree on the session, though
\* refreshes, logouts and force_logout overlapped, requests were lost, and the process
\* died; an answer or push that was lost, or a login that had something beside it,
\* parts them until the next call that runs by itself succeeds.
THEOREM SessionsAgree == Spec => []SameSession
<1>1. SessionInv => SameSession
  BY DEF SessionInv, SameSession, Quiet, Idle, Workers, Granted, Coming
<1>2. Init => WriteInv /\ FreshInv /\ AloneInv /\ SessionInv
  BY InitWrite, InitFresh, InitSession
<1>3. /\ TypeOK /\ WriteInv /\ FreshInv /\ AloneInv /\ SessionInv /\ [Next]_vars
         => WriteInv' /\ FreshInv' /\ AloneInv' /\ SessionInv'
  BY WriteStep, FreshStep, AloneStep, SessionStep
<1> QED BY <1>1, <1>2, <1>3, TypeCorrect, PTL DEF Spec

-----------------------------------------------------------------------------
(* ExpiryInv is inductive. *)

\* A call: a refresh is sent with no other beside it, a login starts afresh.
LEMMA CallKeepsExpiry ==
  ASSUME TypeOK, ExpiryInv, NEW k \in Kinds, NEW p \in Held, Called(k, p), ~raced'
  PROVE  ExpiryInv'
<1>1. PICK r : /\ requests' = requests \cup {r} /\ r.kind = k /\ r.presented = p
               /\ r.answer = "none"
  BY Queued DEF Called
<1>2. UNCHANGED <<token_, writing, session>> /\ pc'["http"] = pc["http"]
  BY DEF Called, Send
<1>3. CASE k = "logout"
  <2>1. ~raced /\ told' = told
    BY <1>3 DEF Called
  <2>2. Granting' = Granting
    BY <1>1, <1>3 DEF Granting
  <2> QED
    BY <1>1, <1>2, <1>3, <2>1, <2>2 DEF ExpiryInv, Unrivalled, NothingUsable, Useless
<1>4. CASE k \in {"clientLogin", "login"}
  <2>1. told' = {} /\ \A q \in requests : q.kind # "ensure"
    BY <1>4 DEF Called
  <2> QED BY <1>1, <1>4, <2>1 DEF ExpiryInv
<1>5. CASE k \in {"refresh", "ensure"}
  <2>1. /\ ~raced /\ Granting = {} /\ pc["http"] # "token"
        /\ p = token_.refresh /\ told' = told
    BY <1>5 DEF Called, Arriving
  <2>2. Granting' = {r} /\ \A q \in requests : q.kind # "ensure"
    BY <1>1, <1>5, <2>1 DEF Granting
  <2>3. ASSUME NEW q \in requests', q.kind = "ensure" PROVE Unrivalled(q)'
    <3>1. q = r
      BY <1>1, <2>2, <2>3
    <3> QED BY <1>1, <1>2, <2>1, <2>2, <3>1 DEF Unrivalled
  <2>4. "expired" \in told' => NothingUsable'
    BY <1>1, <1>2, <1>5, <2>1, <2>2 DEF ExpiryInv, NothingUsable, Useless
  <2> QED BY <2>3, <2>4 DEF ExpiryInv
<1> QED BY <1>3, <1>4, <1>5 DEF Kinds

\* The server answers a request: a refresh that has no rival gets the session, unless it
\* is over; nothing else can.
LEMMA AcceptKeepsExpiry ==
  ASSUME TypeOK, FreshInv, ExpiryInv, ~raced, NEW r \in requests, ServerAccepts(r)
  PROVE  ExpiryInv'
<1>1. /\ r.answer = "none" /\ Accepts(r) /\ Answered(r, "ok", session')
      /\ session' = IF r.kind = "logout" THEN Empty ELSE r.id
      /\ UNCHANGED <<token_, pc, writing, told>>
  BY DEF ServerAccepts
<1>2. PICK s : /\ requests' = (requests \ {r}) \cup {s} /\ s.id = r.id
               /\ s.kind = r.kind /\ s.presented = r.presented /\ s.answer = "ok"
  BY <1>1, Replied
<1>3. r.kind # "logout" => r \in Granting
  BY DEF Granting
<1>4. ASSUME NEW q \in requests', q.kind = "ensure" PROVE Unrivalled(q)'
  <2>1. CASE q = s
    <3>1. Granting = {r} /\ Unrivalled(r)
      BY <1>2, <1>4, <2>1 DEF ExpiryInv, Unrivalled
    <3>2. Granting' = {s}
      BY <1>2, <1>4, <2>1, <3>1 DEF Granting
    <3> QED BY <1>1, <1>2, <1>4, <2>1, <3>1, <3>2 DEF Unrivalled
  <2>2. CASE q # s
    <3>1. q \in requests /\ q # r /\ Unrivalled(q) /\ Granting = {q}
      BY <1>2, <1>4, <2>2 DEF ExpiryInv, Unrivalled
    <3>2. r.kind = "logout"
      BY <1>3, <3>1
    <3>3. Granting' = {q} /\ session' = Empty
      BY <1>1, <1>2, <3>1, <3>2 DEF Granting
    <3> QED BY <1>1, <3>1, <3>3 DEF Unrivalled, Useless
  <2> QED BY <2>1, <2>2
<1>5. ASSUME "expired" \in told' PROVE NothingUsable'
  <2>1. NothingUsable
    BY <1>1, <1>5 DEF ExpiryInv
  <2>2. r.kind = "logout"
    BY <1>1, <1>3, <2>1 DEF NothingUsable, Accepts, Useless
  <2>3. Granting' = Granting /\ session' = Empty
    BY <1>1, <1>2, <2>2 DEF Granting
  <2> QED BY <1>1, <2>1, <2>3 DEF NothingUsable, Useless
<1> QED BY <1>4, <1>5 DEF ExpiryInv

\* A refresh that is refused shows that the session is over; one whose answer is lost
\* leaves the server with a grant that the client never sees.
LEMMA FailedReplyKeepsExpiry ==
  ASSUME TypeOK, FreshInv, ExpiryInv, NEW r \in requests, ServerRefuses(r) \/ Lost(r), ~raced'
  PROVE  ExpiryInv'
<1>1. /\ ~raced /\ Answered(r, "failed", Empty)
      /\ UNCHANGED <<token_, pc, writing, told, session>>
  <2>1. CASE ServerRefuses(r)
    BY <2>1 DEF ServerRefuses
  <2>2. CASE Lost(r)
    <3>1. raced' = (raced \/ (r.kind = "ensure" /\ r.answer = "none"))
      BY <2>2 DEF Lost
    <3>2. ~raced
      BY <3>1
    <3> QED BY <2>2, <3>2 DEF Lost
  <2> QED BY <2>1, <2>2
<1>2. PICK s : /\ requests' = (requests \ {r}) \cup {s} /\ s.id = r.id
               /\ s.kind = r.kind /\ s.presented = r.presented /\ s.answer = "failed"
  BY <1>1, Replied
<1>3. ASSUME NEW q \in requests', q.kind = "ensure" PROVE Unrivalled(q)'
  <2>1. CASE q = s
    <3>1. Granting = {r} /\ Unrivalled(r) /\ r.kind = "ensure"
      BY <1>1, <1>2, <1>3, <2>1 DEF ExpiryInv, Unrivalled
    <3>2. Granting' = {s}
      BY <1>2, <1>3, <2>1, <3>1 DEF Granting
    <3>3. Useless(token_.refresh)
      <4>1. CASE ServerRefuses(r)
        <5>1. session = Empty \/ r.presented # session
          BY <3>1, <4>1 DEF ServerRefuses, Accepts
        <5> QED BY <3>1, <5>1 DEF Unrivalled, Useless
      <4>2. CASE Lost(r)
        <5>1. r.answer = "ok"
          <6>1. /\ raced' = (raced \/ (r.kind = "ensure" /\ r.answer = "none"))
                /\ r.answer \in {"none", "ok"}
            BY <4>2 DEF Lost
          <6> QED BY <3>1, <6>1
        <5>3. session \in {Empty, r.id}
          BY <3>1, <5>1 DEF Unrivalled
        <5>2. token_.refresh # r.id
          BY DEF FreshInv, Unheld, Known
        <5> QED BY <5>2, <5>3 DEF Useless
      <4> QED BY <4>1, <4>2
    <3> QED BY <1>1, <1>2, <2>1, <3>1, <3>2, <3>3 DEF Unrivalled, Useless
  <2>2. CASE q # s
    <3>1. q \in requests /\ q # r /\ Unrivalled(q) /\ Granting = {q}
      BY <1>1, <1>2, <1>3, <2>2 DEF ExpiryInv, Unrivalled
    <3>2. Granting' = {q}
      BY <1>2, <3>1 DEF Granting
    <3> QED BY <1>1, <3>1, <3>2 DEF Unrivalled, Useless
  <2> QED BY <2>1, <2>2
<1>4. ASSUME "expired" \in told' PROVE NothingUsable'
  <2>1. NothingUsable
    BY <1>1, <1>4 DEF ExpiryInv
  <2>2. ASSUME NEW q \in Granting'
        PROVE  q.kind \in {"refresh", "ensure"} /\ q.answer # "ok" /\ Useless(q.presented)'
    <3>1. CASE q = s
      <4>1. r \in Granting
        BY <1>2, <2>2, <3>1 DEF Granting
      <4> QED BY <1>1, <1>2, <2>1, <3>1, <4>1 DEF NothingUsable, Useless
    <3>2. CASE q # s
      <4>1. q \in Granting
        BY <1>2, <2>2, <3>2 DEF Granting
      <4> QED BY <1>1, <2>1, <4>1 DEF NothingUsable, Useless
    <3> QED BY <3>1, <3>2
  <2> QED BY <1>1, <2>1, <2>2 DEF NothingUsable, Useless
<1> QED BY <1>3, <1>4 DEF ExpiryInv

\* The worker takes up an answer.  Beside a refresh that has no rival it can only be
\* that of a logout, and so it can once the session is over.
LEMMA AnswerKeepsExpiry ==
  ASSUME TypeOK, FreshInv, ExpiryInv, ~raced, NEW r \in requests, OnAnswer(r)
  PROVE  ExpiryInv'
<1>1. /\ r.answer = "ok" /\ requests' = requests \ {r} /\ BeginWrite("http", r.grant)
      /\ UNCHANGED <<token_, told, session>>
  BY DEF OnAnswer
<1>2. writing'["http"] = r.grant
  BY <1>1 DEF BeginWrite, TypeOK, Workers
<1>3. r.kind = "logout" => r.grant = Empty
  BY DEF FreshInv, Unasked
<1>4. r.kind # "logout" => r \in Granting
  BY DEF Granting
<1>5. ASSUME NEW q \in requests', q.kind = "ensure" PROVE Unrivalled(q)'
  <2>1. q \in requests /\ q # r /\ Unrivalled(q) /\ Granting = {q}
    BY <1>1, <1>5 DEF ExpiryInv, Unrivalled
  <2>2. r.grant = Empty
    BY <1>3, <1>4, <2>1
  <2>3. Granting' = {q}
    BY <1>1, <2>1 DEF Granting
  <2> QED BY <1>1, <1>2, <2>1, <2>2, <2>3 DEF Unrivalled, Useless
<1>6. ASSUME "expired" \in told' PROVE NothingUsable'
  <2>1. NothingUsable
    BY <1>1, <1>6 DEF ExpiryInv
  <2>2. r.grant = Empty
    BY <1>1, <1>3, <1>4, <2>1 DEF NothingUsable
  <2>3. Granting' \subseteq Granting
    BY <1>1 DEF Granting
  <2> QED BY <1>1, <1>2, <2>1, <2>2, <2>3 DEF NothingUsable, Useless
<1> QED BY <1>5, <1>6 DEF ExpiryInv

\* Every step keeps ExpiryInv.
LEMMA ExpiryStep == TypeOK /\ FreshInv /\ ExpiryInv /\ [Next]_vars => ExpiryInv'
<1> SUFFICES ASSUME TypeOK, FreshInv, ExpiryInv, [Next]_vars, ~raced' PROVE ExpiryInv'
  BY DEF ExpiryInv
<1>1. ASSUME NEW k \in Kinds, NEW p \in Held, Called(k, p) PROVE ExpiryInv'
  BY <1>1, CallKeepsExpiry
<1>2. CASE FoundExpired
  <2>1. /\ token_.refresh = Empty /\ Granting = {} /\ pc["http"] # "token"
        /\ UNCHANGED <<token_, pc, writing, requests, session>>
    BY <1>2 DEF FoundExpired, Arriving
  <2>2. Granting' = {} /\ \A r \in requests' : r.kind # "ensure"
    BY <2>1 DEF Granting
  <2> QED BY <2>1, <2>2 DEF ExpiryInv, NothingUsable, Useless
<1>3. CASE Elsewhere
  <2>1. /\ ~raced /\ told' \subseteq told \cup {"forced"}
        /\ UNCHANGED <<token_, writing, requests, session>>
    BY <1>3 DEF Elsewhere, ClientLogout, PushLost, Connect, Tell, vars
  <2>2. pc'["http"] = "token" => pc["http"] = "token"
    BY <1>3 DEF Elsewhere, ClientLogout, PushLost, Connect, Tell, vars, TypeOK, Workers
  <2>3. Granting' = Granting
    BY <2>1 DEF Granting
  <2> QED BY <2>1, <2>2, <2>3 DEF ExpiryInv, Unrivalled, NothingUsable, Useless
<1>4. CASE Kick
  <2>1. /\ ~raced /\ session' = Empty
        /\ UNCHANGED <<token_, pc, writing, requests, told>>
    BY <1>4 DEF Kick
  <2>2. Granting' = Granting
    BY <2>1 DEF Granting
  <2> QED BY <2>1, <2>2 DEF ExpiryInv, Unrivalled, NothingUsable, Useless
<1>5. ASSUME NEW r \in requests, ServerAccepts(r) PROVE ExpiryInv'
  <2>1. ~raced
    BY <1>5 DEF ServerAccepts
  <2> QED BY <1>5, <2>1, AcceptKeepsExpiry
<1>6. ASSUME NEW r \in requests, ServerRefuses(r) \/ Lost(r) PROVE ExpiryInv'
  BY <1>6, FailedReplyKeepsExpiry
<1>7. ASSUME NEW r \in requests, OnFailure(r) PROVE ExpiryInv'
  <2>1. /\ ~raced /\ r.answer = "failed" /\ pc["http"] = "idle"
        /\ requests' = requests \ {r}
        /\ told' = IF r.kind = "ensure" THEN told \cup {"expired"} ELSE told
        /\ UNCHANGED <<token_, pc, writing, session>>
    BY <1>7 DEF OnFailure
  <2>2. Granting' = Granting \ {r}
    BY <2>1 DEF Granting
  <2>3. CASE r.kind = "ensure"
    <3>1. Granting = {r} /\ Useless(token_.refresh)
      BY <2>1, <2>3 DEF ExpiryInv, Unrivalled
    <3>2. Granting' = {} /\ \A q \in requests' : q.kind # "ensure"
      BY <2>1, <2>2, <3>1 DEF Granting
    <3> QED BY <2>1, <3>1, <3>2 DEF ExpiryInv, NothingUsable, Useless
  <2>4. CASE r.kind # "ensure"
    <3>1. ASSUME NEW q \in requests', q.kind = "ensure" PROVE Unrivalled(q)'
      <4>1. q \in requests /\ q # r /\ Unrivalled(q) /\ Granting = {q}
        BY <2>1, <3>1 DEF ExpiryInv, Unrivalled
      <4>2. Granting' = {q}
        BY <2>2, <4>1
      <4> QED BY <2>1, <4>1, <4>2 DEF Unrivalled, Useless
    <3>2. "expired" \in told' => NothingUsable'
      BY <2>1, <2>2, <2>4 DEF ExpiryInv, NothingUsable, Useless
    <3> QED BY <3>1, <3>2 DEF ExpiryInv
  <2> QED BY <2>3, <2>4
<1>8. ASSUME NEW r \in requests, OnAnswer(r) PROVE ExpiryInv'
  <2>1. ~raced
    BY <1>8 DEF OnAnswer
  <2> QED BY <1>8, <2>1, AnswerKeepsExpiry
<1>9. CASE ForceLogout
  <2>1. /\ ~raced /\ BeginWrite("ws", Empty)
        /\ UNCHANGED <<token_, requests, session, told>>
    BY <1>9 DEF ForceLogout
  <2>2. pc'["http"] = pc["http"] /\ writing'["http"] = writing["http"]
    BY <2>1 DEF BeginWrite, TypeOK, Workers
  <2>3. Granting' = Granting
    BY <2>1 DEF Granting
  <2> QED BY <2>1, <2>2, <2>3 DEF ExpiryInv, Unrivalled, NothingUsable, Useless
<1>10. ASSUME NEW t \in Workers, SetToken(t) \/ SetMeta(t) \/ SetHeader(t) PROVE ExpiryInv'
  <2>1. ~raced /\ UNCHANGED <<writing, requests, session, told>>
    BY <1>10 DEF SetToken, SetMeta, SetHeader, AfterWrite
  <2>2. Granting' = Granting
    BY <2>1 DEF Granting
  <2>3. pc'["http"] = "token" => pc["http"] = "token"
    <3>1. /\ pc[t] \in Places /\ pc'[t] = After(t, pc[t])
          /\ \A u \in Workers : u # t => pc'[u] = pc[u]
      BY <1>10 DEF SetToken, SetMeta, SetHeader, Advance, TypeOK, Places
    <3>2. pc'[t] # "token"
      BY <3>1 DEF Places, After
    <3> QED BY <3>1, <3>2 DEF Workers
  <2>4. \/ token_' = token_
        \/ pc["http"] = "token" /\ token_'.refresh = writing["http"]
        \/ token_'.refresh = Empty
    BY <1>10 DEF SetToken, SetMeta, SetHeader, Workers, Whole, FreshInv
  <2> QED BY <2>1, <2>2, <2>3, <2>4 DEF ExpiryInv, Unrivalled, NothingUsable, Useless
<1>11. CASE Restart
  BY <1>11 DEF Restart, ExpiryInv
<1> QED BY <1>1, <1>2, <1>3, <1>4, <1>5, <1>6, <1>7, <1>8, <1>9, <1>10, <1>11, NextKinds

\* It holds at first: nothing was asked, and nothing told.
LEMMA InitExpiry == Init => ExpiryInv
BY DEF Init, ExpiryInv

\* ensureValidToken reports an expired session only when the client's refresh token is
\* no longer the server's, whichever answers are lost, refused or late and whatever the
\* other worker, a logout or a crash does meanwhile, unless another grant was under way
\* beside its refresh or the refresh never reached the server.
THEOREM ExpiryIsReal == Spec => []ExpiredMeansOver
<1>1. ExpiryInv => ExpiredMeansOver
  BY DEF ExpiryInv, NothingUsable, Useless, ExpiredMeansOver
<1>2. Init => FreshInv /\ ExpiryInv
  BY InitFresh, InitExpiry
<1>3. TypeOK /\ FreshInv /\ ExpiryInv /\ [Next]_vars => FreshInv' /\ ExpiryInv'
  BY FreshStep, ExpiryStep
<1> QED BY <1>1, <1>2, <1>3, TypeCorrect, PTL DEF Spec

=============================================================================
