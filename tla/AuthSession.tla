---------------------------- MODULE AuthSession ----------------------------
(***************************************************************************)
(* AuthManagerImpl (auth_manager.cpp) over HttpClient and the metadata     *)
(* table: the session's credentials are kept in memory (token_), in three  *)
(* rows of metadata and in the header of every request (auth_token), and   *)
(* two threads write them: the HTTP worker, which handles the answers to   *)
(* login, register, refresh and logout, and the WebSocket worker, which    *)
(* handles auth.force_logout.                                              *)
(*                                                                         *)
(* A grant is one access token, refresh token and expiry that the server   *)
(* issued together.  A credential is named by its grant, a grant by the    *)
(* request it answers, and Empty is the empty string (or expiry 0).        *)
(***************************************************************************)
EXTENDS Integers, FiniteSets

CONSTANTS
    MaxRequests,    \* bound: requests sent
    MaxKicks,       \* bound: sessions the server ends by auth.force_logout
    MaxRestarts     \* bound: times the process dies and starts again

ASSUME BoundsAssumption ==
    MaxRequests \in Nat /\ MaxKicks \in Nat /\ MaxRestarts \in Nat

Empty   == 0
Grants  == 1..MaxRequests
Held    == {Empty} \cup Grants
Workers == {"http", "ws"}
Kinds   == {"clientLogin", "login", "refresh", "ensure", "logout"}
Places  == {"token", "access", "refresh", "expires", "header"}
Points  == Places \cup {"idle", "connect", "tell", "logout"}

VARIABLES
    token_,         \* the credentials in memory
    metadata,       \* the rows auth.access_token, auth.refresh_token, auth.expires_at_ms
    auth_token,     \* HttpClient's bearer token
    pc,             \* where each thread is: what it does next, a Place if it writes one
    writing,        \* the grant each worker writes, Empty when it clears
    connecting,     \* the HTTP worker will open the WebSocket when it has stored the grant
    ws,             \* a WebSocket connection is open
    pushes,         \* auth.force_logout notifications on their way
    requests,       \* requests whose callback has not been called
    sent,           \* number of requests sent
    session,        \* external: the grant the server accepts, Empty if it accepts none
    told,           \* what onAuthExpired has told since the last login call
    kicks, restarts,
    overlapped,     \* history: the two workers have written at the same time
    cuts,           \* history: writes in a row that a crash has cut off
    alone,          \* history: the request sent last, if nothing was or is beside it
    doubt,          \* history: client and server may differ, until such a request is answered
    raced           \* history: a refresh of ensureValidToken had a rival, or never left

creds == <<token_, metadata, auth_token>>
busy  == <<pc, writing, connecting>>
net   == <<ws, pushes>>
outside == <<session, kicks>>
crash == <<restarts, overlapped, cuts>>
trust == <<alone, doubt, raced>>
vars  == <<creds, busy, net, requests, sent, outside, told, crash, trust>>

\* A token as storeToken keeps it: three credentials of one grant.
Whole(g) == [access |-> g, refresh |-> g, expires |-> g]

Init ==
    /\ token_ = Whole(Empty) /\ metadata = Whole(Empty) /\ auth_token = Empty
    /\ pc = [t \in Workers \cup {"app"} |-> "idle"]
    /\ writing = [t \in Workers |-> Empty]
    /\ connecting = FALSE
    /\ ws = FALSE /\ pushes = 0
    /\ requests = {} /\ sent = 0
    /\ session = Empty
    /\ told = {}
    /\ kicks = 0 /\ restarts = 0
    /\ overlapped = FALSE /\ cuts = 0
    /\ alone = Empty /\ doubt = FALSE /\ raced = FALSE

Idle    == \A t \in Workers : pc[t] = "idle"
Writing == \E t \in Workers : pc[t] \in Places
Quiet   == Idle /\ requests = {} /\ pushes = 0

\* Requests that the server may answer with a grant, and those that sign in.
Granting == {r \in requests : r.kind # "logout"}
SigningIn == {r \in requests : r.kind \in {"clientLogin", "login"}}

\* A grant is, or may soon be, on its way to memory.
Arriving == Granting # {} \/ pc["http"] = "token"

\* A change of the session is on its way to the client, or a login to the server.
Changing == ~Idle \/ pushes > 0 \/ SigningIn # {} \/ \E r \in requests : r.answer = "ok"

(***************************************************************************)
(* The application's calls.  Each only queues a request; the bearer token  *)
(* is the one the header holds then.                                       *)
(***************************************************************************)
Send(kind, presented) ==
    /\ sent < MaxRequests
    /\ sent' = sent + 1
    /\ requests' = requests \cup
           {[id |-> sent + 1, kind |-> kind, bearer |-> auth_token,
             presented |-> presented, answer |-> "none", grant |-> Empty]}
    /\ alone' = IF Quiet THEN sent + 1 ELSE Empty
    /\ doubt' = (doubt \/ SigningIn # {} \/ (kind \in {"clientLogin", "login"} /\ ~Quiet))
    /\ UNCHANGED <<creds, writing, connecting, net, outside, crash>>

\* From here on it counts what onAuthExpired tells; a refresh of the session before
\* may still be under way.
SignIn(kind) ==
    /\ Send(kind, Empty)
    /\ told' = {}
    /\ raced' = (\E r \in requests : r.kind = "ensure")
    /\ UNCHANGED pc

\* AnyChatClient::login opens the WebSocket when it succeeds; AuthManager's own
\* login and registerUser, which the C API calls directly, do not.
ClientLogin == SignIn("clientLogin")
Login == SignIn("login")
Register == SignIn("login")

\* The application presents the refresh token that currentToken() gave it.
RefreshToken ==
    /\ token_.refresh # Empty
    /\ Send("refresh", token_.refresh)
    /\ raced' = (raced \/ Arriving)
    /\ UNCHANGED <<pc, told>>

Logout == Send("logout", Empty) /\ UNCHANGED <<pc, told, raced>>

\* AnyChatClient::logout: disconnect(), which joins the WebSocket worker, then
\* AuthManager's logout.
ClientLogoutSends ==
    /\ pc["app"] = "logout"
    /\ Send("logout", Empty)
    /\ pc' = [pc EXCEPT !["app"] = "idle"]
    /\ UNCHANGED <<told, raced>>

ClientLogout ==
    /\ pc["app"] = "idle" /\ pc["ws"] = "idle"
    /\ pc' = [pc EXCEPT !["app"] = "logout"]
    /\ ws' = FALSE
    /\ pushes' = 0
    /\ doubt' = (doubt \/ pushes > 0)
    /\ UNCHANGED <<creds, writing, connecting, requests, sent, outside, told, crash, alone, raced>>

\* A faulty variant for a mutant: the check for an empty refresh token is gone.
EnsureBlindly ==
    Send("ensure", token_.refresh) /\ raced' = (raced \/ Arriving) /\ UNCHANGED <<pc, told>>

\* A token that is still fresh changes nothing; this one is not, or no longer.
EnsureValidToken ==
    /\ raced' = (raced \/ Arriving)
    /\ \/ /\ token_.refresh # Empty
          /\ Send("ensure", token_.refresh)
          /\ UNCHANGED <<pc, told>>
       \/ /\ token_.refresh = Empty
          /\ told' = told \cup {"expired"}
          /\ UNCHANGED <<creds, busy, net, requests, sent, outside, crash, alone, doubt>>

(***************************************************************************)
(* The server (external).  It keeps one grant for this device, accepts its *)
(* refresh token once, and may end the session by a push.                  *)
(***************************************************************************)
Accepts(r) ==
    CASE r.kind \in {"refresh", "ensure"} -> session # Empty /\ r.presented = session
      [] r.kind = "logout" -> session # Empty /\ r.bearer = session
      [] OTHER -> TRUE

Answered(r, answer, g) ==
    requests' = (requests \ {r}) \cup {[r EXCEPT !.answer = answer, !.grant = g]}

ServerAccepts(r) ==
    /\ r.answer = "none" /\ Accepts(r)
    /\ session' = IF r.kind = "logout" THEN Empty ELSE r.id
    /\ Answered(r, "ok", session')
    /\ UNCHANGED <<creds, busy, net, sent, kicks, told, crash, trust>>

\* A login may be refused at any time (a wrong password).
ServerRefuses(r) ==
    /\ r.answer = "none"
    /\ r.kind \in {"clientLogin", "login"} \/ ~Accepts(r)
    /\ Answered(r, "failed", Empty)
    /\ UNCHANGED <<creds, busy, net, sent, outside, told, crash, trust>>

\* The request or its answer is lost, times out, or cannot be read.
Lost(r) ==
    /\ r.answer \in {"none", "ok"}
    /\ Answered(r, "failed", Empty)
    /\ doubt' = (doubt \/ r.answer = "ok")
    /\ raced' = (raced \/ (r.kind = "ensure" /\ r.answer = "none"))
    /\ UNCHANGED <<creds, busy, net, sent, outside, told, crash, alone>>

Kick ==
    /\ ws /\ session # Empty /\ kicks < MaxKicks
    /\ kicks' = kicks + 1
    /\ session' = Empty
    /\ pushes' = pushes + 1
    /\ alone' = Empty
    /\ doubt' = (doubt \/ Changing)
    /\ UNCHANGED <<creds, busy, ws, requests, sent, told, crash, raced>>

\* The connection drops with the push; ConnectionManager opens another one.
PushLost ==
    /\ pushes > 0
    /\ pushes' = 0
    /\ doubt' = TRUE
    /\ UNCHANGED <<creds, busy, ws, requests, sent, outside, told, crash, alone, raced>>

(***************************************************************************)
(* The two workers.  storeToken and clearToken write memory and then the   *)
(* three rows, one setMeta each; the header follows.                       *)
(***************************************************************************)
BeginWrite(t, g) ==
    /\ pc' = [pc EXCEPT ![t] = "token"]
    /\ writing' = [writing EXCEPT ![t] = g]
    /\ overlapped' = (overlapped \/ Writing)

\* A faulty variant for a mutant: any failed request counts as an expired session.
OnFailureExpires(r) ==
    /\ pc["http"] = "idle" /\ r.answer = "failed"
    /\ requests' = requests \ {r}
    /\ told' = told \cup {"expired"}
    /\ UNCHANGED <<creds, busy, net, sent, outside, crash, trust>>

\* The HTTP worker calls one callback at a time, in any order of the answers.
OnFailure(r) ==
    /\ pc["http"] = "idle" /\ r.answer = "failed"
    /\ requests' = requests \ {r}
    /\ told' = IF r.kind = "ensure" THEN told \cup {"expired"} ELSE told
    /\ UNCHANGED <<creds, busy, net, sent, outside, crash, trust>>

\* A faulty variant for a mutant: a refreshed token is not stored.
OnAnswerForgets(r) ==
    /\ pc["http"] = "idle" /\ r.answer = "ok"
    /\ requests' = requests \ {r}
    /\ IF r.kind \in {"refresh", "ensure"}
       THEN UNCHANGED <<busy, overlapped>>
       ELSE BeginWrite("http", r.grant) /\ connecting' = (r.kind = "clientLogin")
    /\ doubt' = (doubt /\ r.id # alone)
    /\ UNCHANGED <<creds, net, sent, outside, told, restarts, cuts, alone, raced>>

OnAnswer(r) ==
    /\ pc["http"] = "idle" /\ r.answer = "ok"
    /\ requests' = requests \ {r}
    /\ BeginWrite("http", r.grant)
    /\ connecting' = (r.kind = "clientLogin")
    /\ doubt' = (doubt /\ r.id # alone)
    /\ UNCHANGED <<creds, net, sent, outside, told, restarts, cuts, alone, raced>>

\* handleAuthNotification, for this device or for none named.
ForceLogout ==
    /\ pushes > 0 /\ pc["ws"] = "idle"
    /\ pushes' = pushes - 1
    /\ BeginWrite("ws", Empty)
    /\ UNCHANGED <<creds, connecting, ws, requests, sent, outside, told, restarts, cuts, trust>>

\* A faulty variant for a mutant: the header is not written.
AfterNoHeader(t, p) ==
    CASE p = "token"   -> "access"
      [] p = "access"  -> "refresh"
      [] p = "refresh" -> "expires"
      [] OTHER -> IF t = "ws" THEN "tell" ELSE IF connecting THEN "connect" ELSE "idle"

\* The place a worker writes after place p.
After(t, p) ==
    CASE p = "token"   -> "access"
      [] p = "access"  -> "refresh"
      [] p = "refresh" -> "expires"
      [] p = "expires" -> "header"
      [] p = "header"  -> IF t = "ws" THEN "tell"
                          ELSE IF connecting THEN "connect" ELSE "idle"

Advance(t) == pc' = [pc EXCEPT ![t] = After(t, pc[t])]
AfterWrite == <<writing, connecting, net, requests, sent, outside, told, restarts, overlapped, trust>>

SetToken(t) ==
    /\ pc[t] = "token"
    /\ token_' = Whole(writing[t])
    /\ Advance(t)
    /\ UNCHANGED <<metadata, auth_token, cuts, AfterWrite>>

\* A faulty variant for a mutant: the expiry is stored before the refresh token.
SetMetaExpiryFirst(t) ==
    LET row == [access |-> "access", refresh |-> "expires", expires |-> "refresh"]
    IN  /\ pc[t] \in {"access", "refresh", "expires"}
        /\ metadata' = [metadata EXCEPT ![row[pc[t]]] = writing[t]]
        /\ Advance(t)
        /\ UNCHANGED <<token_, auth_token, cuts, AfterWrite>>

SetMeta(t) ==
    /\ pc[t] \in {"access", "refresh", "expires"}
    /\ metadata' = [metadata EXCEPT ![pc[t]] = writing[t]]
    /\ Advance(t)
    /\ UNCHANGED <<token_, auth_token, cuts, AfterWrite>>

SetHeader(t) ==
    /\ pc[t] = "header"
    /\ auth_token' = writing[t]
    /\ cuts' = 0
    /\ Advance(t)
    /\ UNCHANGED <<token_, metadata, AfterWrite>>

\* login's success handler: the old connection's worker is joined, a new one opens.
Connect ==
    /\ pc["http"] = "connect" /\ pc["ws"] = "idle"
    /\ pc' = [pc EXCEPT !["http"] = "idle"]
    /\ ws' = TRUE
    /\ pushes' = 0
    /\ doubt' = (doubt \/ pushes > 0)
    /\ UNCHANGED <<creds, writing, connecting, requests, sent, outside, told, crash, alone, raced>>

\* onAuthExpired at the end of handleAuthNotification.
Tell ==
    /\ pc["ws"] = "tell"
    /\ pc' = [pc EXCEPT !["ws"] = "idle"]
    /\ told' = told \cup {"forced"}
    /\ UNCHANGED <<creds, writing, connecting, net, requests, sent, outside, crash, trust>>

\* The constructor takes up what metadata holds, if there is an access token.
Restored == IF metadata.access # Empty THEN metadata ELSE Whole(Empty)

\* The process dies, at any point, and starts again.
Restart ==
    /\ restarts < MaxRestarts
    /\ restarts' = restarts + 1
    /\ token_' = Restored
    /\ auth_token' = Restored.access
    /\ pc' = [t \in DOMAIN pc |-> "idle"]
    /\ writing' = [t \in Workers |-> Empty]
    /\ connecting' = FALSE
    /\ ws' = FALSE /\ pushes' = 0
    /\ requests' = {}
    /\ told' = {}
    /\ cuts' = IF Writing THEN cuts + 1 ELSE cuts
    /\ alone' = Empty
    /\ doubt' = (doubt \/ Changing \/ overlapped)
    /\ raced' = FALSE
    /\ UNCHANGED <<metadata, sent, outside, overlapped>>

Next ==
    \/ ClientLogin
    \/ Login
    \/ Register
    \/ RefreshToken
    \/ Logout
    \/ ClientLogout
    \/ ClientLogoutSends
    \/ EnsureValidToken
    \/ \E r \in requests :
          ServerAccepts(r) \/ ServerRefuses(r) \/ Lost(r) \/ OnFailure(r) \/ OnAnswer(r)
    \/ Kick
    \/ PushLost
    \/ ForceLogout
    \/ \E t \in Workers : SetToken(t) \/ SetMeta(t) \/ SetHeader(t)
    \/ Connect
    \/ Tell
    \/ Restart

Spec == Init /\ [][Next]_vars

-----------------------------------------------------------------------------
(***************************************************************************)
(* Properties.                                                             *)
(***************************************************************************)
Credentials == [access : Held, refresh : Held, expires : Held]
Requests == [id : Grants, kind : Kinds, bearer : Held, presented : Held,
             answer : {"none", "ok", "failed"}, grant : Held]

\* The shape of every variable; a request for a refresh presents a refresh token
\* (ensureValidToken and the application never send an empty one).
TypeOK ==
    /\ token_ \in Credentials /\ metadata \in Credentials /\ auth_token \in Held
    /\ pc \in [Workers \cup {"app"} -> Points] /\ pc["app"] \in {"idle", "logout"}
    /\ pc["http"] \in Places \cup {"idle", "connect"}
    /\ pc["ws"] \in Places \cup {"idle", "tell"}
    /\ writing \in [Workers -> Held] /\ connecting \in BOOLEAN
    /\ ws \in BOOLEAN /\ pushes \in 0..kicks
    /\ requests \subseteq Requests /\ sent \in 0..MaxRequests
    /\ \A r \in requests : r.kind \in {"refresh", "ensure"} => r.presented # Empty
    /\ session \in Held
    /\ told \subseteq {"expired", "forced"}
    /\ kicks \in 0..MaxKicks /\ restarts \in 0..MaxRestarts
    /\ overlapped \in BOOLEAN /\ cuts \in 0..restarts
    /\ alone \in Held /\ doubt \in BOOLEAN /\ raced \in BOOLEAN

\* While neither worker writes, memory, the three rows and the header hold one
\* grant, whole, or nothing: storeToken and setAuthToken, clearToken and
\* clearAuthToken keep them together, and so does a restart.  Only writes of the two
\* workers at once can part them, or a crash inside a write, until the next write.
Agreement ==
    ~Writing /\ ~overlapped /\ cuts = 0 =>
        /\ token_ = metadata
        /\ token_ = Whole(auth_token)

\* isLoggedIn(), as far as it does not depend on the clock.
LoggedIn(c) == c.access # Empty /\ c.expires # Empty

\* Whoever isLoggedIn() has a refresh token, though a crash between two of
\* storeToken's or clearToken's rows left the constructor an incomplete token: the
\* order of the rows ensures it.  A crash in each of two writes in a row is too much.
LoggedInCanRefresh == ~overlapped /\ cuts <= 1 /\ LoggedIn(token_) => token_.refresh # Empty

\* When nothing is under way, the client holds exactly the grant the server accepts,
\* or neither has a session, also after refreshes, logouts and auth.force_logout that
\* overlapped each other, or whose requests were lost on the way.  What can part the
\* two is an answer that is lost with its grant (auth_manager.cpp:532), a lost push, a
\* login with something beside it, and a push or a crash while a grant is on its way;
\* and that lasts only until the next call that runs by itself succeeds.
SameSession == Quiet /\ ~doubt => token_.access = session

\* ensureValidToken calls onAuthExpired only when the server has no session, or none
\* that the client's refresh token belongs to, also when answers are lost: the
\* application does not send a user with a good session to the login page.  It does
\* when another grant was under way beside the refresh, of which the server accepted
\* one, and when the refresh never reached the server (auth_manager.cpp:490).
ExpiredMeansOver ==
    ~raced /\ "expired" \in told => session = Empty \/ token_.refresh # session

\* Once auth.force_logout has been handled, and until the application calls login
\* again, the client holds no token but one the server has granted since
\* (architecture.md:284, test_auth.cpp:331).
ForcedOutStaysOut == "forced" \in told => token_.access \in {Empty, session}

=============================================================================
