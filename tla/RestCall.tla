------------------------------ MODULE RestCall ------------------------------
(***************************************************************************)
(* Calls of the managers' operations on their way to the server and back.  *)
(* A call is made on an application thread, in C++, through the C API or   *)
(* through a binding above it; the HttpClient's worker takes the requests  *)
(* up, and runs the handlers of their answers one after the other          *)
(* (network/http_client.cpp).  A handler ends the call, or makes its next  *)
(* request.  The server and the network are external: the server may do    *)
(* what a request asks and its answer still be lost.                       *)
(***************************************************************************)
EXTENDS Operation, Sequences, FiniteSets

CONSTANT Calls      \* the calls made, each of them once

ASSUME CallsAssumption == IsFiniteSet(Calls)

Auth          == INSTANCE AuthManager
Conversations == INSTANCE ConversationManager
Messages      == INSTANCE MessageManager
Friends       == INSTANCE FriendManager
Groups        == INSTANCE GroupManager
CallSessions  == INSTANCE CallManager
Files         == INSTANCE FileManager
Users         == INSTANCE UserManager
Versions      == INSTANCE VersionManager

Operations ==
    UNION { Auth!Operations, Conversations!Operations, Messages!Operations,
            Friends!Operations, Groups!Operations, CallSessions!Operations,
            Files!Operations, Users!Operations, Versions!Operations }

Entries ==
    UNION { Auth!Entries, Conversations!Entries, Messages!Entries,
            Friends!Entries, Groups!Entries, CallSessions!Entries,
            Files!Entries, Users!Entries, Versions!Entries }

Bound ==
    UNION { Auth!Bound, Conversations!Bound, Messages!Bound, Friends!Bound, Groups!Bound }

\* Callers without a binding: their callback, if there is one, tells them, and
\* a C function's code tells that it refused.
Cpp        == Binding({"tell"}, {})
CNoHandler == Binding({}, {"tell"})
CLayers ==
    { Auth!AuthC, Auth!ClientC, Conversations!ConversationC, Messages!MessageC, Friends!FriendC,
      Groups!GroupC, CallSessions!CallC, Files!FileC, Users!UserC, Versions!VersionC }
AndroidLayers == {Auth!AuthJni, Conversations!ConversationJni, Messages!MessageJni,
                  Friends!FriendJni, Groups!GroupJni}
Layers == {Cpp, CNoHandler} \cup CLayers \cup {via.layer : via \in Bound}

NoOp == [unused |-> TRUE]

VARIABLES
    phase,      \* per call
    op,         \* the operation it calls
    layer,      \* who called
    part,       \* the part of the operation that is asked for
    second,     \* whether the other way is being tried
    did,        \* whether the server did what the current request asks
    running,    \* the HttpClient's running
    times,      \* history: how often the server did each part
    locally,    \* history: answered by the device, or a frame was sent instead
    outcomes,   \* history: how the manager ended it
    valid,      \* history: whether the C function got all it looks for
    told,       \* how often the application was told
    kept        \* how much a binding keeps for it

request == <<op, layer, part, second, did>>
vars    == <<phase, request, running, times, locally, outcomes, valid, told, kept>>

Init ==
    /\ phase = [c \in Calls |-> "unmade"]
    /\ op = [c \in Calls |-> NoOp]
    /\ layer = [c \in Calls |-> Cpp]
    /\ part = [c \in Calls |-> 1]
    /\ second = [c \in Calls |-> FALSE]
    /\ did = [c \in Calls |-> FALSE]
    /\ running = TRUE
    /\ times = [c \in Calls |-> <<0, 0, 0>>]
    /\ locally = [c \in Calls |-> FALSE]
    /\ outcomes = [c \in Calls |-> <<>>]
    /\ valid = [c \in Calls |-> TRUE]
    /\ told = [c \in Calls |-> 0]
    /\ kept = [c \in Calls |-> 0]

(***************************************************************************)
(* Making a call.                                                          *)
(***************************************************************************)
Count(effects, what) == IF what \in effects THEN 1 ELSE 0

\* A faulty variant for a mutant: what the server did for the last part stays.
AskStale(c, p) ==
    /\ phase' = [phase EXCEPT ![c] = "pending"]
    /\ part' = [part EXCEPT ![c] = p]
    /\ UNCHANGED <<did, outcomes, told, kept>>

\* HttpClient::enqueue, for part p.
Ask(c, p) ==
    /\ phase' = [phase EXCEPT ![c] = "pending"]
    /\ part' = [part EXCEPT ![c] = p]
    /\ did' = [did EXCEPT ![c] = FALSE]
    /\ UNCHANGED <<outcomes, told, kept>>

\* What a layer may do at the end of a call.  Android's does nothing, and its
\* context stays, when its callback is null or it gets no JNIEnv.
Endings(by) == {by.ended} \cup (IF by \in AndroidLayers THEN {{}} ELSE {})

\* The manager calls on_success or on_error, and the layer does what it does.
EndWith(c, outcome, by) ==
    /\ phase' = [phase EXCEPT ![c] = "ended"]
    /\ outcomes' = [outcomes EXCEPT ![c] = Append(@, outcome)]
    /\ \E effects \in Endings(by) :
        /\ told' = [told EXCEPT ![c] = @ + Count(effects, "tell")]
        /\ kept' = [kept EXCEPT ![c] = @ - Count(effects, "free")]
    /\ UNCHANGED <<part, did>>

\* What a manager's method does before it returns.
Start(c, o, by) ==
    /\ op' = [op EXCEPT ![c] = o]
    /\ layer' = [layer EXCEPT ![c] = by]
    /\ \/ o.checked /\ EndWith(c, "error", by) /\ UNCHANGED locally
       \/ o.cached /\ EndWith(c, "success", by) /\ locally' = [locally EXCEPT ![c] = TRUE]
       \/ o.asks # "nothing" /\ Ask(c, 1) /\ UNCHANGED locally
    /\ UNCHANGED <<second, running, times>>

Unmade(c) == running /\ phase[c] = "unmade"

\* A call of a manager's method.
CppCall(c) == Unmade(c) /\ (\E o \in Operations : Start(c, o, Cpp)) /\ UNCHANGED valid

\* A faulty variant for a mutant: the application hears nothing of it.
RefuseSilently(c, by) ==
    /\ phase' = [phase EXCEPT ![c] = "refused"]
    /\ layer' = [layer EXCEPT ![c] = by]
    /\ UNCHANGED <<op, part, second, did, running, times, locally, outcomes, told, kept>>

\* What a layer does when the C function does not return ANYCHAT_OK.
Refuse(c, by) ==
    /\ phase' = [phase EXCEPT ![c] = "refused"]
    /\ layer' = [layer EXCEPT ![c] = by]
    /\ told' = [told EXCEPT ![c] = @ + Count(by.refused, "tell")]
    /\ kept' = [kept EXCEPT ![c] = @ - Count(by.refused, "free")]
    /\ UNCHANGED <<op, part, second, did, running, times, locally, outcomes>>

\* The tests a C function makes.  The last one refuses every callback
\* (validateCallbackStruct, or the same test in line).
Accepts(entry, given, proper, callback) ==
    /\ given = entry.needs
    /\ entry.picky => proper
    /\ ~callback

Through(c, entry, given, proper, callback, by) ==
    /\ IF Accepts(entry, given, proper, callback) THEN Start(c, entry.op, by) ELSE Refuse(c, by)
    /\ valid' = [valid EXCEPT ![c] = given = entry.needs /\ (entry.picky => proper)]

\* A call of a C function by the application.
CCall(c) ==
    /\ Unmade(c)
    /\ \E entry \in Entries, callback, proper \in BOOLEAN : \E given \in SUBSET entry.needs :
        \E by \in IF callback THEN CLayers ELSE {CNoHandler} :
            Through(c, entry, given, proper, callback, by)

\* A call through the Android or the web binding: first it makes what it keeps
\* for the call, then it calls the C function.
BindingKeeps(c) ==
    /\ Unmade(c)
    /\ \E via \in Bound :
        /\ op' = [op EXCEPT ![c] = via.entry]
        /\ layer' = [layer EXCEPT ![c] = via.layer]
    /\ phase' = [phase EXCEPT ![c] = "calling"]
    /\ kept' = [kept EXCEPT ![c] = 1]
    /\ UNCHANGED <<part, second, did, running, times, locally, outcomes, valid, told>>

BindingCalls(c) ==
    /\ phase[c] = "calling"
    /\ \E proper \in BOOLEAN : Through(c, op[c], op[c].needs, proper, TRUE, layer[c])

(***************************************************************************)
(* The HttpClient's worker, and the server.                                *)
(***************************************************************************)
\* At the top of its loop the worker takes up all that is pending.
Admit ==
    /\ running
    /\ \E c \in Calls : phase[c] = "pending"
    /\ phase' = [c \in Calls |-> IF phase[c] = "pending" THEN "active" ELSE phase[c]]
    /\ UNCHANGED <<request, running, times, locally, outcomes, valid, told, kept>>

\* The server, or the storage, does what the request asks (external).
Serve(c) ==
    /\ phase[c] = "active" /\ ~did[c]
    /\ did' = [did EXCEPT ![c] = TRUE]
    /\ times' = [times EXCEPT ![c][part[c]] = @ + 1]
    /\ UNCHANGED <<phase, op, layer, part, second, running, locally, outcomes, valid, told, kept>>

\* A faulty variant for a mutant: it is not noted that the other way was tried.
HandleAnswerAgain(c, a) ==
    /\ part[c] = op[c].parts
    /\ Truthful(a, did[c])
    /\ IF TriesAgain(op[c], a) /\ op[c].otherwise = "request" THEN Ask(c, 1)
       ELSE EndWith(c, IF Verdict(op[c], a) THEN "success" ELSE "error", layer[c])
    /\ UNCHANGED <<second, locally>>

\* The answer to an operation of one part, or to the last part of an upload,
\* ends the call, unless the operation has another way to try.
HandleAnswer(c, a) ==
    /\ part[c] = op[c].parts
    /\ Truthful(a, did[c])
    /\ \/ /\ ~second[c] /\ TriesAgain(op[c], a)
          /\ second' = [second EXCEPT ![c] = TRUE]
          /\ \/ op[c].otherwise = "request" /\ Ask(c, 1) /\ UNCHANGED locally
             \/ op[c].otherwise = "frame" /\ EndWith(c, "success", layer[c])
                                          /\ locally' = [locally EXCEPT ![c] = TRUE]
             \* the frame cannot be sent, or a body cannot be written
             \/ (op[c].otherwise = "frame" \/ op[c].rewrites) /\ EndWith(c, "error", layer[c])
                /\ UNCHANGED locally
       \/ /\ second[c] \/ ~TriesAgain(op[c], a)
          /\ EndWith(c, IF Verdict([op[c] EXCEPT !.field = @ /\ op[c].parts = 1], a)
                        THEN "success" ELSE "error", layer[c])
          /\ UNCHANGED <<second, locally>>

\* The token for an upload: its answer carries the URL for the next part.
HandleToken(c, a) ==
    /\ op[c].parts = 3 /\ part[c] = 1
    /\ Truthful(a, did[c])
    /\ IF Verdict(op[c], a) THEN Ask(c, 2) ELSE EndWith(c, "error", layer[c])
    /\ UNCHANGED <<second, locally>>

\* A faulty variant for a mutant: an error on the PUT ends the handler, not the call.
HandleStoredOrForget(c, a) ==
    /\ op[c].parts = 3 /\ part[c] = 2
    /\ StorageTruthful(a, did[c])
    /\ IF Stored(a) THEN Ask(c, 3)
       ELSE phase' = [phase EXCEPT ![c] = "forgotten"] /\ UNCHANGED <<part, did, outcomes, told, kept>>
    /\ UNCHANGED <<second, locally>>

\* The bytes are stored.  uploadClientLog may fail to write the next body.
HandleStored(c, a) ==
    /\ op[c].parts = 3 /\ part[c] = 2
    /\ StorageTruthful(a, did[c])
    /\ \/ Stored(a) /\ Ask(c, 3)
       \/ (~Stored(a) \/ op[c].rewrites) /\ EndWith(c, "error", layer[c])
    /\ UNCHANGED <<second, locally>>

\* The worker finds the transfer done, or out of its 30 seconds, and runs the
\* handler.
Finish(c) ==
    /\ running /\ phase[c] = "active"
    /\ \E a \in Answers : HandleToken(c, a) \/ HandleStored(c, a) \/ HandleAnswer(c, a)
    /\ UNCHANGED <<op, layer, running, times, valid>>

\* ~HttpClient::Impl joins the worker; what it had not finished is dropped.
Destroy ==
    /\ running /\ \A c \in Calls : phase[c] # "calling"    \* client.h:32
    /\ running' = FALSE
    /\ phase' = [c \in Calls |-> IF phase[c] \in {"pending", "active"} THEN "dropped" ELSE phase[c]]
    /\ UNCHANGED <<request, times, locally, outcomes, valid, told, kept>>

Next ==
    \/ \E c \in Calls : 
        \/ CppCall(c) \/ CCall(c) \/ BindingKeeps(c) \/ BindingCalls(c)
        \/ Serve(c) \/ Finish(c)
    \/ Admit
    \/ Destroy

\* The worker's loop goes on while it runs, and curl ends every transfer after
\* 30 seconds (CURLOPT_TIMEOUT_MS).
Fairness == WF_vars(Admit) /\ \A c \in Calls : WF_vars(Finish(c))

Spec == Init /\ [][Next]_vars /\ Fairness

(***************************************************************************)
(* Properties.                                                             *)
(***************************************************************************)
\* The types, and of requests only those that are under way have been served.
TypeOK ==
    /\ phase \in [Calls -> {"unmade", "calling", "pending", "active", "ended", "refused", "dropped"}]
    /\ op \in [Calls -> Operations \cup Entries \cup {NoOp}] /\ layer \in [Calls -> Layers]
    /\ part \in [Calls -> 1..3] /\ second \in [Calls -> BOOLEAN] /\ did \in [Calls -> BOOLEAN]
    /\ running \in BOOLEAN /\ locally \in [Calls -> BOOLEAN]
    /\ \A c \in Calls : times[c] \in [1..3 -> Nat] /\ Len(outcomes[c]) \in 0..1
    /\ valid \in [Calls -> BOOLEAN] /\ told \in [Calls -> 0..1] /\ kept \in [Calls -> 0..1]
    /\ \A c \in Calls : phase[c] = "pending" => ~did[c]

\* Whatever is lost, refused or sent twice on the way, an operation that ended
\* with success was done by the server in all its parts (or was answered by the
\* device, or went out as a frame).
SuccessMeansDone ==
    \A c \in Calls :
        outcomes[c] = <<"success">> /\ ~locally[c] => \A p \in 1..op[c].parts : times[c][p] > 0

\* No call is done twice: the second way is only taken when the first one was
\* not (getHistory, ackMessages, getDeviceList and logoutDevice ask again).
DoneAtMostOnce ==
    \A c \in Calls : \A p \in 1..3 : times[c][p] <= 1

\* An upload is only completed when the storage has the bytes, and these are
\* only put after a token was given.
UploadInOrder ==
    \A c \in Calls : \A p \in 2..3 : times[c][p] > 0 => times[c][p - 1] > 0

\* A layer keeps nothing for a call that is over, and has told the application
\* of it once; but Android's only logs a refusal, and a C caller may have given
\* no callback.
SettledWithCaller ==
    \A c \in Calls : phase[c] \in {"ended", "refused"} =>
        /\ kept[c] = 0
        /\ \/ told[c] = 1
           \/ phase[c] = "refused" /\ layer[c] \in AndroidLayers
           \/ phase[c] = "ended" /\ layer[c] = CNoHandler

\* docs/c_api_guide.md:189-190: a function returns ANYCHAT_OK when the request
\* was accepted, and completion then arrives through the callback provided.  So
\* one that got all it looks for, and a callback, does not refuse.
CallbackAccepted ==
    \A c \in Calls : valid[c] /\ layer[c] \in CLayers => phase[c] # "refused"

CallState(c) ==
    CASE phase[c] \in {"pending", "active"} -> "waiting"
      [] phase[c] = "calling" -> "unmade"
      [] OTHER -> phase[c]

Promise == INSTANCE Completion WITH state <- [c \in Calls |-> CallState(c)], open <- running

\* Every call is refused, or ends, once, or is dropped when the client is
\* destroyed.
ImplementsCompletion == Promise!Safety

\* None is forgotten: a call that was accepted ends.
CompletionProgress == Promise!Fairness
=============================================================================
