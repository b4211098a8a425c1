----------------------------- MODULE Completion -----------------------------
(***************************************************************************)
(* What a caller of the SDK's asynchronous functions is promised           *)
(* (docs/c_api_guide.md:183-190): a call is refused, or it ends, once; and *)
(* one that was accepted does end unless the client is destroyed first.    *)
(***************************************************************************)
CONSTANT Calls
VARIABLES state, open

vars == <<state, open>>

Init == state = [c \in Calls |-> "unmade"] /\ open = TRUE

Refuse(c) == open /\ state[c] = "unmade" /\ state' = [state EXCEPT ![c] = "refused"]
Accept(c) == open /\ state[c] = "unmade" /\ state' = [state EXCEPT ![c] = "waiting"]
EndAtOnce(c) == open /\ state[c] = "unmade" /\ state' = [state EXCEPT ![c] = "ended"]
End(c)    == open /\ state[c] = "waiting" /\ state' = [state EXCEPT ![c] = "ended"]

\* Destroying the client drops the calls that wait.
Close ==
    /\ open
    /\ open' = FALSE
    /\ state' = [c \in Calls |-> IF state[c] = "waiting" THEN "dropped" ELSE state[c]]

Next ==
    \/ \E c \in Calls : (Refuse(c) \/ Accept(c) \/ EndAtOnce(c) \/ End(c)) /\ UNCHANGED open
    \/ Close

Fairness == \A c \in Calls : WF_vars(End(c) /\ UNCHANGED open)

\* What may happen, and what must.
Safety == Init /\ [][Next]_vars
Spec   == Safety /\ Fairness
=============================================================================
