-------------------------- MODULE ReliableDelivery --------------------------
(***************************************************************************)
(* What "reliable, SQLite-backed message delivery" (outbound_queue.h)      *)
(* promises of each message: from the call on it is kept by the client     *)
(* until the server has stored it, and success is reported only then.      *)
(***************************************************************************)
CONSTANT Msgs

VARIABLES
  submitted,  \* sendTextMessage was called
  kept,       \* the client still owes the message to the server
  stored,     \* the server has it
  reported    \* on_success was called

vars == <<submitted, kept, stored, reported>>

Init == submitted = {} /\ kept = {} /\ stored = {} /\ reported = {}

Submit(m) ==
  /\ m \in Msgs \ submitted
  /\ submitted' = submitted \cup {m}
  /\ kept' = kept \cup {m}
  /\ UNCHANGED <<stored, reported>>

Store(m) ==
  /\ m \in submitted
  /\ stored' = stored \cup {m}
  /\ UNCHANGED <<submitted, kept, reported>>

Forget(m) ==
  /\ m \in kept \cap stored
  /\ kept' = kept \ {m}
  /\ UNCHANGED <<submitted, stored, reported>>

Report(m) ==
  /\ m \in stored
  /\ reported' = reported \cup {m}
  /\ UNCHANGED <<submitted, kept, stored>>

Next == \E m \in Msgs : Submit(m) \/ Store(m) \/ Forget(m) \/ Report(m)

Spec == Init /\ [][Next]_vars

\* A reported message is on the server, and a submitted one is there or still kept.
NothingLost ==
  /\ reported \subseteq stored
  /\ stored \subseteq submitted
  /\ submitted \subseteq kept \cup stored

\* Whatever was submitted gets to the server, and the client stops keeping it.
Progress == \A m \in Msgs : WF_vars(Store(m)) /\ WF_vars(Forget(m))

=============================================================================
