----------------------------- MODULE Operation -----------------------------
(***************************************************************************)
(* What the managers' operations have in common (json_common.h and the     *)
(* handlers of core/src/*_manager.cpp): how an operation starts, what it   *)
(* asks of the server and how it judges the answer.  An operation is a     *)
(* record; the modules named for the managers say which one each of their  *)
(* methods is, and which C function and which method of a binding leads to *)
(* it.  RestCall runs them.                                                *)
(***************************************************************************)
EXTENDS Naturals

(***************************************************************************)
(* An operation: `checked' if it may fail before anything is asked (an     *)
(* argument, or writeJson); `cached' if it may be answered from memory or  *)
(* from a table; `asks' the statuses parseApiEnvelopeResponse is told to   *)
(* require; `parts' the requests made one after the other; `field' if the  *)
(* answer to the first has to carry a field as well (for deleteFile, must  *)
(* not say success: false); `otherwise' what is tried when the first       *)
(* request was answered 404 or 405: another request, or a frame on the     *)
(* WebSocket; `rewrites' if a later request needs another writeJson.       *)
(***************************************************************************)
Asking(statuses) ==
    [checked |-> FALSE, cached |-> FALSE, asks |-> statuses, parts |-> 1,
     field |-> FALSE, otherwise |-> "none", rewrites |-> FALSE]

Checked(op)           == [op EXCEPT !.checked = TRUE]
OrCached(op)          == [op EXCEPT !.cached = TRUE]
WithField(op)         == [op EXCEPT !.field = TRUE]
Otherwise(op, second) == [op EXCEPT !.otherwise = second]
InParts(op, n)        == [op EXCEPT !.parts = n]
Rewriting(op)         == [op EXCEPT !.rewrites = TRUE]

\* sendTyping makes no request: the frame is sent, or not, before it returns.
FrameOnly == OrCached(Checked(Asking("nothing")))

\* A C function: the pointers it refuses to do without, whether it looks at
\* other arguments as well, and the operation it calls.
Entry(pointers, op)     == [needs |-> pointers, picky |-> FALSE, op |-> op]
PickyEntry(pointers, op) == [needs |-> pointers, picky |-> TRUE, op |-> op]

\* A layer above the C API: what it does when the call ends and when the C
\* function refuses it, of telling the application and freeing what it keeps
\* for the call.  It passes every pointer and a callback.
Binding(ended, refused) == [ended |-> ended, refused |-> refused]
Via(layer, entry)       == [layer |-> layer, entry |-> entry]

(***************************************************************************)
(* Answers.  `lost': curl reports an error, be it before anything was sent *)
(* or while the body was read, so the status may be known.  The body is    *)
(* absent or does not parse ("bad"), has a code other than 0 or none at    *)
(* all ("fail", for ApiEnvelope's code starts at -1), or code 0 without    *)
(* ("bare") or with ("full") the fields that are looked for.               *)
(***************************************************************************)
Answers == [lost : BOOLEAN, status : {0, 200, 201, 404, 405, 500},
            body : {"bad", "fail", "bare", "full"}]

\* The server and what is between (external): code 0 is sent by a server that
\* did what was asked, 404 and 405 by one that did not.
Truthful(a, did) ==
    /\ a.body \in {"bare", "full"} => did
    /\ a.status \in {404, 405} => ~did
    /\ a.status = 0 => a.lost

\* The storage the file is PUT to (external) says 2xx when it has the file.
StorageTruthful(a, did) == Truthful(a, did) /\ (a.status \in {200, 201} => did)

StatusAccepted(asks, status) ==
    CASE asks = "any" -> TRUE
      [] asks = "200" -> status = 200
      [] asks = "2xx" -> status \in {200, 201}

\* A faulty variant for a mutant: a body that does not parse counts as success.
VerdictUnparsed(op, a) ==
    /\ ~a.lost
    /\ a.body # "fail"
    /\ StatusAccepted(op.asks, a.status)

\* parseApiEnvelopeResponse, and the test of the field after it.
Verdict(op, a) ==
    /\ ~a.lost
    /\ a.body \in {"bare", "full"}
    /\ StatusAccepted(op.asks, a.status)
    /\ op.field => a.body = "full"

StoredAnyStatus(a) == ~a.lost       \* a faulty variant for a mutant

\* The answer to the PUT of an upload: the body is not read.
Stored(a) == ~a.lost /\ a.status \in {200, 201}

\* A faulty variant for a mutant: the second way is taken after an error, too.
TriesAgainAfterLoss(op, a) ==
    /\ op.otherwise # "none"
    /\ a.status \in {404, 405} \/ a.lost

\* Whether the first request's answer sends the operation another way.
\* AuthManager's operations also want no transport error, MessageManager's do not.
TriesAgain(op, a) ==
    /\ op.otherwise # "none"
    /\ a.status \in {404, 405}
    /\ op.asks = "any" => ~a.lost
=============================================================================
