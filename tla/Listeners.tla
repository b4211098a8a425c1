----------------------------- MODULE Listeners -----------------------------
(***************************************************************************)
(* Notifications on their way to a listener, and listeners being           *)
(* registered, replaced and cleared meanwhile.  The WebSocket's worker     *)
(* gives a notification to every manager's handler, one after the other    *)
(* (notification_manager.cpp); the handler whose type it is copies         *)
(* listener_ under a mutex and calls it outside.  The connection state     *)
(* (client_impl.cpp), and the expiry that ensureValidToken finds           *)
(* (auth_manager.cpp), go the same way, from whichever thread changed or   *)
(* found it: the worker's, the HTTP worker's, the reconnect timer's, the   *)
(* heartbeat's, the monitor's, or an application's own.  An application    *)
(* registers on a thread of its own, or inside a method of its listener.   *)
(*                                                                         *)
(* The managers have nothing in common here but the thread, so the module  *)
(* follows one of them, `subject', whichever it is.                        *)
(***************************************************************************)
EXTENDS Notifications, Integers, Sequences, FiniteSets

CONSTANTS
    Objects,        \* the listeners an application makes, each registered once
    Others,         \* the threads beside the WebSocket's that call listeners
    MaxEvents,      \* bound: notifications, state changes and expiries
    MaxClears       \* bound: times a listener is cleared

ASSUME ListenersAssumption ==
    IsFiniteSet(Objects) /\ MaxEvents \in Nat /\ MaxClears \in Nat

Threads == {"ws", "app"} \cup Others    \* "app": an application's that registers
None    == "none"
Unused  == [unused |-> TRUE]

ASSUME NoneIsNoObject == None \notin Objects
ASSUME OthersAreOthers == Others \cap {"ws", "app", None} = {}

VARIABLES
    subject,        \* the manager that is followed, or "client"
    listener_,      \* its listener
    mutex,          \* who holds its handler_mutex_
    made,           \* per object, the registration it was made for
    gone,           \* objects whose last shared_ptr has gone
    context,        \* per object, its CallbackContext
    entry,          \* the object in the Android binding's map
    gate,           \* who holds that map's mutex
    todo,           \* per thread, the steps it has left
    copied,         \* per thread, the copy of listener_ it works with
    oldCtx,         \* per thread, the context it has taken out of the map
    events, clears, \* counters
    heard,          \* history: per thread, the objects called for its event
    method,         \* the method its event calls
    steady,         \* history: the object registered during all of it
    removed,        \* history: objects that were replaced or cleared
    before          \* history: those that were when the thread's event was taken up

registry == <<listener_, mutex, made, gone, removed>>
android  == <<context, entry, gate, oldCtx>>
account  == <<heard, method, steady, before>>
vars     == <<subject, registry, android, account, todo, copied, events, clears>>

Init ==
    /\ subject \in Subjects
    /\ listener_ = None /\ mutex = None
    /\ made = [o \in Objects |-> Unused] /\ gone = {}
    /\ context = [o \in Objects |-> "none"] /\ entry = None /\ gate = None
    /\ todo = [t \in Threads |-> <<>>] /\ copied = [t \in Threads |-> None]
    /\ oldCtx = [t \in Threads |-> None]
    /\ events = 0 /\ clears = 0
    /\ heard = [t \in Threads |-> <<>>] /\ method = [t \in Threads |-> None]
    /\ steady = [t \in Threads |-> None]
    /\ removed = {} /\ before = [t \in Threads |-> {}]

(***************************************************************************)
(* Sequences of steps.                                                     *)
(***************************************************************************)
Does(what)    == [do |-> what]
With(what, o) == [do |-> what, o |-> o]

\* A faulty variant for a mutant: the listener is called under the mutex.
HandleLocked == <<Does("lock"), Does("copy"), Does("call"), Does("return"), Does("unlock")>>

\* A faulty variant for a mutant: the handler was added a second time.
HandleTwice ==
    <<Does("lock"), Does("copy"), Does("unlock"), Does("call"), Does("return"),
      Does("lock"), Does("copy"), Does("unlock"), Does("call"), Does("return")>>

\* A handler, once it has found that the type is its own.
Handle == <<Does("lock"), Does("copy"), Does("unlock"), Does("call"), Does("return")>>

\* setListener, and the C function that wraps a copied struct for it.
SetListener(o) == <<With("assign", o)>>

\* A faulty variant for a mutant: the old context is deleted first.
NativeForgetsFirst(o) ==
    <<Does("enter"), Does("forget")>> \o SetListener(o) \o <<With("leave", o)>>

\* The Android binding's set...Callback.
NativeSetCallback(o) ==
    <<Does("enter")>> \o SetListener(o) \o <<With("leave", o), Does("forget")>>

(***************************************************************************)
(* What threads begin.                                                     *)
(***************************************************************************)
Idle(t) == todo[t] = <<>>

\* On the WebSocket's worker, a notification of any type the manager handles or a
\* change of the connection state; on the others such a change or an expiry.
Take(t) ==
    /\ t # "app" /\ Idle(t) /\ events < MaxEvents
    /\ events' = events + 1
    /\ \E type \in IF t = "ws" THEN Types \ {"expired"} ELSE {"state", "expired"} :
         /\ MethodsFor(subject, type) # {}
         /\ \E m \in MethodsFor(subject, type) \cup {None} : method' = [method EXCEPT ![t] = m]
    /\ todo' = [todo EXCEPT ![t] = Handle]
    /\ steady' = [steady EXCEPT ![t] = listener_]
    /\ before' = [before EXCEPT ![t] = removed]
    /\ UNCHANGED <<subject, registry, android, copied, clears, heard>>

Running(t) == ~Idle(t) /\ Head(todo[t]).do = "return" /\ copied[t] # None

New == {o \in Objects : made[o] = Unused}

\* An application registers on its own thread or in a method that runs.
MaySet(t) == Running(t) \/ (t = "app" /\ Idle(t))

Register(t) ==
    /\ MaySet(t) /\ New # {}
    /\ \E r \in {p \in Registrations : p.subject = subject} :
       LET o == CHOOSE p \in New : TRUE IN
         /\ made' = [made EXCEPT ![o] = r]
         /\ IF r.layer = "android"
            THEN /\ context' = [context EXCEPT ![o] = "live"]
                 /\ todo' = [todo EXCEPT ![t] = NativeSetCallback(o) \o @]
            ELSE /\ todo' = [todo EXCEPT ![t] = SetListener(o) \o @]
                 /\ UNCHANGED context
    /\ UNCHANGED <<subject, listener_, mutex, gone, removed, entry, gate, oldCtx,
                   account, copied, events, clears>>

\* setListener(nullptr), through the binding or not.
Clear(t) ==
    /\ MaySet(t) /\ clears < MaxClears
    /\ clears' = clears + 1
    /\ todo' = [todo EXCEPT ![t] = (IF entry = None THEN SetListener(None)
                                    ELSE NativeSetCallback(None)) \o @]
    /\ UNCHANGED <<subject, registry, android, account, copied, events>>

(***************************************************************************)
(* The steps.                                                              *)
(***************************************************************************)
Turn(t, what) == ~Idle(t) /\ Head(todo[t]).do = what
Advance(t) == todo' = [todo EXCEPT ![t] = Tail(todo[t])]

Lock(t) ==
    /\ Turn(t, "lock") /\ mutex = None
    /\ mutex' = t
    /\ Advance(t)
    /\ UNCHANGED <<subject, listener_, made, gone, removed, android, account, copied, events, clears>>

Unlock(t) ==
    /\ Turn(t, "unlock")
    /\ mutex' = None
    /\ Advance(t)
    /\ UNCHANGED <<subject, listener_, made, gone, removed, android, account, copied, events, clears>>

Shared == {copied[t] : t \in Threads} \ {None}

SharedByNobody == {}        \* a faulty variant for a mutant: a handler copies a raw pointer

\* The objects that handlers hold a shared_ptr to.
HeldByHandlers == Shared

\* A faulty variant for a mutant: NULL does not clear.
AssignedUnlessNull(o) == IF o = None THEN listener_ ELSE o

Assigned(o) == o

\* Under the mutex listener_ is moved to, and the object it had is destroyed if
\* nobody shares it.
Assign(t) ==
    /\ Turn(t, "assign") /\ mutex = None
    /\ LET o == Head(todo[t]).o
       IN  /\ listener_' = Assigned(o)
           /\ removed' = removed \cup ({listener_} \ {None, o})
           /\ gone' = gone \cup ({listener_} \ ({None, Assigned(o)} \cup HeldByHandlers))
    /\ steady' = [u \in Threads |-> None]
    /\ Advance(t)
    /\ UNCHANGED <<subject, mutex, made, android, heard, method, before, copied, events, clears>>

Copy(t) ==
    /\ Turn(t, "copy")
    /\ copied' = [copied EXCEPT ![t] = listener_]
    /\ Advance(t)
    /\ UNCHANGED <<subject, registry, android, account, events, clears>>

\* The method runs from here to "return"; a listener that makes nothing of it
\* returns at once.
Call(t) ==
    /\ Turn(t, "call")
    /\ LET o == copied[t]
       IN  heard' = IF o # None /\ method[t] \in made[o].hears
                    THEN [heard EXCEPT ![t] = Append(@, o)] ELSE heard
    /\ Advance(t)
    /\ UNCHANGED <<subject, registry, android, method, steady, before, copied, events, clears>>

\* The copy goes, and with it the object if nobody else shares it.
Return(t) ==
    /\ Turn(t, "return")
    /\ copied' = [copied EXCEPT ![t] = None]
    /\ IF Len(todo[t]) > 1 THEN UNCHANGED account
       ELSE /\ heard' = [heard EXCEPT ![t] = <<>>] /\ method' = [method EXCEPT ![t] = None]
            /\ steady' = [steady EXCEPT ![t] = None] /\ before' = [before EXCEPT ![t] = {}]
    /\ gone' = gone \cup ({copied[t]} \ ({None, listener_} \cup {copied[u] : u \in Threads \ {t}}))
    /\ Advance(t)
    /\ UNCHANGED <<subject, listener_, mutex, made, removed, android, events, clears>>

\* The binding's map is locked, and the entry taken out of it.
Enter(t) ==
    /\ Turn(t, "enter") /\ gate = None
    /\ gate' = t
    /\ oldCtx' = [oldCtx EXCEPT ![t] = entry]
    /\ entry' = None
    /\ Advance(t)
    /\ UNCHANGED <<subject, registry, context, account, copied, events, clears>>

\* The new entry is put into it, and it is unlocked.
Leave(t) ==
    /\ Turn(t, "leave")
    /\ entry' = Head(todo[t]).o
    /\ gate' = None
    /\ Advance(t)
    /\ UNCHANGED <<subject, registry, context, oldCtx, account, copied, events, clears>>

\* The old context goes at the end of the scope.
Forget(t) ==
    /\ Turn(t, "forget")
    /\ context' = [o \in Objects |-> IF o = oldCtx[t] THEN "deleted" ELSE context[o]]
    /\ oldCtx' = [oldCtx EXCEPT ![t] = None]
    /\ Advance(t)
    /\ UNCHANGED <<subject, registry, entry, gate, account, copied, events, clears>>

Step(t) ==
    \/ Lock(t) \/ Unlock(t) \/ Assign(t) \/ Copy(t) \/ Call(t) \/ Return(t)
    \/ Enter(t) \/ Leave(t) \/ Forget(t)

Next == \E t \in Threads : Take(t) \/ Register(t) \/ Clear(t) \/ Step(t)

\* Threads go on, and a listener's method returns, as docs/c_api_guide.md:234
\* asks of it.  Nothing has to be sent or registered.
Fairness == \A t \in Threads : WF_vars(Step(t))

Spec == Init /\ [][Next]_vars /\ Fairness

-----------------------------------------------------------------------------
(***************************************************************************)
(* Properties.                                                             *)
(***************************************************************************)
\* The types; and one thread at a time holds each mutex, between its own steps.
TypeOK ==
    /\ subject \in Subjects /\ listener_ \in Objects \cup {None}
    /\ mutex \in Threads \cup {None} /\ gate \in Threads \cup {None}
    /\ made \in [Objects -> Registrations \cup {Unused}] /\ gone \subseteq Objects
    /\ context \in [Objects -> {"none", "live", "deleted"}] /\ entry \in Objects \cup {None}
    /\ copied \in [Threads -> Objects \cup {None}] /\ oldCtx \in [Threads -> Objects \cup {None}]
    /\ events \in 0..MaxEvents /\ clears \in 0..MaxClears
    /\ method \in [Threads -> Methods(subject) \cup {None}]
    /\ steady \in [Threads -> Objects \cup {None}] /\ removed \subseteq Objects
    /\ before \in [Threads -> SUBSET Objects]
    /\ \A t \in Threads : mutex = t => ~Idle(t) /\ Head(todo[t]).do \in {"copy", "unlock"}

\* A listener's method runs on an object that exists, whoever replaces or clears it
\* meanwhile, be it the method itself: the handler's copy of the shared_ptr keeps it.
CalledWhileAlive ==
    \A t \in Threads : copied[t] # None => copied[t] \notin gone

\* One event is heard by one listener at most, also if it is replaced while the event
\* is handled; and one that was registered all the time, and makes something of the
\* method, has heard it.
HeardOnce ==
    \A t \in Threads : todo[t] = <<Does("return")>> =>
        /\ Len(heard[t]) <= 1
        /\ LET o == steady[t]
           IN  o # None /\ method[t] \in made[o].hears => heard[t] = <<o>>

\* An event that is taken up, on any thread, after setListener has replaced or
\* cleared a listener is not heard by that listener (docs/c_api_guide.md:218).  So
\* it hears at most, of each thread, the one event that was being handled then.
QuietWhenReplaced ==
    \A t \in Threads : \A i \in DOMAIN heard[t] : heard[t][i] \notin before[t]

\* While an Android listener is registered, its context is not deleted.
RegisteredContextLives ==
    listener_ # None /\ made[listener_].layer = "android" => context[listener_] = "live"

\* The old context goes only when the new one is in place, and it goes once, though
\* several threads replace the listener at a time: what one of them has taken out
\* of the map to delete, no other has.  (A call that was under way with the old
\* listener may still hold its context: the code does not wait for it.)
ContextsHandedOver ==
    /\ RegisteredContextLives
    /\ \A t \in Threads : oldCtx[t] # None =>
          context[oldCtx[t]] # "deleted" /\ \A u \in Threads \ {t} : oldCtx[u] # oldCtx[t]

\* No event is stuck, and no setListener, although listeners register and clear from
\* inside their methods: every thread that began something comes to its end, again
\* and again.
EveryoneReturns == \A t \in Threads : []<>Idle(t)
=============================================================================
