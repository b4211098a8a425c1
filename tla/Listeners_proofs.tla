-------------------------- MODULE Listeners_proofs --------------------------
(***************************************************************************)
(* Theorems about Listeners, for any number of listeners, events and       *)
(* clears, and whichever manager is followed.                              *)
(***************************************************************************)
EXTENDS Listeners, TLAPS

USE DEF vars, registry, android, account, Threads, None

-----------------------------------------------------------------------------
(***************************************************************************)
(* Where a thread is.                                                      *)
(***************************************************************************)
\* A handler that has not called its listener yet.
Handling ==
    { Handle,
      <<Does("copy"), Does("unlock"), Does("call"), Does("return")>>,
      <<Does("unlock"), Does("call"), Does("return")>>,
      <<Does("call"), Does("return")>> }

\* A registration of o that goes on with `rest'.
Registering(o, rest) ==
    { <<Does("enter"), With("assign", o), With("leave", o), Does("forget")>> \o rest,
      <<With("assign", o), With("leave", o), Does("forget")>> \o rest,
      <<With("leave", o), Does("forget")>> \o rest,
      <<Does("forget")>> \o rest,
      <<With("assign", o)>> \o rest }

\* What a thread that has registered goes on with: the listener's method, if it
\* did so inside it.
Rest(t) == IF t = "app" THEN <<>> ELSE <<Does("return")>>

Program(t) ==
    \/ todo[t] = <<>>
    \/ t # "app" /\ todo[t] \in Handling \cup {<<Does("return")>>}
    \/ \E o \in Objects \cup {None} : todo[t] \in Registering(o, Rest(t))

\* The kind of thread t's next step, and the object it is about.
At(t)    == IF todo[t] = <<>> THEN "idle" ELSE Head(todo[t]).do
About(t) == IF At(t) = "enter" THEN todo[t][2].o ELSE Head(todo[t]).o

Resumes(t) == IF t = "app" THEN "idle" ELSE "return"

\* What thread t may do after its next step.
Follows(at, t) ==
    CASE at = "lock"   -> {"copy"}
      [] at = "copy"   -> {"unlock"}
      [] at = "unlock" -> {"call"}
      [] at = "call"   -> {"return"}
      [] at = "return" -> {"idle"}
      [] at = "enter"  -> {"assign"}
      [] at = "assign" -> {"leave", Resumes(t)}
      [] at = "leave"  -> {"forget"}
      [] at = "forget" -> {Resumes(t)}

HandlerSteps == {"lock", "copy", "unlock", "call", "return"}
SetSteps     == {"enter", "assign", "leave", "forget"}

\* The thread that makes a step, and no other, moves on.
LEMMA ProgramKinds ==
    ASSUME NEW t \in Threads, Program(t)
    PROVE  /\ At(t) \in {"idle"} \cup HandlerSteps \cup SetSteps
           /\ t = "app" => At(t) \notin HandlerSteps
           /\ At(t) = "idle" <=> todo[t] = <<>>
           /\ At(t) = "return" => todo[t] = <<Does("return")>>
           /\ At(t) \in {"enter", "assign", "leave"} => About(t) \in Objects \cup {None}
           /\ At(t) \in {"assign", "leave"} => Head(todo[t]).o = About(t)
<1>1. CASE todo[t] = <<>>
  BY <1>1 DEF At, HandlerSteps, SetSteps
<1>2. CASE t # "app" /\ todo[t] \in Handling \cup {<<Does("return")>>}
  BY <1>2 DEF At, HandlerSteps, SetSteps, Handling, Handle, Does
<1>3. ASSUME NEW o \in Objects \cup {None}, todo[t] \in Registering(o, Rest(t))
      PROVE  /\ At(t) \in SetSteps
             /\ At(t) \in {"enter", "assign", "leave"} => About(t) \in Objects \cup {None}
             /\ At(t) \in {"assign", "leave"} => Head(todo[t]).o = About(t)
             /\ todo[t] # <<>>
  <2>1. CASE t = "app"
    BY <1>3, <2>1 DEF At, About, SetSteps, Registering, Rest, Does, With
  <2>2. CASE t # "app"
    BY <1>3, <2>2 DEF At, About, SetSteps, Registering, Rest, Does, With
  <2> QED BY <2>1, <2>2
<1>4. CASE \E o \in Objects \cup {None} : todo[t] \in Registering(o, Rest(t))
  BY <1>3, <1>4 DEF At, HandlerSteps, SetSteps
<1> QED BY <1>1, <1>2, <1>4 DEF Program

\* The thread that makes a step moves on in its program, and no other does.
LEMMA AdvanceMoves ==
    ASSUME NEW t \in Threads, DOMAIN todo = Threads, Program(t), todo[t] # <<>>, Advance(t)
    PROVE  /\ Program(t)'
           /\ At(t)' \in Follows(At(t), t)
           /\ At(t)' \in {"assign", "leave"} => About(t)' = About(t)
<1>0. todo'[t] = Tail(todo[t])
  BY DEF Advance
<1>1. CASE t # "app" /\ todo[t] \in Handling \cup {<<Does("return")>>}
  <2>1. CASE todo[t] = Handle
    BY <1>0, <1>1, <2>1 DEF At, About, Follows, Program, Handling, Handle, Does
  <2>2. CASE todo[t] = <<Does("copy"), Does("unlock"), Does("call"), Does("return")>>
    BY <1>0, <1>1, <2>2 DEF At, About, Follows, Program, Handling, Handle, Does
  <2>3. CASE todo[t] = <<Does("unlock"), Does("call"), Does("return")>>
    BY <1>0, <1>1, <2>3 DEF At, About, Follows, Program, Handling, Handle, Does
  <2>4. CASE todo[t] = <<Does("call"), Does("return")>>
    BY <1>0, <1>1, <2>4 DEF At, About, Follows, Program, Handling, Handle, Does
  <2>5. CASE todo[t] = <<Does("return")>>
    BY <1>0, <1>1, <2>5 DEF At, About, Follows, Program, Does
  <2> QED BY <1>1, <2>1, <2>2, <2>3, <2>4, <2>5 DEF Handling
<1>2. ASSUME NEW o \in Objects \cup {None}, todo[t] \in Registering(o, Rest(t))
      PROVE  /\ Program(t)'
             /\ At(t)' \in Follows(At(t), t)
             /\ At(t)' \in {"assign", "leave"} => About(t)' = About(t)
  <2>1. CASE t = "app"
    <3>1. CASE todo[t] = <<Does("enter"), With("assign", o), With("leave", o), Does("forget")>>
      <4>1. todo'[t] = <<With("assign", o), With("leave", o), Does("forget")>>
        BY <1>0, <3>1
      <4>2. Program(t)'
        BY <2>1, <4>1 DEF Program, Registering, Rest, Handling
      <4> QED BY <2>1, <3>1, <4>1, <4>2 DEF At, About, Follows, Resumes, Does, With
    <3>2. CASE todo[t] = <<With("assign", o), With("leave", o), Does("forget")>>
      <4>1. todo'[t] = <<With("leave", o), Does("forget")>>
        BY <1>0, <3>2
      <4>2. Program(t)'
        BY <2>1, <4>1 DEF Program, Registering, Rest, Handling
      <4> QED BY <2>1, <3>2, <4>1, <4>2 DEF At, About, Follows, Resumes, Does, With
    <3>3. CASE todo[t] = <<With("leave", o), Does("forget")>>
      <4>1. todo'[t] = <<Does("forget")>>
        BY <1>0, <3>3
      <4>2. Program(t)'
        BY <2>1, <4>1 DEF Program, Registering, Rest, Handling
      <4> QED BY <2>1, <3>3, <4>1, <4>2 DEF At, About, Follows, Resumes, Does, With
    <3>4. CASE todo[t] = <<Does("forget")>>
      <4>1. todo'[t] = <<>>
        BY <1>0, <3>4
      <4>2. Program(t)'
        BY <2>1, <4>1 DEF Program, Registering, Rest, Handling
      <4> QED BY <2>1, <3>4, <4>1, <4>2 DEF At, About, Follows, Resumes, Does, With
    <3>5. CASE todo[t] = <<With("assign", o)>>
      <4>1. todo'[t] = <<>>
        BY <1>0, <3>5
      <4>2. Program(t)'
        BY <2>1, <4>1 DEF Program, Registering, Rest, Handling
      <4> QED BY <2>1, <3>5, <4>1, <4>2 DEF At, About, Follows, Resumes, Does, With
    <3>6. /\ todo[t] = <<Does("enter"), With("assign", o), With("leave", o), Does("forget")>> \o <<>>
            => todo[t] = <<Does("enter"), With("assign", o), With("leave", o), Does("forget")>>
          /\ todo[t] = <<With("assign", o), With("leave", o), Does("forget")>> \o <<>>
            => todo[t] = <<With("assign", o), With("leave", o), Does("forget")>>
          /\ todo[t] = <<With("leave", o), Does("forget")>> \o <<>>
            => todo[t] = <<With("leave", o), Does("forget")>>
          /\ todo[t] = <<Does("forget")>> \o <<>> => todo[t] = <<Does("forget")>>
          /\ todo[t] = <<With("assign", o)>> \o <<>> => todo[t] = <<With("assign", o)>>
      BY DEF Does, With
    <3>7. todo[t] \in Registering(o, <<>>)
      BY <1>2, <2>1 DEF Rest
    <3>8. \/ todo[t] = <<Does("enter"), With("assign", o), With("leave", o), Does("forget")>>
          \/ todo[t] = <<With("assign", o), With("leave", o), Does("forget")>>
          \/ todo[t] = <<With("leave", o), Does("forget")>>
          \/ todo[t] = <<Does("forget")>> \/ todo[t] = <<With("assign", o)>>
      BY <3>6, <3>7 DEF Registering
    <3> QED BY <3>1, <3>2, <3>3, <3>4, <3>5, <3>8
  <2>2. CASE t # "app"
    <3>1. CASE todo[t] = <<Does("enter"), With("assign", o), With("leave", o), Does("forget"), Does("return")>>
      <4>1. todo'[t] = <<With("assign", o), With("leave", o), Does("forget"), Does("return")>>
        BY <1>0, <3>1
      <4>2. Program(t)'
        BY <2>2, <4>1 DEF Program, Registering, Rest, Handling
      <4> QED BY <2>2, <3>1, <4>1, <4>2 DEF At, About, Follows, Resumes, Does, With
    <3>2. CASE todo[t] = <<With("assign", o), With("leave", o), Does("forget"), Does("return")>>
      <4>1. todo'[t] = <<With("leave", o), Does("forget"), Does("return")>>
        BY <1>0, <3>2
      <4>2. Program(t)'
        BY <2>2, <4>1 DEF Program, Registering, Rest, Handling
      <4> QED BY <2>2, <3>2, <4>1, <4>2 DEF At, About, Follows, Resumes, Does, With
    <3>3. CASE todo[t] = <<With("leave", o), Does("forget"), Does("return")>>
      <4>1. todo'[t] = <<Does("forget"), Does("return")>>
        BY <1>0, <3>3
      <4>2. Program(t)'
        BY <2>2, <4>1 DEF Program, Registering, Rest, Handling
      <4> QED BY <2>2, <3>3, <4>1, <4>2 DEF At, About, Follows, Resumes, Does, With
    <3>4. CASE todo[t] = <<Does("forget"), Does("return")>>
      <4>1. todo'[t] = <<Does("return")>>
        BY <1>0, <3>4
      <4>2. Program(t)'
        BY <2>2, <4>1 DEF Program, Registering, Rest, Handling
      <4> QED BY <2>2, <3>4, <4>1, <4>2 DEF At, About, Follows, Resumes, Does, With
    <3>5. CASE todo[t] = <<With("assign", o), Does("return")>>
      <4>1. todo'[t] = <<Does("return")>>
        BY <1>0, <3>5
      <4>2. Program(t)'
        BY <2>2, <4>1 DEF Program, Registering, Rest, Handling
      <4> QED BY <2>2, <3>5, <4>1, <4>2 DEF At, About, Follows, Resumes, Does, With
    <3> QED BY <1>2, <2>2, <3>1, <3>2, <3>3, <3>4, <3>5 DEF Registering, Rest
  <2> QED BY <2>1, <2>2
<1> QED BY <1>1, <1>2 DEF Program

ProgramsOK == DOMAIN todo = Threads /\ \A t \in Threads : Program(t)

\* What a thread that is not t is at does not depend on t's steps.
LEMMA OthersStay ==
    ASSUME NEW t \in Threads, NEW p, DOMAIN todo = Threads, todo' = [todo EXCEPT ![t] = p]
    PROVE  \A u \in Threads \ {t} :
              /\ At(u)' = At(u) /\ About(u)' = About(u)
              /\ Program(u) => Program(u)'
BY DEF At, About, Program

\* A step of thread t: where it was and where it is, and that nobody else moved.
LEMMA StepMoves ==
    ASSUME ProgramsOK, NEW t \in Threads, NEW what, Turn(t, what), Advance(t)
    PROVE  /\ At(t) = what /\ At(t)' \in Follows(what, t)
           /\ what \in {"assign", "leave"} =>
                /\ Head(todo[t]).o = About(t) /\ About(t) \in Objects \cup {None}
           /\ what = "return" => t # "app" /\ Len(todo[t]) = 1
           /\ At(t)' \in {"assign", "leave"} => About(t)' = About(t)
           /\ \A u \in Threads \ {t} : At(u)' = At(u) /\ About(u)' = About(u)
           /\ ProgramsOK'
<1>1. Program(t) /\ todo[t] # <<>> /\ At(t) = what
  BY DEF ProgramsOK, Turn, Idle, At
<1>2. /\ Program(t)' /\ At(t)' \in Follows(what, t)
      /\ At(t)' \in {"assign", "leave"} => About(t)' = About(t)
  BY <1>1, AdvanceMoves DEF ProgramsOK
<1>3. /\ what \in {"assign", "leave"} =>
           /\ Head(todo[t]).o = About(t) /\ About(t) \in Objects \cup {None}
      /\ what = "return" => t # "app" /\ todo[t] = <<Does("return")>>
  BY <1>1, ProgramKinds DEF HandlerSteps
<1>4. what = "return" => t # "app" /\ Len(todo[t]) = 1
  BY <1>3 DEF Does
<1>5. \A u \in Threads \ {t} : At(u)' = At(u) /\ About(u)' = About(u) /\ Program(u)'
  BY OthersStay DEF ProgramsOK, Advance
<1>6. ProgramsOK'
  BY <1>2, <1>5 DEF ProgramsOK, Advance
<1> QED BY <1>1, <1>2, <1>3, <1>4, <1>5, <1>6

\* A registration, or a clear, begun by thread t.
LEMMA SetMoves ==
    ASSUME ProgramsOK, NEW t \in Threads, NEW o \in Objects \cup {None}, MaySet(t),
           \/ todo' = [todo EXCEPT ![t] = SetListener(o) \o @]
           \/ todo' = [todo EXCEPT ![t] = NativeSetCallback(o) \o @]
    PROVE  /\ At(t) = Resumes(t) /\ At(t)' \in {"enter", "assign"} /\ About(t)' = o
           /\ \A u \in Threads \ {t} : At(u)' = At(u) /\ About(u)' = About(u)
           /\ ProgramsOK'
<1>1. todo[t] = Rest(t) /\ At(t) = Resumes(t)
  <2>1. CASE t = "app"
    <3>1. ~Running(t)
      BY <2>1, ProgramKinds DEF ProgramsOK, Running, At, HandlerSteps, Idle
    <3> QED BY <2>1, <3>1 DEF MaySet, Idle, Rest, At, Resumes
  <2>2. CASE t # "app"
    <3>1. At(t) = "return"
      BY <2>2 DEF MaySet, Running, At, Idle
    <3> QED BY <2>2, <3>1, ProgramKinds DEF ProgramsOK, Rest, Resumes
  <2> QED BY <2>1, <2>2
<1>2. \A u \in Threads \ {t} : At(u)' = At(u) /\ About(u)' = About(u) /\ Program(u)'
  BY OthersStay DEF ProgramsOK
<1>3. CASE todo' = [todo EXCEPT ![t] = SetListener(o) \o @]
  <2>1. todo'[t] = <<With("assign", o)>> \o Rest(t)
    BY <1>1, <1>3 DEF ProgramsOK, SetListener
  <2>2. Program(t)'
    BY <2>1 DEF Program, Registering
  <2>3. At(t)' = "assign" /\ About(t)' = o
    BY <2>1 DEF At, About, Rest, Does, With
  <2> QED BY <1>1, <1>2, <1>3, <2>2, <2>3 DEF ProgramsOK
<1>4. CASE todo' = [todo EXCEPT ![t] = NativeSetCallback(o) \o @]
  <2>1. todo'[t] = <<Does("enter"), With("assign", o), With("leave", o), Does("forget")>> \o Rest(t)
    BY <1>1, <1>4 DEF ProgramsOK, NativeSetCallback, SetListener
  <2>2. Program(t)'
    BY <2>1 DEF Program, Registering
  <2>3. At(t)' = "enter" /\ About(t)' = o
    BY <2>1 DEF At, About, Rest, Does, With
  <2> QED BY <1>1, <1>2, <1>4, <2>2, <2>3 DEF ProgramsOK
<1> QED BY <1>3, <1>4

\* A notification, or a change of state, taken up by thread t.
LEMMA TakeMoves ==
    ASSUME ProgramsOK, NEW t \in Threads, Take(t)
    PROVE  /\ t # "app" /\ At(t) = "idle" /\ At(t)' = "lock"
           /\ \A u \in Threads \ {t} : At(u)' = At(u) /\ About(u)' = About(u)
           /\ ProgramsOK'
<1>1. t # "app" /\ todo[t] = <<>> /\ todo' = [todo EXCEPT ![t] = Handle]
  BY DEF Take, Idle
<1>2. \A u \in Threads \ {t} : At(u)' = At(u) /\ About(u)' = About(u) /\ Program(u)'
  BY <1>1, OthersStay DEF ProgramsOK
<1>3. todo'[t] = Handle
  BY <1>1 DEF ProgramsOK
<1>4. Program(t)' /\ At(t)' = "lock"
  BY <1>1, <1>3 DEF Program, Handling, At, Handle, Does
<1> QED BY <1>1, <1>2, <1>4 DEF ProgramsOK, At

-----------------------------------------------------------------------------
(***************************************************************************)
(* The inductive invariant.                                                *)
(***************************************************************************)
Pending(t, o) == At(t) \in {"enter", "assign"} /\ About(t) = o
Placing(t, o) == At(t) = "leave" /\ About(t) = o

\* Nothing refers to o, but perhaps a thread that will register it.
Unseen(o) ==
    /\ o # listener_ /\ o # entry /\ o \notin gone /\ o \notin removed
    /\ \A t \in Threads : /\ o # copied[t] /\ o # oldCtx[t] /\ o # steady[t]
                          /\ ~Placing(t, o)

Typed ==
    /\ subject \in Subjects /\ listener_ \in Objects \cup {None}
    /\ mutex \in Threads \cup {None} /\ gate \in Threads \cup {None}
    /\ made \in [Objects -> Registrations \cup {Unused}]
    /\ gone \subseteq Objects /\ removed \subseteq Objects
    /\ context \in [Objects -> {"none", "live", "deleted"}] /\ entry \in Objects \cup {None}
    /\ copied \in [Threads -> Objects \cup {None}] /\ oldCtx \in [Threads -> Objects \cup {None}]
    /\ events \in 0..MaxEvents /\ clears \in 0..MaxClears
    /\ method \in [Threads -> Methods(subject) \cup {None}]
    /\ steady \in [Threads -> Objects \cup {None}]
    /\ heard \in [Threads -> Seq(Objects)] /\ before \in [Threads -> SUBSET Objects]

\* A mutex is held between the holder's own steps.
MutexInv == \A t \in Threads : mutex = t => At(t) \in {"copy", "unlock"}

\* An object is registered once: until it is assigned nothing refers to it.
FreshInv ==
    \A o \in Objects :
        /\ made[o] = Unused => Unseen(o) /\ \A t \in Threads : ~Pending(t, o)
        /\ \A t \in Threads : Pending(t, o) =>
              /\ Unseen(o)
              /\ made[o].layer = "android" => context[o] = "live"
              /\ \A u \in Threads \ {t} : ~Pending(u, o)

\* The listener, and the copies, are alive.
AliveInv ==
    /\ listener_ \notin gone /\ listener_ \notin removed
    /\ \A t \in Threads : copied[t] # None => copied[t] \notin gone

\* What was removed before an event was taken up is not copied for it, and not called.
LateInv ==
    \A t \in Threads :
        /\ before[t] \subseteq removed
        /\ \A i \in DOMAIN heard[t] : heard[t][i] \notin before[t]
        /\ At(t) \in {"unlock", "call"} => copied[t] \notin before[t]

\* What an event is heard by.
HeardInv ==
    \A t \in Threads :
        /\ t = "app" \/ At(t) \in {"idle", "lock", "copy", "unlock", "call"} => heard[t] = <<>>
        /\ At(t) \in {"lock", "copy"} /\ steady[t] # None => listener_ = steady[t]
        /\ At(t) \in {"unlock", "call"} /\ steady[t] # None => copied[t] = steady[t]
        /\ t # "app" /\ At(t) \in {"return"} \cup SetSteps =>
              /\ Len(heard[t]) <= 1
              /\ steady[t] # None /\ method[t] \in made[steady[t]].hears => heard[t] = <<steady[t]>>

\* The context that is to be deleted is not the listener's any more.
ContextInv ==
    /\ RegisteredContextLives
    /\ \A t \in Threads : At(t) \in {"leave", "forget"} /\ oldCtx[t] # None => oldCtx[t] # listener_

\* Contexts that the map, a thread that replaces its entry, or a registration that is
\* still to come refers to.
Referred(o) ==
    \/ o = entry \/ made[o] = Unused
    \/ \E t \in Threads : o = oldCtx[t] \/ Placing(t, o) \/ Pending(t, o)

\* They exist, and what a thread has taken out of the map, or is still to put into it,
\* is no other's.
HandOverInv ==
    /\ \A o \in Objects : Referred(o) => context[o] # "deleted"
    /\ \A t \in Threads : oldCtx[t] # None =>
          oldCtx[t] # entry /\ \A u \in Threads \ {t} : oldCtx[u] # oldCtx[t]
    /\ \A t \in Threads, o \in Objects : Placing(t, o) =>
          /\ o # entry /\ \A u \in Threads : oldCtx[u] # o
          /\ \A u \in Threads \ {t} : ~Placing(u, o)

Inv == /\ ProgramsOK /\ Typed /\ MutexInv /\ FreshInv /\ AliveInv /\ LateInv
       /\ HeardInv /\ ContextInv /\ HandOverInv

\* What is registered is not mistaken for what is not used yet.
LEMMA RegistrationIsUse == \A r \in Registrations : r # Unused
<1>1. \A a, b, c : Listener(a, b, c) # Unused
  BY DEF Listener, Unused
<1>2. \A a, b : \A r \in Struct(a, b) : r # Unused
  BY <1>1 DEF Struct
<1>3. \A r \in refreshFriendListener \cup refreshGroupListener : r # Unused
  BY <1>1 DEF refreshFriendListener, refreshGroupListener
<1>4. \A r \in UNION { anychat_auth_set_listener, anychat_message_set_listener,
          anychat_conv_set_listener, anychat_friend_set_listener, anychat_group_set_listener,
          anychat_user_set_listener, anychat_call_set_listener } : r # Unused
  BY <1>2 DEF anychat_auth_set_listener, anychat_message_set_listener,
      anychat_conv_set_listener, anychat_friend_set_listener, anychat_group_set_listener,
      anychat_user_set_listener, anychat_call_set_listener
<1>5. \A r \in UNION { anychat_client_set_connection_callback, refreshAuthListener,
          refreshMessageListener, refreshConversationListener, setConnectionCallback } : r # Unused
  BY <1>1 DEF anychat_client_set_connection_callback, refreshAuthListener,
      refreshMessageListener, refreshConversationListener, setConnectionCallback
<1>6. \A r \in { AuthListener, MessageListener, ConversationListener, FriendListener,
          GroupListener, UserListener, CallListener, StateListener,
          messageReceivedCallback, convUpdatedCallback, connectionStateCallback } : r # Unused
  BY <1>1 DEF AuthListener, MessageListener, ConversationListener, FriendListener,
      GroupListener, UserListener, CallListener, StateListener,
      messageReceivedCallback, convUpdatedCallback, connectionStateCallback
<1> QED BY <1>3, <1>4, <1>5, <1>6 DEF Registrations

-----------------------------------------------------------------------------
(***************************************************************************)
(* Every step keeps the invariant.                                         *)
(***************************************************************************)

\* Nothing is handed over where nothing is taken out of the map, put into it or begun.
LEMMA HandOverStays ==
    ASSUME HandOverInv,
           made' = made, context' = context, entry' = entry, oldCtx' = oldCtx,
           \A u \in Threads, x \in Objects :
              (Placing(u, x)' => Placing(u, x)) /\ (Pending(u, x)' => Pending(u, x))
    PROVE  HandOverInv'
<1>1. \A x \in Objects : Referred(x)' => Referred(x)
  BY DEF Referred
<1> QED BY <1>1 DEF HandOverInv

\* An event is taken up.
LEMMA TakeKeeps == ASSUME Inv, NEW t \in Threads, Take(t) PROVE Inv'
<1>1. /\ t # "app" /\ At(t) = "idle" /\ At(t)' = "lock"
      /\ \A u \in Threads \ {t} : At(u)' = At(u) /\ About(u)' = About(u)
      /\ ProgramsOK'
  BY TakeMoves DEF Inv
<1>2. Typed'
  <2>1. PICK type \in IF t = "ws" THEN Types \ {"expired"} ELSE {"state", "expired"} :
          \E m \in MethodsFor(subject, type) \cup {None} : method' = [method EXCEPT ![t] = m]
    BY DEF Take
  <2>2. MethodsFor(subject, type) \subseteq Methods(subject)
    BY DEF MethodsFor, Methods
  <2>3. method' \in [Threads -> Methods(subject) \cup {None}]
    <3>1. PICK m \in Methods(subject) \cup {None} : method' = [method EXCEPT ![t] = m]
      BY <2>1, <2>2
    <3>2. method \in [Threads -> Methods(subject) \cup {None}]
      BY DEF Inv, Typed
    <3> QED BY <3>1, <3>2
  <2>4. events' \in 0..MaxEvents
    BY ListenersAssumption DEF Inv, Typed, Take
  <2>5. before' \in [Threads -> SUBSET Objects]
    BY DEF Inv, Typed, Take
  <2> QED BY <2>3, <2>4, <2>5 DEF Inv, Typed, Take
<1>3. MutexInv'
  BY <1>1 DEF Inv, MutexInv, Typed, Follows, Resumes, Take
<1>4. FreshInv'
  <2> SUFFICES ASSUME NEW x \in Objects
               PROVE  /\ made'[x] = Unused => Unseen(x)' /\ \A u \in Threads : ~Pending(u, x)'
                      /\ \A u \in Threads : Pending(u, x)' =>
                            /\ Unseen(x)'
                            /\ made'[x].layer = "android" => context'[x] = "live"
                            /\ \A v \in Threads \ {u} : ~Pending(v, x)'
    BY DEF FreshInv
  <2>1. Unseen(x) => Unseen(x)'
    BY <1>1 DEF Inv, Typed, Unseen, Placing, Follows, Resumes, Take
  <2>2. \A u \in Threads : Pending(u, x)' => Pending(u, x)
    BY <1>1 DEF Pending, Follows, Resumes, Take
  <2>3. made' = made /\ (Unseen(x) => context'[x] = context[x])
    BY DEF Inv, Typed, Unseen, Take
  <2> QED BY <2>1, <2>2, <2>3 DEF Inv, FreshInv
<1>5. AliveInv'
  BY <1>1 DEF Inv, AliveInv, Typed, Follows, Resumes, Take
<1>6. LateInv'
  <2> SUFFICES ASSUME NEW u \in Threads
               PROVE  /\ before'[u] \subseteq removed'
                      /\ \A i \in DOMAIN heard'[u] : heard'[u][i] \notin before'[u]
                      /\ At(u)' \in {"unlock", "call"} => copied'[u] \notin before'[u]
    BY DEF LateInv
  <2>1. CASE u = t
    <3>1. heard'[t] = <<>> /\ before'[t] = removed /\ removed' = removed
      BY <1>1 DEF Inv, HeardInv, Typed, Take
    <3> QED BY <1>1, <2>1, <3>1
  <2>2. CASE u # t
    <3>1. /\ heard' = heard /\ before'[u] = before[u] /\ removed' = removed
          /\ copied' = copied /\ At(u)' = At(u)
      BY <1>1, <2>2 DEF Inv, Typed, Take
    <3> QED BY <3>1 DEF Inv, LateInv
  <2> QED BY <2>1, <2>2
<1>7. HeardInv'
  <2> SUFFICES ASSUME NEW u \in Threads
               PROVE  /\ u = "app" \/ At(u)' \in {"idle", "lock", "copy", "unlock", "call"} => heard'[u] = <<>>
                      /\ At(u)' \in {"lock", "copy"} /\ steady'[u] # None => listener_' = steady'[u]
                      /\ At(u)' \in {"unlock", "call"} /\ steady'[u] # None => copied'[u] = steady'[u]
                      /\ u # "app" /\ At(u)' \in {"return"} \cup SetSteps =>
                            /\ Len(heard'[u]) <= 1
                            /\ steady'[u] # None /\ method'[u] \in made'[steady'[u]].hears
                                 => heard'[u] = <<steady'[u]>>
    BY DEF HeardInv
  <2>1. CASE u = t
    <3>1. heard'[t] = heard[t] /\ steady'[t] = listener_ /\ listener_' = listener_
      BY DEF Inv, Typed, Take
    <3> QED BY <1>1, <2>1, <3>1 DEF Inv, HeardInv, SetSteps
  <2>2. CASE u # t
    <3>1. method'[u] = method[u]
      BY <2>2 DEF Inv, Typed, Take
    <3>2. /\ heard'[u] = heard[u] /\ steady'[u] = steady[u]
          /\ made' = made /\ listener_' = listener_ /\ copied' = copied
      BY <2>2 DEF Inv, Typed, Take
    <3> QED BY <1>1, <2>2, <3>1, <3>2 DEF Inv, HeardInv
  <2> QED BY <2>1, <2>2
<1>8. ContextInv'
  BY <1>1 DEF Inv, ContextInv, RegisteredContextLives, Typed, Follows, Resumes, Take
<1>9. HandOverInv'
  <2>1. \A u \in Threads, x \in Objects :
           (Placing(u, x)' => Placing(u, x)) /\ (Pending(u, x)' => Pending(u, x))
    BY <1>1, NoneIsNoObject DEF Placing, Pending, Follows, Resumes
  <2>2. made' = made /\ context' = context /\ entry' = entry /\ oldCtx' = oldCtx
    BY DEF Take
  <2> QED BY <2>1, <2>2, HandOverStays DEF Inv
<1> QED BY <1>1, <1>2, <1>3, <1>4, <1>5, <1>6, <1>7, <1>8, <1>9 DEF Inv

\* A listener is made, and its registration begun.
LEMMA RegisterKeeps == ASSUME Inv, NEW t \in Threads, Register(t) PROVE Inv'
<1> DEFINE o == CHOOSE p \in New : TRUE
<1>0. o \in Objects /\ made[o] = Unused
  BY DEF Register, New
<1> HIDE DEF o
<1>p. PICK r \in Registrations :
        /\ made' = [made EXCEPT ![o] = r]
        /\ IF r.layer = "android"
           THEN /\ context' = [context EXCEPT ![o] = "live"]
                /\ todo' = [todo EXCEPT ![t] = NativeSetCallback(o) \o @]
           ELSE /\ todo' = [todo EXCEPT ![t] = SetListener(o) \o @]
                /\ UNCHANGED context
  BY DEF Register, o
<1>1. /\ At(t) = Resumes(t) /\ At(t)' \in {"enter", "assign"} /\ About(t)' = o
      /\ \A u \in Threads \ {t} : At(u)' = At(u) /\ About(u)' = About(u)
      /\ ProgramsOK'
  <2>1. \/ todo' = [todo EXCEPT ![t] = SetListener(o) \o @]
        \/ todo' = [todo EXCEPT ![t] = NativeSetCallback(o) \o @]
    BY <1>p
  <2> QED BY <1>0, <2>1, SetMoves DEF Inv, Register
<1>2. Typed'
  BY <1>0, <1>p DEF Inv, Typed, Follows, Resumes, Register
<1>3. MutexInv'
  BY <1>1, <1>0, <1>p DEF Inv, MutexInv, Typed, Follows, Resumes, Register
<1>4. FreshInv'
  <2> SUFFICES ASSUME NEW x \in Objects
               PROVE  /\ made'[x] = Unused => Unseen(x)' /\ \A u \in Threads : ~Pending(u, x)'
                      /\ \A u \in Threads : Pending(u, x)' =>
                            /\ Unseen(x)'
                            /\ made'[x].layer = "android" => context'[x] = "live"
                            /\ \A v \in Threads \ {u} : ~Pending(v, x)'
    BY DEF FreshInv
  <2>1. Unseen(x) => Unseen(x)'
    BY <1>1 DEF Unseen, Placing, Resumes, Register
  <2>2. CASE x = o
    <3>1. Unseen(x) /\ \A u \in Threads : ~Pending(u, x)
      BY <1>0, <2>2 DEF Inv, FreshInv
    <3>2. made'[x] = r /\ (r.layer = "android" => context'[x] = "live")
      BY <1>0, <1>p, <2>2 DEF Inv, Typed
    <3>3. \A u \in Threads : Pending(u, x)' => u = t
      BY <1>1, <3>1 DEF Pending
    <3> QED BY <2>1, <3>1, <3>2, <3>3, RegistrationIsUse
  <2>3. CASE x # o
    <3>1. \A u \in Threads : Pending(u, x)' => Pending(u, x)
      BY <1>1, <2>3 DEF Pending
    <3>2. made'[x] = made[x] /\ context'[x] = context[x]
      BY <1>0, <1>p, <2>3 DEF Inv, Typed
    <3> QED BY <2>1, <3>1, <3>2 DEF Inv, FreshInv
  <2> QED BY <2>2, <2>3
<1>5. AliveInv'
  BY <1>1, <1>0, <1>p DEF Inv, AliveInv, Typed, Follows, Resumes, Register
<1>6. LateInv'
  <2> SUFFICES ASSUME NEW u \in Threads
               PROVE  /\ before'[u] \subseteq removed'
                      /\ \A i \in DOMAIN heard'[u] : heard'[u][i] \notin before'[u]
                      /\ At(u)' \in {"unlock", "call"} => copied'[u] \notin before'[u]
    BY DEF LateInv
  <2>1. /\ heard' = heard /\ before' = before /\ copied' = copied
        /\ removed \subseteq removed'
    BY DEF Register
  <2>2. At(u)' \in {"unlock", "call"} => At(u) \in {"unlock", "call"}
    BY <1>1 DEF Follows, Resumes
  <2> QED BY <2>1, <2>2 DEF Inv, LateInv
<1>7. HeardInv'
  <2> SUFFICES ASSUME NEW u \in Threads
               PROVE  /\ u = "app" \/ At(u)' \in {"idle", "lock", "copy", "unlock", "call"} => heard'[u] = <<>>
                      /\ At(u)' \in {"lock", "copy"} /\ steady'[u] # None => listener_' = steady'[u]
                      /\ At(u)' \in {"unlock", "call"} /\ steady'[u] # None => copied'[u] = steady'[u]
                      /\ u # "app" /\ At(u)' \in {"return"} \cup SetSteps =>
                            /\ Len(heard'[u]) <= 1
                            /\ steady'[u] # None /\ method'[u] \in made'[steady'[u]].hears
                                 => heard'[u] = <<steady'[u]>>
    BY DEF HeardInv
  <2>1. steady[u] # None => made'[steady[u]] = made[steady[u]]
    <3>1. steady[u] # o
      BY <1>0 DEF Inv, FreshInv, Unseen
    <3> QED BY <1>0, <1>p, <3>1 DEF Inv, Typed
  <2>2. CASE u = t
    BY <1>1, <2>1, <2>2 DEF Inv, HeardInv, SetSteps, Resumes, Register
  <2>3. CASE u # t
    BY <1>1, <2>1, <2>3 DEF Inv, HeardInv, Register
  <2> QED BY <2>2, <2>3
<1>8. ContextInv'
  <2>1. RegisteredContextLives'
    <3>1. listener_' = listener_ /\ listener_ # o
      BY <1>0 DEF Inv, FreshInv, Unseen, Register
    <3>2. listener_ # None => made'[listener_] = made[listener_] /\ context'[listener_] = context[listener_]
      BY <1>0, <1>p, <3>1 DEF Inv, Typed
    <3> QED BY <3>1, <3>2 DEF Inv, ContextInv, RegisteredContextLives
  <2>2. \A u \in Threads : At(u)' \in {"leave", "forget"} => At(u)' = At(u)
    BY <1>1
  <2> QED BY <2>1, <2>2 DEF Inv, ContextInv, Register
<1>9. HandOverInv'
  <2>1. \A u \in Threads, x \in Objects :
           (Placing(u, x)' => Placing(u, x)) /\ (Pending(u, x)' => Pending(u, x) \/ x = o)
    BY <1>1 DEF Placing, Pending, Resumes
  <2>2. entry' = entry /\ oldCtx' = oldCtx
    BY DEF Register
  <2>3. ASSUME NEW x \in Objects, Referred(x)'
        PROVE  context'[x] # "deleted"
    <3>1. CASE x = o
      <4>1. context[o] # "deleted"
        BY <1>0 DEF Inv, HandOverInv, Referred
      <4> QED BY <1>0, <1>p, <3>1, <4>1 DEF Inv, Typed
    <3>2. CASE x # o
      <4>1. made'[x] = made[x] /\ context'[x] = context[x]
        BY <1>0, <1>p, <3>2 DEF Inv, Typed
      <4>2. Referred(x)
        BY <2>1, <2>2, <2>3, <3>2, <4>1 DEF Referred
      <4> QED BY <4>1, <4>2 DEF Inv, HandOverInv
    <3> QED BY <3>1, <3>2
  <2> QED BY <2>1, <2>2, <2>3 DEF Inv, HandOverInv
<1> QED BY <1>1, <1>2, <1>3, <1>4, <1>5, <1>6, <1>7, <1>8, <1>9 DEF Inv

\* A clear is begun.
LEMMA ClearKeeps == ASSUME Inv, NEW t \in Threads, Clear(t) PROVE Inv'
<1>1. /\ At(t) = Resumes(t) /\ At(t)' \in {"enter", "assign"} /\ About(t)' = None
      /\ \A u \in Threads \ {t} : At(u)' = At(u) /\ About(u)' = About(u)
      /\ ProgramsOK'
  <2>1. \/ todo' = [todo EXCEPT ![t] = SetListener(None) \o @]
        \/ todo' = [todo EXCEPT ![t] = NativeSetCallback(None) \o @]
    BY DEF Clear, Inv, ProgramsOK
  <2> QED BY <2>1, SetMoves DEF Inv, Clear
<1>2. Typed'
  <2>1. clears' \in 0..MaxClears
    BY ListenersAssumption DEF Inv, Typed, Clear
  <2> QED BY <2>1 DEF Inv, Typed, Clear
<1>3. MutexInv'
  BY <1>1 DEF Inv, MutexInv, Typed, Follows, Resumes, Clear
<1>4. FreshInv'
  <2> SUFFICES ASSUME NEW x \in Objects
               PROVE  /\ made'[x] = Unused => Unseen(x)' /\ \A u \in Threads : ~Pending(u, x)'
                      /\ \A u \in Threads : Pending(u, x)' =>
                            /\ Unseen(x)'
                            /\ made'[x].layer = "android" => context'[x] = "live"
                            /\ \A v \in Threads \ {u} : ~Pending(v, x)'
    BY DEF FreshInv
  <2>1. Unseen(x) => Unseen(x)'
    BY <1>1 DEF Inv, Typed, Unseen, Placing, Follows, Resumes, Clear
  <2>2. \A u \in Threads : Pending(u, x)' => Pending(u, x)
    BY <1>1, NoneIsNoObject DEF Pending
  <2>3. made' = made /\ (Unseen(x) => context'[x] = context[x])
    BY DEF Inv, Typed, Unseen, Clear
  <2> QED BY <2>1, <2>2, <2>3 DEF Inv, FreshInv
<1>5. AliveInv'
  BY <1>1 DEF Inv, AliveInv, Typed, Follows, Resumes, Clear
<1>6. LateInv'
  <2> SUFFICES ASSUME NEW u \in Threads
               PROVE  /\ before'[u] \subseteq removed'
                      /\ \A i \in DOMAIN heard'[u] : heard'[u][i] \notin before'[u]
                      /\ At(u)' \in {"unlock", "call"} => copied'[u] \notin before'[u]
    BY DEF LateInv
  <2>1. /\ heard' = heard /\ before' = before /\ copied' = copied
        /\ removed \subseteq removed'
    BY DEF Clear
  <2>2. At(u)' \in {"unlock", "call"} => At(u) \in {"unlock", "call"}
    BY <1>1 DEF Follows, Resumes
  <2> QED BY <2>1, <2>2 DEF Inv, LateInv
<1>7. HeardInv'
  <2> SUFFICES ASSUME NEW u \in Threads
               PROVE  /\ u = "app" \/ At(u)' \in {"idle", "lock", "copy", "unlock", "call"} => heard'[u] = <<>>
                      /\ At(u)' \in {"lock", "copy"} /\ steady'[u] # None => listener_' = steady'[u]
                      /\ At(u)' \in {"unlock", "call"} /\ steady'[u] # None => copied'[u] = steady'[u]
                      /\ u # "app" /\ At(u)' \in {"return"} \cup SetSteps =>
                            /\ Len(heard'[u]) <= 1
                            /\ steady'[u] # None /\ method'[u] \in made'[steady'[u]].hears
                                 => heard'[u] = <<steady'[u]>>
    BY DEF HeardInv
  <2>1. /\ heard' = heard /\ method' = method /\ steady' = steady
        /\ made' = made /\ listener_' = listener_ /\ copied' = copied
    BY DEF Clear
  <2>2. CASE u = t
    BY <1>1, <2>1, <2>2 DEF Inv, HeardInv, SetSteps, Follows, Resumes
  <2>3. CASE u # t
    BY <1>1, <2>1, <2>3 DEF Inv, HeardInv
  <2> QED BY <2>2, <2>3
<1>8. ContextInv'
  BY <1>1 DEF Inv, ContextInv, RegisteredContextLives, Typed, Follows, Resumes, Clear
<1>9. HandOverInv'
  <2>1. \A u \in Threads, x \in Objects :
           (Placing(u, x)' => Placing(u, x)) /\ (Pending(u, x)' => Pending(u, x))
    BY <1>1, NoneIsNoObject DEF Placing, Pending, Follows, Resumes
  <2>2. made' = made /\ context' = context /\ entry' = entry /\ oldCtx' = oldCtx
    BY DEF Clear
  <2> QED BY <2>1, <2>2, HandOverStays DEF Inv
<1> QED BY <1>1, <1>2, <1>3, <1>4, <1>5, <1>6, <1>7, <1>8, <1>9 DEF Inv

\* A handler takes the mutex.
LEMMA LockKeeps == ASSUME Inv, NEW t \in Threads, Lock(t) PROVE Inv'
<1>1. /\ At(t) = "lock" /\ At(t)' \in Follows("lock", t)
      /\ \A u \in Threads \ {t} : At(u)' = At(u) /\ About(u)' = About(u)
      /\ ProgramsOK'
  BY StepMoves DEF Inv, Lock
<1>2. Typed'
  BY <1>1 DEF Inv, Typed, Follows, Resumes, Lock
<1>3. MutexInv'
  BY <1>1 DEF Inv, MutexInv, Typed, Follows, Resumes, Lock
<1>4. FreshInv'
  <2> SUFFICES ASSUME NEW x \in Objects
               PROVE  /\ made'[x] = Unused => Unseen(x)' /\ \A u \in Threads : ~Pending(u, x)'
                      /\ \A u \in Threads : Pending(u, x)' =>
                            /\ Unseen(x)'
                            /\ made'[x].layer = "android" => context'[x] = "live"
                            /\ \A v \in Threads \ {u} : ~Pending(v, x)'
    BY DEF FreshInv
  <2>1. Unseen(x) => Unseen(x)'
    BY <1>1 DEF Inv, Typed, Unseen, Placing, Follows, Resumes, Lock
  <2>2. \A u \in Threads : Pending(u, x)' => Pending(u, x)
    BY <1>1 DEF Pending, Follows, Resumes, Lock
  <2>3. made' = made /\ (Unseen(x) => context'[x] = context[x])
    BY DEF Inv, Typed, Unseen, Lock
  <2> QED BY <2>1, <2>2, <2>3 DEF Inv, FreshInv
<1>5. AliveInv'
  BY <1>1 DEF Inv, AliveInv, Typed, Follows, Resumes, Lock
<1>6. LateInv'
  <2> SUFFICES ASSUME NEW u \in Threads
               PROVE  /\ before'[u] \subseteq removed'
                      /\ \A i \in DOMAIN heard'[u] : heard'[u][i] \notin before'[u]
                      /\ At(u)' \in {"unlock", "call"} => copied'[u] \notin before'[u]
    BY DEF LateInv
  <2>1. /\ heard' = heard /\ before' = before /\ copied' = copied
        /\ removed \subseteq removed'
    BY DEF Lock
  <2>2. At(u)' \in {"unlock", "call"} => At(u) \in {"unlock", "call"}
    BY <1>1 DEF Follows, Resumes
  <2> QED BY <2>1, <2>2 DEF Inv, LateInv
<1>7. HeardInv'
  <2> SUFFICES ASSUME NEW u \in Threads
               PROVE  /\ u = "app" \/ At(u)' \in {"idle", "lock", "copy", "unlock", "call"} => heard'[u] = <<>>
                      /\ At(u)' \in {"lock", "copy"} /\ steady'[u] # None => listener_' = steady'[u]
                      /\ At(u)' \in {"unlock", "call"} /\ steady'[u] # None => copied'[u] = steady'[u]
                      /\ u # "app" /\ At(u)' \in {"return"} \cup SetSteps =>
                            /\ Len(heard'[u]) <= 1
                            /\ steady'[u] # None /\ method'[u] \in made'[steady'[u]].hears
                                 => heard'[u] = <<steady'[u]>>
    BY DEF HeardInv
  <2>1. /\ heard' = heard /\ method' = method /\ steady' = steady
        /\ made' = made /\ listener_' = listener_ /\ copied' = copied
    BY DEF Lock
  <2>2. CASE u = t
    BY <1>1, <2>1, <2>2 DEF Inv, HeardInv, SetSteps, Follows, Resumes
  <2>3. CASE u # t
    BY <1>1, <2>1, <2>3 DEF Inv, HeardInv
  <2> QED BY <2>2, <2>3
<1>8. ContextInv'
  BY <1>1 DEF Inv, ContextInv, RegisteredContextLives, Typed, Follows, Resumes, Lock
<1>9. HandOverInv'
  <2>1. \A u \in Threads, x \in Objects :
           (Placing(u, x)' => Placing(u, x)) /\ (Pending(u, x)' => Pending(u, x))
    BY <1>1, NoneIsNoObject DEF Placing, Pending, Follows, Resumes
  <2>2. made' = made /\ context' = context /\ entry' = entry /\ oldCtx' = oldCtx
    BY DEF Lock
  <2> QED BY <2>1, <2>2, HandOverStays DEF Inv
<1> QED BY <1>1, <1>2, <1>3, <1>4, <1>5, <1>6, <1>7, <1>8, <1>9 DEF Inv

\* A handler gives the mutex back.
LEMMA UnlockKeeps == ASSUME Inv, NEW t \in Threads, Unlock(t) PROVE Inv'
<1>1. /\ At(t) = "unlock" /\ At(t)' \in Follows("unlock", t)
      /\ \A u \in Threads \ {t} : At(u)' = At(u) /\ About(u)' = About(u)
      /\ ProgramsOK'
  BY StepMoves DEF Inv, Unlock
<1>2. Typed'
  BY <1>1 DEF Inv, Typed, Follows, Resumes, Unlock
<1>3. MutexInv'
  BY <1>1, OthersAreOthers DEF Inv, MutexInv, Unlock
<1>4. FreshInv'
  <2> SUFFICES ASSUME NEW x \in Objects
               PROVE  /\ made'[x] = Unused => Unseen(x)' /\ \A u \in Threads : ~Pending(u, x)'
                      /\ \A u \in Threads : Pending(u, x)' =>
                            /\ Unseen(x)'
                            /\ made'[x].layer = "android" => context'[x] = "live"
                            /\ \A v \in Threads \ {u} : ~Pending(v, x)'
    BY DEF FreshInv
  <2>1. Unseen(x) => Unseen(x)'
    BY <1>1 DEF Inv, Typed, Unseen, Placing, Follows, Resumes, Unlock
  <2>2. \A u \in Threads : Pending(u, x)' => Pending(u, x)
    BY <1>1 DEF Pending, Follows, Resumes, Unlock
  <2>3. made' = made /\ (Unseen(x) => context'[x] = context[x])
    BY DEF Inv, Typed, Unseen, Unlock
  <2> QED BY <2>1, <2>2, <2>3 DEF Inv, FreshInv
<1>5. AliveInv'
  BY <1>1 DEF Inv, AliveInv, Typed, Follows, Resumes, Unlock
<1>6. LateInv'
  <2> SUFFICES ASSUME NEW u \in Threads
               PROVE  /\ before'[u] \subseteq removed'
                      /\ \A i \in DOMAIN heard'[u] : heard'[u][i] \notin before'[u]
                      /\ At(u)' \in {"unlock", "call"} => copied'[u] \notin before'[u]
    BY DEF LateInv
  <2>1. /\ heard' = heard /\ before' = before /\ copied' = copied
        /\ removed \subseteq removed'
    BY DEF Unlock
  <2>2. At(u)' \in {"unlock", "call"} => At(u) \in {"unlock", "call"}
    BY <1>1 DEF Follows, Resumes
  <2> QED BY <2>1, <2>2 DEF Inv, LateInv
<1>7. HeardInv'
  <2> SUFFICES ASSUME NEW u \in Threads
               PROVE  /\ u = "app" \/ At(u)' \in {"idle", "lock", "copy", "unlock", "call"} => heard'[u] = <<>>
                      /\ At(u)' \in {"lock", "copy"} /\ steady'[u] # None => listener_' = steady'[u]
                      /\ At(u)' \in {"unlock", "call"} /\ steady'[u] # None => copied'[u] = steady'[u]
                      /\ u # "app" /\ At(u)' \in {"return"} \cup SetSteps =>
                            /\ Len(heard'[u]) <= 1
                            /\ steady'[u] # None /\ method'[u] \in made'[steady'[u]].hears
                                 => heard'[u] = <<steady'[u]>>
    BY DEF HeardInv
  <2>1. /\ heard' = heard /\ method' = method /\ steady' = steady
        /\ made' = made /\ listener_' = listener_ /\ copied' = copied
    BY DEF Unlock
  <2>2. CASE u = t
    BY <1>1, <2>1, <2>2 DEF Inv, HeardInv, SetSteps, Follows, Resumes
  <2>3. CASE u # t
    BY <1>1, <2>1, <2>3 DEF Inv, HeardInv
  <2> QED BY <2>2, <2>3
<1>8. ContextInv'
  BY <1>1 DEF Inv, ContextInv, RegisteredContextLives, Typed, Follows, Resumes, Unlock
<1>9. HandOverInv'
  <2>1. \A u \in Threads, x \in Objects :
           (Placing(u, x)' => Placing(u, x)) /\ (Pending(u, x)' => Pending(u, x))
    BY <1>1, NoneIsNoObject DEF Placing, Pending, Follows, Resumes
  <2>2. made' = made /\ context' = context /\ entry' = entry /\ oldCtx' = oldCtx
    BY DEF Unlock
  <2> QED BY <2>1, <2>2, HandOverStays DEF Inv
<1> QED BY <1>1, <1>2, <1>3, <1>4, <1>5, <1>6, <1>7, <1>8, <1>9 DEF Inv

\* A registration, or a clear, reaches listener_.
LEMMA AssignKeeps == ASSUME Inv, NEW t \in Threads, Assign(t) PROVE Inv'
<1>1. /\ At(t) = "assign" /\ At(t)' \in Follows("assign", t)
      /\ Head(todo[t]).o = About(t) /\ About(t) \in Objects \cup {None}
      /\ At(t)' \in {"assign", "leave"} => About(t)' = About(t)
      /\ \A u \in Threads \ {t} : At(u)' = At(u) /\ About(u)' = About(u)
      /\ ProgramsOK'
  BY StepMoves DEF Inv, Assign
<1>2. Typed'
  BY <1>1 DEF Inv, Typed, Follows, Resumes, Assign, Assigned
<1>3. MutexInv'
  BY <1>1 DEF Inv, MutexInv, Typed, Follows, Resumes, Assign
<1>4. FreshInv'
  <2> SUFFICES ASSUME NEW x \in Objects
               PROVE  /\ made'[x] = Unused => Unseen(x)' /\ \A u \in Threads : ~Pending(u, x)'
                      /\ \A u \in Threads : Pending(u, x)' =>
                            /\ Unseen(x)'
                            /\ made'[x].layer = "android" => context'[x] = "live"
                            /\ \A v \in Threads \ {u} : ~Pending(v, x)'
    BY DEF FreshInv
  <2>1. Unseen(x) /\ ~Pending(t, x) => Unseen(x)'
    <3> SUFFICES ASSUME Unseen(x), ~Pending(t, x)
                 PROVE  Unseen(x)'
      OBVIOUS
    <3>1. x # About(t)
      BY <1>1 DEF Pending
    <3>2. x # listener_' /\ x # entry' /\ x \notin removed' /\ x \notin gone'
      BY <1>1, <3>1 DEF Unseen, Assign, Assigned
    <3>3. ASSUME NEW u \in Threads
          PROVE  x # copied'[u] /\ x # oldCtx'[u] /\ x # steady'[u] /\ ~Placing(u, x)'
      <4>1. x # copied'[u] /\ x # oldCtx'[u]
        BY DEF Unseen, Assign
      <4>2. x # steady'[u]
        BY NoneIsNoObject DEF Assign
      <4>3. ~Placing(u, x)'
        BY <1>1, <3>1 DEF Unseen, Placing, Follows
      <4> QED BY <4>1, <4>2, <4>3
    <3> QED BY <3>2, <3>3 DEF Unseen
  <2>2. \A u \in Threads : Pending(u, x)' => Pending(u, x) /\ u # t
    BY <1>1 DEF Pending, Follows, Resumes, Assign
  <2>3. made' = made /\ context' = context
    BY DEF Assign
  <2> QED BY <2>1, <2>2, <2>3 DEF Inv, FreshInv
<1>5. AliveInv'
  <2>1. listener_' = About(t)
    BY <1>1 DEF Assign, Assigned
  <2>2. About(t) \notin gone /\ About(t) \notin removed
    BY <1>1 DEF Inv, Typed, FreshInv, Unseen, Pending
  <2>3. About(t) \notin gone' /\ About(t) \notin removed'
    BY <1>1, <2>2 DEF Assign, Assigned
  <2>4. \A u \in Threads : copied[u] # None => copied[u] \notin gone'
    BY <1>1 DEF Inv, AliveInv, Assign, Assigned, HeldByHandlers, Shared
  <2> QED BY <2>1, <2>3, <2>4 DEF AliveInv, Assign
<1>6. LateInv'
  <2> SUFFICES ASSUME NEW u \in Threads
               PROVE  /\ before'[u] \subseteq removed'
                      /\ \A i \in DOMAIN heard'[u] : heard'[u][i] \notin before'[u]
                      /\ At(u)' \in {"unlock", "call"} => copied'[u] \notin before'[u]
    BY DEF LateInv
  <2>1. /\ heard' = heard /\ before' = before /\ copied' = copied
        /\ removed \subseteq removed'
    BY DEF Assign
  <2>2. At(u)' \in {"unlock", "call"} => At(u) \in {"unlock", "call"}
    BY <1>1 DEF Follows, Resumes
  <2> QED BY <2>1, <2>2 DEF Inv, LateInv
<1>7. HeardInv'
  BY <1>1 DEF Inv, HeardInv, HandlerSteps, SetSteps, Typed, Follows, Resumes, Assign
<1>8. ContextInv'
  <2>1. listener_' = About(t)
    BY <1>1 DEF Assign, Assigned
  <2>2. RegisteredContextLives'
    BY <1>1, <2>1 DEF Inv, FreshInv, Pending, RegisteredContextLives, Assign
  <2>3. ASSUME NEW u \in Threads, oldCtx[u] # None
        PROVE  oldCtx[u] # About(t)
    BY <1>1, <2>3 DEF Inv, Typed, FreshInv, Unseen, Pending
  <2> QED BY <2>1, <2>2, <2>3 DEF ContextInv, Assign
<1>9. HandOverInv'
  <2>1. \A x \in Objects : Pending(t, x) => Unseen(x)
    BY DEF Inv, FreshInv
  <2>2. \A u \in Threads, x \in Objects :
           /\ u # t => (Placing(u, x)' <=> Placing(u, x)) /\ (Pending(u, x)' <=> Pending(u, x))
           /\ Placing(t, x)' => Pending(t, x)
           /\ ~Pending(t, x)'
    BY <1>1 DEF Placing, Pending, Follows, Resumes
  <2>3. made' = made /\ context' = context /\ entry' = entry /\ oldCtx' = oldCtx
    BY DEF Assign
  <2>4. \A x \in Objects : Referred(x)' => Referred(x)
    BY <2>2, <2>3 DEF Referred
  <2>5. ASSUME NEW u \in Threads, NEW x \in Objects, Placing(u, x)'
        PROVE  /\ x # entry /\ \A v \in Threads : oldCtx[v] # x
               /\ \A v \in Threads \ {u} : ~Placing(v, x)'
    <3>1. CASE u = t
      BY <2>1, <2>2, <2>5, <3>1 DEF Unseen
    <3>2. CASE u # t
      BY <2>1, <2>2, <2>5, <3>2 DEF Inv, HandOverInv, Unseen
    <3> QED BY <3>1, <3>2
  <2> QED BY <2>3, <2>4, <2>5 DEF Inv, HandOverInv
<1> QED BY <1>1, <1>2, <1>3, <1>4, <1>5, <1>6, <1>7, <1>8, <1>9 DEF Inv

\* A handler copies the shared_ptr.
LEMMA CopyKeeps == ASSUME Inv, NEW t \in Threads, Copy(t) PROVE Inv'
<1>1. /\ At(t) = "copy" /\ At(t)' \in Follows("copy", t)
      /\ \A u \in Threads \ {t} : At(u)' = At(u) /\ About(u)' = About(u)
      /\ ProgramsOK'
  BY StepMoves DEF Inv, Copy
<1>2. Typed'
  BY <1>1 DEF Inv, Typed, Follows, Resumes, Copy
<1>3. MutexInv'
  BY <1>1 DEF Inv, MutexInv, Typed, Follows, Resumes, Copy
<1>4. FreshInv'
  <2> SUFFICES ASSUME NEW x \in Objects
               PROVE  /\ made'[x] = Unused => Unseen(x)' /\ \A u \in Threads : ~Pending(u, x)'
                      /\ \A u \in Threads : Pending(u, x)' =>
                            /\ Unseen(x)'
                            /\ made'[x].layer = "android" => context'[x] = "live"
                            /\ \A v \in Threads \ {u} : ~Pending(v, x)'
    BY DEF FreshInv
  <2>1. Unseen(x) => Unseen(x)'
    BY <1>1 DEF Inv, Typed, Unseen, Placing, Follows, Resumes, Copy
  <2>2. \A u \in Threads : Pending(u, x)' => Pending(u, x)
    BY <1>1 DEF Pending, Follows, Resumes, Copy
  <2>3. made' = made /\ (Unseen(x) => context'[x] = context[x])
    BY DEF Inv, Typed, Unseen, Copy
  <2> QED BY <2>1, <2>2, <2>3 DEF Inv, FreshInv
<1>5. AliveInv'
  BY <1>1 DEF Inv, AliveInv, Typed, Follows, Resumes, Copy
<1>6. LateInv'
  <2> SUFFICES ASSUME NEW u \in Threads
               PROVE  /\ before'[u] \subseteq removed'
                      /\ \A i \in DOMAIN heard'[u] : heard'[u][i] \notin before'[u]
                      /\ At(u)' \in {"unlock", "call"} => copied'[u] \notin before'[u]
    BY DEF LateInv
  <2>1. heard' = heard /\ before' = before /\ removed' = removed
    BY DEF Copy
  <2>2. CASE u = t
    <3>1. copied'[t] = listener_ /\ listener_ \notin removed
      BY DEF Inv, Typed, AliveInv, Copy
    <3> QED BY <2>1, <2>2, <3>1 DEF Inv, LateInv
  <2>3. CASE u # t
    <3>1. copied'[u] = copied[u] /\ At(u)' = At(u)
      BY <1>1, <2>3 DEF Inv, Typed, Copy
    <3> QED BY <2>1, <3>1 DEF Inv, LateInv
  <2> QED BY <2>2, <2>3
<1>7. HeardInv'
  <2> SUFFICES ASSUME NEW u \in Threads
               PROVE  /\ u = "app" \/ At(u)' \in {"idle", "lock", "copy", "unlock", "call"} => heard'[u] = <<>>
                      /\ At(u)' \in {"lock", "copy"} /\ steady'[u] # None => listener_' = steady'[u]
                      /\ At(u)' \in {"unlock", "call"} /\ steady'[u] # None => copied'[u] = steady'[u]
                      /\ u # "app" /\ At(u)' \in {"return"} \cup SetSteps =>
                            /\ Len(heard'[u]) <= 1
                            /\ steady'[u] # None /\ method'[u] \in made'[steady'[u]].hears
                                 => heard'[u] = <<steady'[u]>>
    BY DEF HeardInv
  <2>1. /\ heard' = heard /\ method' = method /\ steady' = steady
        /\ made' = made /\ listener_' = listener_ /\ copied' = [copied EXCEPT ![t] = listener_]
    BY DEF Copy
  <2>2. CASE u = t
    BY <1>1, <2>1, <2>2 DEF Inv, HeardInv, Typed, SetSteps, Follows, Resumes
  <2>3. CASE u # t
    BY <1>1, <2>1, <2>3 DEF Inv, HeardInv, Typed
  <2> QED BY <2>2, <2>3
<1>8. ContextInv'
  BY <1>1 DEF Inv, ContextInv, RegisteredContextLives, Typed, Follows, Resumes, Copy
<1>9. HandOverInv'
  <2>1. \A u \in Threads, x \in Objects :
           (Placing(u, x)' => Placing(u, x)) /\ (Pending(u, x)' => Pending(u, x))
    BY <1>1, NoneIsNoObject DEF Placing, Pending, Follows, Resumes
  <2>2. made' = made /\ context' = context /\ entry' = entry /\ oldCtx' = oldCtx
    BY DEF Copy
  <2> QED BY <2>1, <2>2, HandOverStays DEF Inv
<1> QED BY <1>1, <1>2, <1>3, <1>4, <1>5, <1>6, <1>7, <1>8, <1>9 DEF Inv

\* A handler calls the listener.
LEMMA CallKeeps == ASSUME Inv, NEW t \in Threads, Call(t) PROVE Inv'
<1>1. /\ At(t) = "call" /\ At(t)' \in Follows("call", t)
      /\ \A u \in Threads \ {t} : At(u)' = At(u) /\ About(u)' = About(u)
      /\ ProgramsOK'
  BY StepMoves DEF Inv, Call
<1>2. Typed'
  <2>0. copied[t] \in Objects \cup {None}
    BY DEF Inv, Typed
  <2>1. CASE copied[t] # None /\ method[t] \in made[copied[t]].hears
    <3>1. heard' = [heard EXCEPT ![t] = Append(@, copied[t])]
      BY <2>1 DEF Call
    <3>2. heard \in [Threads -> Seq(Objects)] /\ copied[t] \in Objects
      BY <2>0, <2>1 DEF Inv, Typed
    <3>3. Append(heard[t], copied[t]) \in Seq(Objects)
      BY <3>2
    <3>4. heard' \in [Threads -> Seq(Objects)]
      BY <3>1, <3>2, <3>3
    <3> QED BY <3>4 DEF Inv, Typed, Call
  <2>2. CASE ~(copied[t] # None /\ method[t] \in made[copied[t]].hears)
    <3>1. heard' = heard
      BY <2>2 DEF Call
    <3> QED BY <3>1 DEF Inv, Typed, Call
  <2> QED BY <2>1, <2>2
<1>3. MutexInv'
  BY <1>1 DEF Inv, MutexInv, Typed, Follows, Resumes, Call
<1>4. FreshInv'
  <2> SUFFICES ASSUME NEW x \in Objects
               PROVE  /\ made'[x] = Unused => Unseen(x)' /\ \A u \in Threads : ~Pending(u, x)'
                      /\ \A u \in Threads : Pending(u, x)' =>
                            /\ Unseen(x)'
                            /\ made'[x].layer = "android" => context'[x] = "live"
                            /\ \A v \in Threads \ {u} : ~Pending(v, x)'
    BY DEF FreshInv
  <2>1. Unseen(x) => Unseen(x)'
    BY <1>1 DEF Inv, Typed, Unseen, Placing, Follows, Resumes, Call
  <2>2. \A u \in Threads : Pending(u, x)' => Pending(u, x)
    BY <1>1 DEF Pending, Follows, Resumes, Call
  <2>3. made' = made /\ (Unseen(x) => context'[x] = context[x])
    BY DEF Inv, Typed, Unseen, Call
  <2> QED BY <2>1, <2>2, <2>3 DEF Inv, FreshInv
<1>5. AliveInv'
  BY <1>1 DEF Inv, AliveInv, Typed, Follows, Resumes, Call
<1>6. LateInv'
  <2> SUFFICES ASSUME NEW u \in Threads
               PROVE  /\ before'[u] \subseteq removed'
                      /\ \A i \in DOMAIN heard'[u] : heard'[u][i] \notin before'[u]
                      /\ At(u)' \in {"unlock", "call"} => copied'[u] \notin before'[u]
    BY DEF LateInv
  <2>1. before' = before /\ removed' = removed /\ copied' = copied
    BY DEF Call
  <2>2. At(u)' \in {"unlock", "call"} => At(u)' = At(u)
    BY <1>1 DEF Follows
  <2>3. CASE u = t
    <3>1. heard[t] = <<>> /\ copied[t] \notin before[t]
      BY <1>1 DEF Inv, HeardInv, LateInv
    <3>2. heard'[t] \in {<<>>, <<copied[t]>>}
      BY <3>1 DEF Inv, Typed, Call
    <3> QED BY <2>1, <2>2, <2>3, <3>1, <3>2 DEF Inv, LateInv
  <2>4. CASE u # t
    <3>1. heard'[u] = heard[u]
      BY <2>4 DEF Inv, Typed, Call
    <3> QED BY <2>1, <2>2, <3>1 DEF Inv, LateInv
  <2> QED BY <2>3, <2>4
<1>7. HeardInv'
  <2> SUFFICES ASSUME NEW u \in Threads
               PROVE  /\ u = "app" \/ At(u)' \in {"idle", "lock", "copy", "unlock", "call"} => heard'[u] = <<>>
                      /\ At(u)' \in {"lock", "copy"} /\ steady'[u] # None => listener_' = steady'[u]
                      /\ At(u)' \in {"unlock", "call"} /\ steady'[u] # None => copied'[u] = steady'[u]
                      /\ u # "app" /\ At(u)' \in {"return"} \cup SetSteps =>
                            /\ Len(heard'[u]) <= 1
                            /\ steady'[u] # None /\ method'[u] \in made'[steady'[u]].hears
                                 => heard'[u] = <<steady'[u]>>
    BY DEF HeardInv
  <2>1. CASE u = t
    <3>1. t # "app" /\ heard[t] = <<>> /\ At(t)' = "return"
      BY <1>1, ProgramKinds DEF Inv, ProgramsOK, HeardInv, Follows, HandlerSteps
    <3>2. CASE copied[t] # None /\ method[t] \in made[copied[t]].hears
      <4>0. heard' = [heard EXCEPT ![t] = Append(@, copied[t])]
        BY <3>2 DEF Call
      <4>1. heard'[t] = <<copied[t]>>
        BY <3>1, <4>0 DEF Inv, Typed
      <4> QED BY <1>1, <2>1, <3>1, <4>1 DEF Inv, HeardInv, Call
    <3>3. CASE ~(copied[t] # None /\ method[t] \in made[copied[t]].hears)
      <4>1. heard' = heard
        BY <3>3 DEF Call
      <4> QED BY <1>1, <2>1, <3>1, <3>3, <4>1 DEF Inv, HeardInv, Call
    <3> QED BY <3>2, <3>3
  <2>2. CASE u # t
    <3>1. heard'[u] = heard[u]
      BY <2>2 DEF Inv, Typed, Call
    <3> QED BY <1>1, <2>2, <3>1 DEF Inv, HeardInv, Call
  <2> QED BY <2>1, <2>2
<1>8. ContextInv'
  BY <1>1 DEF Inv, ContextInv, RegisteredContextLives, Typed, Follows, Resumes, Call
<1>9. HandOverInv'
  <2>1. \A u \in Threads, x \in Objects :
           (Placing(u, x)' => Placing(u, x)) /\ (Pending(u, x)' => Pending(u, x))
    BY <1>1, NoneIsNoObject DEF Placing, Pending, Follows, Resumes
  <2>2. made' = made /\ context' = context /\ entry' = entry /\ oldCtx' = oldCtx
    BY DEF Call
  <2> QED BY <2>1, <2>2, HandOverStays DEF Inv
<1> QED BY <1>1, <1>2, <1>3, <1>4, <1>5, <1>6, <1>7, <1>8, <1>9 DEF Inv

\* The method returns, and the copy goes.
LEMMA ReturnKeeps == ASSUME Inv, NEW t \in Threads, Return(t) PROVE Inv'
<1>1. /\ At(t) = "return" /\ At(t)' \in Follows("return", t)
      /\ t # "app" /\ Len(todo[t]) = 1
      /\ \A u \in Threads \ {t} : At(u)' = At(u) /\ About(u)' = About(u)
      /\ ProgramsOK'
  BY StepMoves DEF Inv, Return
<1>2. Typed'
  <2>1. /\ heard' = [heard EXCEPT ![t] = <<>>] /\ method' = [method EXCEPT ![t] = None]
        /\ steady' = [steady EXCEPT ![t] = None] /\ before' = [before EXCEPT ![t] = {}]
    <3>0. Len(todo[t]) = 1
      BY <1>1
    <3>1. ~(Len(todo[t]) > 1)
      BY ONLY <3>0
    <3> QED BY <3>1 DEF Return
  <2>2. gone' \subseteq Objects /\ copied' \in [Threads -> Objects \cup {None}]
    <3>1. copied[t] \in Objects \cup {None} /\ gone \subseteq Objects
      BY DEF Inv, Typed
    <3>2. gone' \subseteq Objects
      BY <3>1 DEF Return
    <3>3. copied' \in [Threads -> Objects \cup {None}]
      BY DEF Inv, Typed, Return
    <3> QED BY <3>2, <3>3
  <2>3. heard' \in [Threads -> Seq(Objects)]
    <3>1. heard \in [Threads -> Seq(Objects)] /\ <<>> \in Seq(Objects)
      BY DEF Inv, Typed
    <3> QED BY <2>1, <3>1
  <2>4. method' \in [Threads -> Methods(subject) \cup {None}] /\ steady' \in [Threads -> Objects \cup {None}]
    BY <2>1 DEF Inv, Typed
  <2>5. before' \in [Threads -> SUBSET Objects]
    BY <2>1 DEF Inv, Typed
  <2> QED BY <2>1, <2>2, <2>3, <2>4, <2>5 DEF Inv, Typed, Return
<1>3. MutexInv'
  <2>1. mutex' = mutex /\ mutex # t
    BY <1>1 DEF Inv, MutexInv, Return
  <2> QED BY <1>1, <2>1 DEF Inv, MutexInv
<1>4. FreshInv'
  <2> SUFFICES ASSUME NEW x \in Objects
               PROVE  /\ made'[x] = Unused => Unseen(x)' /\ \A u \in Threads : ~Pending(u, x)'
                      /\ \A u \in Threads : Pending(u, x)' =>
                            /\ Unseen(x)'
                            /\ made'[x].layer = "android" => context'[x] = "live"
                            /\ \A v \in Threads \ {u} : ~Pending(v, x)'
    BY DEF FreshInv
  <2>1. Unseen(x) => Unseen(x)'
    <3> SUFFICES ASSUME Unseen(x)
                 PROVE  Unseen(x)'
      OBVIOUS
    <3>1. steady' = [steady EXCEPT ![t] = None]
      <4>0. Len(todo[t]) = 1
        BY <1>1
      <4>1. ~(Len(todo[t]) > 1)
        BY ONLY <4>0
      <4> QED BY <4>1 DEF Return
    <3>2. x # listener_' /\ x # entry' /\ x \notin removed' /\ x \notin gone'
      BY <1>1, NoneIsNoObject DEF Unseen, Return
    <3>3. ASSUME NEW u \in Threads
          PROVE  x # copied'[u] /\ x # oldCtx'[u] /\ x # steady'[u] /\ ~Placing(u, x)'
      <4>1. x # copied'[u] /\ x # oldCtx'[u]
        BY NoneIsNoObject DEF Inv, Typed, Unseen, Return
      <4>2. x # steady'[u]
        BY <3>1, NoneIsNoObject DEF Inv, Typed, Unseen
      <4>3. ~Placing(u, x)'
        BY <1>1 DEF Unseen, Placing, Follows, Resumes
      <4> QED BY <4>1, <4>2, <4>3
    <3> QED BY <3>2, <3>3 DEF Unseen
  <2>2. \A u \in Threads : Pending(u, x)' => Pending(u, x)
    BY <1>1 DEF Pending, Follows, Resumes, Return
  <2>3. made' = made /\ (Unseen(x) => context'[x] = context[x])
    BY DEF Inv, Typed, Unseen, Return
  <2> QED BY <2>1, <2>2, <2>3 DEF Inv, FreshInv
<1>5. AliveInv'
  BY <1>1 DEF Inv, AliveInv, Typed, Follows, Resumes, Return
<1>6. LateInv'
  <2> SUFFICES ASSUME NEW u \in Threads
               PROVE  /\ before'[u] \subseteq removed'
                      /\ \A i \in DOMAIN heard'[u] : heard'[u][i] \notin before'[u]
                      /\ At(u)' \in {"unlock", "call"} => copied'[u] \notin before'[u]
    BY DEF LateInv
  <2>1. removed' = removed
    BY DEF Return
  <2>2. CASE u = t
    <3>0. Len(todo[t]) = 1
      BY <1>1
    <3>1. ~(Len(todo[t]) > 1)
      BY ONLY <3>0
    <3>2. heard'[t] = <<>> /\ before'[t] = {}
      BY <3>1 DEF Inv, Typed, Return
    <3> QED BY <2>1, <2>2, <3>2
  <2>3. CASE u # t
    <3>1. /\ heard'[u] = heard[u] /\ before'[u] = before[u]
          /\ copied'[u] = copied[u] /\ At(u)' = At(u)
      BY <1>1, <2>3 DEF Inv, Typed, Return
    <3> QED BY <2>1, <3>1 DEF Inv, LateInv
  <2> QED BY <2>2, <2>3
<1>7. HeardInv'
  <2> SUFFICES ASSUME NEW u \in Threads
               PROVE  /\ u = "app" \/ At(u)' \in {"idle", "lock", "copy", "unlock", "call"} => heard'[u] = <<>>
                      /\ At(u)' \in {"lock", "copy"} /\ steady'[u] # None => listener_' = steady'[u]
                      /\ At(u)' \in {"unlock", "call"} /\ steady'[u] # None => copied'[u] = steady'[u]
                      /\ u # "app" /\ At(u)' \in {"return"} \cup SetSteps =>
                            /\ Len(heard'[u]) <= 1
                            /\ steady'[u] # None /\ method'[u] \in made'[steady'[u]].hears
                                 => heard'[u] = <<steady'[u]>>
    BY DEF HeardInv
  <2>0. /\ heard' = [heard EXCEPT ![t] = <<>>] /\ method' = [method EXCEPT ![t] = None]
        /\ steady' = [steady EXCEPT ![t] = None]
    <3>0. Len(todo[t]) = 1
      BY <1>1
    <3>1. ~(Len(todo[t]) > 1)
      BY ONLY <3>0
    <3> QED BY <3>1 DEF Return
  <2>1. CASE u = t
    BY <1>1, <2>0, <2>1 DEF Inv, Typed, SetSteps, Follows
  <2>2. CASE u # t
    <3>1. heard'[u] = heard[u] /\ method'[u] = method[u] /\ steady'[u] = steady[u] /\ copied'[u] = copied[u]
      BY <2>0, <2>2 DEF Inv, Typed, Return
    <3> QED BY <1>1, <2>2, <3>1 DEF Inv, HeardInv, Return
  <2> QED BY <2>1, <2>2
<1>8. ContextInv'
  BY <1>1 DEF Inv, ContextInv, RegisteredContextLives, Typed, Follows, Resumes, Return
<1>9. HandOverInv'
  <2>1. \A u \in Threads, x \in Objects :
           (Placing(u, x)' => Placing(u, x)) /\ (Pending(u, x)' => Pending(u, x))
    BY <1>1, NoneIsNoObject DEF Placing, Pending, Follows, Resumes
  <2>2. made' = made /\ context' = context /\ entry' = entry /\ oldCtx' = oldCtx
    BY DEF Return
  <2> QED BY <2>1, <2>2, HandOverStays DEF Inv
<1> QED BY <1>1, <1>2, <1>3, <1>4, <1>5, <1>6, <1>7, <1>8, <1>9 DEF Inv

\* The binding takes its old entry out of the map.
LEMMA EnterKeeps == ASSUME Inv, NEW t \in Threads, Enter(t) PROVE Inv'
<1>1. /\ At(t) = "enter" /\ At(t)' \in Follows("enter", t)
      /\ At(t)' \in {"assign", "leave"} => About(t)' = About(t)
      /\ \A u \in Threads \ {t} : At(u)' = At(u) /\ About(u)' = About(u)
      /\ ProgramsOK'
  BY StepMoves DEF Inv, Enter
<1>2. Typed'
  BY <1>1 DEF Inv, Typed, Follows, Resumes, Enter
<1>3. MutexInv'
  BY <1>1 DEF Inv, MutexInv, Typed, Follows, Resumes, Enter
<1>4. FreshInv'
  <2> SUFFICES ASSUME NEW x \in Objects
               PROVE  /\ made'[x] = Unused => Unseen(x)' /\ \A u \in Threads : ~Pending(u, x)'
                      /\ \A u \in Threads : Pending(u, x)' =>
                            /\ Unseen(x)'
                            /\ made'[x].layer = "android" => context'[x] = "live"
                            /\ \A v \in Threads \ {u} : ~Pending(v, x)'
    BY DEF FreshInv
  <2>1. Unseen(x) => Unseen(x)'
    <3> SUFFICES ASSUME Unseen(x)
                 PROVE  Unseen(x)'
      OBVIOUS
    <3>2. x # listener_' /\ x # entry' /\ x \notin removed' /\ x \notin gone'
      BY <1>1, NoneIsNoObject DEF Unseen, Enter
    <3>3. ASSUME NEW u \in Threads
          PROVE  x # copied'[u] /\ x # oldCtx'[u] /\ x # steady'[u] /\ ~Placing(u, x)'
      <4>1. x # copied'[u] /\ x # oldCtx'[u]
        BY NoneIsNoObject DEF Inv, Typed, Unseen, Enter
      <4>2. x # steady'[u]
        BY NoneIsNoObject DEF Inv, Typed, Unseen, Enter
      <4>3. ~Placing(u, x)'
        BY <1>1 DEF Unseen, Placing, Follows, Resumes
      <4> QED BY <4>1, <4>2, <4>3
    <3> QED BY <3>2, <3>3 DEF Unseen
  <2>2. \A u \in Threads : Pending(u, x)' => Pending(u, x)
    BY <1>1 DEF Pending, Follows, Resumes, Enter
  <2>3. made' = made /\ (Unseen(x) => context'[x] = context[x])
    BY DEF Inv, Typed, Unseen, Enter
  <2> QED BY <2>1, <2>2, <2>3 DEF Inv, FreshInv
<1>5. AliveInv'
  BY <1>1 DEF Inv, AliveInv, Typed, Follows, Resumes, Enter
<1>6. LateInv'
  <2> SUFFICES ASSUME NEW u \in Threads
               PROVE  /\ before'[u] \subseteq removed'
                      /\ \A i \in DOMAIN heard'[u] : heard'[u][i] \notin before'[u]
                      /\ At(u)' \in {"unlock", "call"} => copied'[u] \notin before'[u]
    BY DEF LateInv
  <2>1. /\ heard' = heard /\ before' = before /\ copied' = copied
        /\ removed \subseteq removed'
    BY DEF Enter
  <2>2. At(u)' \in {"unlock", "call"} => At(u) \in {"unlock", "call"}
    BY <1>1 DEF Follows, Resumes
  <2> QED BY <2>1, <2>2 DEF Inv, LateInv
<1>7. HeardInv'
  <2> SUFFICES ASSUME NEW u \in Threads
               PROVE  /\ u = "app" \/ At(u)' \in {"idle", "lock", "copy", "unlock", "call"} => heard'[u] = <<>>
                      /\ At(u)' \in {"lock", "copy"} /\ steady'[u] # None => listener_' = steady'[u]
                      /\ At(u)' \in {"unlock", "call"} /\ steady'[u] # None => copied'[u] = steady'[u]
                      /\ u # "app" /\ At(u)' \in {"return"} \cup SetSteps =>
                            /\ Len(heard'[u]) <= 1
                            /\ steady'[u] # None /\ method'[u] \in made'[steady'[u]].hears
                                 => heard'[u] = <<steady'[u]>>
    BY DEF HeardInv
  <2>1. /\ heard' = heard /\ method' = method /\ steady' = steady
        /\ made' = made /\ listener_' = listener_ /\ copied' = copied
    BY DEF Enter
  <2>2. CASE u = t
    BY <1>1, <2>1, <2>2 DEF Inv, HeardInv, SetSteps, Follows, Resumes
  <2>3. CASE u # t
    BY <1>1, <2>1, <2>3 DEF Inv, HeardInv
  <2> QED BY <2>2, <2>3
<1>8. ContextInv'
  BY <1>1 DEF Inv, ContextInv, RegisteredContextLives, Typed, Follows, Resumes, Enter
<1>9. HandOverInv'
  <2>1. \A u \in Threads, x \in Objects :
           (Placing(u, x)' => Placing(u, x)) /\ (Pending(u, x)' => Pending(u, x))
    BY <1>1 DEF Placing, Pending, Follows, Resumes
  <2>2. /\ made' = made /\ context' = context /\ entry' = None
        /\ oldCtx'[t] = entry /\ \A u \in Threads \ {t} : oldCtx'[u] = oldCtx[u]
    BY DEF Inv, Typed, Enter
  <2>3. \A x \in Objects : Referred(x)' => Referred(x)
    BY <2>1, <2>2, NoneIsNoObject DEF Referred
  <2>4. ASSUME NEW u \in Threads, oldCtx'[u] # None
        PROVE  oldCtx'[u] # entry' /\ \A v \in Threads \ {u} : oldCtx'[v] # oldCtx'[u]
    <3>1. \A v \in Threads : oldCtx[v] # None => oldCtx[v] # entry
      BY DEF Inv, HandOverInv
    <3>2. \A v, w \in Threads : oldCtx[v] # None /\ v # w => oldCtx[w] # oldCtx[v]
      BY DEF Inv, HandOverInv
    <3> QED BY <2>2, <2>4, <3>1, <3>2
  <2>5. ASSUME NEW u \in Threads, NEW x \in Objects, Placing(u, x)'
        PROVE  /\ x # entry' /\ \A v \in Threads : oldCtx'[v] # x
               /\ \A v \in Threads \ {u} : ~Placing(v, x)'
    BY <2>1, <2>2, <2>5, NoneIsNoObject DEF Inv, HandOverInv
  <2> QED BY <2>2, <2>3, <2>4, <2>5 DEF Inv, HandOverInv
<1> QED BY <1>1, <1>2, <1>3, <1>4, <1>5, <1>6, <1>7, <1>8, <1>9 DEF Inv

\* The binding puts the new entry in.
LEMMA LeaveKeeps == ASSUME Inv, NEW t \in Threads, Leave(t) PROVE Inv'
<1>1. /\ At(t) = "leave" /\ At(t)' \in Follows("leave", t)
      /\ Head(todo[t]).o = About(t) /\ About(t) \in Objects \cup {None}
      /\ \A u \in Threads \ {t} : At(u)' = At(u) /\ About(u)' = About(u)
      /\ ProgramsOK'
  BY StepMoves DEF Inv, Leave
<1>2. Typed'
  BY <1>1 DEF Inv, Typed, Follows, Resumes, Leave
<1>3. MutexInv'
  BY <1>1 DEF Inv, MutexInv, Typed, Follows, Resumes, Leave
<1>4. FreshInv'
  <2> SUFFICES ASSUME NEW x \in Objects
               PROVE  /\ made'[x] = Unused => Unseen(x)' /\ \A u \in Threads : ~Pending(u, x)'
                      /\ \A u \in Threads : Pending(u, x)' =>
                            /\ Unseen(x)'
                            /\ made'[x].layer = "android" => context'[x] = "live"
                            /\ \A v \in Threads \ {u} : ~Pending(v, x)'
    BY DEF FreshInv
  <2>1. Unseen(x) => Unseen(x)'
    BY <1>1 DEF Inv, Typed, Unseen, Placing, Follows, Resumes, Leave
  <2>2. \A u \in Threads : Pending(u, x)' => Pending(u, x)
    BY <1>1 DEF Pending, Follows, Resumes, Leave
  <2>3. made' = made /\ (Unseen(x) => context'[x] = context[x])
    BY DEF Inv, Typed, Unseen, Leave
  <2> QED BY <2>1, <2>2, <2>3 DEF Inv, FreshInv
<1>5. AliveInv'
  BY <1>1 DEF Inv, AliveInv, Typed, Follows, Resumes, Leave
<1>6. LateInv'
  <2> SUFFICES ASSUME NEW u \in Threads
               PROVE  /\ before'[u] \subseteq removed'
                      /\ \A i \in DOMAIN heard'[u] : heard'[u][i] \notin before'[u]
                      /\ At(u)' \in {"unlock", "call"} => copied'[u] \notin before'[u]
    BY DEF LateInv
  <2>1. /\ heard' = heard /\ before' = before /\ copied' = copied
        /\ removed \subseteq removed'
    BY DEF Leave
  <2>2. At(u)' \in {"unlock", "call"} => At(u) \in {"unlock", "call"}
    BY <1>1 DEF Follows, Resumes
  <2> QED BY <2>1, <2>2 DEF Inv, LateInv
<1>7. HeardInv'
  <2> SUFFICES ASSUME NEW u \in Threads
               PROVE  /\ u = "app" \/ At(u)' \in {"idle", "lock", "copy", "unlock", "call"} => heard'[u] = <<>>
                      /\ At(u)' \in {"lock", "copy"} /\ steady'[u] # None => listener_' = steady'[u]
                      /\ At(u)' \in {"unlock", "call"} /\ steady'[u] # None => copied'[u] = steady'[u]
                      /\ u # "app" /\ At(u)' \in {"return"} \cup SetSteps =>
                            /\ Len(heard'[u]) <= 1
                            /\ steady'[u] # None /\ method'[u] \in made'[steady'[u]].hears
                                 => heard'[u] = <<steady'[u]>>
    BY DEF HeardInv
  <2>1. /\ heard' = heard /\ method' = method /\ steady' = steady
        /\ made' = made /\ listener_' = listener_ /\ copied' = copied
    BY DEF Leave
  <2>2. CASE u = t
    BY <1>1, <2>1, <2>2 DEF Inv, HeardInv, SetSteps, Follows, Resumes
  <2>3. CASE u # t
    BY <1>1, <2>1, <2>3 DEF Inv, HeardInv
  <2> QED BY <2>2, <2>3
<1>8. ContextInv'
  BY <1>1 DEF Inv, ContextInv, RegisteredContextLives, Typed, Follows, Resumes, Leave
<1>9. HandOverInv'
  <2>1. \A u \in Threads, x \in Objects :
           /\ Placing(u, x)' => Placing(u, x) /\ u # t
           /\ Pending(u, x)' => Pending(u, x)
    BY <1>1 DEF Placing, Pending, Follows, Resumes
  <2>2. /\ made' = made /\ context' = context /\ entry' = About(t) /\ oldCtx' = oldCtx
        /\ About(t) \in Objects => Placing(t, About(t))
    BY <1>1 DEF Leave, Placing
  <2>3. \A x \in Objects : Referred(x)' => Referred(x)
    BY <2>1, <2>2 DEF Referred
  <2>4. \A u \in Threads : oldCtx[u] # None => oldCtx[u] # About(t)
    BY <1>1, <2>2 DEF Inv, HandOverInv
  <2>5. ASSUME NEW u \in Threads, NEW x \in Objects, Placing(u, x)'
        PROVE  /\ x # About(t) /\ \A v \in Threads : oldCtx[v] # x
               /\ \A v \in Threads \ {u} : ~Placing(v, x)'
    <3>1. Placing(u, x) /\ u # t
      BY <2>1, <2>5
    <3> QED BY <2>1, <2>2, <3>1 DEF Inv, HandOverInv
  <2> QED BY <2>2, <2>3, <2>4, <2>5 DEF Inv, HandOverInv
<1> QED BY <1>1, <1>2, <1>3, <1>4, <1>5, <1>6, <1>7, <1>8, <1>9 DEF Inv

\* The binding deletes the old context.
LEMMA ForgetKeeps == ASSUME Inv, NEW t \in Threads, Forget(t) PROVE Inv'
<1>1. /\ At(t) = "forget" /\ At(t)' \in Follows("forget", t)
      /\ \A u \in Threads \ {t} : At(u)' = At(u) /\ About(u)' = About(u)
      /\ ProgramsOK'
  BY StepMoves DEF Inv, Forget
<1>2. Typed'
  BY <1>1 DEF Inv, Typed, Follows, Resumes, Forget
<1>3. MutexInv'
  BY <1>1 DEF Inv, MutexInv, Typed, Follows, Resumes, Forget
<1>4. FreshInv'
  <2> SUFFICES ASSUME NEW x \in Objects
               PROVE  /\ made'[x] = Unused => Unseen(x)' /\ \A u \in Threads : ~Pending(u, x)'
                      /\ \A u \in Threads : Pending(u, x)' =>
                            /\ Unseen(x)'
                            /\ made'[x].layer = "android" => context'[x] = "live"
                            /\ \A v \in Threads \ {u} : ~Pending(v, x)'
    BY DEF FreshInv
  <2>1. Unseen(x) => Unseen(x)'
    <3> SUFFICES ASSUME Unseen(x)
                 PROVE  Unseen(x)'
      OBVIOUS
    <3>2. x # listener_' /\ x # entry' /\ x \notin removed' /\ x \notin gone'
      BY <1>1, NoneIsNoObject DEF Unseen, Forget
    <3>3. ASSUME NEW u \in Threads
          PROVE  x # copied'[u] /\ x # oldCtx'[u] /\ x # steady'[u] /\ ~Placing(u, x)'
      <4>1. x # copied'[u] /\ x # oldCtx'[u]
        BY NoneIsNoObject DEF Inv, Typed, Unseen, Forget
      <4>2. x # steady'[u]
        BY NoneIsNoObject DEF Inv, Typed, Unseen, Forget
      <4>3. ~Placing(u, x)'
        BY <1>1 DEF Unseen, Placing, Follows, Resumes
      <4> QED BY <4>1, <4>2, <4>3
    <3> QED BY <3>2, <3>3 DEF Unseen
  <2>2. \A u \in Threads : Pending(u, x)' => Pending(u, x)
    BY <1>1 DEF Pending, Follows, Resumes, Forget
  <2>3. made' = made /\ (Unseen(x) => context'[x] = context[x])
    BY DEF Inv, Typed, Unseen, Forget
  <2> QED BY <2>1, <2>2, <2>3 DEF Inv, FreshInv
<1>5. AliveInv'
  BY <1>1 DEF Inv, AliveInv, Typed, Follows, Resumes, Forget
<1>6. LateInv'
  <2> SUFFICES ASSUME NEW u \in Threads
               PROVE  /\ before'[u] \subseteq removed'
                      /\ \A i \in DOMAIN heard'[u] : heard'[u][i] \notin before'[u]
                      /\ At(u)' \in {"unlock", "call"} => copied'[u] \notin before'[u]
    BY DEF LateInv
  <2>1. /\ heard' = heard /\ before' = before /\ copied' = copied
        /\ removed \subseteq removed'
    BY DEF Forget
  <2>2. At(u)' \in {"unlock", "call"} => At(u) \in {"unlock", "call"}
    BY <1>1 DEF Follows, Resumes
  <2> QED BY <2>1, <2>2 DEF Inv, LateInv
<1>7. HeardInv'
  <2> SUFFICES ASSUME NEW u \in Threads
               PROVE  /\ u = "app" \/ At(u)' \in {"idle", "lock", "copy", "unlock", "call"} => heard'[u] = <<>>
                      /\ At(u)' \in {"lock", "copy"} /\ steady'[u] # None => listener_' = steady'[u]
                      /\ At(u)' \in {"unlock", "call"} /\ steady'[u] # None => copied'[u] = steady'[u]
                      /\ u # "app" /\ At(u)' \in {"return"} \cup SetSteps =>
                            /\ Len(heard'[u]) <= 1
                            /\ steady'[u] # None /\ method'[u] \in made'[steady'[u]].hears
                                 => heard'[u] = <<steady'[u]>>
    BY DEF HeardInv
  <2>1. /\ heard' = heard /\ method' = method /\ steady' = steady
        /\ made' = made /\ listener_' = listener_ /\ copied' = copied
    BY DEF Forget
  <2>2. CASE u = t
    BY <1>1, <2>1, <2>2 DEF Inv, HeardInv, SetSteps, Follows, Resumes
  <2>3. CASE u # t
    BY <1>1, <2>1, <2>3 DEF Inv, HeardInv
  <2> QED BY <2>2, <2>3
<1>8. ContextInv'
  BY <1>1 DEF Inv, ContextInv, RegisteredContextLives, Typed, Follows, Resumes, Forget
<1>9. HandOverInv'
  <2>1. \A u \in Threads, x \in Objects :
           (Placing(u, x)' => Placing(u, x)) /\ (Pending(u, x)' => Pending(u, x))
    BY <1>1 DEF Placing, Pending, Follows, Resumes
  <2>2. /\ made' = made /\ entry' = entry
        /\ oldCtx'[t] = None /\ \A u \in Threads \ {t} : oldCtx'[u] = oldCtx[u]
        /\ \A x \in Objects : x # oldCtx[t] => context'[x] = context[x]
    BY DEF Inv, Typed, Forget
  <2>3. ASSUME NEW x \in Objects, Referred(x)'
        PROVE  context'[x] # "deleted"
    <3>1. x # oldCtx[t]
      <4>1. made[x] = Unused \/ (\E u \in Threads : Pending(u, x)) => Unseen(x)
        BY DEF Inv, FreshInv
      <4>2. (\E u \in Threads : Placing(u, x)) => x # oldCtx[t]
        BY DEF Inv, HandOverInv
      <4>3. x = entry \/ (\E u \in Threads \ {t} : x = oldCtx[u]) => x # oldCtx[t]
        BY NoneIsNoObject DEF Inv, HandOverInv
      <4> QED BY <2>1, <2>2, <2>3, <4>1, <4>2, <4>3, NoneIsNoObject DEF Referred, Unseen
    <3>2. Referred(x)
      BY <2>1, <2>2, <2>3, NoneIsNoObject DEF Referred
    <3> QED BY <2>2, <3>1, <3>2 DEF Inv, HandOverInv
  <2>4. ASSUME NEW u \in Threads, oldCtx'[u] # None
        PROVE  oldCtx'[u] # entry /\ \A v \in Threads \ {u} : oldCtx'[v] # oldCtx'[u]
    BY <2>2, <2>4 DEF Inv, HandOverInv
  <2>5. ASSUME NEW u \in Threads, NEW x \in Objects, Placing(u, x)'
        PROVE  /\ x # entry /\ \A v \in Threads : oldCtx'[v] # x
               /\ \A v \in Threads \ {u} : ~Placing(v, x)'
    BY <2>1, <2>2, <2>5, NoneIsNoObject DEF Inv, HandOverInv
  <2> QED BY <2>2, <2>3, <2>4, <2>5 DEF Inv, HandOverInv
<1> QED BY <1>1, <1>2, <1>3, <1>4, <1>5, <1>6, <1>7, <1>8, <1>9 DEF Inv

\* The states a client starts in.
LEMMA InitInv == Init => Inv
<1> SUFFICES ASSUME Init
             PROVE  Inv
  OBVIOUS
<1>1. \A t \in Threads : At(t) = "idle" /\ Program(t)
  BY DEF Init, At, Program
<1>2. Typed
  BY ListenersAssumption DEF Init, Typed
<1>3. ProgramsOK /\ MutexInv
  BY <1>1, OthersAreOthers DEF Init, ProgramsOK, MutexInv
<1>4. FreshInv
  BY <1>1, NoneIsNoObject DEF Init, FreshInv, Unseen, Pending, Placing
<1>5. AliveInv /\ LateInv
  BY DEF Init, AliveInv, LateInv
<1>6. HeardInv
  BY <1>1 DEF Init, HeardInv, SetSteps
<1>7. ContextInv
  BY DEF Init, ContextInv, RegisteredContextLives
<1>8. HandOverInv
  BY <1>1 DEF Init, HandOverInv, Placing
<1> QED BY <1>2, <1>3, <1>4, <1>5, <1>6, <1>7, <1>8 DEF Inv

\* Every step, and a stutter.
LEMMA NextInv == Inv /\ [Next]_vars => Inv'
<1> SUFFICES ASSUME Inv, [Next]_vars
             PROVE  Inv'
  OBVIOUS
<1>1. ASSUME NEW t \in Threads, Take(t) \/ Register(t) \/ Clear(t)
      PROVE  Inv'
  BY <1>1, TakeKeeps, RegisterKeeps, ClearKeeps
<1>2. ASSUME NEW t \in Threads, Step(t)
      PROVE  Inv'
  BY <1>2, LockKeeps, UnlockKeeps, AssignKeeps, CopyKeeps, CallKeeps, ReturnKeeps,
     EnterKeeps, LeaveKeeps, ForgetKeeps DEF Step
<1>3. CASE UNCHANGED vars
  <2>1. \A t \in Threads : At(t)' = At(t) /\ About(t)' = About(t) /\ (Program(t) => Program(t)')
    BY <1>3 DEF At, About, Program
  <2>2. ProgramsOK' /\ Typed' /\ MutexInv' /\ AliveInv' /\ LateInv'
    BY <1>3, <2>1 DEF Inv, ProgramsOK, Typed, MutexInv, AliveInv, LateInv
  <2>3. FreshInv'
    <3>1. ASSUME NEW x \in Objects
          PROVE  /\ Unseen(x) => Unseen(x)'
                 /\ \A u \in Threads : Pending(u, x)' => Pending(u, x)
      BY <1>3, <2>1 DEF Unseen, Pending, Placing
    <3> QED BY <1>3, <3>1 DEF Inv, FreshInv
  <2>4. HeardInv' /\ ContextInv'
    BY <1>3, <2>1 DEF Inv, HeardInv, ContextInv, RegisteredContextLives
  <2>5. HandOverInv'
    <3>1. \A u \in Threads, x \in Objects :
             (Placing(u, x)' => Placing(u, x)) /\ (Pending(u, x)' => Pending(u, x))
      BY <2>1 DEF Placing, Pending
    <3> QED BY <1>3, <3>1, HandOverStays DEF Inv
  <2> QED BY <2>2, <2>3, <2>4, <2>5 DEF Inv
<1> QED BY <1>1, <1>2, <1>3 DEF Next

\* Every reachable state has it.
LEMMA Invariance == Spec => []Inv
BY InitInv, NextInv, PTL DEF Spec

-----------------------------------------------------------------------------
(***************************************************************************)
(* What follows.                                                           *)
(***************************************************************************)
\* The state has the types its variables are declared for, and handler_mutex_ is
\* held by one handler, between its own steps.
THEOREM TypeCorrect == Spec => []TypeOK
<1>1. Inv => TypeOK
  BY DEF Inv, Typed, MutexInv, At, TypeOK, Idle
<1> QED BY <1>1, Invariance, PTL

\* No handler calls a listener that has been destroyed, whoever replaced it.
THEOREM CallsAreAlive == Spec => []CalledWhileAlive
<1>1. Inv => CalledWhileAlive
  BY DEF Inv, AliveInv, CalledWhileAlive
<1> QED BY <1>1, Invariance, PTL

\* One event reaches one listener, and the one that stayed registered does hear it.
THEOREM EventsAreHeardOnce == Spec => []HeardOnce
<1>1. ASSUME Inv, NEW t \in Threads, todo[t] = <<Does("return")>>
      PROVE  /\ Len(heard[t]) <= 1
             /\ LET o == steady[t]
                IN  o # None /\ method[t] \in made[o].hears => heard[t] = <<o>>
  <2>1. At(t) = "return"
    BY <1>1 DEF At, Does
  <2>2. t # "app"
    BY <1>1, <2>1, ProgramKinds DEF Inv, ProgramsOK, HandlerSteps
  <2> QED BY <1>1, <2>1, <2>2 DEF Inv, HeardInv
<1>2. Inv => HeardOnce
  BY <1>1 DEF HeardOnce
<1> QED BY <1>2, Invariance, PTL

\* An event that a thread takes up after setListener has replaced or cleared a
\* listener does not reach that listener: the handler copies listener_ after that.
THEOREM QuietAfterRemoval == Spec => []QuietWhenReplaced
<1>1. Inv => QuietWhenReplaced
  BY DEF Inv, LateInv, QuietWhenReplaced
<1> QED BY <1>1, Invariance, PTL

\* The Android binding deletes no context that is still registered, and none twice,
\* whichever threads replace the listener at a time.
THEOREM ContextsAreKept == Spec => []ContextsHandedOver
<1>1. ASSUME Inv, NEW t \in Threads, oldCtx[t] # None
      PROVE  context[oldCtx[t]] # "deleted" /\ \A u \in Threads \ {t} : oldCtx[u] # oldCtx[t]
  <2>1. oldCtx[t] \in Objects
    BY <1>1 DEF Inv, Typed
  <2> QED BY <1>1, <2>1 DEF Inv, HandOverInv, Referred
<1>2. Inv => ContextsHandedOver
  BY <1>1 DEF Inv, ContextInv, ContextsHandedOver
<1> QED BY <1>2, Invariance, PTL
=============================================================================
