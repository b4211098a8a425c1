--------------------------- MODULE Notifications ---------------------------
(***************************************************************************)
(* Which notification leads to which method of a listener, and what each   *)
(* layer can register as one: the tables that Listeners runs.              *)
(***************************************************************************)
On(type, method) == [type |-> type, method |-> method]

(***************************************************************************)
(* The managers' handlers.  A type that stands in two routes has a payload *)
(* that tells which one it is; a payload that does not parse, or tells     *)
(* neither, leads to no call.                                              *)
(***************************************************************************)
handleAuthNotification == {On("auth.force_logout", "onAuthExpired")}

handleIncomingMessage == On("message.new", "onMessageReceived")
handleReadReceipt     == On("message.read_receipt", "onMessageReadReceipt")
handleMessageRecalled == On("message.recalled", "onMessageRecalled")
handleMessageDeleted  == On("message.deleted", "onMessageDeleted")
handleMessageEdited   == On("message.edited", "onMessageEdited")
handleTyping          == On("message.typing", "onMessageTyping")
handleMentioned       == On("message.mentioned", "onMessageMentioned")

handleMessageNotification ==
    { handleIncomingMessage, handleReadReceipt, handleMessageRecalled, handleMessageDeleted,
      handleMessageEdited, handleTyping, handleMentioned }

isConversationNotification ==
    { "conversation.unread_updated", "conversation.pin_updated", "conversation.mute_updated",
      "conversation.deleted", "conversation.burn_updated", "conversation.auto_delete_updated" }

handleConversationNotification ==
    {On(type, "onConversationUpdated") : type \in isConversationNotification}

handleFriendNotification ==
    { On("friend.added", "onFriendAdded"), On("friend.deleted", "onFriendDeleted"),
      On("friend.remark_updated", "onFriendInfoChanged"),
      On("friend.blacklist_changed", "onBlacklistAdded"),
      On("friend.blacklist_changed", "onBlacklistRemoved"),
      On("friend.request", "onFriendRequestReceived"),
      On("friend.request_handled", "onFriendRequestAccepted"),
      On("friend.request_handled", "onFriendRequestRejected"),
      On("friend.request_handled", "onFriendRequestDeleted") }

handleGroupNotification ==
    {On("group.invited", "onGroupInvited")}
    \cup {On(type, "onGroupUpdated") :
             type \in { "group.info_updated", "group.member_joined", "group.member_left",
                        "group.role_changed", "group.muted", "group.disbanded",
                        "group.member_muted", "group.member_unmuted" }}

handleUserNotification ==
    { On("user.profile_updated", "onProfileUpdated"),
      On("user.friend_profile_changed", "onFriendProfileChanged"),
      On("user.status_changed", "onUserStatusChanged") }

handleCallNotification ==
    { On("livekit.call_invite", "onIncomingCall"),
      On("livekit.call_status", "onCallStatusChanged"),
      On("livekit.call_rejected", "onCallStatusChanged") }

\* Not notifications, but handled the same way: a change of the connection state, and
\* a session that turns out to have expired.
onStateChanged   == {On("state", "onConnectionStateChanged")}
ensureValidToken == {On("expired", "onAuthExpired")}

Routes ==
    [ auth |-> handleAuthNotification \cup ensureValidToken, message |-> handleMessageNotification,
      conversation |-> handleConversationNotification, friend |-> handleFriendNotification,
      group |-> handleGroupNotification, user |-> handleUserNotification,
      call |-> handleCallNotification, client |-> onStateChanged ]

Subjects == DOMAIN Routes
Types    == UNION {{route.type : route \in Routes[s]} : s \in Subjects}

\* What a notification of this type may call in a manager's listener.
MethodsFor(s, type) == {route.method : route \in {r \in Routes[s] : r.type = type}}
Methods(s)          == {route.method : route \in Routes[s]}

(***************************************************************************)
(* What can be registered with a manager: by which layer, and the methods  *)
(* of which the listener makes something.  A method of a C listener looks  *)
(* for its own pointer in the struct it copied, so two structs stand for   *)
(* them all: every pointer set, and none.                                  *)
(***************************************************************************)
Listener(subject, layer, hears) == [subject |-> subject, layer |-> layer, hears |-> hears]
Struct(subject, methods) == {Listener(subject, "c", methods), Listener(subject, "c", {})}

\* setListener, in C++: the class has every method.
AuthListener         == Listener("auth", "cpp", Methods("auth"))
MessageListener      == Listener("message", "cpp", Methods("message"))
ConversationListener == Listener("conversation", "cpp", Methods("conversation"))
FriendListener       == Listener("friend", "cpp", Methods("friend"))
GroupListener        == Listener("group", "cpp", Methods("group"))
UserListener         == Listener("user", "cpp", Methods("user"))
CallListener         == Listener("call", "cpp", Methods("call"))
StateListener        == Listener("client", "cpp", Methods("client"))

\* The classes that pass the calls on to C.
CAuthListener == {"onAuthExpired"}

CMessageListener ==
    { "onMessageReceived", "onMessageReadReceipt", "onMessageRecalled", "onMessageDeleted",
      "onMessageEdited", "onMessageTyping", "onMessageMentioned" }

CConversationListener == {"onConversationUpdated"}

CFriendListener ==
    { "onFriendAdded", "onFriendDeleted", "onFriendInfoChanged", "onBlacklistAdded",
      "onBlacklistRemoved", "onFriendRequestReceived", "onFriendRequestDeleted",
      "onFriendRequestAccepted", "onFriendRequestRejected" }

CGroupListener == {"onGroupInvited", "onGroupUpdated"}
CUserListener  == {"onProfileUpdated", "onFriendProfileChanged", "onUserStatusChanged"}
CCallListener  == {"onIncomingCall", "onCallStatusChanged"}

anychat_auth_set_listener    == Struct("auth", CAuthListener)
anychat_message_set_listener == Struct("message", CMessageListener)
anychat_conv_set_listener    == Struct("conversation", CConversationListener)
anychat_friend_set_listener  == Struct("friend", CFriendListener)
anychat_group_set_listener   == Struct("group", CGroupListener)
anychat_user_set_listener    == Struct("user", CUserListener)
anychat_call_set_listener    == Struct("call", CCallListener)

anychat_client_set_connection_callback ==
    {Listener("client", "c", {"onConnectionStateChanged"})}

\* Android: one pointer of the struct, with a context that holds the Java object.
messageReceivedCallback == Listener("message", "android", {"onMessageReceived"})
convUpdatedCallback     == Listener("conversation", "android", {"onConversationUpdated"})
connectionStateCallback == Listener("client", "android", {"onConnectionStateChanged"})

\* Web: the struct has the pointers for which a script has given a function.
refreshAuthListener         == {Listener("auth", "web", {"onAuthExpired"})}
refreshMessageListener      == {Listener("message", "web", {"onMessageReceived"})}
refreshConversationListener == {Listener("conversation", "web", {"onConversationUpdated"})}

friendListChanged ==
    { "onFriendAdded", "onFriendDeleted", "onFriendInfoChanged", "onFriendRequestDeleted",
      "onFriendRequestAccepted", "onFriendRequestRejected" }

refreshFriendListener ==
    {Listener("friend", "web", hears) :
        hears \in { {"onFriendRequestReceived"}, friendListChanged,
                    {"onFriendRequestReceived"} \cup friendListChanged }}

refreshGroupListener ==
    {Listener("group", "web", hears) : hears \in (SUBSET CGroupListener) \ {{}}}

setConnectionCallback == {Listener("client", "web", {"onConnectionStateChanged"})}

Registrations ==
    UNION {
      { AuthListener, MessageListener, ConversationListener, FriendListener, GroupListener,
        UserListener, CallListener, StateListener,
        messageReceivedCallback, convUpdatedCallback, connectionStateCallback },
      anychat_auth_set_listener, anychat_message_set_listener, anychat_conv_set_listener,
      anychat_friend_set_listener, anychat_group_set_listener, anychat_user_set_listener,
      anychat_call_set_listener, anychat_client_set_connection_callback,
      refreshAuthListener, refreshMessageListener, refreshConversationListener,
      refreshFriendListener, refreshGroupListener, setConnectionCallback }
=============================================================================
