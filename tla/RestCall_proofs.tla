--------------------------- MODULE RestCall_proofs ---------------------------
(***************************************************************************)
(* Theorems about RestCall.                                                *)
(***************************************************************************)
EXTENDS RestCall, TLAPS

\* How far a call may have come.
Phases == {"unmade", "calling", "pending", "active", "ended", "refused", "dropped"}

USE DEF request, vars, Phases

(***************************************************************************)
(* The operations, the C functions and the layers of the nine managers.    *)
(***************************************************************************)
\* An operation of one part, and an upload, which has no other way to try.
Shape(parts, ways) ==
    [checked : BOOLEAN, cached : BOOLEAN, asks : {"any", "200", "2xx", "nothing"}, parts : parts,
     field : BOOLEAN, otherwise : ways, rewrites : BOOLEAN]
Plain  == Shape({1}, {"none"})
Single == Shape({1}, {"none", "request", "frame"})
Upload == Shape({3}, {"none"})
Shapes == Single \cup Upload

\* What keeps a context, and what keeps a callback.
InJava   == Binding({"tell", "free"}, {"free"})
InScript == Binding({"tell", "free"}, {"tell", "free"})

\* What Operation's operators make of them.
LEMMA Shaping ==
    /\ Plain \subseteq Single /\ Single \subseteq Shapes /\ Upload \subseteq Shapes
    /\ \A s \in {"any", "200", "2xx", "nothing"} : Asking(s) \in Plain
    /\ \A o \in Plain : Checked(o) \in Plain /\ WithField(o) \in Plain /\ OrCached(o) \in Plain
    /\ \A o \in Plain : InParts(o, 3) \in Upload
    /\ \A o \in Plain, way \in {"request", "frame"} : Otherwise(o, way) \in Single
    /\ \A o \in Single : OrCached(o) \in Single /\ Rewriting(o) \in Single
    /\ \A o \in Upload : Rewriting(o) \in Upload
<1>1. Plain \subseteq Single /\ Single \subseteq Shapes /\ Upload \subseteq Shapes
  BY DEF Plain, Single, Upload, Shapes, Shape
<1>2. \A s \in {"any", "200", "2xx", "nothing"} : Asking(s) \in Plain
  BY DEF Plain, Shape, Asking
<1>3. \A o \in Plain : Checked(o) \in Plain /\ WithField(o) \in Plain /\ OrCached(o) \in Plain
  BY DEF Plain, Shape, Checked, WithField, OrCached
<1>4. \A o \in Plain : InParts(o, 3) \in Upload
  BY DEF Plain, Upload, Shape, InParts
<1>5. \A o \in Plain, way \in {"request", "frame"} : Otherwise(o, way) \in Single
  BY DEF Plain, Single, Shape, Otherwise
<1>6. \A o \in Single : OrCached(o) \in Single /\ Rewriting(o) \in Single
  BY DEF Single, Shape, OrCached, Rewriting
<1>7. \A o \in Upload : Rewriting(o) \in Upload
  BY DEF Upload, Shape, Rewriting
<1> QED BY <1>1, <1>2, <1>3, <1>4, <1>5, <1>6, <1>7

\* The operations of AuthManager.
LEMMA AuthShapes == Auth!Operations \subseteq Shapes
<1>1. /\ \A s : Auth!Asking(s) = Asking(s)
      /\ \A o : Auth!Checked(o) = Checked(o)
      /\ \A o : Auth!OrCached(o) = OrCached(o)
      /\ \A o : Auth!WithField(o) = WithField(o)
      /\ \A o, way : Auth!Otherwise(o, way) = Otherwise(o, way)
  BY DEF Auth!Asking, Asking, Auth!Checked, Checked, Auth!OrCached, OrCached,
    Auth!WithField, WithField, Auth!Otherwise, Otherwise
<1> QED
  BY <1>1, Shaping DEF Auth!Operations, Auth!registerUser, Auth!sendVerificationCode,
    Auth!login, Auth!logout, Auth!getDeviceList, Auth!logoutDevice, Auth!refreshToken,
    Auth!changePassword, Auth!resetPassword, Auth!ensureValidToken

\* The operations of ConversationManager.
LEMMA ConversationShapes == Conversations!Operations \subseteq Shapes
<1>1. /\ \A s : Conversations!Asking(s) = Asking(s)
      /\ \A o : Conversations!Checked(o) = Checked(o)
      /\ \A o : Conversations!OrCached(o) = OrCached(o)
  BY DEF Conversations!Asking, Asking, Conversations!Checked, Checked,
    Conversations!OrCached, OrCached
<1> QED
  BY <1>1, Shaping DEF Conversations!Operations, Conversations!getConversationList,
    Conversations!getConversation, Conversations!deleteConversation,
    Conversations!markAllRead, Conversations!markMessagesRead, Conversations!setPinned,
    Conversations!setMuted, Conversations!setBurnAfterReading, Conversations!setAutoDelete,
    Conversations!getTotalUnread, Conversations!getMessageUnreadCount,
    Conversations!getMessageReadReceipts, Conversations!getMessageSequence

\* The operations of MessageManager.
LEMMA MessageShapes == Messages!Operations \subseteq Shapes
<1>1. /\ \A s : Messages!Asking(s) = Asking(s)
      /\ \A o : Messages!Checked(o) = Checked(o)
      /\ \A o : Messages!OrCached(o) = OrCached(o)
      /\ \A o, way : Messages!Otherwise(o, way) = Otherwise(o, way)
      /\ \A o : Messages!Rewriting(o) = Rewriting(o)
  BY DEF Messages!Asking, Asking, Messages!Checked, Checked, Messages!OrCached, OrCached,
    Messages!Otherwise, Otherwise, Messages!Rewriting, Rewriting
<1> QED
  BY <1>1, Shaping DEF Messages!Operations, Messages!getHistory,
    Messages!getOfflineMessages, Messages!ackMessages, Messages!markAsRead,
    Messages!getGroupMessageReadState, Messages!searchMessages, Messages!recallMessage,
    Messages!deleteMessage, Messages!editMessage, Messages!sendTyping, Messages!FrameOnly

\* The operations of FriendManager.
LEMMA FriendShapes == Friends!Operations \subseteq Shapes
<1>1. /\ \A s : Friends!Asking(s) = Asking(s)
      /\ \A o : Friends!Checked(o) = Checked(o)
  BY DEF Friends!Asking, Asking, Friends!Checked, Checked
<1> QED
  BY <1>1, Shaping DEF Friends!Operations, Friends!getFriendList, Friends!addFriend,
    Friends!deleteFriend, Friends!updateRemark, Friends!handleFriendRequest,
    Friends!getFriendRequests, Friends!getBlacklist, Friends!addToBlacklist,
    Friends!removeFromBlacklist

\* The operations of GroupManager.
LEMMA GroupShapes == Groups!Operations \subseteq Shapes
<1>1. /\ \A s : Groups!Asking(s) = Asking(s)
      /\ \A o : Groups!Checked(o) = Checked(o)
  BY DEF Groups!Asking, Asking, Groups!Checked, Checked
<1> QED
  BY <1>1, Shaping DEF Groups!Operations, Groups!getGroupList, Groups!getInfo,
    Groups!create, Groups!join, Groups!invite, Groups!quit, Groups!disband, Groups!update,
    Groups!getMembers, Groups!removeMember, Groups!updateMemberRole, Groups!updateNickname,
    Groups!transferOwnership, Groups!getJoinRequests, Groups!handleJoinRequest,
    Groups!getQRCode, Groups!refreshQRCode

\* The operations of CallManager.
LEMMA CallShapes == CallSessions!Operations \subseteq Shapes
<1>1. /\ \A s : CallSessions!Asking(s) = Asking(s)
      /\ \A o : CallSessions!Checked(o) = Checked(o)
  BY DEF CallSessions!Asking, Asking, CallSessions!Checked, Checked
<1> QED
  BY <1>1, Shaping DEF CallSessions!Operations, CallSessions!initiateCall,
    CallSessions!joinCall, CallSessions!rejectCall, CallSessions!endCall,
    CallSessions!getCallSession, CallSessions!getCallLogs, CallSessions!createMeeting,
    CallSessions!joinMeeting, CallSessions!endMeeting, CallSessions!getMeeting,
    CallSessions!listMeetings

\* The operations of FileManager.
LEMMA FileShapes == Files!Operations \subseteq Shapes
<1>1. /\ \A s : Files!Asking(s) = Asking(s)
      /\ \A o : Files!Checked(o) = Checked(o)
      /\ \A o : Files!WithField(o) = WithField(o)
      /\ \A o, n : Files!InParts(o, n) = InParts(o, n)
      /\ \A o : Files!Rewriting(o) = Rewriting(o)
  BY DEF Files!Asking, Asking, Files!Checked, Checked, Files!WithField, WithField,
    Files!InParts, InParts, Files!Rewriting, Rewriting
<1> QED
  BY <1>1, Shaping DEF Files!Operations, Files!upload, Files!getDownloadUrl,
    Files!getFileInfo, Files!listFiles, Files!uploadClientLog, Files!deleteFile

\* The operations of UserManager.
LEMMA UserShapes == Users!Operations \subseteq Shapes
<1>1. /\ \A s : Users!Asking(s) = Asking(s)
      /\ \A o : Users!Checked(o) = Checked(o)
  BY DEF Users!Asking, Asking, Users!Checked, Checked
<1> QED
  BY <1>1, Shaping DEF Users!Operations, Users!getProfile, Users!updateProfile,
    Users!getSettings, Users!updateSettings, Users!updatePushToken, Users!searchUsers,
    Users!getUserInfo, Users!bindPhone, Users!changePhone, Users!bindEmail,
    Users!changeEmail, Users!refreshQRCode, Users!getUserByQRCode

\* The operations of VersionManager.
LEMMA VersionShapes == Versions!Operations \subseteq Shapes
<1>1. /\ \A s : Versions!Asking(s) = Asking(s)
      /\ \A o : Versions!Checked(o) = Checked(o)
      /\ \A o : Versions!WithField(o) = WithField(o)
  BY DEF Versions!Asking, Asking, Versions!Checked, Checked, Versions!WithField, WithField
<1> QED
  BY <1>1, Shaping DEF Versions!Operations, Versions!checkVersion,
    Versions!getLatestVersion, Versions!listVersions, Versions!reportVersion

\* What C functions, and the methods of bindings, are made of.
LEMMA Parts ==
    /\ \A p, o : Entry(p, o).op = o /\ Entry(p, o).picky \in BOOLEAN
    /\ \A p, o : PickyEntry(p, o).op = o /\ PickyEntry(p, o).picky \in BOOLEAN
    /\ \A l, e : Via(l, e).layer = l /\ Via(l, e).entry = e
BY DEF Entry, PickyEntry, Via

\* The C functions of AuthManager, and the methods that lead to them.
LEMMA AuthReach ==
    /\ \A e \in Auth!Entries : e.op \in Auth!Operations /\ e.picky \in BOOLEAN
    /\ \A via \in Auth!Bound :
          via.entry \in Auth!Entries /\ via.layer \in {InJava, InScript}
<1>1. /\ \A p, o : Auth!Entry(p, o) = Entry(p, o)
      /\ \A l, e : Auth!Via(l, e) = Via(l, e)
      /\ Auth!AuthJni \in {InJava, InScript}
      /\ Auth!AuthWeb \in {InJava, InScript}
  BY DEF Auth!Entry, Entry, Auth!Via, Via, Auth!AuthJni, Auth!AuthWeb, InJava, InScript,
    Auth!Binding, Binding
<1>2. \A e \in Auth!Entries : e.op \in Auth!Operations /\ e.picky \in BOOLEAN
  BY <1>1, Parts DEF Auth!Entries, Auth!Operations, Auth!anychat_auth_login,
    Auth!anychat_auth_register, Auth!anychat_auth_logout, Auth!anychat_auth_send_code,
    Auth!anychat_auth_refresh_token, Auth!anychat_auth_change_password,
    Auth!anychat_auth_reset_password, Auth!anychat_auth_get_device_list,
    Auth!anychat_auth_logout_device, Auth!anychat_client_login, Auth!anychat_client_logout
<1>3. \A via \in Auth!Bound :
          via.entry \in Auth!Entries /\ via.layer \in {InJava, InScript}
  BY <1>1, Parts DEF Auth!Bound, Auth!Entries, Auth!Auth_nativeLogin,
    Auth!Auth_nativeRegister, Auth!Auth_nativeSendCode, Auth!Auth_nativeLogout,
    Auth!Auth_nativeRefreshToken, Auth!Auth_nativeChangePassword,
    Auth!Auth_nativeResetPassword, Auth!Auth_nativeGetDeviceList,
    Auth!Auth_nativeLogoutDevice, Auth!Web_login, Auth!Web_register_, Auth!Web_logout,
    Auth!Web_refreshToken
<1> QED BY <1>2, <1>3

\* The C functions of ConversationManager, and the methods that lead to them.
LEMMA ConversationReach ==
    /\ \A e \in Conversations!Entries : e.op \in Conversations!Operations /\ e.picky \in BOOLEAN
    /\ \A via \in Conversations!Bound :
          via.entry \in Conversations!Entries /\ via.layer \in {InJava, InScript}
<1>1. /\ \A p, o : Conversations!Entry(p, o) = Entry(p, o)
      /\ \A p, o : Conversations!PickyEntry(p, o) = PickyEntry(p, o)
      /\ \A l, e : Conversations!Via(l, e) = Via(l, e)
      /\ Conversations!ConversationJni \in {InJava, InScript}
      /\ Conversations!ConversationWeb \in {InJava, InScript}
  BY DEF Conversations!Entry, Entry, Conversations!PickyEntry, PickyEntry,
    Conversations!Via, Via, Conversations!ConversationJni, Conversations!ConversationWeb,
    InJava, InScript, Conversations!Binding, Binding
<1>2. \A e \in Conversations!Entries : e.op \in Conversations!Operations /\ e.picky \in BOOLEAN
  BY <1>1, Parts DEF Conversations!Entries, Conversations!Operations,
    Conversations!anychat_conv_get_list, Conversations!anychat_conv_get_total_unread,
    Conversations!anychat_conv_get, Conversations!anychat_conv_mark_all_read,
    Conversations!anychat_conv_mark_messages_read, Conversations!anychat_conv_set_pinned,
    Conversations!anychat_conv_set_muted,
    Conversations!anychat_conv_set_burn_after_reading,
    Conversations!anychat_conv_set_auto_delete, Conversations!anychat_conv_delete,
    Conversations!anychat_conv_get_message_unread_count,
    Conversations!anychat_conv_get_message_read_receipts,
    Conversations!anychat_conv_get_message_sequence
<1>3. \A via \in Conversations!Bound :
          via.entry \in Conversations!Entries /\ via.layer \in {InJava, InScript}
  BY <1>1, Parts DEF Conversations!Bound, Conversations!Entries,
    Conversations!Conversation_nativeGetList, Conversations!Conversation_nativeMarkRead,
    Conversations!Conversation_nativeSetPinned, Conversations!Conversation_nativeSetMuted,
    Conversations!Conversation_nativeDelete, Conversations!Web_getConversationList,
    Conversations!Web_markConversationRead, Conversations!Web_setConversationPinned,
    Conversations!Web_setConversationMuted, Conversations!Web_deleteConversation
<1> QED BY <1>2, <1>3

\* The C functions of MessageManager, and the methods that lead to them.
LEMMA MessageReach ==
    /\ \A e \in Messages!Entries : e.op \in Messages!Operations /\ e.picky \in BOOLEAN
    /\ \A via \in Messages!Bound :
          via.entry \in Messages!Entries /\ via.layer \in {InJava, InScript}
<1>1. /\ \A p, o : Messages!Entry(p, o) = Entry(p, o)
      /\ \A p, o : Messages!PickyEntry(p, o) = PickyEntry(p, o)
      /\ \A l, e : Messages!Via(l, e) = Via(l, e)
      /\ Messages!MessageJni \in {InJava, InScript}
      /\ Messages!MessageWeb \in {InJava, InScript}
  BY DEF Messages!Entry, Entry, Messages!PickyEntry, PickyEntry, Messages!Via, Via,
    Messages!MessageJni, Messages!MessageWeb, InJava, InScript, Messages!Binding, Binding
<1>2. \A e \in Messages!Entries : e.op \in Messages!Operations /\ e.picky \in BOOLEAN
  BY <1>1, Parts DEF Messages!Entries, Messages!Operations,
    Messages!anychat_message_get_history, Messages!anychat_message_mark_read,
    Messages!anychat_message_get_offline, Messages!anychat_message_ack,
    Messages!anychat_message_get_group_read_state, Messages!anychat_message_search,
    Messages!anychat_message_recall, Messages!anychat_message_delete,
    Messages!anychat_message_edit, Messages!anychat_message_send_typing
<1>3. \A via \in Messages!Bound :
          via.entry \in Messages!Entries /\ via.layer \in {InJava, InScript}
  BY <1>1, Parts DEF Messages!Bound, Messages!Entries, Messages!Message_nativeGetHistory,
    Messages!Message_nativeMarkRead, Messages!Web_getMessageHistory,
    Messages!Web_markMessageRead
<1> QED BY <1>2, <1>3

\* The C functions of FriendManager, and the methods that lead to them.
LEMMA FriendReach ==
    /\ \A e \in Friends!Entries : e.op \in Friends!Operations /\ e.picky \in BOOLEAN
    /\ \A via \in Friends!Bound :
          via.entry \in Friends!Entries /\ via.layer \in {InJava, InScript}
<1>1. /\ \A p, o : Friends!Entry(p, o) = Entry(p, o)
      /\ \A l, e : Friends!Via(l, e) = Via(l, e)
      /\ Friends!FriendJni \in {InJava, InScript}
      /\ Friends!FriendWeb \in {InJava, InScript}
  BY DEF Friends!Entry, Entry, Friends!Via, Via, Friends!FriendJni, Friends!FriendWeb,
    InJava, InScript, Friends!Binding, Binding
<1>2. \A e \in Friends!Entries : e.op \in Friends!Operations /\ e.picky \in BOOLEAN
  BY <1>1, Parts DEF Friends!Entries, Friends!Operations, Friends!anychat_friend_get_list,
    Friends!anychat_friend_add, Friends!anychat_friend_delete,
    Friends!anychat_friend_update_remark, Friends!anychat_friend_get_requests,
    Friends!anychat_friend_handle_request, Friends!anychat_friend_add_to_blacklist,
    Friends!anychat_friend_remove_from_blacklist, Friends!anychat_friend_get_blacklist
<1>3. \A via \in Friends!Bound :
          via.entry \in Friends!Entries /\ via.layer \in {InJava, InScript}
  BY <1>1, Parts DEF Friends!Bound, Friends!Entries, Friends!Friend_nativeGetList,
    Friends!Friend_nativeSendRequest, Friends!Friend_nativeHandleRequest,
    Friends!Friend_nativeGetPendingRequests, Friends!Friend_nativeDelete,
    Friends!Friend_nativeUpdateRemark, Friends!Web_getFriendList,
    Friends!Web_sendFriendRequest, Friends!Web_handleFriendRequest,
    Friends!Web_getPendingFriendRequests, Friends!Web_deleteFriend
<1> QED BY <1>2, <1>3

\* The C functions of GroupManager, and the methods that lead to them.
LEMMA GroupReach ==
    /\ \A e \in Groups!Entries : e.op \in Groups!Operations /\ e.picky \in BOOLEAN
    /\ \A via \in Groups!Bound :
          via.entry \in Groups!Entries /\ via.layer \in {InJava, InScript}
<1>1. /\ \A p, o : Groups!Entry(p, o) = Entry(p, o)
      /\ \A p, o : Groups!PickyEntry(p, o) = PickyEntry(p, o)
      /\ \A l, e : Groups!Via(l, e) = Via(l, e)
      /\ Groups!GroupJni \in {InJava, InScript}
      /\ Groups!GroupWeb \in {InJava, InScript}
  BY DEF Groups!Entry, Entry, Groups!PickyEntry, PickyEntry, Groups!Via, Via,
    Groups!GroupJni, Groups!GroupWeb, InJava, InScript, Groups!Binding, Binding
<1>2. \A e \in Groups!Entries : e.op \in Groups!Operations /\ e.picky \in BOOLEAN
  BY <1>1, Parts DEF Groups!Entries, Groups!Operations, Groups!anychat_group_get_list,
    Groups!anychat_group_get_info, Groups!anychat_group_create, Groups!anychat_group_join,
    Groups!anychat_group_invite, Groups!anychat_group_quit, Groups!anychat_group_disband,
    Groups!anychat_group_update, Groups!anychat_group_get_members,
    Groups!anychat_group_remove_member, Groups!anychat_group_update_member_role,
    Groups!anychat_group_update_nickname, Groups!anychat_group_transfer_ownership,
    Groups!anychat_group_get_join_requests, Groups!anychat_group_handle_join_request,
    Groups!anychat_group_get_qrcode, Groups!anychat_group_refresh_qrcode
<1>3. \A via \in Groups!Bound :
          via.entry \in Groups!Entries /\ via.layer \in {InJava, InScript}
  BY <1>1, Parts DEF Groups!Bound, Groups!Entries, Groups!Group_nativeGetList,
    Groups!Group_nativeCreate, Groups!Group_nativeJoin, Groups!Group_nativeInvite,
    Groups!Group_nativeQuit, Groups!Group_nativeUpdate, Groups!Group_nativeGetMembers,
    Groups!Web_getGroupList, Groups!Web_createGroup, Groups!Web_joinGroup,
    Groups!Web_inviteToGroup, Groups!Web_quitGroup, Groups!Web_getGroupMembers
<1> QED BY <1>2, <1>3

\* The C functions of CallManager, and the methods that lead to them.
LEMMA CallReach ==
    /\ \A e \in CallSessions!Entries : e.op \in CallSessions!Operations /\ e.picky \in BOOLEAN
    /\ \A via \in CallSessions!Bound :
          via.entry \in CallSessions!Entries /\ via.layer \in {InJava, InScript}
<1>1. \A p, o : CallSessions!Entry(p, o) = Entry(p, o)
  BY DEF CallSessions!Entry, Entry
<1>2. \A e \in CallSessions!Entries : e.op \in CallSessions!Operations /\ e.picky \in BOOLEAN
  BY <1>1, Parts DEF CallSessions!Entries, CallSessions!Operations,
    CallSessions!anychat_call_initiate_call, CallSessions!anychat_call_join_call,
    CallSessions!anychat_call_reject_call, CallSessions!anychat_call_end_call,
    CallSessions!anychat_call_get_call_session, CallSessions!anychat_call_get_call_logs,
    CallSessions!anychat_call_create_meeting, CallSessions!anychat_call_join_meeting,
    CallSessions!anychat_call_end_meeting, CallSessions!anychat_call_get_meeting,
    CallSessions!anychat_call_list_meetings
<1>3. \A via \in CallSessions!Bound :
          via.entry \in CallSessions!Entries /\ via.layer \in {InJava, InScript}
  BY <1>1, Parts DEF CallSessions!Bound
<1> QED BY <1>2, <1>3

\* The C functions of FileManager, and the methods that lead to them.
LEMMA FileReach ==
    /\ \A e \in Files!Entries : e.op \in Files!Operations /\ e.picky \in BOOLEAN
    /\ \A via \in Files!Bound :
          via.entry \in Files!Entries /\ via.layer \in {InJava, InScript}
<1>1. \A p, o : Files!Entry(p, o) = Entry(p, o)
  BY DEF Files!Entry, Entry
<1>2. \A e \in Files!Entries : e.op \in Files!Operations /\ e.picky \in BOOLEAN
  BY <1>1, Parts DEF Files!Entries, Files!Operations, Files!anychat_file_upload,
    Files!anychat_file_get_download_url, Files!anychat_file_get_info,
    Files!anychat_file_list, Files!anychat_file_upload_log, Files!anychat_file_delete
<1>3. \A via \in Files!Bound :
          via.entry \in Files!Entries /\ via.layer \in {InJava, InScript}
  BY <1>1, Parts DEF Files!Bound
<1> QED BY <1>2, <1>3

\* The C functions of UserManager, and the methods that lead to them.
LEMMA UserReach ==
    /\ \A e \in Users!Entries : e.op \in Users!Operations /\ e.picky \in BOOLEAN
    /\ \A via \in Users!Bound :
          via.entry \in Users!Entries /\ via.layer \in {InJava, InScript}
<1>1. /\ \A p, o : Users!Entry(p, o) = Entry(p, o)
      /\ \A p, o : Users!PickyEntry(p, o) = PickyEntry(p, o)
  BY DEF Users!Entry, Entry, Users!PickyEntry, PickyEntry
<1>2. \A e \in Users!Entries : e.op \in Users!Operations /\ e.picky \in BOOLEAN
  BY <1>1, Parts DEF Users!Entries, Users!Operations, Users!anychat_user_get_profile,
    Users!anychat_user_update_profile, Users!anychat_user_get_settings,
    Users!anychat_user_update_settings, Users!anychat_user_update_push_token,
    Users!anychat_user_update_push_token_with_device, Users!anychat_user_search,
    Users!anychat_user_get_info, Users!anychat_user_bind_phone,
    Users!anychat_user_change_phone, Users!anychat_user_bind_email,
    Users!anychat_user_change_email, Users!anychat_user_refresh_qrcode,
    Users!anychat_user_get_by_qrcode
<1>3. \A via \in Users!Bound :
          via.entry \in Users!Entries /\ via.layer \in {InJava, InScript}
  BY <1>1, Parts DEF Users!Bound
<1> QED BY <1>2, <1>3

\* The C functions of VersionManager, and the methods that lead to them.
LEMMA VersionReach ==
    /\ \A e \in Versions!Entries : e.op \in Versions!Operations /\ e.picky \in BOOLEAN
    /\ \A via \in Versions!Bound :
          via.entry \in Versions!Entries /\ via.layer \in {InJava, InScript}
<1>1. /\ \A p, o : Versions!Entry(p, o) = Entry(p, o)
      /\ \A p, o : Versions!PickyEntry(p, o) = PickyEntry(p, o)
  BY DEF Versions!Entry, Entry, Versions!PickyEntry, PickyEntry
<1>2. \A e \in Versions!Entries : e.op \in Versions!Operations /\ e.picky \in BOOLEAN
  BY <1>1, Parts DEF Versions!Entries, Versions!Operations, Versions!anychat_version_check,
    Versions!anychat_version_get_latest, Versions!anychat_version_list,
    Versions!anychat_version_report
<1>3. \A via \in Versions!Bound :
          via.entry \in Versions!Entries /\ via.layer \in {InJava, InScript}
  BY <1>1, Parts DEF Versions!Bound
<1> QED BY <1>2, <1>3

\* All of them together.
LEMMA Reach ==
    /\ Operations \subseteq Shapes
    /\ \A e \in Entries : e.op \in Operations /\ e.picky \in BOOLEAN
    /\ \A via \in Bound : via.entry \in Entries /\ via.layer \in Layers /\ via.layer \in {InJava, InScript}
<1>1. Operations \subseteq Shapes
  BY AuthShapes, ConversationShapes, MessageShapes, FriendShapes, GroupShapes, CallShapes,
     FileShapes, UserShapes, VersionShapes DEF Operations
<1>2. \A e \in Entries : e.op \in Operations /\ e.picky \in BOOLEAN
  BY AuthReach, ConversationReach, MessageReach, FriendReach, GroupReach, CallReach,
     FileReach, UserReach, VersionReach DEF Operations, Entries
<1>3. \A via \in Bound : via.entry \in Entries /\ via.layer \in {InJava, InScript}
  BY AuthReach, ConversationReach, MessageReach, FriendReach, GroupReach DEF Bound, Entries
<1> QED BY <1>1, <1>2, <1>3 DEF Layers

\* What the layers above C do for a call; AndroidLayers is one of them.
InC == Binding({"tell"}, {"tell"})

\* Only their calls get past the tests of a C function: it refuses every callback.
Accepted == {Cpp, CNoHandler}

Tells(by)  == Count(by.ended, "tell") = 1
Keeps(by)  == Count(by.ended, "free")

\* An effect counts once or not at all, and what the callers in C are.
LEMMA Counting ==
    /\ \A effects, what : Count(effects, what) \in 0..1
    /\ \A by \in CLayers : by = InC
    /\ InJava \in AndroidLayers
<1>1. \A effects, what : Count(effects, what) \in 0..1
  BY DEF Count
<1>2. \A by \in CLayers : by = InC
  BY DEF CLayers, InC, Binding, Auth!Binding, Auth!AuthC, Auth!ClientC, Conversations!Binding,
         Conversations!ConversationC, Messages!Binding, Messages!MessageC, Friends!Binding,
         Friends!FriendC, Groups!Binding, Groups!GroupC, CallSessions!Binding, CallSessions!CallC,
         Files!Binding, Files!FileC, Users!Binding, Users!UserC, Versions!Binding, Versions!VersionC
<1>3. InJava = Auth!AuthJni
  BY DEF InJava, Binding, Auth!Binding, Auth!AuthJni
<1> QED BY <1>1, <1>2, <1>3 DEF AndroidLayers

\* Who frees what, and who tells whom.
LEMMA LayersKeepAndTell ==
    /\ \A by \in CLayers \cup {Cpp, CNoHandler} : by \in Layers /\ Keeps(by) = 0
    /\ \A by \in CLayers \cup {CNoHandler} :
          Count(by.refused, "free") = 0 /\ Count(by.refused, "tell") = 1
    /\ \A by \in {InJava, InScript} :
          /\ Keeps(by) = 1 /\ Count(by.refused, "free") = 1
          /\ Count(by.refused, "tell") = 1 \/ by \in AndroidLayers
    /\ \A by \in Layers : Tells(by) \/ by = CNoHandler
<1>1. /\ Keeps(Cpp) = 0 /\ Keeps(CNoHandler) = 0 /\ Keeps(InC) = 0
      /\ Count(CNoHandler.refused, "free") = 0 /\ Count(CNoHandler.refused, "tell") = 1
      /\ Count(InC.refused, "free") = 0 /\ Count(InC.refused, "tell") = 1
      /\ Tells(Cpp) /\ Tells(InC)
  BY DEF Keeps, Tells, Count, Cpp, CNoHandler, InC, Binding
<1>2. /\ Keeps(InJava) = 1 /\ Count(InJava.refused, "free") = 1 /\ Tells(InJava)
      /\ Keeps(InScript) = 1 /\ Count(InScript.refused, "free") = 1 /\ Tells(InScript)
      /\ Count(InScript.refused, "tell") = 1
  BY DEF Keeps, Tells, Count, InJava, InScript, Binding
<1>3. \A by \in Layers : by \in {Cpp, CNoHandler, InC, InJava, InScript}
  BY Reach, Counting DEF Layers
<1>4. \A by \in CLayers \cup {Cpp, CNoHandler} : by \in Layers
  BY DEF Layers
<1> QED BY <1>1, <1>2, <1>3, <1>4, Counting

\* And they do not do otherwise at the end of a call.
LEMMA AcceptedEndings == \A by \in Accepted : by \in Layers /\ Endings(by) = {by.ended}
<1>1. \A by \in AndroidLayers : "free" \in by.ended
  BY DEF AndroidLayers, Auth!Binding, Auth!AuthJni, Conversations!Binding,
         Conversations!ConversationJni, Messages!Binding, Messages!MessageJni, Friends!Binding,
         Friends!FriendJni, Groups!Binding, Groups!GroupJni
<1>2. \A by \in Accepted : "free" \notin by.ended
  BY DEF Accepted, Cpp, CNoHandler, Binding
<1>3. \A by \in Accepted : by \notin AndroidLayers
  BY <1>1, <1>2
<1> QED BY <1>3 DEF Accepted, Layers, Endings

-----------------------------------------------------------------------------
(***************************************************************************)
(* The invariant: how far each call has come.                              *)
(***************************************************************************)
Typed ==
    /\ phase \in [Calls -> Phases]
    /\ op \in [Calls -> Operations \cup Entries \cup {NoOp}] /\ layer \in [Calls -> Layers]
    /\ part \in [Calls -> 1..3] /\ second \in [Calls -> BOOLEAN] /\ did \in [Calls -> BOOLEAN]
    /\ running \in BOOLEAN /\ locally \in [Calls -> BOOLEAN]
    /\ times \in [Calls -> [1..3 -> Nat]]
    /\ outcomes \in [Calls -> {<<>>, <<"success">>, <<"error">>}]
    /\ valid \in [Calls -> BOOLEAN] /\ told \in [Calls -> 0..1] /\ kept \in [Calls -> 0..1]

\* Nothing has been done, or told, for call c.
Untouched(c) == outcomes[c] = <<>> /\ told[c] = 0

\* The parts before the current one were done, each once, and so was the current
\* one if did says so.
DoneInOrder(c) ==
    /\ part[c] <= op[c].parts
    /\ \A p \in 1..3 : times[c][p] = IF p < part[c] \/ (p = part[c] /\ did[c]) THEN 1 ELSE 0

Started(c) ==
    phase[c] \in {"unmade", "calling"} => Untouched(c) /\ \A p \in 1..3 : times[c][p] = 0

KeptForCall(c) ==
    /\ phase[c] = "unmade" => kept[c] = 0
    /\ phase[c] = "calling" => kept[c] = 1 /\ op[c] \in Entries /\ layer[c] \in {InJava, InScript}

UnderWay(c) ==
    /\ phase[c] \in {"pending", "active"} =>
          /\ Untouched(c) /\ op[c] \in Operations /\ DoneInOrder(c)
          /\ layer[c] \in Accepted /\ kept[c] = Keeps(layer[c])
    /\ phase[c] = "pending" => ~did[c]

DoneSoFar(c) ==
    /\ \A p \in 1..3 : times[c][p] <= 1
    /\ \A p \in 2..3 : times[c][p] > 0 => times[c][p - 1] > 0

Success(c) ==
    outcomes[c] = <<"success">> /\ ~locally[c] => \A p \in 1..op[c].parts : times[c][p] > 0

Settled(c) ==
    phase[c] \in {"ended", "refused"} =>
        /\ kept[c] = 0
        /\ \/ told[c] = 1
           \/ phase[c] = "refused" /\ layer[c] \in AndroidLayers
           \/ phase[c] = "ended" /\ layer[c] = CNoHandler

Right(c) ==
    /\ Started(c) /\ KeptForCall(c) /\ UnderWay(c)
    /\ DoneSoFar(c) /\ Success(c) /\ Settled(c)

Inv == Typed /\ \A c \in Calls : Right(c)

(***************************************************************************)
(* A step of one call.                                                     *)
(***************************************************************************)
\* What the other calls keep.
Others(c) ==
    \A d \in Calls \ {c} :
        /\ phase'[d] = phase[d] /\ op'[d] = op[d] /\ layer'[d] = layer[d] /\ part'[d] = part[d]
        /\ did'[d] = did[d] /\ times'[d] = times[d] /\ locally'[d] = locally[d]
        /\ outcomes'[d] = outcomes[d] /\ told'[d] = told[d] /\ kept'[d] = kept[d]

\* A step of one call is right if it leaves that call right.
LEMMA OneCall == ASSUME Inv, NEW c \in Calls, Typed', Others(c), Right(c)' PROVE Inv'
<1> SUFFICES ASSUME NEW d \in Calls \ {c}
             PROVE  Right(d)'
  BY DEF Inv
<1>1. Right(d)
  BY DEF Inv
<1>2. /\ phase'[d] = phase[d] /\ op'[d] = op[d] /\ layer'[d] = layer[d] /\ part'[d] = part[d]
      /\ did'[d] = did[d] /\ times'[d] = times[d] /\ locally'[d] = locally[d]
      /\ outcomes'[d] = outcomes[d] /\ told'[d] = told[d] /\ kept'[d] = kept[d]
  BY DEF Others
<1>3. Started(d)' /\ KeptForCall(d)'
  BY <1>1, <1>2 DEF Right, Started, KeptForCall, Untouched
<1>4. UnderWay(d)'
  BY <1>1, <1>2 DEF Right, UnderWay, Untouched, DoneInOrder
<1>5. DoneSoFar(d)' /\ Success(d)' /\ Settled(d)'
  BY <1>1, <1>2 DEF Right, DoneSoFar, Success, Settled
<1> QED BY <1>3, <1>4, <1>5 DEF Right

\* The shape of an operation.
LEMMA OperationParts ==
    ASSUME NEW o \in Operations
    PROVE  /\ o.parts \in {1, 3} /\ o.checked \in BOOLEAN /\ o.cached \in BOOLEAN
           /\ o.field \in BOOLEAN /\ o.rewrites \in BOOLEAN
           /\ o.otherwise # "none" => o.parts = 1
BY Reach DEF Shapes, Single, Upload, Shape

\* The variables that neither the end of a call nor a request sets.
Rest(c) ==
    /\ op' \in [Calls -> Operations \cup Entries \cup {NoOp}] /\ layer' \in [Calls -> Layers]
    /\ second' \in [Calls -> BOOLEAN] /\ running' \in BOOLEAN
    /\ times' \in [Calls -> [1..3 -> Nat]] /\ locally' \in [Calls -> BOOLEAN]
    /\ valid' \in [Calls -> BOOLEAN]
    /\ \A d \in Calls \ {c} :
          op'[d] = op[d] /\ layer'[d] = layer[d] /\ times'[d] = times[d] /\ locally'[d] = locally[d]

\* A call that ends, with success only if it was done.
LEMMA EndKeeps ==
    ASSUME Inv, NEW c \in Calls, NEW outcome \in {"success", "error"}, NEW by \in Accepted,
           EndWith(c, outcome, by), Rest(c), by = layer'[c], Untouched(c), kept[c] = Keeps(by),
           DoneSoFar(c)',
           outcome = "success" /\ ~locally'[c] => \A p \in 1..op'[c].parts : times'[c][p] > 0
    PROVE  Inv'
<1>1. /\ phase' = [phase EXCEPT ![c] = "ended"]
      /\ outcomes' = [outcomes EXCEPT ![c] = Append(outcomes[c], outcome)]
      /\ told' = [told EXCEPT ![c] = told[c] + Count(by.ended, "tell")]
      /\ kept' = [kept EXCEPT ![c] = kept[c] - Count(by.ended, "free")]
      /\ part' = part /\ did' = did
  <2>1. PICK effects \in Endings(by) :
            /\ told' = [told EXCEPT ![c] = told[c] + Count(effects, "tell")]
            /\ kept' = [kept EXCEPT ![c] = kept[c] - Count(effects, "free")]
    BY DEF EndWith
  <2>2. effects = by.ended
    BY <2>1, AcceptedEndings
  <2> QED BY <2>1, <2>2 DEF EndWith
<1>2. Append(<<>>, outcome) = <<outcome>>
  OBVIOUS
<1>3. /\ outcomes[c] = <<>> /\ told[c] = 0 /\ kept[c] = Count(by.ended, "free")
      /\ Count(by.ended, "tell") \in 0..1 /\ Count(by.ended, "free") \in 0..1
  BY Counting DEF Untouched, Keeps
<1>4. /\ outcomes' = [outcomes EXCEPT ![c] = <<outcome>>]
      /\ told' = [told EXCEPT ![c] = Count(by.ended, "tell")]
      /\ kept' = [kept EXCEPT ![c] = 0]
  <2>1. told[c] + Count(by.ended, "tell") = Count(by.ended, "tell")
    BY <1>3
  <2>2. kept[c] - Count(by.ended, "free") = 0
    BY <1>3
  <2> QED BY <1>1, <1>2, <1>3, <2>1, <2>2
<1>5. Typed
  BY DEF Inv
<1>6. /\ phase'[c] = "ended" /\ outcomes'[c] = <<outcome>> /\ kept'[c] = 0
      /\ told'[c] = Count(by.ended, "tell")
  BY <1>1, <1>4, <1>5 DEF Typed
<1>7. Typed'
  <2>1. outcomes' \in [Calls -> {<<>>, <<"success">>, <<"error">>}]
    BY <1>4, <1>5 DEF Typed
  <2>2. told' \in [Calls -> 0..1] /\ kept' \in [Calls -> 0..1]
    BY <1>3, <1>4, <1>5 DEF Typed
  <2>3. phase' \in [Calls -> Phases]
    BY <1>1, <1>5 DEF Typed
  <2>4. part' \in [Calls -> 1..3] /\ did' \in [Calls -> BOOLEAN]
    BY <1>1, <1>5 DEF Typed
  <2> QED BY <2>1, <2>2, <2>3, <2>4 DEF Typed, Rest
<1>8. Others(c)
  BY <1>1, <1>4, <1>5 DEF Typed, Rest, Others
<1>9. Right(c)'
  <2>1. Started(c)' /\ KeptForCall(c)' /\ UnderWay(c)'
    BY <1>6 DEF Started, KeptForCall, UnderWay
  <2>2. Success(c)'
    <3>1. outcome # "success" => <<outcome>> # <<"success">>
      OBVIOUS
    <3> QED BY <1>6, <3>1 DEF Success
  <2>3. Settled(c)'
    <3>1. told'[c] = 1 \/ layer'[c] = CNoHandler
      BY <1>6, AcceptedEndings, LayersKeepAndTell DEF Tells
    <3> QED BY <1>6, <3>1 DEF Settled
  <2> QED BY <2>1, <2>2, <2>3 DEF Right
<1> QED BY <1>7, <1>8, <1>9, OneCall

\* A call that asks for part p, all parts before it done.
LEMMA AskKeeps ==
    ASSUME Inv, NEW c \in Calls, NEW p \in 1..3, Ask(c, p), Rest(c), Untouched(c),
           op'[c] \in Operations, p <= op'[c].parts,
           layer'[c] \in Accepted, kept[c] = Keeps(layer'[c]),
           \A q \in 1..3 : times'[c][q] = IF q < p THEN 1 ELSE 0
    PROVE  Inv'
<1>1. /\ phase' = [phase EXCEPT ![c] = "pending"] /\ part' = [part EXCEPT ![c] = p]
      /\ did' = [did EXCEPT ![c] = FALSE] /\ outcomes' = outcomes /\ told' = told /\ kept' = kept
  BY DEF Ask
<1>2. Typed
  BY DEF Inv
<1>3. /\ phase'[c] = "pending" /\ part'[c] = p /\ ~did'[c] /\ outcomes'[c] = <<>>
      /\ told'[c] = 0 /\ kept'[c] = kept[c]
  BY <1>1, <1>2 DEF Typed, Untouched
<1>4. Typed'
  <2>1. did' \in [Calls -> BOOLEAN]
    BY <1>1, <1>2 DEF Typed
  <2>2. part' \in [Calls -> 1..3]
    BY <1>1, <1>2 DEF Typed
  <2>3. phase' \in [Calls -> Phases]
    BY <1>1, <1>2 DEF Typed
  <2>4. /\ outcomes' \in [Calls -> {<<>>, <<"success">>, <<"error">>}]
        /\ told' \in [Calls -> 0..1] /\ kept' \in [Calls -> 0..1]
    BY <1>1, <1>2 DEF Typed
  <2> QED BY <2>1, <2>2, <2>3, <2>4 DEF Typed, Rest
<1>5. Others(c)
  BY <1>1, <1>2 DEF Typed, Rest, Others
<1>6. Right(c)'
  <2>1. Started(c)' /\ KeptForCall(c)' /\ Settled(c)'
    BY <1>3 DEF Started, KeptForCall, Settled
  <2>2. Success(c)'
    <3>1. <<>> # <<"success">>
      OBVIOUS
    <3> QED BY <1>3, <3>1 DEF Success
  <2>3. DoneInOrder(c)'
    BY <1>3 DEF DoneInOrder
  <2>4. UnderWay(c)'
    BY <1>3, <2>3 DEF UnderWay, Untouched
  <2>5. DoneSoFar(c)'
    <3>1. \A q \in 1..3 : times'[c][q] <= 1
      OBVIOUS
    <3>2. \A q \in 2..3 : times'[c][q] > 0 => times'[c][q - 1] > 0
      <4> SUFFICES ASSUME NEW q \in 2..3, times'[c][q] > 0
                   PROVE  times'[c][q - 1] > 0
        OBVIOUS
      <4>1. q < p /\ q - 1 \in 1..3 /\ q - 1 < p /\ q \in 1..3
        OBVIOUS
      <4> QED BY <4>1
    <3> QED BY <3>1, <3>2 DEF DoneSoFar
  <2> QED BY <2>1, <2>2, <2>4, <2>5 DEF Right
<1> QED BY <1>4, <1>5, <1>6, OneCall

(***************************************************************************)
(* Calls made.                                                             *)
(***************************************************************************)
\* What a manager's method does before it returns.
LEMMA StartKeeps ==
    ASSUME Inv, NEW c \in Calls, NEW o \in Operations, NEW by \in Accepted, Start(c, o, by),
           phase[c] \in {"unmade", "calling"}, kept[c] = Keeps(by),
           valid' \in [Calls -> BOOLEAN]
    PROVE  Inv'
<1>1. /\ op' = [op EXCEPT ![c] = o] /\ layer' = [layer EXCEPT ![c] = by] /\ by \in Layers
      /\ second' = second /\ running' = running /\ times' = times
  BY AcceptedEndings DEF Start
<1>2. Typed /\ Right(c)
  BY DEF Inv
<1>3. op'[c] = o /\ layer'[c] = by
  BY <1>1, <1>2 DEF Typed
<1>4. Untouched(c) /\ \A p \in 1..3 : times'[c][p] = 0
  BY <1>1, <1>2 DEF Right, Started
<1>5. DoneSoFar(c)'
  <2>1. \A p \in 2..3 : p \in 1..3
    OBVIOUS
  <2> QED BY <1>4, <2>1 DEF DoneSoFar
<1>6. locally' \in [Calls -> BOOLEAN] /\ (\A d \in Calls \ {c} : locally'[d] = locally[d]) => Rest(c)
  <2>1. op' \in [Calls -> Operations \cup Entries \cup {NoOp}] /\ layer' \in [Calls -> Layers]
    BY <1>1, <1>2 DEF Typed
  <2>2. \A d \in Calls \ {c} : op'[d] = op[d] /\ layer'[d] = layer[d]
    BY <1>1, <1>2 DEF Typed
  <2> QED BY <1>1, <1>2, <2>1, <2>2 DEF Typed, Rest
<1>7. CASE EndWith(c, "error", by) /\ UNCHANGED locally
  <2>1. Rest(c)
    BY <1>2, <1>6, <1>7 DEF Typed
  <2> QED BY <1>3, <1>4, <1>5, <1>7, <2>1, EndKeeps
<1>8. CASE EndWith(c, "success", by) /\ locally' = [locally EXCEPT ![c] = TRUE]
  <2>1. locally' \in [Calls -> BOOLEAN] /\ locally'[c]
    BY <1>2, <1>8 DEF Typed
  <2>2. \A d \in Calls \ {c} : locally'[d] = locally[d]
    BY <1>2, <1>8 DEF Typed
  <2> QED BY <1>3, <1>4, <1>5, <1>6, <1>8, <2>1, <2>2, EndKeeps
<1>9. CASE Ask(c, 1) /\ UNCHANGED locally
  <2>1. Rest(c)
    BY <1>2, <1>6, <1>9 DEF Typed
  <2>2. 1 <= op'[c].parts
    BY <1>3, OperationParts
  <2>3. \A q \in 1..3 : times'[c][q] = IF q < 1 THEN 1 ELSE 0
    BY <1>4
  <2> QED BY <1>3, <1>4, <1>9, <2>1, <2>2, <2>3, AskKeeps
<1> QED BY <1>7, <1>8, <1>9 DEF Start

\* What a layer does when a C function refuses.
LEMMA RefuseKeeps ==
    ASSUME Inv, NEW c \in Calls, NEW by \in Layers, Refuse(c, by),
           phase[c] \in {"unmade", "calling"}, kept[c] = Count(by.refused, "free"),
           Count(by.refused, "tell") = 1 \/ by \in AndroidLayers,
           valid' \in [Calls -> BOOLEAN]
    PROVE  Inv'
<1>1. /\ phase' = [phase EXCEPT ![c] = "refused"] /\ layer' = [layer EXCEPT ![c] = by]
      /\ told' = [told EXCEPT ![c] = told[c] + Count(by.refused, "tell")]
      /\ kept' = [kept EXCEPT ![c] = kept[c] - Count(by.refused, "free")]
      /\ op' = op /\ part' = part /\ second' = second /\ did' = did /\ running' = running
      /\ times' = times /\ locally' = locally /\ outcomes' = outcomes
  BY DEF Refuse
<1>2. Typed /\ Right(c)
  BY DEF Inv
<1>3. Untouched(c)
  BY <1>2 DEF Right, Started
<1>4. Count(by.refused, "tell") \in 0..1 /\ Count(by.refused, "free") \in 0..1
  BY Counting
<1>5. told' = [told EXCEPT ![c] = Count(by.refused, "tell")] /\ kept' = [kept EXCEPT ![c] = 0]
  <2>1. told[c] + Count(by.refused, "tell") = Count(by.refused, "tell")
    BY <1>3, <1>4 DEF Untouched
  <2>2. kept[c] - Count(by.refused, "free") = 0
    BY <1>4
  <2> QED BY <1>1, <2>1, <2>2
<1>6. /\ phase'[c] = "refused" /\ layer'[c] = by /\ outcomes'[c] = <<>> /\ kept'[c] = 0
      /\ told'[c] = Count(by.refused, "tell")
  BY <1>1, <1>2, <1>3, <1>5 DEF Typed, Untouched
<1>7. Typed'
  <2>1. layer' \in [Calls -> Layers]
    BY <1>1, <1>2 DEF Typed
  <2>2. told' \in [Calls -> 0..1] /\ kept' \in [Calls -> 0..1]
    BY <1>4, <1>5, <1>2 DEF Typed
  <2>3. phase' \in [Calls -> Phases]
    BY <1>1, <1>2 DEF Typed
  <2> QED BY <1>1, <1>2, <2>1, <2>2, <2>3 DEF Typed
<1>8. Others(c)
  BY <1>1, <1>2, <1>5 DEF Typed, Others
<1>9. Right(c)'
  <2>1. Started(c)' /\ KeptForCall(c)' /\ UnderWay(c)' /\ Settled(c)'
    BY <1>6 DEF Started, KeptForCall, UnderWay, Settled
  <2>2. Success(c)'
    <3>1. <<>> # <<"success">>
      OBVIOUS
    <3> QED BY <1>6, <3>1 DEF Success
  <2>3. DoneSoFar(c)'
    BY <1>1, <1>2 DEF Right, DoneSoFar
  <2> QED BY <2>1, <2>2, <2>3 DEF Right
<1> QED BY <1>7, <1>8, <1>9, OneCall

\* A C function that accepts the call or refuses it.
LEMMA ThroughKeeps ==
    ASSUME Inv, NEW c \in Calls, NEW entry \in Entries, NEW given, NEW proper \in BOOLEAN,
           NEW callback \in BOOLEAN, NEW by \in Layers, Through(c, entry, given, proper, callback, by),
           phase[c] \in {"unmade", "calling"}, kept[c] = Keeps(by),
           Count(by.refused, "free") = Keeps(by),
           Count(by.refused, "tell") = 1 \/ by \in AndroidLayers,
           callback \/ by \in Accepted
    PROVE  Inv'
<1>1. valid' \in [Calls -> BOOLEAN]
  <2>1. (given = entry.needs /\ (entry.picky => proper)) \in BOOLEAN
    OBVIOUS
  <2>2. valid' = [valid EXCEPT ![c] = given = entry.needs /\ (entry.picky => proper)]
    BY DEF Through
  <2> QED BY <2>1, <2>2 DEF Inv, Typed
<1>2. CASE Accepts(entry, given, proper, callback)
  <2>1. entry.op \in Operations
    BY Reach
  <2>2. by \in Accepted /\ Start(c, entry.op, by)
    BY <1>2 DEF Accepts, Through
  <2> QED BY <1>1, <2>1, <2>2, StartKeeps
<1>3. CASE ~Accepts(entry, given, proper, callback)
  <2>1. Refuse(c, by)
    BY <1>3 DEF Through
  <2> QED BY <1>1, <2>1, RefuseKeeps
<1> QED BY <1>2, <1>3

\* Calls by applications.
LEMMA CallsKeep == ASSUME Inv, NEW c \in Calls, CppCall(c) \/ CCall(c) PROVE Inv'
<1>1. phase[c] = "unmade" /\ kept[c] = 0
  BY DEF CppCall, CCall, Unmade, Inv, Right, KeptForCall
<1>2. CASE CppCall(c)
  <2>1. PICK o \in Operations : Start(c, o, Cpp)
    BY <1>2 DEF CppCall
  <2>2. valid' \in [Calls -> BOOLEAN]
    BY <1>2 DEF CppCall, Inv, Typed
  <2>3. Cpp \in Accepted /\ Keeps(Cpp) = 0
    BY LayersKeepAndTell DEF Accepted
  <2> QED BY <1>1, <2>1, <2>2, <2>3, StartKeeps
<1>3. CASE CCall(c)
  <2>1. PICK entry \in Entries, callback \in BOOLEAN, proper \in BOOLEAN :
             \E given \in SUBSET entry.needs :
                \E by \in IF callback THEN CLayers ELSE {CNoHandler} :
                    Through(c, entry, given, proper, callback, by)
    BY <1>3 DEF CCall
  <2>2. PICK given \in SUBSET entry.needs, by \in CLayers \cup {CNoHandler} :
             /\ Through(c, entry, given, proper, callback, by)
             /\ callback \/ by = CNoHandler
    BY <2>1
  <2>3. /\ by \in Layers /\ Keeps(by) = 0
        /\ Count(by.refused, "free") = 0 /\ Count(by.refused, "tell") = 1
        /\ callback \/ by \in Accepted
    BY <2>2, LayersKeepAndTell DEF Accepted
  <2> QED BY <1>1, <2>2, <2>3, ThroughKeeps
<1> QED BY <1>2, <1>3

\* A binding makes what it keeps for a call.
LEMMA BindingKeepsKeeps == ASSUME Inv, NEW c \in Calls, BindingKeeps(c) PROVE Inv'
<1>1. PICK via \in Bound : op' = [op EXCEPT ![c] = via.entry] /\ layer' = [layer EXCEPT ![c] = via.layer]
  BY DEF BindingKeeps
<1>2. /\ phase[c] = "unmade"
      /\ phase' = [phase EXCEPT ![c] = "calling"] /\ kept' = [kept EXCEPT ![c] = 1]
      /\ part' = part /\ second' = second /\ did' = did /\ running' = running /\ times' = times
      /\ locally' = locally /\ outcomes' = outcomes /\ valid' = valid /\ told' = told
  BY DEF BindingKeeps, Unmade
<1>3. Typed /\ Right(c)
  BY DEF Inv
<1>4. via.entry \in Entries /\ via.layer \in Layers /\ via.layer \in {InJava, InScript}
  BY Reach
<1>5. phase'[c] = "calling" /\ kept'[c] = 1 /\ op'[c] = via.entry /\ layer'[c] = via.layer
  BY <1>1, <1>2, <1>3 DEF Typed
<1>6. Typed'
  <2>1. op' \in [Calls -> Operations \cup Entries \cup {NoOp}] /\ layer' \in [Calls -> Layers]
    BY <1>1, <1>3, <1>4 DEF Typed
  <2>2. phase' \in [Calls -> Phases]
    BY <1>2, <1>3 DEF Typed
  <2>3. kept' \in [Calls -> 0..1]
    BY <1>2, <1>3 DEF Typed
  <2> QED BY <1>2, <1>3, <2>1, <2>2, <2>3 DEF Typed
<1>7. Others(c)
  BY <1>1, <1>2, <1>3 DEF Typed, Others
<1>8. Right(c)'
  <2>1. Started(c)'
    BY <1>2, <1>3 DEF Right, Started, Untouched
  <2>2. KeptForCall(c)' /\ UnderWay(c)' /\ Settled(c)'
    BY <1>4, <1>5 DEF KeptForCall, UnderWay, Settled
  <2>3. Success(c)'
    <3>1. outcomes'[c] = <<>> /\ <<>> # <<"success">>
      BY <1>2, <1>3 DEF Right, Started, Untouched
    <3> QED BY <3>1 DEF Success
  <2>4. DoneSoFar(c)'
    BY <1>2, <1>3 DEF Right, DoneSoFar
  <2> QED BY <2>1, <2>2, <2>3, <2>4 DEF Right
<1> QED BY <1>6, <1>7, <1>8, OneCall

\* And calls the C function.
LEMMA BindingCallsKeep == ASSUME Inv, NEW c \in Calls, BindingCalls(c) PROVE Inv'
<1>1. phase[c] = "calling" /\ Typed /\ Right(c)
  BY DEF BindingCalls, Inv
<1>2. kept[c] = 1 /\ op[c] \in Entries /\ layer[c] \in {InJava, InScript} /\ layer[c] \in Layers
  BY <1>1 DEF Right, KeptForCall, Typed
<1>3. PICK proper \in BOOLEAN : Through(c, op[c], op[c].needs, proper, TRUE, layer[c])
  BY DEF BindingCalls
<1>4. /\ Keeps(layer[c]) = 1 /\ Count(layer[c].refused, "free") = 1
      /\ Count(layer[c].refused, "tell") = 1 \/ layer[c] \in AndroidLayers
  BY <1>2, LayersKeepAndTell
<1> QED BY <1>1, <1>2, <1>3, <1>4, ThroughKeeps

(***************************************************************************)
(* The worker and the server.                                              *)
(***************************************************************************)
\* The worker takes up what is pending, or drops what is under way.
LEMMA WorkerKeeps == ASSUME Inv, Admit \/ Destroy PROVE Inv'
<1>1. /\ op' = op /\ layer' = layer /\ part' = part /\ second' = second /\ did' = did
      /\ times' = times /\ locally' = locally /\ outcomes' = outcomes /\ valid' = valid
      /\ told' = told /\ kept' = kept /\ running' \in BOOLEAN
  BY DEF Admit, Destroy, Inv, Typed
<1>2. Typed
  BY DEF Inv
<1>3. /\ phase' \in [Calls -> Phases]
      /\ \A c \in Calls : \/ phase'[c] = phase[c]
                          \/ phase[c] \in {"pending", "active"} /\ phase'[c] \in {"active", "dropped"}
  <2>1. CASE Admit
    BY <1>2, <2>1 DEF Admit, Typed
  <2>2. CASE Destroy
    BY <1>2, <2>2 DEF Destroy, Typed
  <2> QED BY <2>1, <2>2
<1>4. Typed'
  BY <1>1, <1>2, <1>3 DEF Typed
<1>5. ASSUME NEW c \in Calls
      PROVE  Right(c)'
  <2>1. Right(c)
    BY DEF Inv
  <2>2. Started(c)' /\ KeptForCall(c)'
    BY <1>1, <1>3, <2>1 DEF Right, Started, KeptForCall, Untouched
  <2>3. UnderWay(c)'
    BY <1>1, <1>3, <2>1 DEF Right, UnderWay, DoneInOrder, Untouched
  <2>4. DoneSoFar(c)' /\ Success(c)' /\ Settled(c)'
    BY <1>1, <1>3, <2>1 DEF Right, DoneSoFar, Success, Settled
  <2> QED BY <2>2, <2>3, <2>4 DEF Right
<1> QED BY <1>4, <1>5 DEF Inv

\* The server does what is asked.
LEMMA ServeKeeps == ASSUME Inv, NEW c \in Calls, Serve(c) PROVE Inv'
<1>1. /\ phase[c] = "active" /\ ~did[c]
      /\ did' = [did EXCEPT ![c] = TRUE]
      /\ times' = [times EXCEPT ![c][part[c]] = times[c][part[c]] + 1]
      /\ phase' = phase /\ op' = op /\ layer' = layer /\ part' = part /\ second' = second
      /\ running' = running /\ locally' = locally /\ outcomes' = outcomes /\ valid' = valid
      /\ told' = told /\ kept' = kept
  BY DEF Serve
<1>2. Typed /\ Right(c)
  BY DEF Inv
<1>3. Untouched(c) /\ op[c] \in Operations /\ layer[c] \in Accepted /\ kept[c] = Keeps(layer[c]) /\ DoneInOrder(c)
  BY <1>1, <1>2 DEF Right, UnderWay
<1>4. times[c] \in [1..3 -> Nat] /\ part[c] \in 1..3 /\ times[c][part[c]] = 0
  BY <1>1, <1>2, <1>3 DEF Typed, DoneInOrder
<1>5. did' \in [Calls -> BOOLEAN] /\ did'[c]
  BY <1>1, <1>2 DEF Typed
<1>6. times' = [times EXCEPT ![c] = [times[c] EXCEPT ![part[c]] = 1]]
  BY <1>1, <1>4
<1>7. [times[c] EXCEPT ![part[c]] = 1] \in [1..3 -> Nat]
  BY <1>4
<1>8. /\ times' \in [Calls -> [1..3 -> Nat]]
      /\ \A p \in 1..3 : times'[c][p] = IF p = part[c] THEN 1 ELSE times[c][p]
      /\ \A d \in Calls \ {c} : times'[d] = times[d]
  BY <1>2, <1>4, <1>6, <1>7 DEF Typed
<1>9. Typed'
  BY <1>1, <1>2, <1>5, <1>8 DEF Typed
<1>10. Others(c)
  BY <1>1, <1>2, <1>8 DEF Typed, Others
<1>11. Right(c)'
  <2>1. Started(c)' /\ KeptForCall(c)' /\ Settled(c)'
    BY <1>1 DEF Started, KeptForCall, Settled
  <2>2. \A p \in 1..3 : times'[c][p] = IF p <= part[c] THEN 1 ELSE 0
    BY <1>1, <1>3, <1>4, <1>8 DEF DoneInOrder
  <2>3. DoneInOrder(c)'
    BY <1>1, <1>3, <1>4, <1>5, <2>2 DEF DoneInOrder
  <2>4. UnderWay(c)'
    BY <1>1, <1>3, <2>3 DEF UnderWay, Untouched
  <2>5. DoneSoFar(c)'
    <3>1. \A p \in 2..3 : p \in 1..3 /\ p - 1 \in 1..3
      OBVIOUS
    <3>2. \A p \in 1..3 : times'[c][p] <= 1
      BY <2>2
    <3>3. \A p \in 2..3 : times'[c][p] > 0 => times'[c][p - 1] > 0
      BY <1>4, <2>2, <3>1
    <3> QED BY <3>2, <3>3 DEF DoneSoFar
  <2>6. Success(c)'
    <3>1. outcomes'[c] = <<>> /\ <<>> # <<"success">>
      BY <1>1, <1>3 DEF Untouched
    <3> QED BY <3>1 DEF Success
  <2> QED BY <2>1, <2>4, <2>5, <2>6 DEF Right
<1> QED BY <1>9, <1>10, <1>11, OneCall

\* What is true of an active call, and what its handler leaves alone.
LEMMA Active ==
    ASSUME Inv, NEW c \in Calls, Finish(c)
    PROVE  /\ Untouched(c) /\ op[c] \in Operations /\ layer[c] \in Accepted /\ kept[c] = Keeps(layer[c])
           /\ DoneInOrder(c) /\ DoneSoFar(c)' /\ part[c] \in 1..3 /\ did[c] \in BOOLEAN
           /\ op' = op /\ layer' = layer /\ times' = times
           /\ (second' = second \/ second' = [second EXCEPT ![c] = TRUE])
              /\ (locally' = locally \/ locally' = [locally EXCEPT ![c] = TRUE])
              => Rest(c)
<1>1. /\ phase[c] = "active" /\ op' = op /\ layer' = layer /\ times' = times
      /\ running' = running /\ valid' = valid
  BY DEF Finish
<1>2. Typed /\ Right(c)
  BY DEF Inv
<1>3. Untouched(c) /\ op[c] \in Operations /\ layer[c] \in Accepted /\ kept[c] = Keeps(layer[c]) /\ DoneInOrder(c)
  BY <1>1, <1>2 DEF Right, UnderWay, Typed
<1>4. DoneSoFar(c)'
  BY <1>1, <1>2 DEF Right, DoneSoFar
<1>5. ASSUME second' = second \/ second' = [second EXCEPT ![c] = TRUE],
             locally' = locally \/ locally' = [locally EXCEPT ![c] = TRUE]
      PROVE  Rest(c)
  <2>1. second' \in [Calls -> BOOLEAN]
    BY <1>2, <1>5 DEF Typed
  <2>2. locally' \in [Calls -> BOOLEAN] /\ \A d \in Calls \ {c} : locally'[d] = locally[d]
    BY <1>2, <1>5 DEF Typed
  <2> QED BY <1>1, <1>2, <2>1, <2>2 DEF Typed, Rest
<1> QED BY <1>1, <1>2, <1>3, <1>4, <1>5 DEF Typed

\* What an answer that is believed says of the server.
LEMMA Believed ==
    ASSUME NEW c \in Calls, NEW a \in Answers, did[c] \in BOOLEAN
    PROVE  /\ \A o : Truthful(a, did[c]) /\ Verdict(o, a) => did[c]
           /\ \A o : Truthful(a, did[c]) /\ TriesAgain(o, a) => ~did[c] /\ o.otherwise # "none"
           /\ StorageTruthful(a, did[c]) /\ Stored(a) => did[c]
<1>1. \A o : Verdict(o, a) => a.body \in {"bare", "full"}
  BY DEF Verdict
<1>2. \A o : TriesAgain(o, a) => a.status \in {404, 405} /\ o.otherwise # "none"
  BY DEF TriesAgain
<1>3. Stored(a) => a.status \in {200, 201}
  BY DEF Stored
<1> QED BY <1>1, <1>2, <1>3 DEF Truthful, StorageTruthful

\* A call that ends with an error in its handler.
LEMMA ErrorKeeps ==
    ASSUME Inv, NEW c \in Calls, Finish(c), EndWith(c, "error", layer[c]),
           second' = second \/ second' = [second EXCEPT ![c] = TRUE], locally' = locally
    PROVE  Inv'
<1>1. Rest(c) /\ Untouched(c) /\ layer[c] \in Accepted /\ kept[c] = Keeps(layer[c]) /\ DoneSoFar(c)'
      /\ layer' = layer
  BY Active
<1> QED BY <1>1, EndKeeps

\* The next part of an upload is asked for when the one before it was done.
LEMMA NextPartKeeps ==
    ASSUME Inv, NEW c \in Calls, Finish(c), NEW p \in 2..3, op[c].parts = 3, part[c] = p - 1, did[c],
           Ask(c, p), second' = second, locally' = locally
    PROVE  Inv'
<1>1. /\ Rest(c) /\ Untouched(c) /\ op[c] \in Operations /\ layer[c] \in Accepted
      /\ kept[c] = Keeps(layer[c]) /\ DoneInOrder(c) /\ op' = op /\ layer' = layer /\ times' = times
  BY Active
<1>2. \A q \in 1..3 : times'[c][q] = IF q < p THEN 1 ELSE 0
  BY <1>1 DEF DoneInOrder
<1>3. p \in 1..3 /\ p <= op'[c].parts
  BY <1>1
<1> QED BY <1>1, <1>2, <1>3, AskKeeps

\* The answers to the first two parts of an upload.
LEMMA UploadKeeps ==
    ASSUME Inv, NEW c \in Calls, Finish(c), NEW a \in Answers, HandleToken(c, a) \/ HandleStored(c, a)
    PROVE  Inv'
<1>1. did[c] \in BOOLEAN
  BY Active
<1>2. CASE HandleToken(c, a)
  <2>1. CASE Verdict(op[c], a)
    <3>1. did[c] /\ Ask(c, 2) /\ op[c].parts = 3 /\ part[c] = 1 /\ second' = second /\ locally' = locally
      BY <1>1, <1>2, <2>1, Believed DEF HandleToken
    <3>2. 2 \in 2..3 /\ 1 = 2 - 1
      OBVIOUS
    <3> QED BY <3>1, <3>2, NextPartKeeps
  <2>2. CASE ~Verdict(op[c], a)
    BY <1>2, <2>2, ErrorKeeps DEF HandleToken
  <2> QED BY <2>1, <2>2
<1>3. CASE HandleStored(c, a)
  <2>1. CASE Stored(a) /\ Ask(c, 3)
    <3>1. did[c] /\ Ask(c, 3) /\ op[c].parts = 3 /\ part[c] = 2 /\ second' = second /\ locally' = locally
      BY <1>1, <1>3, <2>1, Believed DEF HandleStored
    <3>2. 3 \in 2..3 /\ 2 = 3 - 1
      OBVIOUS
    <3> QED BY <3>1, <3>2, NextPartKeeps
  <2>2. CASE EndWith(c, "error", layer[c])
    BY <1>3, <2>2, ErrorKeeps DEF HandleStored
  <2> QED BY <1>3, <2>1, <2>2 DEF HandleStored
<1> QED BY <1>2, <1>3

\* The answer to the only part, or the last: the end, or another way.
LEMMA AnswerKeeps ==
    ASSUME Inv, NEW c \in Calls, Finish(c), NEW a \in Answers, HandleAnswer(c, a)
    PROVE  Inv'
<1>1. /\ Untouched(c) /\ op[c] \in Operations /\ layer[c] \in Accepted /\ kept[c] = Keeps(layer[c])
      /\ DoneInOrder(c) /\ DoneSoFar(c)' /\ part[c] \in 1..3 /\ did[c] \in BOOLEAN
      /\ op' = op /\ layer' = layer /\ times' = times
  BY Active
<1>2. part[c] = op[c].parts /\ Truthful(a, did[c])
  BY DEF HandleAnswer
<1>3. locally' = locally \/ locally' = [locally EXCEPT ![c] = TRUE]
  BY DEF HandleAnswer
<1>4. second' = second \/ second' = [second EXCEPT ![c] = TRUE]
  BY DEF HandleAnswer
<1>5. Rest(c)
  BY <1>3, <1>4, Active
<1>6. CASE TriesAgain(op[c], a) /\ Ask(c, 1)
  <2>1. ~did[c] /\ op[c].parts = 1
    BY <1>1, <1>2, <1>6, Believed, OperationParts
  <2>2. \A q \in 1..3 : times'[c][q] = IF q < 1 THEN 1 ELSE 0
    BY <1>1, <1>2, <2>1 DEF DoneInOrder
  <2>3. 1 \in 1..3 /\ 1 <= op'[c].parts
    BY <1>1, <2>1
  <2> QED BY <1>1, <1>5, <1>6, <2>2, <2>3, AskKeeps
<1>7. CASE EndWith(c, "success", layer[c]) /\ locally' = [locally EXCEPT ![c] = TRUE]
  <2>1. locally'[c]
    BY <1>7 DEF Inv, Typed
  <2> QED BY <1>1, <1>5, <1>7, <2>1, EndKeeps
<1>8. CASE EndWith(c, "error", layer[c]) /\ locally' = locally
  BY <1>4, <1>8, ErrorKeeps
<1>9. CASE /\ EndWith(c, IF Verdict([op[c] EXCEPT !.field = @ /\ op[c].parts = 1], a)
                         THEN "success" ELSE "error", layer[c])
           /\ locally' = locally
  <2>1. CASE Verdict([op[c] EXCEPT !.field = @ /\ op[c].parts = 1], a)
    <3>1. did[c]
      BY <1>1, <1>2, <2>1, Believed
    <3>2. \A p \in 1..op'[c].parts : p \in 1..3 /\ times'[c][p] > 0
      BY <1>1, <1>2, <3>1 DEF DoneInOrder
    <3>3. EndWith(c, "success", layer[c])
      BY <1>9, <2>1
    <3> QED BY <1>1, <1>5, <3>2, <3>3, EndKeeps
  <2>2. CASE ~Verdict([op[c] EXCEPT !.field = @ /\ op[c].parts = 1], a)
    BY <1>4, <1>9, <2>2, ErrorKeeps
  <2> QED BY <2>1, <2>2
<1> QED BY <1>6, <1>7, <1>8, <1>9 DEF HandleAnswer


(***************************************************************************)
(* The theorems.                                                           *)
(***************************************************************************)
\* No call has been made.
LEMMA InitInv == Init => Inv
<1> SUFFICES ASSUME Init
             PROVE  Inv
  OBVIOUS
<1>1. Cpp \in Layers
  BY LayersKeepAndTell
<1>2. Typed
  <2>1. <<0, 0, 0>> \in [1..3 -> Nat]
    OBVIOUS
  <2>2. times \in [Calls -> [1..3 -> Nat]]
    BY <2>1 DEF Init
  <2> QED BY <1>1, <2>2 DEF Init, Typed
<1>3. ASSUME NEW c \in Calls
      PROVE  Right(c)
  <2>1. /\ phase[c] = "unmade" /\ kept[c] = 0 /\ outcomes[c] = <<>> /\ told[c] = 0
        /\ times[c] = <<0, 0, 0>>
    BY DEF Init
  <2>2. \A p \in 1..3 : times[c][p] = 0
    BY <2>1
  <2>3. Started(c) /\ KeptForCall(c) /\ UnderWay(c) /\ Settled(c)
    BY <2>1, <2>2 DEF Started, KeptForCall, UnderWay, Settled, Untouched
  <2>4. Success(c)
    <3>1. <<>> # <<"success">>
      OBVIOUS
    <3> QED BY <2>1, <3>1 DEF Success
  <2>5. DoneSoFar(c)
    <3>1. \A p \in 2..3 : p \in 1..3
      OBVIOUS
    <3> QED BY <2>2, <3>1 DEF DoneSoFar
  <2> QED BY <2>3, <2>4, <2>5 DEF Right
<1> QED BY <1>2, <1>3 DEF Inv

\* A step that changes nothing keeps what is right.
LEMMA StutterKeeps == ASSUME Inv, UNCHANGED vars PROVE Inv'
<1>1. Typed' /\ \A c \in Calls : phase'[c] = phase[c]
  BY DEF Inv, Typed
<1>2. ASSUME NEW c \in Calls
      PROVE  Right(c)'
  <2>1. Right(c)
    BY DEF Inv
  <2>2. Started(c)' /\ KeptForCall(c)' /\ Success(c)' /\ Settled(c)' /\ DoneSoFar(c)'
    BY <2>1 DEF Right, Started, KeptForCall, Success, Settled, DoneSoFar, Untouched
  <2>3. UnderWay(c)'
    BY <2>1 DEF Right, UnderWay, DoneInOrder, Untouched
  <2> QED BY <2>2, <2>3 DEF Right
<1> QED BY <1>1, <1>2 DEF Inv

\* The handler of an answer keeps it.
LEMMA FinishKeeps == ASSUME Inv, NEW c \in Calls, Finish(c) PROVE Inv'
<1>1. PICK a \in Answers : HandleToken(c, a) \/ HandleStored(c, a) \/ HandleAnswer(c, a)
  BY DEF Finish
<1> QED BY <1>1, UploadKeeps, AnswerKeeps

\* Every step keeps it.
LEMMA NextInv == Inv /\ [Next]_vars => Inv'
<1> SUFFICES ASSUME Inv, [Next]_vars
             PROVE  Inv'
  OBVIOUS
<1>1. ASSUME NEW c \in Calls, CppCall(c) \/ CCall(c)
      PROVE  Inv'
  BY <1>1, CallsKeep
<1>2. ASSUME NEW c \in Calls, BindingKeeps(c)
      PROVE  Inv'
  BY <1>2, BindingKeepsKeeps
<1>3. ASSUME NEW c \in Calls, BindingCalls(c)
      PROVE  Inv'
  BY <1>3, BindingCallsKeep
<1>4. ASSUME NEW c \in Calls, Serve(c)
      PROVE  Inv'
  BY <1>4, ServeKeeps
<1>5. ASSUME NEW c \in Calls, Finish(c)
      PROVE  Inv'
  BY <1>5, FinishKeeps
<1>6. CASE Admit \/ Destroy
  BY <1>6, WorkerKeeps
<1>7. CASE UNCHANGED vars
  BY <1>7, StutterKeeps
<1> QED BY <1>1, <1>2, <1>3, <1>4, <1>5, <1>6, <1>7 DEF Next

\* How far each call has come, in every reachable state.
THEOREM Invariance == Spec => []Inv
BY InitInv, NextInv, PTL DEF Spec

\* What Inv says of the listed properties.
LEMMA InvSays == Inv => TypeOK /\ SuccessMeansDone /\ DoneAtMostOnce /\ UploadInOrder /\ SettledWithCaller
<1> SUFFICES ASSUME Inv
             PROVE  TypeOK /\ SuccessMeansDone /\ DoneAtMostOnce /\ UploadInOrder /\ SettledWithCaller
  OBVIOUS
<1>1. TypeOK
  <2>1. \A s \in {<<>>, <<"success">>, <<"error">>} : Len(s) \in 0..1
    OBVIOUS
  <2>2. \A c \in Calls : phase[c] = "pending" => ~did[c]
    BY DEF Inv, Right, UnderWay
  <2>3. \A c \in Calls : times[c] \in [1..3 -> Nat] /\ Len(outcomes[c]) \in 0..1
    BY <2>1 DEF Inv, Typed
  <2> QED BY <2>2, <2>3 DEF Inv, Typed, TypeOK
<1>2. SuccessMeansDone
  BY DEF Inv, Right, Success, SuccessMeansDone
<1>3. DoneAtMostOnce /\ UploadInOrder
  BY DEF Inv, Right, DoneSoFar, DoneAtMostOnce, UploadInOrder
<1>4. SettledWithCaller
  BY DEF Inv, Right, Settled, SettledWithCaller
<1> QED BY <1>1, <1>2, <1>3, <1>4

\* The state of every call is of its type.
THEOREM TypeCorrect == Spec => []TypeOK
BY Invariance, InvSays, PTL

\* An operation of any manager that ends with success was done by the server.
THEOREM SuccessIsTrue == Spec => []SuccessMeansDone
BY Invariance, InvSays, PTL

\* No part of an operation is done twice, although some are asked for again.
THEOREM NothingDoneTwice == Spec => []DoneAtMostOnce
BY Invariance, InvSays, PTL

\* The parts of an upload are done one after the other.
THEOREM UploadsInOrder == Spec => []UploadInOrder
BY Invariance, InvSays, PTL

\* Every layer frees what it kept for a call that is over, and tells of it once.
THEOREM CallersSettled == Spec => []SettledWithCaller
BY Invariance, InvSays, PTL

(***************************************************************************)
(* What a caller is promised: every step is a step of Completion, or none. *)
(***************************************************************************)
\* A binding finishes the call it has begun before the client is destroyed.
CallingWhileRunning == \A c \in Calls : phase[c] = "calling" => running

\* What Completion sees of a call.
Shown(s) ==
    IF s \in {"pending", "active"} THEN "waiting" ELSE IF s = "calling" THEN "unmade" ELSE s

AllShown == [c \in Calls |-> CallState(c)]

\* How Completion sees the step of one call, and a step of none.
LEMMA ShownStep ==
    ASSUME phase \in [Calls -> Phases]
    PROVE  /\ AllShown = [c \in Calls |-> Shown(phase[c])]
           /\ AllShown' = [c \in Calls |-> Shown(phase'[c])]
           /\ \A c \in Calls, s \in Phases :
                 phase' = [phase EXCEPT ![c] = s] => AllShown' = [AllShown EXCEPT ![c] = Shown(s)]
           /\ phase' = phase => AllShown' = AllShown
<1>1. AllShown = [c \in Calls |-> Shown(phase[c])]
  BY DEF AllShown, CallState, Shown
<1>2. AllShown' = [c \in Calls |-> Shown(phase'[c])]
  BY DEF AllShown, CallState, Shown
<1>3. ASSUME NEW c \in Calls, NEW s \in Phases, phase' = [phase EXCEPT ![c] = s]
      PROVE  AllShown' = [AllShown EXCEPT ![c] = Shown(s)]
  <2>1. \A d \in Calls : phase'[d] = IF d = c THEN s ELSE phase[d]
    BY <1>3
  <2> QED BY <1>1, <1>2, <2>1
<1> QED BY <1>1, <1>2, <1>3

\* The same, for a call that is made, asked on, ended or refused.
LEMMA Mapped ==
    ASSUME Inv, CallingWhileRunning, NEW c \in Calls, UNCHANGED running, running
    PROVE  /\ phase[c] \in {"unmade", "calling"} /\ phase' = [phase EXCEPT ![c] = "pending"]
                => Promise!Next
           /\ phase[c] \in {"unmade", "calling"} /\ phase' = [phase EXCEPT ![c] = "ended"]
                => Promise!Next
           /\ phase[c] \in {"unmade", "calling"} /\ phase' = [phase EXCEPT ![c] = "refused"]
                => Promise!Next
           /\ phase[c] = "active" /\ phase' = [phase EXCEPT ![c] = "ended"] => Promise!Next
           /\ phase[c] = "active" /\ phase' = [phase EXCEPT ![c] = "pending"] => AllShown' = AllShown
           /\ phase[c] = "unmade" /\ phase' = [phase EXCEPT ![c] = "calling"] => AllShown' = AllShown
<1>1. phase \in [Calls -> Phases]
  BY DEF Inv, Typed
<1>2. AllShown = [d \in Calls |-> Shown(phase[d])]
  BY <1>1, ShownStep
<1>3. AllShown[c] = Shown(phase[c])
  BY <1>2
<1>4. \A s \in Phases : phase' = [phase EXCEPT ![c] = s] => AllShown' = [AllShown EXCEPT ![c] = Shown(s)]
  BY <1>1, ShownStep
<1>5. phase[c] \in {"unmade", "calling"} => AllShown[c] = "unmade"
  BY <1>3 DEF Shown
<1>6. phase[c] = "active" => AllShown[c] = "waiting"
  BY <1>3 DEF Shown
<1>7. ASSUME phase[c] \in {"unmade", "calling"}, phase' = [phase EXCEPT ![c] = "pending"]
      PROVE  Promise!Next
  <2>1. AllShown' = [AllShown EXCEPT ![c] = "waiting"]
    BY <1>4, <1>7 DEF Shown
  <2>2. Promise!Accept(c) /\ running' = running
    BY <1>5, <1>7, <2>1 DEF Promise!Accept, AllShown
  <2> QED BY <2>2, <1>7 DEF Promise!Next
<1>8. ASSUME phase[c] \in {"unmade", "calling"}, phase' = [phase EXCEPT ![c] = "ended"]
      PROVE  Promise!Next
  <2>1. AllShown' = [AllShown EXCEPT ![c] = "ended"]
    BY <1>4, <1>8 DEF Shown
  <2>2. Promise!EndAtOnce(c) /\ running' = running
    BY <1>5, <1>8, <2>1 DEF Promise!EndAtOnce, AllShown
  <2> QED BY <2>2, <1>8 DEF Promise!Next
<1>9. ASSUME phase[c] \in {"unmade", "calling"}, phase' = [phase EXCEPT ![c] = "refused"]
      PROVE  Promise!Next
  <2>1. AllShown' = [AllShown EXCEPT ![c] = "refused"]
    BY <1>4, <1>9 DEF Shown
  <2>2. Promise!Refuse(c) /\ running' = running
    BY <1>5, <1>9, <2>1 DEF Promise!Refuse, AllShown
  <2> QED BY <2>2, <1>9 DEF Promise!Next
<1>10. ASSUME phase[c] = "active", phase' = [phase EXCEPT ![c] = "ended"]
       PROVE  Promise!Next
  <2>1. AllShown' = [AllShown EXCEPT ![c] = "ended"]
    BY <1>4, <1>10 DEF Shown
  <2>2. Promise!End(c) /\ running' = running
    BY <1>6, <1>10, <2>1 DEF Promise!End, AllShown
  <2> QED BY <2>2, <1>10 DEF Promise!Next
<1>11. ASSUME phase[c] = "active", phase' = [phase EXCEPT ![c] = "pending"]
       PROVE  AllShown' = AllShown
  <2>1. AllShown' = [AllShown EXCEPT ![c] = "waiting"]
    BY <1>4, <1>11 DEF Shown
  <2> QED BY <1>2, <1>6, <1>11, <2>1
<1>12. ASSUME phase[c] = "unmade", phase' = [phase EXCEPT ![c] = "calling"]
       PROVE  AllShown' = AllShown
  <2>1. AllShown' = [AllShown EXCEPT ![c] = "unmade"]
    BY <1>4, <1>12 DEF Shown
  <2> QED BY <1>2, <1>5, <1>12, <2>1
<1> QED BY <1>7, <1>8, <1>9, <1>10, <1>11, <1>12

\* A call that a manager's method or a C function was given is accepted, ended or
\* refused, and until then the client is not destroyed.
LEMMA MadeIsPromised ==
    ASSUME Inv, CallingWhileRunning, NEW c \in Calls, CppCall(c) \/ CCall(c) \/ BindingCalls(c)
    PROVE  Promise!Next /\ CallingWhileRunning'
<1>1. running /\ phase[c] \in {"unmade", "calling"}
  BY DEF CppCall, CCall, BindingCalls, Unmade, CallingWhileRunning
<1>2. /\ running' = running
      /\ \E s \in {"pending", "ended", "refused"} : phase' = [phase EXCEPT ![c] = s]
  <2>1. \A o, by : Start(c, o, by) =>
            running' = running /\ \E s \in {"pending", "ended"} : phase' = [phase EXCEPT ![c] = s]
    BY DEF Start, EndWith, Ask
  <2>2. \A by : Refuse(c, by) => running' = running /\ phase' = [phase EXCEPT ![c] = "refused"]
    BY DEF Refuse
  <2> QED BY <2>1, <2>2 DEF CppCall, CCall, BindingCalls, Through
<1>3. CallingWhileRunning'
  BY <1>1, <1>2 DEF CallingWhileRunning
<1> QED BY <1>1, <1>2, <1>3, Mapped

\* An answer ends the call, or another request is made for it.
LEMMA FinishedIsPromised ==
    ASSUME Inv, CallingWhileRunning, NEW c \in Calls, Finish(c)
    PROVE  (Promise!Next \/ UNCHANGED <<AllShown, running>>) /\ CallingWhileRunning'
<1>1. /\ running /\ running' = running /\ phase[c] = "active"
      /\ \E s \in {"pending", "ended"} : phase' = [phase EXCEPT ![c] = s]
  BY DEF Finish, HandleToken, HandleStored, HandleAnswer, EndWith, Ask
<1>2. CallingWhileRunning'
  BY <1>1 DEF CallingWhileRunning
<1> QED BY <1>1, <1>2, Mapped

\* Every step keeps the promise.
LEMMA StepsKeepThePromise ==
    ASSUME Inv, CallingWhileRunning, [Next]_vars
    PROVE  [Promise!Next]_<<AllShown, running>> /\ CallingWhileRunning'
<1>0. phase \in [Calls -> Phases]
  BY DEF Inv, Typed
<1>1. ASSUME NEW c \in Calls, CppCall(c) \/ CCall(c) \/ BindingCalls(c)
      PROVE  Promise!Next /\ CallingWhileRunning'
  BY <1>1, MadeIsPromised
<1>2. ASSUME NEW c \in Calls, BindingKeeps(c)
      PROVE  UNCHANGED <<AllShown, running>> /\ CallingWhileRunning'
  <2>1. /\ running /\ running' = running /\ phase[c] = "unmade"
        /\ phase' = [phase EXCEPT ![c] = "calling"]
    BY <1>2 DEF BindingKeeps, Unmade
  <2>2. AllShown' = AllShown
    BY <2>1, Mapped
  <2>3. CallingWhileRunning'
    BY <2>1 DEF CallingWhileRunning
  <2> QED BY <2>1, <2>2, <2>3
<1>3. ASSUME NEW c \in Calls, Serve(c)
      PROVE  UNCHANGED <<AllShown, running>> /\ CallingWhileRunning'
  <2>1. phase' = phase /\ running' = running
    BY <1>3 DEF Serve
  <2> QED BY <1>0, <2>1, ShownStep DEF CallingWhileRunning
<1>4. ASSUME NEW c \in Calls, Finish(c)
      PROVE  (Promise!Next \/ UNCHANGED <<AllShown, running>>) /\ CallingWhileRunning'
  BY <1>4, FinishedIsPromised
<1>5. CASE Admit
  <2>1. /\ running' = running
        /\ phase' = [c \in Calls |-> IF phase[c] = "pending" THEN "active" ELSE phase[c]]
    BY <1>5 DEF Admit
  <2>2. AllShown' = AllShown
    <3>1. ASSUME NEW c \in Calls
          PROVE  Shown(phase'[c]) = Shown(phase[c])
      BY <1>0, <2>1 DEF Shown
    <3> QED BY <1>0, <3>1, ShownStep
  <2> QED BY <2>1, <2>2 DEF CallingWhileRunning
<1>6. CASE Destroy
  <2>1. /\ running /\ running' = FALSE /\ \A c \in Calls : phase[c] # "calling"
        /\ phase' = [c \in Calls |-> IF phase[c] \in {"pending", "active"} THEN "dropped" ELSE phase[c]]
    BY <1>6 DEF Destroy
  <2>2. AllShown' = [c \in Calls |-> IF AllShown[c] = "waiting" THEN "dropped" ELSE AllShown[c]]
    <3>1. ASSUME NEW c \in Calls
          PROVE  Shown(phase'[c]) = IF Shown(phase[c]) = "waiting" THEN "dropped" ELSE Shown(phase[c])
      BY <1>0, <2>1 DEF Shown
    <3> QED BY <1>0, <3>1, ShownStep
  <2>3. Promise!Close
    BY <2>1, <2>2 DEF Promise!Close, AllShown
  <2> QED BY <2>1, <2>3 DEF Promise!Next, CallingWhileRunning
<1>7. CASE UNCHANGED vars
  BY <1>0, <1>7, ShownStep DEF CallingWhileRunning
<1> QED BY <1>1, <1>2, <1>3, <1>4, <1>5, <1>6, <1>7 DEF Next

\* Through every layer, a call is refused or ends, at most once, and is dropped
\* only when the client is destroyed: RestCall implements the safety part of
\* Completion.
THEOREM PromiseKept == Spec => ImplementsCompletion
<1>1. Init => Promise!Init /\ CallingWhileRunning
  BY DEF Init, Promise!Init, CallState, CallingWhileRunning
<1>2. Inv /\ CallingWhileRunning /\ [Next]_vars
        => [Promise!Next]_(Promise!vars) /\ CallingWhileRunning'
  BY StepsKeepThePromise DEF Promise!vars, AllShown
<1> QED BY <1>1, <1>2, InitInv, NextInv, PTL DEF Spec, ImplementsCompletion, Promise!Safety
=============================================================================
