------------------------- MODULE ConversationManager -------------------------
(***************************************************************************)
(* Conversations, as calls; what the answers do to cache and table is in   *)
(* LocalStore.  Every answer has to be an HTTP 200.                        *)
(* (core/src/conversation_manager.cpp, c_api/conversation_c.cpp, and the   *)
(* bindings that reach them.)                                              *)
(***************************************************************************)
EXTENDS Operation

getConversationList    == OrCached(Asking("200"))
getConversation        == Asking("200")
deleteConversation     == Asking("200")
markAllRead            == Asking("200")
markMessagesRead       == Checked(Asking("200"))
setPinned              == Checked(Asking("200"))
setMuted               == Checked(Asking("200"))
setBurnAfterReading    == Checked(Asking("200"))
setAutoDelete          == Checked(Asking("200"))
getTotalUnread         == Asking("200")
getMessageUnreadCount  == Asking("200")
getMessageReadReceipts == Asking("200")
getMessageSequence     == Asking("200")

Operations == { getConversationList, getConversation, deleteConversation,
                markAllRead, markMessagesRead, setPinned, setMuted,
                setBurnAfterReading, setAutoDelete, getTotalUnread,
                getMessageUnreadCount, getMessageReadReceipts,
                getMessageSequence }

anychat_conv_get_list == Entry({}, getConversationList)
anychat_conv_get_total_unread == Entry({}, getTotalUnread)
anychat_conv_get == Entry({"conv_id"}, getConversation)
anychat_conv_mark_all_read == Entry({"conv_id"}, markAllRead)
anychat_conv_mark_messages_read ==
    PickyEntry({"conv_id", "message_ids"}, markMessagesRead)
anychat_conv_set_pinned == Entry({"conv_id"}, setPinned)
anychat_conv_set_muted == Entry({"conv_id"}, setMuted)
anychat_conv_set_burn_after_reading == Entry({"conv_id"}, setBurnAfterReading)
anychat_conv_set_auto_delete == Entry({"conv_id"}, setAutoDelete)
anychat_conv_delete == Entry({"conv_id"}, deleteConversation)
anychat_conv_get_message_unread_count ==
    Entry({"conv_id"}, getMessageUnreadCount)
anychat_conv_get_message_read_receipts ==
    Entry({"conv_id"}, getMessageReadReceipts)
anychat_conv_get_message_sequence == Entry({"conv_id"}, getMessageSequence)

Entries == { anychat_conv_get_list, anychat_conv_get_total_unread,
             anychat_conv_get, anychat_conv_mark_all_read,
             anychat_conv_mark_messages_read, anychat_conv_set_pinned,
             anychat_conv_set_muted, anychat_conv_set_burn_after_reading,
             anychat_conv_set_auto_delete, anychat_conv_delete,
             anychat_conv_get_message_unread_count,
             anychat_conv_get_message_read_receipts,
             anychat_conv_get_message_sequence }

\* C: the pointers of the struct that was copied are called when the call ends,
\* and the code that is returned tells of a refusal.
ConversationC == Binding({"tell"}, {"tell"})

\* Android: the context made for the call is deleted when it ends and when it
\* is refused, but a refusal is only logged.
ConversationJni == Binding({"tell", "free"}, {"free"})

Conversation_nativeGetList == Via(ConversationJni, anychat_conv_get_list)
Conversation_nativeMarkRead == Via(ConversationJni, anychat_conv_mark_all_read)
Conversation_nativeSetPinned == Via(ConversationJni, anychat_conv_set_pinned)
Conversation_nativeSetMuted == Via(ConversationJni, anychat_conv_set_muted)
Conversation_nativeDelete == Via(ConversationJni, anychat_conv_delete)

\* Web: the callback kept under its number is called and forgotten either way.
ConversationWeb == Binding({"tell", "free"}, {"tell", "free"})

Web_getConversationList == Via(ConversationWeb, anychat_conv_get_list)
Web_markConversationRead == Via(ConversationWeb, anychat_conv_mark_all_read)
Web_setConversationPinned == Via(ConversationWeb, anychat_conv_set_pinned)
Web_setConversationMuted == Via(ConversationWeb, anychat_conv_set_muted)
Web_deleteConversation == Via(ConversationWeb, anychat_conv_delete)

Bound == { Conversation_nativeGetList, Conversation_nativeMarkRead,
           Conversation_nativeSetPinned, Conversation_nativeSetMuted,
           Conversation_nativeDelete, Web_getConversationList,
           Web_markConversationRead, Web_setConversationPinned,
           Web_setConversationMuted, Web_deleteConversation }
=============================================================================
