--------------------------- MODULE MessageManager ----------------------------
(***************************************************************************)
(* Messages, as calls; sending is in OutboundQueue, and what the answers   *)
(* and the notifications do to the cache is in LocalStore.  An older server*)
(* does not know some of the paths: then another request is made, or a     *)
(* frame sent. (core/src/message_manager.cpp, c_api/message_c.cpp, and the *)
(* bindings that reach them.)                                              *)
(***************************************************************************)
EXTENDS Operation

getHistory               == OrCached(Otherwise(Asking("200"), "request"))
getOfflineMessages       == Asking("200")
ackMessages              == Rewriting(Otherwise(Checked(Asking("200")), "request"))
markAsRead               == ackMessages
getGroupMessageReadState == Checked(Asking("200"))
searchMessages           == Checked(Asking("200"))
recallMessage            == Otherwise(Checked(Asking("200")), "frame")
deleteMessage            == Otherwise(Checked(Asking("200")), "frame")
editMessage              == Otherwise(Checked(Asking("200")), "frame")
sendTyping               == FrameOnly

Operations == { getHistory, getOfflineMessages, ackMessages, markAsRead,
                getGroupMessageReadState, searchMessages, recallMessage,
                deleteMessage, editMessage, sendTyping }

anychat_message_get_history == Entry({"conv_id"}, getHistory)
anychat_message_mark_read == Entry({"conv_id", "message_id"}, markAsRead)
anychat_message_get_offline == Entry({}, getOfflineMessages)
anychat_message_ack == PickyEntry({"conv_id"}, ackMessages)
anychat_message_get_group_read_state ==
    Entry({"group_id", "message_id"}, getGroupMessageReadState)
anychat_message_search == PickyEntry({"keyword"}, searchMessages)
anychat_message_recall == Entry({"message_id"}, recallMessage)
anychat_message_delete == Entry({"message_id"}, deleteMessage)
anychat_message_edit == Entry({"message_id", "content"}, editMessage)
anychat_message_send_typing == Entry({"conversation_id"}, sendTyping)

Entries == { anychat_message_get_history, anychat_message_mark_read,
             anychat_message_get_offline, anychat_message_ack,
             anychat_message_get_group_read_state, anychat_message_search,
             anychat_message_recall, anychat_message_delete,
             anychat_message_edit, anychat_message_send_typing }

\* C: the pointers of the struct that was copied are called when the call ends,
\* and the code that is returned tells of a refusal.
MessageC == Binding({"tell"}, {"tell"})

\* Android: the context made for the call is deleted when it ends and when it
\* is refused, but a refusal is only logged.
MessageJni == Binding({"tell", "free"}, {"free"})

Message_nativeGetHistory == Via(MessageJni, anychat_message_get_history)
Message_nativeMarkRead == Via(MessageJni, anychat_message_mark_read)

\* Web: the callback kept under its number is called and forgotten either way.
MessageWeb == Binding({"tell", "free"}, {"tell", "free"})

Web_getMessageHistory == Via(MessageWeb, anychat_message_get_history)
Web_markMessageRead == Via(MessageWeb, anychat_message_mark_read)

Bound == { Message_nativeGetHistory, Message_nativeMarkRead,
           Web_getMessageHistory, Web_markMessageRead }
=============================================================================
