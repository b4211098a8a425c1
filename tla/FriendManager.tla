---------------------------- MODULE FriendManager ----------------------------
(***************************************************************************)
(* Friends, friend requests and the blacklist.  The answers of             *)
(* getFriendList also go to the friends table, which nothing reads back.   *)
(* (core/src/friend_manager.cpp, c_api/friend_c.cpp, and the bindings that *)
(* reach them.)                                                            *)
(***************************************************************************)
EXTENDS Operation

getFriendList       == Asking("any")
addFriend           == Checked(Asking("any"))
deleteFriend        == Asking("any")
updateRemark        == Checked(Asking("any"))
handleFriendRequest == Checked(Asking("any"))
getFriendRequests   == Checked(Asking("any"))
getBlacklist        == Asking("any")
addToBlacklist      == Checked(Asking("any"))
removeFromBlacklist == Asking("any")

Operations == { getFriendList, addFriend, deleteFriend, updateRemark,
                handleFriendRequest, getFriendRequests, getBlacklist,
                addToBlacklist, removeFromBlacklist }

anychat_friend_get_list == Entry({}, getFriendList)
anychat_friend_add == Entry({"to_user_id"}, addFriend)
anychat_friend_delete == Entry({"friend_id"}, deleteFriend)
anychat_friend_update_remark == Entry({"friend_id"}, updateRemark)
anychat_friend_get_requests == Entry({}, getFriendRequests)
anychat_friend_handle_request == Entry({}, handleFriendRequest)
anychat_friend_add_to_blacklist == Entry({"user_id"}, addToBlacklist)
anychat_friend_remove_from_blacklist ==
    Entry({"user_id"}, removeFromBlacklist)
anychat_friend_get_blacklist == Entry({}, getBlacklist)

Entries == { anychat_friend_get_list, anychat_friend_add,
             anychat_friend_delete, anychat_friend_update_remark,
             anychat_friend_get_requests, anychat_friend_handle_request,
             anychat_friend_add_to_blacklist,
             anychat_friend_remove_from_blacklist,
             anychat_friend_get_blacklist }

\* C: the pointers of the struct that was copied are called when the call ends,
\* and the code that is returned tells of a refusal.
FriendC == Binding({"tell"}, {"tell"})

\* Android: the context made for the call is deleted when it ends and when it
\* is refused, but a refusal is only logged.
FriendJni == Binding({"tell", "free"}, {"free"})

Friend_nativeGetList == Via(FriendJni, anychat_friend_get_list)
Friend_nativeSendRequest == Via(FriendJni, anychat_friend_add)
Friend_nativeHandleRequest == Via(FriendJni, anychat_friend_handle_request)
Friend_nativeGetPendingRequests == Via(FriendJni, anychat_friend_get_requests)
Friend_nativeDelete == Via(FriendJni, anychat_friend_delete)
Friend_nativeUpdateRemark == Via(FriendJni, anychat_friend_update_remark)

\* Web: the callback kept under its number is called and forgotten either way.
FriendWeb == Binding({"tell", "free"}, {"tell", "free"})

Web_getFriendList == Via(FriendWeb, anychat_friend_get_list)
Web_sendFriendRequest == Via(FriendWeb, anychat_friend_add)
Web_handleFriendRequest == Via(FriendWeb, anychat_friend_handle_request)
Web_getPendingFriendRequests == Via(FriendWeb, anychat_friend_get_requests)
Web_deleteFriend == Via(FriendWeb, anychat_friend_delete)

Bound == { Friend_nativeGetList, Friend_nativeSendRequest,
           Friend_nativeHandleRequest, Friend_nativeGetPendingRequests,
           Friend_nativeDelete, Friend_nativeUpdateRemark,
           Web_getFriendList, Web_sendFriendRequest,
           Web_handleFriendRequest, Web_getPendingFriendRequests,
           Web_deleteFriend }
=============================================================================
