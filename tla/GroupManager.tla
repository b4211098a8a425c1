---------------------------- MODULE GroupManager -----------------------------
(***************************************************************************)
(* Groups, their members and the requests to join them.  The answers of    *)
(* getGroupList and create also go to the groups table, which nothing reads*)
(* back. (core/src/group_manager.cpp, c_api/group_c.cpp, and the bindings  *)
(* that reach them.)                                                       *)
(***************************************************************************)
EXTENDS Operation

getGroupList      == Asking("any")
getInfo           == Asking("any")
create            == Checked(Asking("any"))
join              == Checked(Asking("any"))
invite            == Checked(Asking("any"))
quit              == Asking("any")
disband           == Asking("any")
update            == Checked(Asking("any"))
getMembers        == Asking("any")
removeMember      == Asking("any")
updateMemberRole  == Checked(Asking("any"))
updateNickname    == Checked(Asking("any"))
transferOwnership == Checked(Asking("any"))
getJoinRequests   == Checked(Asking("any"))
handleJoinRequest == Checked(Asking("any"))
getQRCode         == Asking("any")
refreshQRCode     == Asking("any")

Operations == { getGroupList, getInfo, create, join, invite, quit, disband,
                update, getMembers, removeMember, updateMemberRole,
                updateNickname, transferOwnership, getJoinRequests,
                handleJoinRequest, getQRCode, refreshQRCode }

anychat_group_get_list == Entry({}, getGroupList)
anychat_group_get_info == Entry({"group_id"}, getInfo)
anychat_group_create == Entry({"name"}, create)
anychat_group_join == Entry({"group_id"}, join)
anychat_group_invite == Entry({"group_id"}, invite)
anychat_group_quit == Entry({"group_id"}, quit)
anychat_group_disband == Entry({"group_id"}, disband)
anychat_group_update == Entry({"group_id"}, update)
anychat_group_get_members == Entry({"group_id"}, getMembers)
anychat_group_remove_member == Entry({"group_id", "user_id"}, removeMember)
anychat_group_update_member_role ==
    PickyEntry({"group_id", "user_id"}, updateMemberRole)
anychat_group_update_nickname ==
    Entry({"group_id", "nickname"}, updateNickname)
anychat_group_transfer_ownership ==
    Entry({"group_id", "new_owner_id"}, transferOwnership)
anychat_group_get_join_requests == PickyEntry({"group_id"}, getJoinRequests)
anychat_group_handle_join_request == Entry({"group_id"}, handleJoinRequest)
anychat_group_get_qrcode == Entry({"group_id"}, getQRCode)
anychat_group_refresh_qrcode == Entry({"group_id"}, refreshQRCode)

Entries == { anychat_group_get_list, anychat_group_get_info,
             anychat_group_create, anychat_group_join, anychat_group_invite,
             anychat_group_quit, anychat_group_disband,
             anychat_group_update, anychat_group_get_members,
             anychat_group_remove_member, anychat_group_update_member_role,
             anychat_group_update_nickname,
             anychat_group_transfer_ownership,
             anychat_group_get_join_requests,
             anychat_group_handle_join_request, anychat_group_get_qrcode,
             anychat_group_refresh_qrcode }

\* C: the pointers of the struct that was copied are called when the call ends,
\* and the code that is returned tells of a refusal.
GroupC == Binding({"tell"}, {"tell"})

\* Android: the context made for the call is deleted when it ends and when it
\* is refused, but a refusal is only logged.
GroupJni == Binding({"tell", "free"}, {"free"})

Group_nativeGetList == Via(GroupJni, anychat_group_get_list)
Group_nativeCreate == Via(GroupJni, anychat_group_create)
Group_nativeJoin == Via(GroupJni, anychat_group_join)
Group_nativeInvite == Via(GroupJni, anychat_group_invite)
Group_nativeQuit == Via(GroupJni, anychat_group_quit)
Group_nativeUpdate == Via(GroupJni, anychat_group_update)
Group_nativeGetMembers == Via(GroupJni, anychat_group_get_members)

\* Web: the callback kept under its number is called and forgotten either way.
GroupWeb == Binding({"tell", "free"}, {"tell", "free"})

Web_getGroupList == Via(GroupWeb, anychat_group_get_list)
Web_createGroup == Via(GroupWeb, anychat_group_create)
Web_joinGroup == Via(GroupWeb, anychat_group_join)
Web_inviteToGroup == Via(GroupWeb, anychat_group_invite)
Web_quitGroup == Via(GroupWeb, anychat_group_quit)
Web_getGroupMembers == Via(GroupWeb, anychat_group_get_members)

Bound == { Group_nativeGetList, Group_nativeCreate, Group_nativeJoin,
           Group_nativeInvite, Group_nativeQuit, Group_nativeUpdate,
           Group_nativeGetMembers, Web_getGroupList, Web_createGroup,
           Web_joinGroup, Web_inviteToGroup, Web_quitGroup,
           Web_getGroupMembers }
=============================================================================
