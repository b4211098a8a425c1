----------------------------- MODULE UserManager -----------------------------
(***************************************************************************)
(* The user's profile and settings, and other users.                       *)
(* (core/src/user_manager.cpp, c_api/user_c.cpp.)                          *)
(***************************************************************************)
EXTENDS Operation

getProfile      == Asking("any")
updateProfile   == Checked(Asking("any"))
getSettings     == Asking("any")
updateSettings  == Checked(Asking("any"))
updatePushToken == Checked(Asking("any"))
searchUsers     == Asking("any")
getUserInfo     == Asking("any")
bindPhone       == Checked(Asking("any"))
changePhone     == Checked(Asking("any"))
bindEmail       == Checked(Asking("any"))
changeEmail     == Checked(Asking("any"))
refreshQRCode   == Asking("any")
getUserByQRCode == Asking("any")

Operations == { getProfile, updateProfile, getSettings, updateSettings,
                updatePushToken, searchUsers, getUserInfo, bindPhone,
                changePhone, bindEmail, changeEmail, refreshQRCode,
                getUserByQRCode }

anychat_user_get_profile == Entry({}, getProfile)
anychat_user_update_profile == Entry({"profile"}, updateProfile)
anychat_user_get_settings == Entry({}, getSettings)
anychat_user_update_settings == Entry({"settings"}, updateSettings)
anychat_user_update_push_token == PickyEntry({"push_token"}, updatePushToken)
anychat_user_update_push_token_with_device ==
    PickyEntry({"push_token", "device_id"}, updatePushToken)
anychat_user_search == Entry({"keyword"}, searchUsers)
anychat_user_get_info == Entry({"user_id"}, getUserInfo)
anychat_user_bind_phone == Entry({"phone_number", "verify_code"}, bindPhone)
anychat_user_change_phone ==
    Entry({"old_phone_number", "new_phone_number", "new_verify_code"}, changePhone)
anychat_user_bind_email == Entry({"email", "verify_code"}, bindEmail)
anychat_user_change_email ==
    Entry({"old_email", "new_email", "new_verify_code"}, changeEmail)
anychat_user_refresh_qrcode == Entry({}, refreshQRCode)
anychat_user_get_by_qrcode == Entry({"qrcode"}, getUserByQRCode)

Entries == { anychat_user_get_profile, anychat_user_update_profile,
             anychat_user_get_settings, anychat_user_update_settings,
             anychat_user_update_push_token,
             anychat_user_update_push_token_with_device,
             anychat_user_search, anychat_user_get_info,
             anychat_user_bind_phone, anychat_user_change_phone,
             anychat_user_bind_email, anychat_user_change_email,
             anychat_user_refresh_qrcode, anychat_user_get_by_qrcode }

\* C: the pointers of the struct that was copied are called when the call ends,
\* and the code that is returned tells of a refusal.
UserC == Binding({"tell"}, {"tell"})

Bound == {}
=============================================================================
