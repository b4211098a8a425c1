----------------------------- MODULE AuthManager -----------------------------
(***************************************************************************)
(* Accounts, tokens and devices, as calls; what they do to the token is in *)
(* AuthSession. (core/src/auth_manager.cpp, c_api/auth_c.cpp, and the      *)
(* bindings that reach them.)                                              *)
(***************************************************************************)
EXTENDS Operation

registerUser         == WithField(Checked(Asking("any")))
sendVerificationCode == Checked(Asking("any"))
login                == WithField(Checked(Asking("any")))
logout               == Checked(Asking("any"))
getDeviceList        == Otherwise(Asking("any"), "request")
logoutDevice         == Otherwise(Checked(Asking("any")), "request")
refreshToken         == WithField(Checked(Asking("any")))
changePassword       == Checked(Asking("any"))
resetPassword        == Checked(Asking("any"))
ensureValidToken     == OrCached(refreshToken)

Operations == { registerUser, sendVerificationCode, login, logout,
                getDeviceList, logoutDevice, refreshToken, changePassword,
                resetPassword, ensureValidToken }

anychat_auth_login == Entry({"account", "password"}, login)
anychat_auth_register ==
    Entry({"phone_or_email", "password", "verify_code"}, registerUser)
anychat_auth_logout == Entry({}, logout)
anychat_auth_send_code == Entry({"target"}, sendVerificationCode)
anychat_auth_refresh_token == Entry({"refresh_token"}, refreshToken)
anychat_auth_change_password ==
    Entry({"old_password", "new_password"}, changePassword)
anychat_auth_reset_password ==
    Entry({"account", "verify_code", "new_password"}, resetPassword)
anychat_auth_get_device_list == Entry({}, getDeviceList)
anychat_auth_logout_device == Entry({"device_id"}, logoutDevice)
anychat_client_login == Entry({"account", "password"}, login)
anychat_client_logout == Entry({}, logout)

Entries == { anychat_auth_login, anychat_auth_register, anychat_auth_logout,
             anychat_auth_send_code, anychat_auth_refresh_token,
             anychat_auth_change_password, anychat_auth_reset_password,
             anychat_auth_get_device_list, anychat_auth_logout_device,
             anychat_client_login, anychat_client_logout }

\* C: the pointers of the struct that was copied are called when the call ends,
\* and the code that is returned tells of a refusal.
AuthC == Binding({"tell"}, {"tell"})
ClientC == Binding({"tell"}, {"tell"})

\* Android: the context made for the call is deleted when it ends and when it
\* is refused, but a refusal is only logged.
AuthJni == Binding({"tell", "free"}, {"free"})

Auth_nativeLogin == Via(AuthJni, anychat_auth_login)
Auth_nativeRegister == Via(AuthJni, anychat_auth_register)
Auth_nativeSendCode == Via(AuthJni, anychat_auth_send_code)
Auth_nativeLogout == Via(AuthJni, anychat_auth_logout)
Auth_nativeRefreshToken == Via(AuthJni, anychat_auth_refresh_token)
Auth_nativeChangePassword == Via(AuthJni, anychat_auth_change_password)
Auth_nativeResetPassword == Via(AuthJni, anychat_auth_reset_password)
Auth_nativeGetDeviceList == Via(AuthJni, anychat_auth_get_device_list)
Auth_nativeLogoutDevice == Via(AuthJni, anychat_auth_logout_device)

\* Web: the callback kept under its number is called and forgotten either way.
AuthWeb == Binding({"tell", "free"}, {"tell", "free"})

Web_login == Via(AuthWeb, anychat_client_login)
Web_register_ == Via(AuthWeb, anychat_auth_register)
Web_logout == Via(AuthWeb, anychat_client_logout)
Web_refreshToken == Via(AuthWeb, anychat_auth_refresh_token)

Bound == { Auth_nativeLogin, Auth_nativeRegister, Auth_nativeSendCode,
           Auth_nativeLogout, Auth_nativeRefreshToken,
           Auth_nativeChangePassword, Auth_nativeResetPassword,
           Auth_nativeGetDeviceList, Auth_nativeLogoutDevice, Web_login,
           Web_register_, Web_logout, Web_refreshToken }
=============================================================================
