----------------------------- MODULE CallManager -----------------------------
(***************************************************************************)
(* Calls and meetings.  Every answer has to be an HTTP 200.                *)
(* (core/src/call_manager.cpp, c_api/call_c.cpp.)                          *)
(***************************************************************************)
EXTENDS Operation

initiateCall   == Checked(Asking("200"))
joinCall       == Asking("200")
rejectCall     == Asking("200")
endCall        == Asking("200")
getCallSession == Asking("200")
getCallLogs    == Asking("200")
createMeeting  == Checked(Asking("200"))
joinMeeting    == Checked(Asking("200"))
endMeeting     == Asking("200")
getMeeting     == Asking("200")
listMeetings   == Asking("200")

Operations == { initiateCall, joinCall, rejectCall, endCall, getCallSession,
                getCallLogs, createMeeting, joinMeeting, endMeeting,
                getMeeting, listMeetings }

anychat_call_initiate_call == Entry({"callee_id"}, initiateCall)
anychat_call_join_call == Entry({"call_id"}, joinCall)
anychat_call_reject_call == Entry({"call_id"}, rejectCall)
anychat_call_end_call == Entry({"call_id"}, endCall)
anychat_call_get_call_session == Entry({"call_id"}, getCallSession)
anychat_call_get_call_logs == Entry({}, getCallLogs)
anychat_call_create_meeting == Entry({"title"}, createMeeting)
anychat_call_join_meeting == Entry({"room_id"}, joinMeeting)
anychat_call_end_meeting == Entry({"room_id"}, endMeeting)
anychat_call_get_meeting == Entry({"room_id"}, getMeeting)
anychat_call_list_meetings == Entry({}, listMeetings)

Entries == { anychat_call_initiate_call, anychat_call_join_call,
             anychat_call_reject_call, anychat_call_end_call,
             anychat_call_get_call_session, anychat_call_get_call_logs,
             anychat_call_create_meeting, anychat_call_join_meeting,
             anychat_call_end_meeting, anychat_call_get_meeting,
             anychat_call_list_meetings }

\* C: the pointers of the struct that was copied are called when the call ends,
\* and the code that is returned tells of a refusal.
CallC == Binding({"tell"}, {"tell"})

Bound == {}
=============================================================================
