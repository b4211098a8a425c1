--------------------------- MODULE VersionManager ----------------------------
(***************************************************************************)
(* Versions of the application. (core/src/version_manager.cpp,             *)
(* c_api/version_c.cpp.)                                                   *)
(***************************************************************************)
EXTENDS Operation

checkVersion     == Checked(Asking("any"))
getLatestVersion == WithField(Checked(Asking("any")))
listVersions     == Checked(Asking("any"))
reportVersion    == Checked(Asking("any"))

Operations == { checkVersion, getLatestVersion, listVersions,
                reportVersion }

anychat_version_check == PickyEntry({"version"}, checkVersion)
anychat_version_get_latest == PickyEntry({}, getLatestVersion)
anychat_version_list == PickyEntry({}, listVersions)
anychat_version_report == PickyEntry({"version"}, reportVersion)

Entries == { anychat_version_check, anychat_version_get_latest,
             anychat_version_list, anychat_version_report }

\* C: the pointers of the struct that was copied are called when the call ends,
\* and the code that is returned tells of a refusal.
VersionC == Binding({"tell"}, {"tell"})

Bound == {}
=============================================================================
