----------------------------- MODULE FileManager -----------------------------
(***************************************************************************)
(* Files.  An upload is three requests, each made by the handler of the    *)
(* answer before it: POST for a token, PUT of the bytes to the URL that    *)
(* came with it, POST to complete. (core/src/file_manager.cpp,             *)
(* c_api/file_c.cpp.)                                                      *)
(***************************************************************************)
EXTENDS Operation

upload          == InParts(WithField(Checked(Asking("2xx"))), 3)
getDownloadUrl  == WithField(Asking("2xx"))
getFileInfo     == Asking("2xx")
listFiles       == Asking("2xx")
uploadClientLog == Rewriting(InParts(WithField(Checked(Asking("2xx"))), 3))
deleteFile      == WithField(Asking("2xx"))

Operations == { upload, getDownloadUrl, getFileInfo, listFiles,
                uploadClientLog, deleteFile }

anychat_file_upload == Entry({"local_path"}, upload)
anychat_file_get_download_url == Entry({"file_id"}, getDownloadUrl)
anychat_file_get_info == Entry({"file_id"}, getFileInfo)
anychat_file_list == Entry({}, listFiles)
anychat_file_upload_log == Entry({"local_path"}, uploadClientLog)
anychat_file_delete == Entry({"file_id"}, deleteFile)

Entries == { anychat_file_upload, anychat_file_get_download_url,
             anychat_file_get_info, anychat_file_list,
             anychat_file_upload_log, anychat_file_delete }

\* C: the pointers of the struct that was copied are called when the call ends,
\* and the code that is returned tells of a refusal.
FileC == Binding({"tell"}, {"tell"})

Bound == {}
=============================================================================
