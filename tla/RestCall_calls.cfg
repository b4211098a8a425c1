SPECIFICATION Spec
CONSTANT Calls = {c1, c2}
INVARIANTS TypeOK SuccessMeansDone DoneAtMostOnce UploadInOrder SettledWithCaller
PROPERTIES ImplementsCompletion CompletionProgress
CHECK_DEADLOCK FALSE
