SPECIFICATION Spec
CONSTANT Calls = {c1}
INVARIANT CallbackAccepted
CHECK_DEADLOCK FALSE
