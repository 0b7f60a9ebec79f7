SPECIFICATION Spec
CONSTANT Updates <- MCUpdates
INVARIANT ASPathIsRead
CHECK_DEADLOCK FALSE
