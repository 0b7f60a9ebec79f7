SPECIFICATION Spec
CONSTANTS
    talker = talker
    listener = listener
    Talkers <- MCTalkers
    Listeners <- MCListeners
    BindTries = 3
    MaxConnections = 4
INVARIANTS SocketsReleased OnlyExceptionsEndThreads ConnectedAndGone
PROPERTIES NoSpin ComesBack
CHECK_DEADLOCK FALSE
