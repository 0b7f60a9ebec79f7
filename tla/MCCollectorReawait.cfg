SPECIFICATION Spec
CONSTANTS
    talker = talker
    listener = listener
    Talkers <- MCTalkers
    Listeners <- MCListeners
    BindTries = 3
    MaxConnections = 4
PROPERTY ReawaitsAfterException
CHECK_DEADLOCK FALSE
