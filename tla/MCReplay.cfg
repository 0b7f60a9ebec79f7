SPECIFICATION ReplaySpec
CONSTANTS
    MessageCount = 8
    End <- MCEnd
    LengthAt <- MCLengthAt
    Refused <- MCRefused
    BUFSIZ = 12
    bufsiz = 4
    Counts = {4, 11, 13}
INVARIANTS ReplayTypeOK NothingHeldBack BufferIsBounded FindsEveryMessage UnblocksUntilSeam DumpReplays
PROPERTIES ImplementsBmpStream EveryMessageIsHanded ReadersEnd
CHECK_DEADLOCK FALSE
