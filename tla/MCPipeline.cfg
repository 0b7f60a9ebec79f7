SPECIFICATION Spec
CONSTANTS
    peer1 = peer1
    peer1Post = peer1Post
    peer2 = peer2
    x = x
    y = y
    pathA = pathA
    pathB = pathB
    session1 = session1
    session2 = session2
    None = None
    header_length = 2
    BUFSIZE = 4
    ObmpMessages <- MCObmpMessages
    MaxMessages = 3
INVARIANTS TypeOK TablesFollowLastWord PeerUpDataIsFirst AllFilesAgree DebagReadsWholeChunks ReplayRebuildsTables
PROPERTY DebagEnds
CHECK_DEADLOCK FALSE
