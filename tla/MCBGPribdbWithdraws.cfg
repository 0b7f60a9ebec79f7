SPECIFICATION Spec
CONSTANTS
    p1 = p1
    p2 = p2
    pathA = pathA
    pathB = pathB
    None = None
    Prefixes <- MCPrefixes
    Paths <- MCPaths
    Hashes <- MCHashes
    PathHash <- MCPathHash
    MaxCount = 2
PROPERTIES WithdrawsReturnedFirst
