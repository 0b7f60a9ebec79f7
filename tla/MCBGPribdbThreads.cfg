SPECIFICATION Spec
CONSTANTS
    p1 = p1
    p2 = p2
    None = None
    Prefixes <- MCPrefixes
    Hashes <- MCHashes
    MaxCalls = 4
SYMMETRY Symmetry
INVARIANTS RequestsMatchRib RefreshRepairs
PROPERTIES ToldWasCurrent
