\* Every tool on small inputs; a tool that has finished stops.
SPECIFICATION Spec
CONSTANTS
    Window = 2
    MatchUser = {"u", "v"}
    K = 2
    OutputChars = 3
    IntMax = 7
    RandMax = 7
    Newline = 1
    Pages = {"a", "b", "c"}
    RawLen <- PageRaw
    EncLen <- PageEncoded
    ChunkSize = 2
    OffWords = 1
    MaxPuts = 4
INVARIANTS
    
    
    OneSerialBuild
    MarkovText
    IndexIsExact
CHECK_DEADLOCK FALSE
