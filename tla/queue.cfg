SPECIFICATION FairSpec
CONSTANTS
    r1 = r1  r2 = r2
    clear = clear  clash = clash
    Request = {r1, r2}
    Hash = {clear, clash}
    Clashing = {clash}
    None = None
    MaxPresses = 1
    MaxMoves = 1
    MaxTools = 1
INVARIANTS
    ToldIsTrue
PROPERTIES
    
    DecidedRowReturnsOnlyByALateRead
    RowsStayPut
    DecidedRowLeaves
CHECK_DEADLOCK FALSE
