SPECIFICATION Spec
CONSTANTS
    b1 = b1  b2 = b2  run1 = run1  run2 = run2  d1 = d1  d2 = d2
    dock = dock  elsewhere = elsewhere
    Block = {b1, b2}
    Window <- SomeWindows
    Slot <- SomeSlots
    Dock = {dock}
    Horizon = 2  Hour = 1
    MaxNow = 2
    Run = {run1, run2}
    Digest = {d1, d2}
    None = None  Deleted = Deleted  NoEnd = NoEnd  Nowhere = Nowhere
    MaxMoves = 2
    MaxPresses = 2
SYMMETRY Symmetry
INVARIANTS
    BoardTellsOwnDecisions
    EveryOptionDrawnOrCounted
    

    
CHECK_DEADLOCK FALSE
