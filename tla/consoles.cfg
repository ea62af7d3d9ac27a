SPECIFICATION Spec
CONSTANTS
    x1 = x1  x2 = x2  y1 = y1  y2 = y2  z1 = z1  z2 = z2
    live0 = live0  fair = fair  invalid = invalid
    all = all  delayed = delayed  depot = depot
    None = None
    Slot = {x1, x2}
    Ttl = 1
    Skew = {1}
    MaxMessages = 2
    Truck = {x1, x2}
    Dock = {y1}
    Kiosk = {z1, z2}
    Stage = {"coming", "called", "unloading"}
    MaxTaps = 2
    MaxLookups = 2
    MaxMoves = 1
    Admin = {x1, x2}
    Access = {y1, y2}
    Routine = {live0}
    Fair = {fair}
    LiveWeights = live0
    Invalid = invalid
    MaxEdits = 2
    MaxSimulations = 2
    MaxPublishes = 2
    Section = {"shipments", "exceptions"}
    Filter = {all, delayed}
    All = all
    MaxLoads = 3
    User = {x1, x2}
    Facility = {depot}
    ServerRole = {"WAREHOUSE_PLANNER", "CARRIER"}
    Path = {"/planner"}
    MaxEvents = 1
    MaxSubmits = 1
    MaxRequests = 1
    MaxCalls = 2
    MaxTroubles = 1
    MaxNow = 1
SYMMETRY Symmetry
INVARIANTS
    OneHoldPerMessage
    
    StepsOnceInOrder
    DockSharedOnlyInARace
    
    PublishedAsDecided
    RemovedForGood
    AccessOfOneEdit
    
    SessionIsTrue
CHECK_DEADLOCK FALSE
