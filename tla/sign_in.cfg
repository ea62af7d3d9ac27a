SPECIFICATION Spec
CONSTANTS
    u1 = u1  u2 = u2  yard = yard
    None = None
    User = {u1, u2}
    Facility = {yard}
    ServerRole = {"WAREHOUSE_PLANNER", "CARRIER"}
    Path = {"/planner"}
    MaxEvents = 0
    MaxSubmits = 1
    MaxCalls = 0
SYMMETRY Symmetry
INVARIANTS
    PendingFormIsWaiting
CHECK_DEADLOCK FALSE
