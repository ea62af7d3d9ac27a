SPECIFICATION CopilotSpec
CONSTANTS
    me = me  other = other  t1 = t1  t2 = t2  r1 = r1  r2 = r2
    Escalation = {1, 2, 3, 4}
    Thread = {t1, t2}
    Reason = {r1, r2}
    User = {me, other}
    Me = me
    None = None
    Left = {t2}
    Raised <- Cases
    Incident = r2
    MaxMoves = 1
    MaxPresses <- Presses
    MaxClicks <- Clicks
INVARIANTS
    AcknowledgedAsTold
    OneCasePerReason
    PostedOnce
    AdviceIsTrue
PROPERTIES
    Steps
    NothingTypedIsLost
CHECK_DEADLOCK FALSE
