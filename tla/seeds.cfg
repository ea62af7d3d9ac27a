SPECIFICATION Spec
CONSTANTS
    short = short  long = long
    early = early  late = late  last = last
    dock1 = dock1
    a1 = a1  a2 = a2  a3 = a3
    None = None
    Sweeper = {w1}
    Shipment <- MCShipment
    Slot <- ThreeSlots
    Dock <- MCDock
    Appointment <- TwoAppointments
    DockOf <- MCDockOf
    StartOf <- MCStartOf
    UnloadMin <- MCUnloadMin
    Buffer = 1
    PendingTTL = 1
    HeldTTL = 1
    BatchLimit = 1
    TwoPhase = TRUE
    Seeded <- TwoSeeds
    SeedStatus <- TwoSeedStatuses
    SeedShipment <- TwoSeedShipments
    SeedSlot <- TwoSeedSlots
    MaxReschedules = 1
    MaxLag = 0
    LastRequest = 0
    MaxTime = 2
PROPERTIES
    ReopenedOnlyByRestore
    NoInventedClaim
    ImplementsCalendar
