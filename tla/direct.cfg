SPECIFICATION Spec
CONSTANTS
    short = short  long = long
    early = early  late = late  last = last
    dock1 = dock1
    a1 = a1  a2 = a2  a3 = a3
    None = None
    Sweeper = {w1, w2}
    Shipment <- MCShipment
    Slot <- TwoSlots
    Dock <- MCDock
    Appointment <- ThreeAppointments
    DockOf <- MCDockOf
    StartOf <- MCStartOf
    UnloadMin <- MCUnloadMin
    Buffer = 1
    PendingTTL = 1
    HeldTTL = 1
    BatchLimit = 1
    TwoPhase = FALSE
    Seeded <- TwoSeeds
    SeedStatus <- TwoSeedStatuses
    SeedShipment <- TwoSeedShipments
    SeedSlot <- TwoSeedSlots
    MaxReschedules = 2
    MaxLag = 0
    LastRequest = 1
    MaxTime = 3
INVARIANTS
    ClaimsHaveOwners
    ActiveIsProtected
    SweptHadFullTTL
