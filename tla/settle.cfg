SPECIFICATION FairSpec
CONSTANTS
    short = short  long = long
    early = early  late = late  last = last
    dock1 = dock1
    a1 = a1  a2 = a2  a3 = a3
    None = None
    Sweeper = {w1}
    Shipment <- MCShipment
    Slot <- TwoSlots
    Dock <- MCDock
    Appointment <- OneAppointment
    DockOf <- MCDockOf
    StartOf <- MCStartOf
    UnloadMin <- MCUnloadMin
    Buffer = 1
    PendingTTL = 1
    HeldTTL = 1
    BatchLimit = 1
    TwoPhase = TRUE
    Seeded <- NoSeeds
    SeedStatus <- NoSeedOf
    SeedShipment <- NoSeedOf
    SeedSlot <- NoSeedOf
    MaxReschedules = 1
    MaxLag = 1
    LastRequest = 0
    MaxTime = 3
PROPERTIES
    RequestSettles
    HoldEnds
