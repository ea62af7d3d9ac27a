---------------------------- MODULE MCAllocation ----------------------------
(* Small instances of Allocation.  A shipment with a long unload spills     *)
(* from its slot into the next one on the dock.                             *)
EXTENDS AllocationRefinement, TLC

CONSTANTS short, long,          \* shipments, by their unload time
          early, late, last,    \* slots, by their start
          dock1,
          a1, a2, a3            \* appointments

MCShipment == {short, long}
ShortOnly == {short}
TwoSlots == {early, late}
ThreeSlots == {early, late, last}
MCDock == {dock1}
OneAppointment == {a1}
TwoAppointments == {a1, a2}
ThreeAppointments == {a1, a2, a3}

\* With Buffer = 1: short at early is [0, 2), which ends where late begins;
\* long at early is [0, 3) and long at late [2, 5), which reach into the next.
MCDockOf == [sl \in Slot |-> dock1]
MCStartOf == [sl \in Slot |-> CASE sl = early -> 0 [] sl = late -> 2 [] sl = last -> 4]
MCUnloadMin == [s \in Shipment |-> IF s = long THEN 2 ELSE 1]

NoSeeds == {}
NoSeedOf == [a \in {} |-> None]

\* Two appointments older than dock_occupancy whose windows overlap.
TwoSeeds == {a1, a2}
TwoSeedStatuses ==
    [a \in TwoSeeds |-> IF a = a1 THEN "CONFIRMED" ELSE "PENDING_CONFIRMATION"]
TwoSeedShipments == [a \in TwoSeeds |-> IF a = a1 THEN long ELSE short]
TwoSeedSlots == [a \in TwoSeeds |-> IF a = a1 THEN early ELSE late]

AppointmentSymmetry == Permutations(Appointment)
=============================================================================
