------------------------ MODULE AllocationRefinement ------------------------
(* Allocation implements DockCalendar.  A dock_occupancy row that is HELD   *)
(* is a hold of the calendar while a handler with the oldest admissible     *)
(* reading of the clock could still confirm it; a row that carries an       *)
(* appointment is that appointment's booking.                               *)
EXTENDS Allocation

PlaceOf(c) == <<c.shipment, c.slot>>

CalendarHolds ==
    {[place |-> PlaceOf(c), until |-> c.expiresAt] :
        c \in {c \in claims : c.state = "HELD" /\ c.expiresAt + MaxLag > now}}

CalendarBookings ==
    {[owner |-> c.appointment, place |-> PlaceOf(c)] :
        c \in {c \in claims : c.state # "HELD"}}

ClashingPlaces ==
    {pq \in (Shipment \X Slot) \X (Shipment \X Slot) :
        Overlap(pq[1][1], pq[1][2], pq[2][1], pq[2][2])}

Calendar == INSTANCE DockCalendar WITH
    Place <- Shipment \X Slot, Owner <- Appointment, Clash <- ClashingPlaces,
    TTL <- HeldTTL, Grace <- MaxLag,
    clock <- now, holds <- CalendarHolds, booked <- CalendarBookings

\* Every step of the handlers is a step of the dock calendar: a live hold is
\* displaced by no one, becomes a booking of its own place only, and nothing
\* is ever entered over a live entry.
ImplementsCalendar == Calendar!Spec
=============================================================================
