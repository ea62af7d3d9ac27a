---------------------------- MODULE DockCalendar ----------------------------
(***************************************************************************)
(* What the booking core promises of the docks, whatever its tables look   *)
(* like (allocation.py, holds.py, expiry.py): a calendar of places, each a *)
(* shipment at a slot.  A hold keeps its place from everyone else until    *)
(* its deadline; only then may it be dropped, and at the latest Grace      *)
(* later it is worth nothing.  A booking keeps its place until its owner   *)
(* leaves or moves.  No two entries clash.                                 *)
(***************************************************************************)
EXTENDS Integers

CONSTANTS
    Place,      \* a shipment at a slot: a pair
    Owner,      \* who can hold a booking
    Clash,      \* the pairs of places whose dock intervals intersect: symmetric
    TTL,        \* how long a hold is promised, at least 1
    Grace       \* how old a clock reading may be when it is acted on

VARIABLES clock, holds, booked
cvars == <<clock, holds, booked>>

Hold == [place : Place, until : Nat]
Booking == [owner : Owner, place : Place]

Places(H, B) == {h.place : h \in H} \cup {b.place : b \in B}
Clear(p, H, B) == \A q \in Places(H, B) : <<q, p>> \notin Clash
Owners(B) == {b.owner : b \in B}

Lapsed == {h \in holds : h.until <= clock}

\* Deadlines a hold taken now may have.
Deadline == {t + TTL : t \in {t \in 0..clock : clock - t <= Grace}}

Init ==
    /\ clock = 0
    /\ holds = {}
    /\ booked \subseteq Booking
    /\ \A a, b \in booked : a # b => /\ <<a.place, b.place>> \notin Clash
                                     /\ a.owner # b.owner

Tick ==
    /\ clock' = clock + 1
    /\ holds' = {h \in holds : h.until + Grace > clock'}
    /\ UNCHANGED booked

\* Lapsed holds are dropped.
Tidy(D) ==
    /\ holds' = holds \ D
    /\ UNCHANGED <<clock, booked>>

GiveUp(h) ==
    /\ holds' = holds \ {h}
    /\ UNCHANGED <<clock, booked>>

Reserve(p, u, D) ==
    /\ Clear(p, holds \ D, booked)
    /\ holds' = (holds \ D) \cup {[place |-> p, until |-> u]}
    /\ UNCHANGED <<clock, booked>>

\* A hold becomes the booking of its own place.
Convert(h, o) ==
    /\ o \notin Owners(booked)
    /\ holds' = holds \ {h}
    /\ booked' = booked \cup {[owner |-> o, place |-> h.place]}
    /\ UNCHANGED clock

Book(o, p, D) ==
    /\ o \notin Owners(booked)
    /\ Clear(p, holds \ D, booked)
    /\ holds' = holds \ D
    /\ booked' = booked \cup {[owner |-> o, place |-> p]}
    /\ UNCHANGED clock

Leave(b) ==
    /\ booked' = booked \ {b}
    /\ UNCHANGED <<clock, holds>>

\* A shipment's booking moves to another slot, under the same owner or a new
\* one, without anyone else getting in between.
Move(b, o, p, D) ==
    /\ p[1] = b.place[1]
    /\ o \notin Owners(booked \ {b})
    /\ Clear(p, holds \ D, booked \ {b})
    /\ holds' = holds \ D
    /\ booked' = (booked \ {b}) \cup {[owner |-> o, place |-> p]}
    /\ UNCHANGED clock

\* A shipment takes a hold and its booking moves along, under its old owner.
ReserveMoving(b, q, p, u, D) ==
    LET reserved == [place |-> p, until |-> u]
    IN  /\ p[1] = b.place[1] /\ q[1] = b.place[1]
        /\ Clear(p, holds \ D, booked \ {b})
        /\ Clear(q, (holds \ D) \cup {reserved}, booked \ {b})
        /\ holds' = (holds \ D) \cup {reserved}
        /\ booked' = (booked \ {b}) \cup {[owner |-> b.owner, place |-> q]}
        /\ UNCHANGED clock

Next ==
    \/ Tick
    \/ \E D \in SUBSET Lapsed : Tidy(D)
    \/ \E h \in holds : GiveUp(h)
    \/ \E p \in Place, u \in Deadline, D \in SUBSET Lapsed : Reserve(p, u, D)
    \/ \E h \in holds, o \in Owner : Convert(h, o)
    \/ \E o \in Owner, p \in Place, D \in SUBSET Lapsed : Book(o, p, D)
    \/ \E b \in booked : Leave(b)
    \/ \E b \in booked, o \in Owner, p \in Place, D \in SUBSET Lapsed :
           Move(b, o, p, D)
    \/ \E b \in booked, q, p \in Place, u \in Deadline, D \in SUBSET Lapsed :
           ReserveMoving(b, q, p, u, D)

Spec == Init /\ [][Next]_cvars

-----------------------------------------------------------------------------
\* No two entries of the calendar clash, be they holds or bookings.
EntriesClear ==
    /\ \A g, h \in holds : g # h => <<g.place, h.place>> \notin Clash
    /\ \A a, b \in booked : a # b => <<a.place, b.place>> \notin Clash
    /\ \A h \in holds, b \in booked : <<h.place, b.place>> \notin Clash
=============================================================================
