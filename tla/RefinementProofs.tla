-------------------------- MODULE RefinementProofs --------------------------
(* The booking core implements the dock calendar, for every value of the    *)
(* constants: ImplementsCalendar.  A handler changes the claims in one of a *)
(* few ways, each an action of the calendar (the lemmas of the second       *)
(* part).  What this needs of the reachable states: claims do not overlap,  *)
(* so that two of them never have the same place and an entry of the        *)
(* calendar stands for one row; and each booked row belongs to the one      *)
(* active appointment it names, so that a move takes one booking along.     *)
EXTENDS AllocationRefinement, AllocationProofs

-----------------------------------------------------------------------------
(* The entries of any set of rows.                                          *)

HoldOf(c) == [place |-> PlaceOf(c), until |-> c.expiresAt]
BookingOf(c) == [owner |-> c.appointment, place |-> PlaceOf(c)]

HoldsIn(C, t) ==
    {HoldOf(c) : c \in {c \in C : c.state = "HELD" /\ c.expiresAt + MaxLag > t}}
BookingsIn(C) == {BookingOf(c) : c \in {c \in C : c.state # "HELD"}}

\* Dead rows: what a handler may expire on the way.
Dead == {c \in claims : LapsedBy(c, now)}

LEMMA EntriesOfClaims ==
    /\ CalendarHolds = HoldsIn(claims, now)
    /\ CalendarBookings = BookingsIn(claims)
    /\ CalendarHolds' = HoldsIn(claims', now')
    /\ CalendarBookings' = BookingsIn(claims')
BY DEF CalendarHolds, CalendarBookings, HoldsIn, BookingsIn, HoldOf, BookingOf

LEMMA EntriesOfBoth ==
    ASSUME NEW C, NEW E, NEW t
    PROVE  /\ HoldsIn(C \cup E, t) = HoldsIn(C, t) \cup HoldsIn(E, t)
           /\ BookingsIn(C \cup E) = BookingsIn(C) \cup BookingsIn(E)
BY DEF HoldsIn, BookingsIn

LEMMA EntriesOfPart ==
    ASSUME NEW C, NEW E \in SUBSET C, NEW t
    PROVE  /\ HoldsIn(E, t) \subseteq HoldsIn(C, t)
           /\ BookingsIn(E) \subseteq BookingsIn(C)
BY DEF HoldsIn, BookingsIn

LEMMA EntriesOfOneBooked ==
    ASSUME NEW c, NEW t, c.state # "HELD"
    PROVE  HoldsIn({c}, t) = {} /\ BookingsIn({c}) = {BookingOf(c)}
<1>1. {d \in {c} : d.state = "HELD" /\ d.expiresAt + MaxLag > t} = {}
  OBVIOUS
<1>2. {d \in {c} : d.state # "HELD"} = {c}
  OBVIOUS
<1> QED
  BY <1>1, <1>2 DEF HoldsIn, BookingsIn

LEMMA EntriesOfOneHeld ==
    ASSUME NEW c, NEW t, c.state = "HELD", c.expiresAt + MaxLag > t
    PROVE  HoldsIn({c}, t) = {HoldOf(c)} /\ BookingsIn({c}) = {}
<1>1. {d \in {c} : d.state = "HELD" /\ d.expiresAt + MaxLag > t} = {c}
  OBVIOUS
<1>2. {d \in {c} : d.state # "HELD"} = {}
  OBVIOUS
<1> QED
  BY <1>1, <1>2 DEF HoldsIn, BookingsIn

LEMMA EntriesOfHeld ==
    ASSUME NEW s, NEW sl, NEW e, NEW t, e + MaxLag > t
    PROVE  /\ HoldsIn({HeldRow(s, sl, e)}, t) = {[place |-> <<s, sl>>, until |-> e]}
           /\ BookingsIn({HeldRow(s, sl, e)}) = {}
<1> DEFINE h == HeldRow(s, sl, e)
<1>1. h.state = "HELD" /\ h.expiresAt = e /\ PlaceOf(h) = <<s, sl>>
  BY DEF HeldRow, PlaceOf
<1> HIDE DEF h
<1>2. HoldsIn({h}, t) = {[place |-> <<s, sl>>, until |-> e]} /\ BookingsIn({h}) = {}
  BY <1>1, EntriesOfOneHeld DEF HoldOf
<1> QED
  BY <1>2 DEF h

LEMMA EntriesOfBooked ==
    ASSUME NEW a, NEW s, NEW sl, NEW t
    PROVE  /\ HoldsIn({BookedRow(a, s, sl)}, t) = {}
           /\ BookingsIn({BookedRow(a, s, sl)}) = {[owner |-> a, place |-> <<s, sl>>]}
<1> DEFINE h == BookedRow(a, s, sl)
<1>1. h.state # "HELD" /\ h.appointment = a /\ PlaceOf(h) = <<s, sl>>
  BY DEF BookedRow, PlaceOf
<1> HIDE DEF h
<1>2. HoldsIn({h}, t) = {} /\ BookingsIn({h}) = {[owner |-> a, place |-> <<s, sl>>]}
  BY <1>1, EntriesOfOneBooked DEF BookingOf
<1> QED
  BY <1>2 DEF h

\* Two claims with the same place would overlap: the buffer leaves no window
\* empty.
LEMMA PlacesDiffer ==
    ASSUME TypeOK, DockExclusive, NEW c \in claims, NEW d \in claims,
           PlaceOf(c) = PlaceOf(d)
    PROVE  c = d
<1>1. c.shipment \in Shipment /\ c.slot \in Slot
  BY DEF TypeOK, ClaimRow
<1>2. c.shipment = d.shipment /\ c.slot = d.slot
  BY DEF PlaceOf
<1>3. Overlap(c.shipment, c.slot, c.shipment, c.slot)
  BY <1>1, DataAssumption DEF Overlap, SpansMeet, SpanEnd
<1> QED
  BY <1>2, <1>3 DEF DockExclusive

LEMMA EntriesWithout ==
    ASSUME TypeOK, DockExclusive, NEW D \in SUBSET claims, NEW t
    PROVE  /\ HoldsIn(claims \ D, t) = HoldsIn(claims, t) \ HoldsIn(D, t)
           /\ BookingsIn(claims \ D) = BookingsIn(claims) \ BookingsIn(D)
<1>1. ASSUME NEW c \in claims, NEW d \in claims,
             HoldOf(c) = HoldOf(d) \/ BookingOf(c) = BookingOf(d)
      PROVE  c = d
  BY <1>1, PlacesDiffer DEF HoldOf, BookingOf
<1> QED
  BY <1>1 DEF HoldsIn, BookingsIn

LEMMA EntriesReplaced ==
    ASSUME TypeOK, DockExclusive, NEW D \in SUBSET claims, NEW E, NEW t
    PROVE  /\ HoldsIn((claims \ D) \cup E, t)
                  = (HoldsIn(claims, t) \ HoldsIn(D, t)) \cup HoldsIn(E, t)
           /\ BookingsIn((claims \ D) \cup E)
                  = (BookingsIn(claims) \ BookingsIn(D)) \cup BookingsIn(E)
<1> DEFINE C == claims \ D
<1>1. /\ HoldsIn(C, t) = HoldsIn(claims, t) \ HoldsIn(D, t)
      /\ BookingsIn(C) = BookingsIn(claims) \ BookingsIn(D)
  BY EntriesWithout
<1> HIDE DEF C
<1>2. /\ HoldsIn(C \cup E, t) = HoldsIn(C, t) \cup HoldsIn(E, t)
      /\ BookingsIn(C \cup E) = BookingsIn(C) \cup BookingsIn(E)
  BY EntriesOfBoth, SMTT(20)
<1>3. /\ HoldsIn(C \cup E, t)
             = (HoldsIn(claims, t) \ HoldsIn(D, t)) \cup HoldsIn(E, t)
      /\ BookingsIn(C \cup E)
             = (BookingsIn(claims) \ BookingsIn(D)) \cup BookingsIn(E)
  BY <1>1, <1>2
<1> QED
  BY <1>3 DEF C

\* The dead rows stand for holds the calendar may drop.
LEMMA EntriesOfDead ==
    ASSUME NEW D \in SUBSET Dead
    PROVE  /\ HoldsIn(D, now) \in SUBSET Calendar!Lapsed
           /\ BookingsIn(D) = {}
BY DEF Dead, LapsedBy, HoldsIn, HoldOf, BookingsIn, Calendar!Lapsed, CalendarHolds

LEMMA AdmitsFewer ==
    ASSUME NEW C, NEW E \in SUBSET C, NEW s, NEW sl, Admits(C, s, sl)
    PROVE  Admits(E, s, sl)
BY DEF Admits

\* What the exclusion constraint admits over C is clear of the entries of C.
LEMMA AdmittedIsClear ==
    ASSUME NEW C, NEW s, NEW sl, NEW t, Admits(C, s, sl)
    PROVE  Calendar!Clear(<<s, sl>>, HoldsIn(C, t), BookingsIn(C))
<1> SUFFICES ASSUME NEW q \in Calendar!Places(HoldsIn(C, t), BookingsIn(C))
             PROVE  <<q, <<s, sl>>>> \notin ClashingPlaces
  BY DEF Calendar!Clear
<1>1. PICK c \in C : q = PlaceOf(c)
  BY DEF Calendar!Places, HoldsIn, BookingsIn, HoldOf, BookingOf
<1>2. ~ Overlap(c.shipment, c.slot, s, sl)
  BY DEF Admits
<1> QED
  BY <1>1, <1>2 DEF PlaceOf, ClashingPlaces

-----------------------------------------------------------------------------
(* What the handlers do to the claims, as steps of the calendar.            *)

CalendarStep ==
    Calendar!Next \/ UNCHANGED <<now, CalendarHolds, CalendarBookings>>

StateInv == TypeOK /\ InFlight /\ ClaimsHaveOwners /\ DockExclusive

\* A row that names an appointment is no hold, and is its only claim.
LEMMA BookedIsOwned ==
    ASSUME TypeOK, NEW r \in claims, r.appointment \in Appointment
    PROVE  r.state # "HELD"
BY DataAssumption DEF TypeOK, ClaimRow

LEMMA OwnedOnce ==
    ASSUME StateInv, NEW a \in Appointment, ClaimsOf(claims, a) # {}
    PROVE  \E r \in claims : r.appointment = a /\ ClaimsOf(claims, a) = {r}
<1>1. PICK r \in claims : r.appointment = a
  BY DEF ClaimsOf
<1>2. r.state # "HELD"
  BY <1>1, BookedIsOwned DEF StateInv
<1> QED
  BY <1>1, <1>2 DEF StateInv, ClaimsHaveOwners

LEMMA NoBookingOf ==
    ASSUME NEW C, NEW a, ClaimsOf(C, a) = {}
    PROVE  a \notin Calendar!Owners(BookingsIn(C))
BY DEF Calendar!Owners, BookingsIn, BookingOf, ClaimsOf

\* A hold that was live at an admissible reading of the clock is on the
\* calendar.
LEMMA LiveIsShown ==
    ASSUME TypeOK, NEW c \in claims, NEW t \in ReadClock,
           c.state = "HELD", c.expiresAt > t
    PROVE  c.expiresAt + MaxLag > now
<1>1. c.expiresAt \in Nat
  BY DEF TypeOK, ClaimRow
<1> QED
  BY <1>1, SettingsAssumption DEF ReadClock, TypeOK

LEMMA NewIsShown ==
    ASSUME TypeOK, NEW t \in ReadClock
    PROVE  t + HeldTTL + MaxLag > now
BY SettingsAssumption DEF ReadClock, TypeOK

LEMMA NothingHappens ==
    ASSUME claims' = claims, now' = now
    PROVE  CalendarStep
BY DEF CalendarStep, CalendarHolds, CalendarBookings

\* Dead rows are expired, and no more.
LEMMA TidyStep ==
    ASSUME StateInv, NEW D \in SUBSET Dead, claims' = claims \ D, now' = now
    PROVE  CalendarStep
<1>1. D \in SUBSET claims
  BY DEF Dead
<1>2. /\ HoldsIn(claims \ D, now) = HoldsIn(claims, now) \ HoldsIn(D, now)
      /\ BookingsIn(claims \ D) = BookingsIn(claims) \ BookingsIn(D)
  BY <1>1, EntriesWithout DEF StateInv
<1>3. Calendar!Tidy(HoldsIn(D, now))
  BY <1>2, EntriesOfClaims, EntriesOfDead DEF Calendar!Tidy
<1> QED
  BY <1>3, EntriesOfDead DEF CalendarStep, Calendar!Next

\* The clock goes on.
LEMMA TickStep ==
    ASSUME TypeOK, claims' = claims, now' = now + 1
    PROVE  CalendarStep
<1>1. \A c \in claims : c.state = "HELD" => c.expiresAt \in Nat
  BY DEF TypeOK, ClaimRow, NoDeadline
<1>2. HoldsIn(claims, now + 1)
          = {h \in HoldsIn(claims, now) : h.until + MaxLag > now + 1}
  BY <1>1, SettingsAssumption DEF HoldsIn, HoldOf, TypeOK
<1>3. Calendar!Tick
  BY <1>2, EntriesOfClaims DEF Calendar!Tick
<1> QED
  BY <1>3 DEF CalendarStep, Calendar!Next

\* A claim is given up: a booking leaves, or a hold that is still live.
LEMMA ReleaseStep ==
    ASSUME StateInv, NEW a \in Appointment,
           claims' = Release(claims, a), now' = now
    PROVE  CalendarStep
<1>1. CASE ClaimsOf(claims, a) = {}
  BY <1>1, NothingHappens DEF Release
<1>2. CASE ClaimsOf(claims, a) # {}
  <2>1. PICK r \in claims : r.appointment = a /\ ClaimsOf(claims, a) = {r}
    BY <1>2, OwnedOnce
  <2>2. r.state # "HELD"
    BY <2>1, BookedIsOwned DEF StateInv
  <2>3. HoldsIn({r}, now) = {} /\ BookingsIn({r}) = {BookingOf(r)}
    BY <2>2, EntriesOfOneBooked
  <2>4. /\ HoldsIn(claims \ {r}, now) = HoldsIn(claims, now) \ HoldsIn({r}, now)
        /\ BookingsIn(claims \ {r}) = BookingsIn(claims) \ BookingsIn({r})
    BY EntriesWithout DEF StateInv
  <2>5. Calendar!Leave(BookingOf(r))
    BY <2>1, <2>3, <2>4, EntriesOfClaims DEF Calendar!Leave, Release
  <2>6. BookingOf(r) \in CalendarBookings
    BY <2>2, EntriesOfClaims DEF BookingsIn
  <2> QED
    BY <2>5, <2>6 DEF CalendarStep, Calendar!Next
<1> QED
  BY <1>1, <1>2

LEMMA GiveUpStep ==
    ASSUME StateInv, NEW c \in claims, NEW t \in ReadClock,
           c.state = "HELD", c.expiresAt > t,
           claims' = claims \ {c}, now' = now
    PROVE  CalendarStep
<1>1. HoldOf(c) \in CalendarHolds
  BY LiveIsShown, EntriesOfClaims DEF HoldsIn, StateInv
<1>2. HoldsIn({c}, now) = {HoldOf(c)} /\ BookingsIn({c}) = {}
  BY LiveIsShown, EntriesOfOneHeld DEF StateInv
<1>3. /\ HoldsIn(claims \ {c}, now) = HoldsIn(claims, now) \ HoldsIn({c}, now)
      /\ BookingsIn(claims \ {c}) = BookingsIn(claims) \ BookingsIn({c})
  BY EntriesWithout DEF StateInv
<1>4. Calendar!GiveUp(HoldOf(c))
  BY <1>2, <1>3, EntriesOfClaims DEF Calendar!GiveUp
<1> QED
  BY <1>1, <1>4 DEF CalendarStep, Calendar!Next

\* A live hold becomes the booking of its own place.
LEMMA ConvertStep ==
    ASSUME StateInv, NEW c \in claims, NEW t \in ReadClock, NEW a \in Appointment,
           c.state = "HELD", c.expiresAt > t, ClaimsOf(claims, a) = {},
           claims' = (claims \ {c}) \cup {BookedRow(a, c.shipment, c.slot)},
           now' = now
    PROVE  CalendarStep
<1> DEFINE new == [owner |-> a, place |-> PlaceOf(c)]
           B == {BookedRow(a, c.shipment, c.slot)}
<1>1. HoldOf(c) \in CalendarHolds
  BY LiveIsShown, EntriesOfClaims DEF HoldsIn, StateInv
<1>2. HoldsIn({c}, now) = {HoldOf(c)} /\ BookingsIn({c}) = {}
  BY LiveIsShown, EntriesOfOneHeld DEF StateInv
<1>3. HoldsIn(B, now) = {} /\ BookingsIn(B) = {new}
  BY EntriesOfBooked DEF PlaceOf
<1> HIDE DEF new, B
<1>4. /\ HoldsIn((claims \ {c}) \cup B, now)
             = (HoldsIn(claims, now) \ HoldsIn({c}, now)) \cup HoldsIn(B, now)
      /\ BookingsIn((claims \ {c}) \cup B)
             = (BookingsIn(claims) \ BookingsIn({c})) \cup BookingsIn(B)
  <2>1. {c} \in SUBSET claims
    OBVIOUS
  <2> QED
    BY <2>1, EntriesReplaced, ZenonT(30) DEF StateInv
<1>5. /\ HoldsIn(claims', now) = HoldsIn(claims, now) \ {HoldOf(c)}
      /\ BookingsIn(claims') = BookingsIn(claims) \cup {new}
  BY <1>2, <1>3, <1>4 DEF B
<1>6. a \notin Calendar!Owners(BookingsIn(claims))
  BY NoBookingOf
<1>7. HoldOf(c).place = PlaceOf(c)
  BY DEF HoldOf
<1>8. Calendar!Convert(HoldOf(c), a)
  BY <1>5, <1>6, <1>7, EntriesOfClaims DEF Calendar!Convert, new
<1> QED
  BY <1>1, <1>8 DEF CalendarStep, Calendar!Next

\* A hold is taken over the dead rows of D.
LEMMA ReserveStep ==
    ASSUME StateInv, NEW D \in SUBSET Dead, NEW s \in Shipment, NEW sl \in Slot,
           NEW t \in ReadClock, Admits(claims \ D, s, sl),
           claims' = (claims \ D) \cup {HeldRow(s, sl, t + HeldTTL)}, now' = now
    PROVE  CalendarStep
<1> DEFINE H == {HeldRow(s, sl, t + HeldTTL)}
           new == [place |-> <<s, sl>>, until |-> t + HeldTTL]
<1>1. D \in SUBSET claims
  BY DEF Dead
<1>2. HoldsIn(H, now) = {new} /\ BookingsIn(H) = {}
  BY NewIsShown, EntriesOfHeld DEF StateInv
<1> HIDE DEF H, new
<1>3. /\ HoldsIn((claims \ D) \cup H, now)
             = (HoldsIn(claims, now) \ HoldsIn(D, now)) \cup HoldsIn(H, now)
      /\ BookingsIn((claims \ D) \cup H)
             = (BookingsIn(claims) \ BookingsIn(D)) \cup BookingsIn(H)
  BY <1>1, EntriesReplaced, ZenonT(30) DEF StateInv
<1>3a. /\ HoldsIn(claims \ D, now) = HoldsIn(claims, now) \ HoldsIn(D, now)
       /\ BookingsIn(claims \ D) = BookingsIn(claims) \ BookingsIn(D)
  BY <1>1, EntriesWithout DEF StateInv
<1>4. /\ HoldsIn(claims', now) = (HoldsIn(claims, now) \ HoldsIn(D, now)) \cup {new}
      /\ BookingsIn(claims') = BookingsIn(claims)
  BY <1>2, <1>3, EntriesOfDead DEF H
<1>5. Calendar!Clear(<<s, sl>>, HoldsIn(claims \ D, now), BookingsIn(claims \ D))
  BY AdmittedIsClear
<1>6. Calendar!Clear(<<s, sl>>, HoldsIn(claims, now) \ HoldsIn(D, now),
                     BookingsIn(claims))
  BY <1>3a, <1>5, EntriesOfDead
<1>7. Calendar!Reserve(<<s, sl>>, t + HeldTTL, HoldsIn(D, now))
  BY <1>4, <1>6, EntriesOfClaims DEF Calendar!Reserve, new
<1>8. t + HeldTTL \in Calendar!Deadline /\ <<s, sl>> \in Shipment \X Slot
  BY DEF Calendar!Deadline, ReadClock
<1>9. HoldsIn(D, now) \in SUBSET Calendar!Lapsed
  BY EntriesOfDead
<1> QED
  BY <1>7, <1>8, <1>9 DEF CalendarStep, Calendar!Next

\* The booking of appointment a, if it has one, gives way to one of b, which
\* is the same appointment or has none.
LEMMA BookStep ==
    ASSUME StateInv, NEW D \in SUBSET Dead, NEW a \in Appointment,
           NEW b \in Appointment, NEW s \in Shipment, NEW sl \in Slot,
           b = a \/ ClaimsOf(claims, b) = {},
           \A r \in ClaimsOf(claims, a) : r.shipment = s,
           Admits(claims \ (D \cup ClaimsOf(claims, a)), s, sl),
           claims' = (claims \ (D \cup ClaimsOf(claims, a)))
                         \cup {BookedRow(b, s, sl)},
           now' = now
    PROVE  CalendarStep
<1> DEFINE R == ClaimsOf(claims, a)
           G == D \cup R
           B == {BookedRow(b, s, sl)}
           new == [owner |-> b, place |-> <<s, sl>>]
           H0 == HoldsIn(claims, now) \ HoldsIn(D, now)
           B0 == BookingsIn(claims) \ BookingsIn(R)
<1>1. G \in SUBSET claims
  BY DEF Dead, ClaimsOf
<1>2. HoldsIn(B, now) = {} /\ BookingsIn(B) = {new}
  BY EntriesOfBooked
<1>3. HoldsIn(R, now) = {}
  BY BookedIsOwned DEF StateInv, HoldsIn, ClaimsOf
<1>4. BookingsIn(D) = {} /\ HoldsIn(D, now) \in SUBSET Calendar!Lapsed
  BY EntriesOfDead
<1>5. Admits(claims \ G, s, sl) /\ claims' = (claims \ G) \cup B
  OBVIOUS
<1> HIDE DEF B, new, R
<1>6. /\ HoldsIn(G, now) = HoldsIn(D, now) \cup HoldsIn(R, now)
      /\ BookingsIn(G) = BookingsIn(D) \cup BookingsIn(R)
  <2>1. HoldsIn(D \cup R, now) = HoldsIn(D, now) \cup HoldsIn(R, now)
    BY DEF HoldsIn
  <2>2. BookingsIn(D \cup R) = BookingsIn(D) \cup BookingsIn(R)
    BY DEF BookingsIn
  <2> QED
    BY <2>1, <2>2
<1> HIDE DEF G
<1>7. /\ HoldsIn((claims \ G) \cup B, now)
             = (HoldsIn(claims, now) \ HoldsIn(G, now)) \cup HoldsIn(B, now)
      /\ BookingsIn((claims \ G) \cup B)
             = (BookingsIn(claims) \ BookingsIn(G)) \cup BookingsIn(B)
  BY <1>1, EntriesReplaced, ZenonT(30) DEF StateInv
<1>7a. /\ HoldsIn(claims \ G, now) = HoldsIn(claims, now) \ HoldsIn(G, now)
       /\ BookingsIn(claims \ G) = BookingsIn(claims) \ BookingsIn(G)
  BY <1>1, EntriesWithout DEF StateInv
<1>8. HoldsIn(claims \ G, now) = H0 /\ BookingsIn(claims \ G) = B0
  BY <1>3, <1>4, <1>6, <1>7a
<1>9. HoldsIn(claims', now) = H0 /\ BookingsIn(claims') = B0 \cup {new}
  BY <1>2, <1>3, <1>4, <1>5, <1>6, <1>7
<1>10. Calendar!Clear(<<s, sl>>, H0, B0)
  <2>1. Calendar!Clear(<<s, sl>>, HoldsIn(claims \ G, now), BookingsIn(claims \ G))
    BY <1>5, AdmittedIsClear
  <2> QED
    BY <2>1, <1>8
<1>11. b \notin Calendar!Owners(B0)
  <2>1. ClaimsOf(claims \ G, b) = {}
    BY DEF G, R, ClaimsOf
  <2> QED
    BY <2>1, <1>8, NoBookingOf
<1>12. CASE R = {}
  <2>1. BookingsIn(R) = {}
    BY <1>12 DEF BookingsIn
  <2>2. Calendar!Book(b, <<s, sl>>, HoldsIn(D, now))
    BY <2>1, <1>9, <1>10, <1>11, EntriesOfClaims DEF Calendar!Book, new
  <2> QED
    BY <2>2, <1>4 DEF CalendarStep, Calendar!Next
<1>13. CASE R # {}
  <2>1. PICK r \in claims : r.appointment = a /\ R = {r}
    BY <1>13, OwnedOnce DEF R
  <2>2. r.state # "HELD"
    BY <2>1, BookedIsOwned DEF StateInv
  <2>3. BookingsIn(R) = {BookingOf(r)}
    BY <2>1, <2>2, EntriesOfOneBooked
  <2>4. BookingOf(r) \in CalendarBookings
    BY <2>2, EntriesOfClaims DEF BookingsIn
  <2>5. BookingOf(r).place[1] = s
    BY <2>1 DEF BookingOf, PlaceOf, R
  <2>6. Calendar!Move(BookingOf(r), b, <<s, sl>>, HoldsIn(D, now))
    BY <2>3, <2>5, <1>9, <1>10, <1>11, EntriesOfClaims DEF Calendar!Move, new
  <2> QED
    BY <2>4, <2>6, <1>4 DEF CalendarStep, Calendar!Next
<1> QED
  BY <1>12, <1>13

\* A hold is taken and the booking of a moves along, or stays where it is.
LEMMA ReserveMovingStep ==
    ASSUME StateInv, NEW D \in SUBSET Dead, NEW a \in Appointment,
           NEW s \in Shipment, NEW sl \in Slot, NEW q \in Slot,
           NEW t \in ReadClock, NEW G, NEW H,
           G = D \cup ClaimsOf(claims, a),
           H = {HeldRow(s, sl, t + HeldTTL)},
           ClaimsOf(claims, a) # {},
           \A r \in ClaimsOf(claims, a) : r.shipment = s,
           Admits(claims \ G, s, sl),
           Admits((claims \ G) \cup H, s, q),
           claims' = ((claims \ G) \cup H) \cup {BookedRow(a, s, q)},
           now' = now
    PROVE  CalendarStep
<1> DEFINE E == HoldsIn(D, now)
           B == {BookedRow(a, s, q)}
           old == {[owner |-> a, place |-> <<s, q>>]}
           new == [place |-> <<s, sl>>, until |-> t + HeldTTL]
<1>1. PICK r \in claims : r.appointment = a /\ ClaimsOf(claims, a) = {r}
  BY OwnedOnce
<1>2. r.state # "HELD" /\ r.shipment = s
  BY <1>1, BookedIsOwned DEF StateInv
<1>3. HoldsIn({r}, now) = {} /\ BookingsIn({r}) = {BookingOf(r)}
  BY <1>2, EntriesOfOneBooked
<1>4. BookingsIn(D) = {} /\ E \in SUBSET Calendar!Lapsed
  BY EntriesOfDead
<1>5. HoldsIn(G, now) = E /\ BookingsIn(G) = {BookingOf(r)}
  <2>1. HoldsIn(D \cup {r}, now) = E \cup HoldsIn({r}, now)
    BY DEF HoldsIn
  <2>2. BookingsIn(D \cup {r}) = BookingsIn(D) \cup BookingsIn({r})
    BY DEF BookingsIn
  <2>3. G = D \cup {r}
    BY <1>1
  <2> QED
    BY <2>1, <2>2, <2>3, <1>3, <1>4
<1>6. G \in SUBSET claims
  BY DEF Dead, ClaimsOf
<1>7. HoldsIn(H, now) = {new} /\ BookingsIn(H) = {}
  BY NewIsShown, EntriesOfHeld DEF StateInv
<1>8. HoldsIn(B, now) = {} /\ BookingsIn(B) = old
  BY EntriesOfBooked
<1> HIDE DEF B, old, new, E
<1>9. /\ HoldsIn(claims \ G, now) = HoldsIn(claims, now) \ E
      /\ BookingsIn(claims \ G) = BookingsIn(claims) \ {BookingOf(r)}
  BY <1>5, <1>6, EntriesWithout DEF StateInv
<1> DEFINE C == claims \ G
<1>10. C = claims \ G
  OBVIOUS
<1> HIDE DEF C
<1>11. /\ HoldsIn(C \cup H, now) = (HoldsIn(claims, now) \ E) \cup {new}
       /\ BookingsIn(C \cup H) = BookingsIn(claims) \ {BookingOf(r)}
  <2>1. HoldsIn(C \cup H, now) = HoldsIn(C, now) \cup HoldsIn(H, now)
    BY EntriesOfBoth
  <2>2. BookingsIn(C \cup H) = BookingsIn(C) \cup BookingsIn(H)
    BY EntriesOfBoth
  <2> QED
    BY <2>1, <2>2, <1>7, <1>9, <1>10
<1> DEFINE F == C \cup H
<1>12. F = C \cup H
  OBVIOUS
<1> HIDE DEF F
<1>13. /\ HoldsIn(claims', now) = (HoldsIn(claims, now) \ E) \cup {new}
       /\ BookingsIn(claims') = (BookingsIn(claims) \ {BookingOf(r)}) \cup old
  <2>1. HoldsIn(F \cup B, now) = HoldsIn(F, now) \cup HoldsIn(B, now)
    BY EntriesOfBoth
  <2>2. BookingsIn(F \cup B) = BookingsIn(F) \cup BookingsIn(B)
    BY EntriesOfBoth
  <2>3. claims' = F \cup B
    BY <1>10, <1>12 DEF B
  <2> QED
    BY <2>1, <2>2, <2>3, <1>8, <1>11, <1>12
<1>14. Calendar!Clear(<<s, sl>>, HoldsIn(claims, now) \ E,
                      BookingsIn(claims) \ {BookingOf(r)})
  <2>1. Calendar!Clear(<<s, sl>>, HoldsIn(C, now), BookingsIn(C))
    BY <1>10, AdmittedIsClear
  <2> QED
    BY <2>1, <1>9, <1>10
<1>15. Calendar!Clear(<<s, q>>, (HoldsIn(claims, now) \ E) \cup {new},
                      BookingsIn(claims) \ {BookingOf(r)})
  <2>1. Calendar!Clear(<<s, q>>, HoldsIn(F, now), BookingsIn(F))
    BY <1>10, <1>12, AdmittedIsClear
  <2> QED
    BY <2>1, <1>11, <1>12
<1>16. /\ BookingOf(r) \in CalendarBookings
       /\ BookingOf(r).place[1] = s /\ BookingOf(r).owner = a
  BY <1>1, <1>2, EntriesOfClaims DEF BookingsIn, BookingOf, PlaceOf
<1>17. Calendar!ReserveMoving(BookingOf(r), <<s, q>>, <<s, sl>>, t + HeldTTL, E)
  BY <1>13, <1>14, <1>15, <1>16, EntriesOfClaims
     DEF Calendar!ReserveMoving, new, old
<1>18. /\ t + HeldTTL \in Calendar!Deadline
       /\ <<s, sl>> \in Shipment \X Slot /\ <<s, q>> \in Shipment \X Slot
  BY DEF Calendar!Deadline, ReadClock
<1> QED
  BY <1>4, <1>16, <1>17, <1>18 DEF CalendarStep, Calendar!Next

-----------------------------------------------------------------------------
(* Every handler does one of these.                                         *)

\* What a lazy expiry takes is dead by now: the handler's reading of the
\* clock is not ahead of it.
LEMMA LapsedIsDead ==
    ASSUME TypeOK, NEW c \in claims, NEW t \in ReadClock, LapsedBy(c, t)
    PROVE  c \in Dead
<1>1. c.expiresAt \in Nat
  BY DEF TypeOK, ClaimRow, LapsedBy
<1> QED
  BY <1>1 DEF Dead, LapsedBy, ReadClock, TypeOK

LEMMA NowIsRead == ASSUME TypeOK PROVE now \in ReadClock
BY SettingsAssumption DEF ReadClock, TypeOK

LEMMA FlipDrops ==
    ASSUME TypeOK, NEW C \in SUBSET claims, NEW s, NEW sl, NEW t \in ReadClock
    PROVE  \E D \in SUBSET Dead : FlipOnInterval(C, s, sl, t) = C \ D
<1> DEFINE D == C \ FlipOnInterval(C, s, sl, t)
<1>1. D \in SUBSET Dead
  BY LapsedIsDead DEF FlipOnInterval
<1>2. FlipOnInterval(C, s, sl, t) = C \ D
  BY DEF FlipOnInterval
<1> QED
  BY <1>1, <1>2

LEMMA FlipForDrops ==
    ASSUME NEW A
    PROVE  \E D \in SUBSET Dead : FlipForAppointments(A) = claims \ D
<1> DEFINE D == claims \ FlipForAppointments(A)
<1>1. D \in SUBSET Dead
  BY DEF FlipForAppointments, Dead
<1>2. FlipForAppointments(A) = claims \ D
  BY DEF FlipForAppointments
<1> QED
  BY <1>1, <1>2

\* The booking of an appointment is its shipment's.
LEMMA BookedForShipment ==
    ASSUME StateInv, NEW a \in Appointment
    PROVE  \A r \in ClaimsOf(claims, a) : r.shipment = appt[a].shipment
BY BookedIsOwned DEF StateInv, ClaimsHaveOwners, ClaimsOf

LEMMA RequestSteps == ASSUME StateInv, Request PROVE CalendarStep
<1>1. ASSUME NEW s \in Shipment, NEW sl \in Slot, NEW t \in ReadClock,
             RequestHold(s, sl, t)
      PROVE  CalendarStep
  <2>1. PICK D \in SUBSET Dead : FlipOnInterval(claims, s, sl, t) = claims \ D
    <3>1. TypeOK
      BY DEF StateInv
    <3>2. \A C \in SUBSET claims : \E D \in SUBSET Dead :
              FlipOnInterval(C, s, sl, t) = C \ D
      BY <3>1, FlipDrops
    <3> QED
      BY <3>2
  <2>2. /\ Admits(claims \ D, s, sl) /\ now' = now
        /\ claims' = (claims \ D) \cup {HeldRow(s, sl, t + HeldTTL)}
    BY <1>1, <2>1 DEF RequestHold
  <2> QED
    BY <2>2, ReserveStep
<1>2. ASSUME NEW s \in Shipment, NEW sl \in Slot, NEW t \in ReadClock,
             NEW a \in Appointment, RequestDirect(s, sl, t, a)
      PROVE  CalendarStep
  <2>1. ClaimsOf(claims, a) = {}
    BY <1>2, InactiveClaimless
       DEF RequestDirect, Fresh, Active, ActiveStatus, StateInv
  <2>2. {} \in SUBSET Dead /\ claims \ ({} \cup ClaimsOf(claims, a)) = claims
    BY <2>1
  <2>3. /\ Admits(claims, s, sl) /\ now' = now
        /\ claims' = claims \cup {BookedRow(a, s, sl)}
    BY <1>2 DEF RequestDirect
  <2> QED
    BY <2>1, <2>2, <2>3, BookStep
<1>3. ASSUME NEW c \in claims, NEW t \in ReadClock, NEW a \in Appointment,
             ConfirmHeld(c, t, a)
      PROVE  CalendarStep
  <2>1. ClaimsOf(claims, a) = {}
    BY <1>3, InactiveClaimless
       DEF ConfirmHeld, Fresh, Active, ActiveStatus, StateInv
  <2> QED
    BY <1>3, <2>1, ConvertStep DEF ConfirmHeld
<1>4. ASSUME NEW c \in claims, NEW t \in ReadClock, ConfirmHeldInfeasible(c, t)
      PROVE  CalendarStep
  BY <1>4, GiveUpStep DEF ConfirmHeldInfeasible
<1>5. ASSUME NEW a \in Appointment, Cancel(a)
      PROVE  CalendarStep
  BY <1>5, ReleaseStep DEF Cancel
<1> QED
  BY <1>1, <1>2, <1>3, <1>4, <1>5 DEF Request

LEMMA DecideSteps == ASSUME StateInv, Decide PROVE CalendarStep
<1>1. ASSUME NEW A, claims' = FlipForAppointments(A), now' = now
      PROVE  CalendarStep
  BY <1>1, FlipForDrops, TidyStep
<1>2. ASSUME NEW a \in Appointment, Confirm(a)
      PROVE  CalendarStep
  BY <1>1, <1>2 DEF Confirm
<1>3. ASSUME NEW A \in SUBSET {a \in Appointment : ~ Fresh(a)},
             NEW E \in SUBSET {a \in A : Pending(a)}, BulkConfirm(A, E)
      PROVE  CalendarStep
  BY <1>1, <1>3 DEF BulkConfirm
<1>4. ASSUME NEW a \in Appointment, Reject(a) \/ ManualExpire(a)
      PROVE  CalendarStep
  BY <1>4, ReleaseStep DEF Reject, ManualExpire, OpsTransition
<1>5. ASSUME NEW a \in Appointment, HoldForInformation(a)
      PROVE  CalendarStep
  BY <1>5, NothingHappens DEF HoldForInformation
<1>6. ASSUME NEW a \in Appointment, NEW sl \in Slot, CounterOffer(a, sl)
      PROVE  CalendarStep
  <2> DEFINE s == appt[a].shipment
             C == FlipForAppointments({a})
             R == ClaimsOf(claims, a)
  <2>1. PICK D \in SUBSET Dead : C = claims \ D
    BY FlipForDrops
  <2>2. Release(C, a) = claims \ (D \cup R)
    BY <2>1 DEF Release, ClaimsOf
  <2>3. PICK E \in SUBSET Dead :
            FlipOnInterval(Release(C, a), s, sl, now) = Release(C, a) \ E
    <3>1. Release(C, a) \in SUBSET claims
      BY <2>2
    <3>2. now \in ReadClock /\ TypeOK
      BY NowIsRead DEF StateInv
    <3> HIDE DEF s, C
    <3>3. \E E \in SUBSET Dead :
              FlipOnInterval(Release(C, a), s, sl, now) = Release(C, a) \ E
      BY <3>1, <3>2, FlipDrops
    <3> QED
      BY <3>3
  <2>4. FlipOnInterval(Release(C, a), s, sl, now) = claims \ ((D \cup E) \cup R)
    BY <2>2, <2>3
  <2>5. /\ Admits(claims \ ((D \cup E) \cup R), s, sl) /\ now' = now
        /\ claims' = (claims \ ((D \cup E) \cup R)) \cup {BookedRow(a, s, sl)}
    BY <1>6, <2>4 DEF CounterOffer
  <2>6. s \in Shipment
    BY <1>6, PendingIsActive, ActiveIsLive DEF CounterOffer, StateInv, LiveRow
  <2>7. \A r \in R : r.shipment = s
    BY BookedForShipment
  <2>8. D \cup E \in SUBSET Dead
    OBVIOUS
  <2> HIDE DEF s
  <2> QED
    BY <2>5, <2>6, <2>7, <2>8, BookStep
<1> QED
  BY <1>2, <1>3, <1>4, <1>5, <1>6 DEF Decide

\* The moving appointment of a reschedule: it is its shipment's, and active.
LEMMA MovingType ==
    ASSUME StateInv, NEW s \in Shipment, MayMove(s)
    PROVE  LET a == resched[s].appointment IN
           /\ a \in Appointment /\ resched[s].target \in Slot
           /\ Active(a) /\ appt[a].slot \in Slot
           /\ \A r \in ClaimsOf(claims, a) : r.shipment = s
<1> DEFINE a == resched[s].appointment
<1>1. a \in Appointment /\ resched[s].target \in Slot /\ Active(a)
  BY CheckedType DEF MayMove, StateInv
<1>2. appt[a].slot \in Slot
  BY <1>1, ActiveIsLive DEF LiveRow, StateInv
<1>3. resched[s] # NoReschedule
  BY DEF MayMove, NoReschedule
<1>4. appt[a].shipment = s
  BY <1>3 DEF StateInv, InFlight
<1> HIDE DEF a
<1>5. \A r \in ClaimsOf(claims, a) : r.shipment = s
  BY <1>1, <1>4, BookedForShipment
<1> QED
  BY <1>1, <1>2, <1>5 DEF a

\* The put-back of the claim that was released for a move: the new hold
\* stays beside it, unless it was dead already when the claim was put back.
LEMMA PutBackStep ==
    ASSUME StateInv, NEW D \in SUBSET Dead, NEW a \in Appointment,
           NEW s \in Shipment, NEW sl \in Slot, NEW q \in Slot,
           NEW t \in ReadClock, NEW C, NEW h,
           C = claims \ (D \cup ClaimsOf(claims, a)),
           h = HeldRow(s, sl, t + HeldTTL),
           ClaimsOf(claims, a) # {},
           \A r \in ClaimsOf(claims, a) : r.shipment = s,
           Admits(C, s, sl), Reclaim(C \cup {h}, a, s, q), now' = now
    PROVE  CalendarStep
<1> DEFINE R == ClaimsOf(claims, a)
           F == FlipOnInterval(C \cup {h}, s, q, now)
           L == C \ F
           G == (D \cup L) \cup R
<1>1. ClaimsOf(C \cup {h}, a) = {}
  <2>1. h.appointment # a
    BY DataAssumption DEF HeldRow
  <2> QED
    BY <2>1 DEF ClaimsOf
<1>2. Admits(F, s, q) /\ claims' = F \cup {BookedRow(a, s, q)}
  BY <1>1 DEF Reclaim
<1>3. F \subseteq C \cup {h} /\ \A c \in C : c \notin F => LapsedBy(c, now)
  BY DEF FlipOnInterval
<1>4. L \in SUBSET Dead
  BY <1>3 DEF Dead
<1>5. D \cup L \in SUBSET Dead
  BY <1>4
<1>6. claims \ G = C \ L /\ Admits(C \ L, s, sl)
  <2>1. C \ L \in SUBSET C
    OBVIOUS
  <2>2. claims \ G = C \ L
    OBVIOUS
  <2> HIDE DEF L, G
  <2> QED
    BY <2>1, <2>2, AdmitsFewer
<1>7. CASE h \in F
  <2>1. F = (claims \ G) \cup {h}
    BY <1>3, <1>6, <1>7
  <2>2. G = (D \cup L) \cup R
    OBVIOUS
  <2> HIDE DEF F, L, G
  <2> QED
    BY <1>2, <1>5, <1>6, <2>1, <2>2, ReserveMovingStep DEF R
<1>8. CASE h \notin F
  <2>1. F = claims \ ((D \cup L) \cup R)
    BY <1>3, <1>6, <1>8
  <2> HIDE DEF F, L, G
  <2> QED
    BY <1>2, <1>5, <2>1, BookStep DEF R
<1> QED
  BY <1>7, <1>8

\* A claim is taken for an appointment that may have it already.
LEMMA ReclaimStep ==
    ASSUME StateInv, NEW a \in Appointment, NEW s \in Shipment,
           NEW sl \in Slot, Reclaim(claims, a, s, sl), now' = now
    PROVE  CalendarStep
<1> DEFINE R == ClaimsOf(claims, a)
           D == claims \ FlipOnInterval(claims, s, sl, now)
<1>1. D \in SUBSET Dead /\ FlipOnInterval(claims, s, sl, now) = claims \ D
  BY DEF FlipOnInterval, Dead
<1>2. CASE R # {}
  <2>1. claims' = claims \ D
    BY <1>1, <1>2 DEF Reclaim
  <2> HIDE DEF D
  <2> QED
    BY <1>1, <2>1, TidyStep
<1>3. CASE R = {}
  <2>1. /\ Admits(claims \ D, s, sl)
        /\ claims' = (claims \ D) \cup {BookedRow(a, s, sl)}
    BY <1>1, <1>3 DEF Reclaim
  <2>2. claims \ D = claims \ (D \cup ClaimsOf(claims, a))
    BY <1>3
  <2>3. \A r \in ClaimsOf(claims, a) : r.shipment = s
    BY <1>3
  <2> HIDE DEF D
  <2> QED
    BY <1>1, <2>1, <2>2, <2>3, BookStep
<1> QED
  BY <1>2, <1>3

LEMMA RescheduleSteps == ASSUME StateInv, Reschedule PROVE CalendarStep
<1>1. ASSUME NEW s \in Shipment, NEW t \in ReadClock, NEW b \in Appointment,
             RescheduleMove(s, t, b)
      PROVE  CalendarStep
  <2> DEFINE a == resched[s].appointment
             sl == resched[s].target
  <2>1. MayMove(s)
    BY <1>1 DEF RescheduleMove
  <2>2. /\ a \in Appointment /\ sl \in Slot
        /\ \A r \in ClaimsOf(claims, a) : r.shipment = s
    BY <2>1, MovingType
  <2>3. ClaimsOf(claims, b) = {}
    BY <1>1, InactiveClaimless
       DEF RescheduleMove, Fresh, Active, ActiveStatus, StateInv
  <2>4. /\ Admits(Release(claims, a), s, sl) /\ now' = now
        /\ claims' = Release(claims, a) \cup {BookedRow(b, s, sl)}
    BY <1>1 DEF RescheduleMove
  <2>5. /\ {} \in SUBSET Dead
        /\ Release(claims, a) = claims \ ({} \cup ClaimsOf(claims, a))
    BY DEF Release
  <2> HIDE DEF a, sl
  <2> QED
    BY <2>2, <2>3, <2>4, <2>5, BookStep
<1>2. ASSUME NEW s \in Shipment, NEW t \in ReadClock, RescheduleToHold(s, t)
      PROVE  CalendarStep
  <2> DEFINE a == resched[s].appointment
             sl == resched[s].target
             C == FlipOnInterval(Release(claims, a), s, sl, t)
             D == Release(claims, a) \ C
             R == ClaimsOf(claims, a)
             h == HeldRow(s, sl, t + HeldTTL)
  <2>1. MayMove(s) /\ now' = now /\ Admits(C, s, sl) /\ PutBack(C \cup {h}, a, s)
    BY <1>2 DEF RescheduleToHold
  <2>2. /\ a \in Appointment /\ sl \in Slot /\ appt[a].slot \in Slot
        /\ \A r \in R : r.shipment = s
    BY <2>1, MovingType
  <2>3. D \in SUBSET Dead
    BY LapsedIsDead DEF FlipOnInterval, Release, StateInv
  <2>4. C = claims \ (D \cup R)
    BY DEF FlipOnInterval, Release
  <2>5. CASE R = {}
    <3>1. claims' = C \cup {h} /\ C = claims \ D
      BY <2>1, <2>4, <2>5 DEF PutBack
    <3> HIDE DEF C, D, a, sl
    <3> QED
      BY <2>1, <2>2, <2>3, <3>1, ReserveStep
  <2>6. CASE R # {}
    <3>1. Reclaim(C \cup {h}, a, s, appt[a].slot)
      BY <2>1, <2>6 DEF PutBack
    <3>2. h = HeldRow(s, sl, t + HeldTTL)
      OBVIOUS
    <3> HIDE DEF C, D, a, sl, h
    <3> QED
      BY <2>1, <2>2, <2>3, <2>4, <2>6, <3>1, <3>2, PutBackStep
  <2> QED
    BY <2>5, <2>6
<1>3. ASSUME NEW s \in Shipment, RescheduleRestore(s)
      PROVE  CalendarStep
  <2>1. /\ resched[s].appointment \in Appointment
        /\ resched[s].slot \in Slot
    BY <1>3, CollidedType DEF RescheduleRestore, StateInv
  <2> QED
    BY <1>3, <2>1, ReclaimStep, NothingHappens DEF RescheduleRestore, RestoreClaim
<1>4. ASSUME NEW s \in Shipment, NEW t \in ReadClock, RescheduleCollide(s, t)
      PROVE  CalendarStep
  BY <1>4, NothingHappens DEF RescheduleCollide
<1>5. ASSUME NEW s \in Shipment, RescheduleDrop(s)
      PROVE  CalendarStep
  BY <1>5, NothingHappens DEF RescheduleDrop
<1>6. ASSUME NEW s \in Shipment, NEW a \in Appointment, NEW sl \in Slot,
             ReschedulePrecheck(s, a, sl)
      PROVE  CalendarStep
  BY <1>6, NothingHappens DEF ReschedulePrecheck
<1> QED
  BY <1>1, <1>2, <1>3, <1>4, <1>5, <1>6 DEF Reschedule

LEMMA SweepSteps == ASSUME StateInv, Sweep PROVE CalendarStep
<1>1. ASSUME NEW w \in Sweeper, NEW a \in Appointment, SweepExpire(w, a)
      PROVE  CalendarStep
  BY <1>1, ReleaseStep DEF SweepExpire
<1>2. ASSUME NEW w \in Sweeper, NEW D \in SUBSET claims, NEW t \in ReadClock,
             SweepHolds(w, D, t)
      PROVE  CalendarStep
  <2>1. D \in SUBSET Dead
    BY <1>2, LapsedIsDead DEF SweepHolds, StateInv
  <2> QED
    BY <1>2, <2>1, TidyStep DEF SweepHolds
<1> QED
  BY <1>1, <1>2, NothingHappens
     DEF Sweep, SweepRun, SweepScan, SweepSkip, SweepAbort

-----------------------------------------------------------------------------
(* The start, and the refinement.                                           *)

LEMMA CalendarStart == ASSUME Init, TypeOK, ClaimsHaveOwners, DockExclusive
                       PROVE  Calendar!Init
<1>1. PICK B \in SUBSET Seeded :
          claims = {BookedRow(a, SeedShipment[a], SeedSlot[a]) : a \in B}
  BY DEF Init
<1>2. \A c \in claims : c.state # "HELD"
  BY <1>1 DEF BookedRow
<1>3. CalendarHolds = {} /\ now = 0
  BY <1>2 DEF CalendarHolds, Init
<1>4. CalendarBookings = {BookingOf(c) : c \in claims}
  BY <1>2 DEF CalendarBookings, BookingOf
<1>5. \A c \in claims : BookingOf(c) \in Calendar!Booking
  <2>1. \A c \in claims : /\ c.appointment \in Appointment
                          /\ c.shipment \in Shipment /\ c.slot \in Slot
    BY <1>2 DEF TypeOK, ClaimRow
  <2> QED
    BY <2>1 DEF BookingOf, PlaceOf, Calendar!Booking
<1>6. ASSUME NEW c \in claims, NEW d \in claims, BookingOf(c) # BookingOf(d)
      PROVE  /\ <<BookingOf(c).place, BookingOf(d).place>> \notin ClashingPlaces
             /\ BookingOf(c).owner # BookingOf(d).owner
  <2>1. c # d
    BY <1>6
  <2>2. ~ Overlap(c.shipment, c.slot, d.shipment, d.slot)
    BY <2>1 DEF DockExclusive
  <2>3. c.appointment # d.appointment
    BY <1>2, <2>1 DEF ClaimsHaveOwners, ClaimsOf
  <2> QED
    BY <2>2, <2>3 DEF BookingOf, PlaceOf, ClashingPlaces
<1> QED
  BY <1>3, <1>4, <1>5, <1>6 DEF Calendar!Init

LEMMA EveryStep ==
    ASSUME StateInv, [Next]_vars
    PROVE  CalendarStep
<1>1. CASE UNCHANGED vars
  BY <1>1, NothingHappens DEF vars
<1>2. CASE Tick
  BY <1>2, TickStep DEF Tick, StateInv
<1> QED
  BY <1>1, <1>2, RequestSteps, DecideSteps, RescheduleSteps, SweepSteps DEF Next

\* Every step of every handler is a step of the dock calendar: no live hold
\* is displaced or booked by anyone but its own confirmation, and nothing is
\* entered over a live entry, whatever collides, lapses or is restored
\* (allocation.py, holds.py, expiry.py).
THEOREM CoreKeepsCalendar == Spec => ImplementsCalendar
<1>1. Init => Calendar!Init
  BY CalendarStart, InitTypeInv, InitOwned, InitExclusive DEF TypeInv
<1>2. StateInv /\ [Next]_vars => [Calendar!Next]_(Calendar!cvars)
  BY EveryStep DEF CalendarStep, Calendar!cvars
<1>3. OwnerInv /\ DockExclusive => StateInv
  BY DEF OwnerInv, TypeInv, StateInv
<1> QED
  BY <1>1, <1>2, <1>3, OwnerInvariant, DockIsExclusive, PTL
     DEF Spec, ImplementsCalendar, Calendar!Spec
=============================================================================
