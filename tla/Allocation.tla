----------------------------- MODULE Allocation -----------------------------
(***************************************************************************)
(* The booking core of SetuHaul: the life of an appointment and of the     *)
(* dock_occupancy row that reserves its interval, from the driver's        *)
(* request (scheduling/allocation.py, scheduling/holds.py) to the          *)
(* planner's decision or the expiry sweeper's (scheduling/expiry.py).      *)
(*                                                                         *)
(* A handler that locks its rows, reads them under the lock and commits    *)
(* once is one action, its constraints judged at the commit.  A handler    *)
(* that lets go of its locks, or acts on what it read without one, has an  *)
(* action for each part: the two parts of a sweep, and the pre-check, the  *)
(* rollback and the restore of a reschedule.                               *)
(***************************************************************************)
EXTENDS Integers, FiniteSets

CONSTANTS
    Shipment, Slot, Dock, Appointment,  \* the ids of four tables
    Sweeper,                        \* expiry sweeps that may overlap
    None,                           \* SQL NULL in a reference column
    DockOf, StartOf,                \* appointment_slots.dock_id, slot_start_ts
    UnloadMin,                      \* shipments.expected_unload_min
    Buffer,                         \* the changeover buffer of a claim's window
    PendingTTL, HeldTTL,            \* D9's 15 minutes and D2's 90 seconds
    BatchLimit,                     \* rows one sweep takes
    TwoPhase,                       \* settings.two_phase_hold_enabled
    Seeded,                         \* appointments older than dock_occupancy
    SeedStatus, SeedShipment, SeedSlot,
    MaxReschedules,                 \* bound: reschedules in flight at once
    MaxLag,                         \* bound: age of a clock read before a lock
    LastRequest,                    \* bound: the last instant of a new request
    MaxTime                         \* bound: the clock stops here

ActiveStatus == {"PENDING_CONFIRMATION", "CONFIRMED"}
NoDeadline == -1                    \* SQL NULL in an expires_at column

ASSUME DataAssumption ==
    /\ DockOf \in [Slot -> Dock]
    /\ StartOf \in [Slot -> Nat]
    /\ UnloadMin \in [Shipment -> Nat]
    /\ Buffer \in Nat \ {0}
    /\ None \notin Shipment \cup Slot \cup Appointment

ASSUME SettingsAssumption ==
    /\ PendingTTL \in Nat /\ HeldTTL \in Nat \ {0}
    /\ BatchLimit \in Nat \ {0}
    /\ TwoPhase \in BOOLEAN
    /\ MaxReschedules \in Nat /\ MaxLag \in Nat
    /\ LastRequest \in Nat /\ MaxTime \in Nat

\* The unique indexes already stood when the appointments of Seeded were made.
ASSUME SeedAssumption ==
    /\ Seeded \subseteq Appointment
    /\ SeedStatus \in [Seeded -> ActiveStatus]
    /\ SeedShipment \in [Seeded -> Shipment]
    /\ SeedSlot \in [Seeded -> Slot]
    /\ \A a, b \in Seeded : a # b => /\ SeedShipment[a] # SeedShipment[b]
                                     /\ SeedSlot[a] # SeedSlot[b]

VARIABLES
    now,            \* the clock every handler reads
    appt,           \* appointments
    claims,         \* dock_occupancy, the rows in a capacity-consuming state
    todo,           \* for each sweep, the candidates it has yet to visit
    resched,        \* for each shipment, a reschedule between transactions
    outbox,         \* notification_outbox, by event and subject
    escalations,    \* appointments with a PENDING_EXPIRED_UNACTIONED row
    reopened        \* history: appointments whose decision a restore undid

vars == <<now, appt, claims, todo, resched, outbox, escalations, reopened>>

-----------------------------------------------------------------------------
(* Rows.                                                                    *)

DecidedStatus == {"CONFIRMED", "REJECTED", "EXPIRED", "CANCELLED"}
Status == ActiveStatus \cup DecidedStatus

Absent == [status |-> "NONE", shipment |-> None, slot |-> None,
           bookedAt |-> 0, expiresAt |-> NoDeadline]

AppointmentRow == {Absent} \cup
    [status : Status, shipment : Shipment, slot : Slot,
     bookedAt : Nat, expiresAt : Nat \cup {NoDeadline}]

Requested(s, sl, t) ==
    [status |-> "PENDING_CONFIRMATION", shipment |-> s, slot |-> sl,
     bookedAt |-> t, expiresAt |-> NoDeadline]

\* dock_occupancy_held_shape_check: a HELD row has a deadline and no
\* appointment, any other row an appointment and no deadline.  A row leaves
\* claims when it is deleted and when it turns EXPIRED: the exclusion
\* constraint and every read ignore it from then on.
HeldRowWithoutDeadline(s, sl, e) ==     \* mutant of HeldRow
    [state |-> "HELD", shipment |-> s, slot |-> sl,
     appointment |-> None, expiresAt |-> NoDeadline]

HeldRow(s, sl, e) ==
    [state |-> "HELD", shipment |-> s, slot |-> sl,
     appointment |-> None, expiresAt |-> e]

BookedRow(a, s, sl) ==
    [state |-> "PENDING_CONFIRMATION", shipment |-> s, slot |-> sl,
     appointment |-> a, expiresAt |-> NoDeadline]

ClaimRow ==
    [state : {"HELD"}, shipment : Shipment, slot : Slot,
     appointment : {None}, expiresAt : Nat]
    \cup
    [state : {"PENDING_CONFIRMATION"}, shipment : Shipment, slot : Slot,
     appointment : Appointment, expiresAt : {NoDeadline}]

\* The events the booking core enqueues notifications for.
Event == {"APPOINTMENT_CONFIRMED", "APPOINTMENT_REJECTED",
          "APPOINTMENT_CANCELLED", "PENDING_EXPIRED", "HOLD_LAPSED"}

NoReschedule == [stage |-> "idle"]
RescheduleState == {NoReschedule}
    \cup [stage : {"checked"}, appointment : Appointment, target : Slot]
    \cup [stage : {"collided"}, appointment : Appointment,
          status : ActiveStatus, slot : Slot, released : BOOLEAN]

-----------------------------------------------------------------------------
(* Intervals and the constraints PostgreSQL enforces.                       *)

SpanEnd(s, sl) == StartOf[sl] + UnloadMin[s] + Buffer

\* The half-open windows of shipment s at slot sl and of r at rl intersect.
SpansMeet(s, sl, r, rl) ==
    /\ StartOf[sl] < SpanEnd(r, rl)
    /\ StartOf[rl] < SpanEnd(s, sl)

Overlap(s, sl, r, rl) == DockOf[sl] = DockOf[rl] /\ SpansMeet(s, sl, r, rl)

\* EXCLUDE USING gist (dock_id WITH =, window WITH &&): the constraint lets a
\* row for s at sl into C.  It has no time term.
AdmitsOverHolds(C, s, sl) ==            \* mutants of Admits
    \A c \in C : c.state = "HELD" \/ ~ Overlap(c.shipment, c.slot, s, sl)
AdmitsByPublishedSlot(C, s, sl) == \A c \in C : c.slot # sl

Admits(C, s, sl) == \A c \in C : ~ Overlap(c.shipment, c.slot, s, sl)

\* The two partial unique indexes on appointments, with a itself left out.
ShipmentFree(s, a) ==
    \A b \in Appointment \ {a} :
        appt[b].status \in ActiveStatus => appt[b].shipment # s
SlotFree(sl, a) ==
    \A b \in Appointment \ {a} :
        appt[b].status \in ActiveStatus => appt[b].slot # sl

Active(a) == appt[a].status \in ActiveStatus
Pending(a) == appt[a].status = "PENDING_CONFIRMATION"
Fresh(a) == appt[a].status = "NONE"
ClaimsOf(C, a) == {c \in C : c.appointment = a}

\* _release_dock_occupancy
ReleaseSkipped(C, a) == C               \* mutant of Release
Release(C, a) == C \ ClaimsOf(C, a)

LapsedStrictly(c, t) ==                 \* mutant of LapsedBy
    c.state = "HELD" /\ c.expiresAt < t
LapsedBy(c, t) == c.state = "HELD" /\ c.expiresAt <= t

\* expire_lapsed_holds_on_interval: a claim first expires the dead holds in
\* its way.  Reached only when hold_reads_enabled.
FlipWhateverTheDeadline(C, s, sl, t) == \* mutant of FlipOnInterval
    {c \in C : ~ /\ TwoPhase
                 /\ c.state = "HELD"
                 /\ Overlap(c.shipment, c.slot, s, sl)}

FlipOnInterval(C, s, sl, t) ==
    {c \in C : ~ /\ TwoPhase
                 /\ LapsedBy(c, t)
                 /\ Overlap(c.shipment, c.slot, s, sl)}

\* live_blocking_occupancy_sql: what a read counts as taking capacity.
LiveBlocking(C, t) ==
    {c \in C : c.state = "HELD" => c.expiresAt > t}

\* find_feasible_slots and explain_slot_eligibility, on the rows of C: the
\* slot has no active appointment and, with the flag, no live claim over it.
Offered(C, s, sl) ==
    /\ SlotFree(sl, None)
    /\ TwoPhase => Admits(LiveBlocking(C, now), s, sl)

\* The target CTE: the dock is the appointment's slot's, the window its
\* claim's when it has one.
WindowSlots(a) ==
    IF ClaimsOf(claims, a) = {} THEN {appt[a].slot}
                                ELSE {c.slot : c \in ClaimsOf(claims, a)}

Meets(a, c) ==
    /\ DockOf[c.slot] = DockOf[appt[a].slot]
    /\ \E sl \in WindowSlots(a) :
           SpansMeet(c.shipment, c.slot, appt[a].shipment, sl)

\* expire_lapsed_holds_for_appointments
FlipForAppointments(A) ==
    {c \in claims : ~ /\ TwoPhase
                      /\ LapsedBy(c, now)
                      /\ \E a \in A : Meets(a, c)}

\* The interval-conflict half of displacement_conflicts, on the rows of C.
Displaces(C, a) ==
    {c \in C : /\ c.appointment # a
               /\ Meets(a, c)
               /\ c.state = "HELD" => TwoPhase}

\* Handlers read the clock before they wait for their first lock.
ReadClock == {t \in 0..now : now - t <= MaxLag}

SetStatus(a, st) == [appt EXCEPT ![a].status = st]

-----------------------------------------------------------------------------
(* The start: the appointments made before dock_occupancy existed, and the *)
(* backfill that gave each one its claim unless an earlier row of its scan *)
(* stood in the way.                                                        *)

SeedRow(a) ==
    [Requested(SeedShipment[a], SeedSlot[a], 0) EXCEPT !.status = SeedStatus[a]]

SeedsOverlap(a, b) ==
    Overlap(SeedShipment[a], SeedSlot[a], SeedShipment[b], SeedSlot[b])

Backfilled(B) ==
    /\ \A a, b \in B : a # b => ~ SeedsOverlap(a, b)
    /\ \A a \in Seeded \ B : \E b \in B : SeedsOverlap(a, b)

Init ==
    /\ now = 0
    /\ appt = [a \in Appointment |-> IF a \in Seeded THEN SeedRow(a) ELSE Absent]
    /\ \E B \in SUBSET Seeded :
           /\ Backfilled(B)
           /\ claims = {BookedRow(a, SeedShipment[a], SeedSlot[a]) : a \in B}
    /\ todo = [w \in Sweeper |-> {}]
    /\ resched = [s \in Shipment |-> NoReschedule]
    /\ outbox = {}
    /\ escalations = {}
    /\ reopened = {}

-----------------------------------------------------------------------------
(* The driver's requests.  Stage 1's other verdicts (ETA, opening hours,   *)
(* dock type and weight, dock events) and the snapshot hash may refuse any *)
(* of them: a refusal changes no row of this module and is no step.         *)

\* The guards request_slot and its nested call by a reschedule share, with
\* appointment a (None: none) already out of the way.
SlotGranted(s, sl, a) == ShipmentFree(s, a) /\ SlotFree(sl, a)

\* request_slot with the setting two_phase_hold_enabled on, its default: no
\* appointment yet, only a hold of the interval.  It answers SLOT_HELD.
RequestHold(s, sl, t) ==
    LET C == FlipOnInterval(claims, s, sl, t)
    IN  /\ TwoPhase
        /\ now <= LastRequest
        /\ SlotGranted(s, sl, None)
        /\ Admits(C, s, sl)
        /\ claims' = C \cup {HeldRow(s, sl, t + HeldTTL)}
        /\ UNCHANGED <<now, appt, todo, resched, outbox, escalations, reopened>>

\* request_slot with the setting off: appointment and claim in one
\* transaction.  It answers SLOT_REQUESTED.
RequestDirect(s, sl, t, a) ==
    /\ ~ TwoPhase
    /\ now <= LastRequest
    /\ Fresh(a)
    /\ SlotGranted(s, sl, None)
    /\ Admits(claims, s, sl)
    /\ appt' = [appt EXCEPT ![a] = Requested(s, sl, t)]
    /\ claims' = claims \cup {BookedRow(a, s, sl)}
    /\ UNCHANGED <<now, todo, resched, outbox, escalations, reopened>>

ConfirmLapsedHold(c, t, a) ==           \* mutant of ConfirmHeld
    /\ now <= LastRequest
    /\ c \in claims
    /\ c.state = "HELD"
    /\ Fresh(a)
    /\ SlotGranted(c.shipment, c.slot, None)
    /\ appt' = [appt EXCEPT ![a] = Requested(c.shipment, c.slot, t)]
    /\ claims' = (claims \ {c}) \cup {BookedRow(a, c.shipment, c.slot)}
    /\ UNCHANGED <<now, todo, resched, outbox, escalations, reopened>>

\* confirm_held_slot: the hold's row becomes the claim of a new appointment.
ConfirmHeld(c, t, a) ==
    /\ now <= LastRequest
    /\ c \in claims
    /\ c.state = "HELD" /\ c.expiresAt > t
    /\ Fresh(a)
    /\ SlotGranted(c.shipment, c.slot, None)
    /\ appt' = [appt EXCEPT ![a] = Requested(c.shipment, c.slot, t)]
    /\ claims' = (claims \ {c}) \cup {BookedRow(a, c.shipment, c.slot)}
    /\ UNCHANGED <<now, todo, resched, outbox, escalations, reopened>>

\* confirm_held_slot when Stage 1 fails on the locked hold: it is given up.
ConfirmHeldInfeasible(c, t) ==
    /\ c \in claims
    /\ c.state = "HELD" /\ c.expiresAt > t
    /\ claims' = claims \ {c}
    /\ UNCHANGED <<now, appt, todo, resched, outbox, escalations, reopened>>

\* cancel_appointment: the driver's or the planner's.
Cancel(a) ==
    /\ Active(a)
    /\ appt' = SetStatus(a, "CANCELLED")
    /\ claims' = Release(claims, a)
    /\ outbox' = outbox \cup {<<"APPOINTMENT_CANCELLED", a>>}
    /\ UNCHANGED <<now, todo, resched, escalations, reopened>>

-----------------------------------------------------------------------------
(* The planner's decisions, each under the appointment's row lock.          *)

\* confirm_appointment: refused on displacement, which the read judges after
\* it expired the dead holds over the interval.
Confirm(a) ==
    LET C == FlipForAppointments({a})
    IN  /\ Pending(a)
        /\ Displaces(C, a) = {}
        /\ appt' = SetStatus(a, "CONFIRMED")
        /\ claims' = C
        /\ outbox' = outbox \cup {<<"APPOINTMENT_CONFIRMED", a>>}
        /\ UNCHANGED <<now, todo, resched, escalations, reopened>>

\* bulk_confirm on the existing appointments A: those of E are pending and
\* pass the other four safe-batch predicates.  One commit carries them all.
BulkConfirm(A, E) ==
    LET C == FlipForAppointments(A)
        done == {a \in E : Displaces(C, a) = {}}
    IN  /\ appt' = [a \in Appointment |->
                       IF a \in done THEN [appt[a] EXCEPT !.status = "CONFIRMED"]
                                     ELSE appt[a]]
        /\ claims' = C
        /\ outbox' = outbox \cup {<<"APPOINTMENT_CONFIRMED", a>> : a \in done}
        /\ UNCHANGED <<now, todo, resched, escalations, reopened>>

\* _ops_pending_transition, behind reject_appointment and expire_appointment.
OpsTransition(a, target, event) ==
    /\ Pending(a)
    /\ appt' = SetStatus(a, target)
    /\ claims' = Release(claims, a)
    /\ outbox' = outbox \cup {<<event, a>>}
    /\ UNCHANGED <<now, todo, resched, escalations, reopened>>

Reject(a) == OpsTransition(a, "REJECTED", "APPOINTMENT_REJECTED")
ManualExpireMistold(a) ==               \* mutant of ManualExpire
    OpsTransition(a, "EXPIRED", "APPOINTMENT_REJECTED")
ManualExpire(a) == OpsTransition(a, "EXPIRED", "PENDING_EXPIRED")

HoldAgainForInformation(a) ==           \* mutant of HoldForInformation
    /\ now <= LastRequest
    /\ Pending(a)
    /\ appt' = [appt EXCEPT ![a].expiresAt = now + PendingTTL]
    /\ UNCHANGED <<now, claims, todo, resched, outbox, escalations, reopened>>

\* hold_for_information: a deadline in expires_at marks the one extension.
HoldForInformation(a) ==
    /\ now <= LastRequest
    /\ Pending(a)
    /\ appt[a].expiresAt = NoDeadline
    /\ appt' = [appt EXCEPT ![a].expiresAt = now + PendingTTL]
    /\ UNCHANGED <<now, claims, todo, resched, outbox, escalations, reopened>>

CounterOfferKeepingClaim(a, sl) ==      \* mutant of CounterOffer
    /\ Pending(a)
    /\ Displaces(FlipForAppointments({a}), a) = {}
    /\ sl # appt[a].slot
    /\ Offered(claims, appt[a].shipment, sl)
    /\ appt' = [appt EXCEPT ![a].slot = sl]
    /\ UNCHANGED <<now, claims, todo, resched, outbox, escalations, reopened>>

\* counter_offer: a moves to sl and stays pending, its D9 clock untouched.
CounterOffer(a, sl) ==
    LET s == appt[a].shipment
        C == FlipForAppointments({a})
        D == FlipOnInterval(Release(C, a), s, sl, now)
    IN  /\ Pending(a)
        /\ Displaces(C, a) = {}
        /\ sl # appt[a].slot
        /\ Offered(Release(claims, a), s, sl)
        /\ Admits(D, s, sl)
        /\ appt' = [appt EXCEPT ![a].slot = sl]
        /\ claims' = D \cup {BookedRow(a, s, sl)}
        /\ UNCHANGED <<now, todo, resched, outbox, escalations, reopened>>

-----------------------------------------------------------------------------
(* reschedule_appointment.  The pre-check reads without a lock; the move    *)
(* then runs under the appointment's lock, with request_slot nested in it.  *)
(* When the nested claim collides, request_slot rolls the whole transaction *)
(* back, the lock with it, and reschedule_appointment goes on to its        *)
(* restore in a new transaction.  At most one per shipment is in flight, and *)
(* MaxReschedules in all (bounds).                                          *)

\* (For an appointment no longer active the lock refuses whatever it found.)
ReschedulePrecheck(s, a, sl) ==
    /\ now <= LastRequest
    /\ resched[s] = NoReschedule
    /\ Cardinality({r \in Shipment : resched[r] # NoReschedule}) < MaxReschedules
    /\ Active(a) /\ appt[a].shipment = s
    /\ Offered(claims, s, sl)
    /\ resched' = [resched EXCEPT ![s] =
                      [stage |-> "checked", appointment |-> a, target |-> sl]]
    /\ UNCHANGED <<now, appt, claims, todo, outbox, escalations, reopened>>

\* Under the lock: the old appointment is still active.
MayMove(s) ==
    /\ now <= LastRequest
    /\ resched[s].stage = "checked"
    /\ Active(resched[s].appointment)

RescheduleMove(s, t, b) ==
    LET a == resched[s].appointment
        sl == resched[s].target
        C == Release(claims, a)
    IN  /\ ~ TwoPhase
        /\ MayMove(s)
        /\ Fresh(b)
        /\ SlotGranted(s, sl, a)
        /\ Admits(C, s, sl)
        /\ appt' = [appt EXCEPT ![a].status = "CANCELLED",
                                ![b] = Requested(s, sl, t)]
        /\ claims' = C \cup {BookedRow(b, s, sl)}
        /\ resched' = [resched EXCEPT ![s] = NoReschedule]
        /\ UNCHANGED <<now, todo, outbox, escalations, reopened>>

\* _claim_dock_occupancy on the rows of C: lazy expiry, then the row unless
\* the appointment has one.
Reclaim(C, a, s, sl) ==
    LET D == FlipOnInterval(C, s, sl, now)
    IN  IF ClaimsOf(C, a) # {}
        THEN claims' = D
        ELSE /\ Admits(D, s, sl)
             /\ claims' = D \cup {BookedRow(a, s, sl)}

\* The claim released for the move is taken back, if there was one.
PutBack(C, a, s) ==
    IF ClaimsOf(claims, a) = {} THEN claims' = C
                                ELSE Reclaim(C, a, s, appt[a].slot)

\* The nested request_slot answers SLOT_HELD, which is not SLOT_REQUESTED:
\* the old appointment is restored, and the new hold stays beside it.
RescheduleToHold(s, t) ==
    LET a == resched[s].appointment
        sl == resched[s].target
        C == FlipOnInterval(Release(claims, a), s, sl, t)
        H == C \cup {HeldRow(s, sl, t + HeldTTL)}
    IN  /\ TwoPhase
        /\ MayMove(s)
        /\ SlotGranted(s, sl, a)
        /\ Admits(C, s, sl)
        /\ PutBack(H, a, s)
        /\ resched' = [resched EXCEPT ![s] = NoReschedule]
        /\ UNCHANGED <<now, appt, todo, outbox, escalations, reopened>>

\* The nested insert violates the exclusion constraint: session.rollback().
RescheduleCollide(s, t) ==
    LET a == resched[s].appointment
        sl == resched[s].target
        C == FlipOnInterval(Release(claims, a), s, sl, t)
    IN  /\ MayMove(s)
        /\ SlotGranted(s, sl, a)
        /\ ~ Admits(C, s, sl)
        /\ resched' = [resched EXCEPT ![s] =
               [stage |-> "collided", appointment |-> a,
                status |-> appt[a].status, slot |-> appt[a].slot,
                released |-> ClaimsOf(claims, a) # {}]]
        /\ UNCHANGED <<now, appt, claims, todo, outbox, escalations, reopened>>

RestoreAnyClaim(s) ==                   \* mutant of RestoreClaim
    Reclaim(claims, resched[s].appointment, s, resched[s].slot)

RestoreClaim(s) ==
    IF resched[s].released
    THEN Reclaim(claims, resched[s].appointment, s, resched[s].slot)
    ELSE UNCHANGED claims

\* The restore, with no look at what the row has become since the rollback.
\* A constraint it violates fails the request (RescheduleDrop).
RescheduleRestore(s) ==
    LET r == resched[s]
        a == r.appointment
    IN  /\ r.stage = "collided"
        /\ ShipmentFree(s, a) /\ SlotFree(appt[a].slot, a)
        /\ appt' = SetStatus(a, r.status)
        /\ RestoreClaim(s)
        /\ reopened' = IF appt[a].status = r.status THEN reopened
                                                    ELSE reopened \cup {a}
        /\ resched' = [resched EXCEPT ![s] = NoReschedule]
        /\ UNCHANGED <<now, todo, outbox, escalations>>

\* A refusal at any point (the locked checks of request_slot among them:
\* their restore is in the same transaction), a failed restore, a crash.
RescheduleDrop(s) ==
    /\ resched[s] # NoReschedule
    /\ resched' = [resched EXCEPT ![s] = NoReschedule]
    /\ UNCHANGED <<now, appt, claims, todo, outbox, escalations, reopened>>

-----------------------------------------------------------------------------
(* The expiry sweep.                                                        *)

OverdueAtDeadline(a) ==                 \* mutants of Overdue
    /\ Pending(a)
    /\ IF appt[a].expiresAt # NoDeadline
       THEN appt[a].expiresAt <= now
       ELSE appt[a].bookedAt <= now - PendingTTL
OverdueUnlessHeld(a) ==
    /\ Pending(a)
    /\ appt[a].expiresAt = NoDeadline
    /\ appt[a].bookedAt < now - PendingTTL

\* _pending_candidates: a deadline in expires_at outranks the derived one.
Overdue(a) ==
    /\ Pending(a)
    /\ IF appt[a].expiresAt # NoDeadline
       THEN appt[a].expiresAt < now
       ELSE appt[a].bookedAt < now - PendingTTL

SortKey(a) == IF appt[a].expiresAt # NoDeadline THEN appt[a].expiresAt
                                                ELSE appt[a].bookedAt

OldestFirst(batch, all) ==
    /\ batch \subseteq all
    /\ Cardinality(batch) <= BatchLimit
    /\ batch # all => Cardinality(batch) = BatchLimit
    /\ \A a \in batch, b \in all \ batch : SortKey(a) <= SortKey(b)

\* The unlocked scan.  A sweep that finds no candidate is done with this leg.
SweepScan(w, batch) ==
    /\ todo[w] = {} /\ batch # {}
    /\ OldestFirst(batch, {a \in Appointment : Overdue(a)})
    /\ todo' = [todo EXCEPT ![w] = batch]
    /\ UNCHANGED <<now, appt, claims, resched, outbox, escalations, reopened>>

SweepExpireUnchecked(w, a) ==           \* mutant of SweepExpire
    /\ a \in todo[w]
    /\ appt' = SetStatus(a, "EXPIRED")
    /\ claims' = Release(claims, a)
    /\ outbox' = outbox \cup {<<"PENDING_EXPIRED", a>>}
    /\ escalations' = escalations \cup {a}
    /\ todo' = [todo EXCEPT ![w] = @ \ {a}]
    /\ UNCHANGED <<now, resched, reopened>>

\* _expire_one_pending: what it checks again under the row lock is the
\* status.  One appointment, one commit.
SweepExpire(w, a) ==
    /\ a \in todo[w]
    /\ Pending(a)
    /\ appt' = SetStatus(a, "EXPIRED")
    /\ claims' = Release(claims, a)
    /\ outbox' = outbox \cup {<<"PENDING_EXPIRED", a>>}
    /\ escalations' = escalations \cup {a}
    /\ todo' = [todo EXCEPT ![w] = @ \ {a}]
    /\ UNCHANGED <<now, resched, reopened>>

\* SKIP LOCKED found the row locked, or the status had changed.
SweepSkip(w, a) ==
    /\ a \in todo[w]
    /\ todo' = [todo EXCEPT ![w] = @ \ {a}]
    /\ UNCHANGED <<now, appt, claims, resched, outbox, escalations, reopened>>

SweepHoldsDisabled(w, D, t) == FALSE     \* mutant of SweepHolds

\* sweep_held_holds, once the candidates are done: the rows of D had lapsed
\* at the sweep's reading t of the clock and no other transaction locks them.
SweepHolds(w, D, t) ==
    /\ TwoPhase
    /\ todo[w] = {} /\ D # {}
    /\ D \subseteq {c \in claims : LapsedBy(c, t)}
    /\ Cardinality(D) <= BatchLimit
    /\ claims' = claims \ D
    /\ outbox' = outbox \cup {<<"HOLD_LAPSED", c.shipment>> : c \in D}
    /\ UNCHANGED <<now, appt, todo, resched, escalations, reopened>>

\* The sweep's process dies between two of its commits.
SweepAbort(w) ==
    /\ todo[w] # {}
    /\ todo' = [todo EXCEPT ![w] = {}]
    /\ UNCHANGED <<now, appt, claims, resched, outbox, escalations, reopened>>

Tick ==
    /\ now < MaxTime
    /\ now' = now + 1
    /\ UNCHANGED <<appt, claims, todo, resched, outbox, escalations, reopened>>

-----------------------------------------------------------------------------
Request ==
    \/ \E s \in Shipment, sl \in Slot, t \in ReadClock : RequestHold(s, sl, t)
    \/ \E s \in Shipment, sl \in Slot, t \in ReadClock, a \in Appointment :
           RequestDirect(s, sl, t, a)
    \/ \E c \in claims, t \in ReadClock, a \in Appointment : ConfirmHeld(c, t, a)
    \/ \E c \in claims, t \in ReadClock : ConfirmHeldInfeasible(c, t)
    \/ \E a \in Appointment : Cancel(a)

Decide ==
    \/ \E a \in Appointment : Confirm(a)
    \/ \E A \in SUBSET {a \in Appointment : ~ Fresh(a)} :
           \E E \in SUBSET {a \in A : Pending(a)} : BulkConfirm(A, E)
    \/ \E a \in Appointment : Reject(a)
    \/ \E a \in Appointment : ManualExpire(a)
    \/ \E a \in Appointment : HoldForInformation(a)
    \/ \E a \in Appointment, sl \in Slot : CounterOffer(a, sl)

Reschedule ==
    \/ \E s \in Shipment, a \in Appointment, sl \in Slot :
           ReschedulePrecheck(s, a, sl)
    \/ \E s \in Shipment, t \in ReadClock, b \in Appointment :
           RescheduleMove(s, t, b)
    \/ \E s \in Shipment, t \in ReadClock : RescheduleToHold(s, t)
    \/ \E s \in Shipment, t \in ReadClock : RescheduleCollide(s, t)
    \/ \E s \in Shipment : RescheduleRestore(s)
    \/ \E s \in Shipment : RescheduleDrop(s)

SweepRun(w) ==
    \/ \E batch \in SUBSET Appointment : SweepScan(w, batch)
    \/ \E a \in Appointment : SweepExpire(w, a)
    \/ \E a \in Appointment : SweepSkip(w, a)
    \/ \E D \in SUBSET claims, t \in ReadClock : SweepHolds(w, D, t)

Sweep ==
    \/ \E w \in Sweeper : SweepRun(w)
    \/ \E w \in Sweeper : SweepAbort(w)

Next == Request \/ Decide \/ Reschedule \/ Sweep \/ Tick

Spec == Init /\ [][Next]_vars

(* EventBridge starts a sweep every minute and a sweep runs to its end      *)
(* (weak fairness).  A row it finds locked is free at some later sweep: no  *)
(* planner's transaction stays open, and none is opened on the same row     *)
(* each time the sweep comes by (strong fairness for each row).             *)
ExpireRow(a) == \E w \in Sweeper : SweepExpire(w, a)

FreeHold(s, sl) ==
    \E w \in Sweeper, D \in SUBSET claims, t \in ReadClock :
        /\ \E c \in D : c.shipment = s /\ c.slot = sl
        /\ SweepHolds(w, D, t)

Fairness ==
    /\ WF_vars(Tick)
    /\ \A w \in Sweeper : WF_vars(SweepRun(w))
    /\ \A a \in Appointment : SF_vars(ExpireRow(a))
    /\ \A s \in Shipment, sl \in Slot : SF_vars(FreeHold(s, sl))

FairSpec == Spec /\ Fairness

-----------------------------------------------------------------------------
(* Safety.                                                                  *)

\* Every variable holds rows of its table's shape; in particular a HELD row
\* has a deadline and no appointment (dock_occupancy_held_shape_check).
TypeOK ==
    /\ now \in Nat
    /\ appt \in [Appointment -> AppointmentRow]
    /\ claims \subseteq ClaimRow
    /\ todo \in [Sweeper -> SUBSET Appointment]
    /\ resched \in [Shipment -> RescheduleState]
    /\ outbox \subseteq Event \X (Appointment \cup Shipment)
    /\ escalations \subseteq Appointment
    /\ reopened \subseteq Appointment

\* A reschedule between its transactions is of an appointment that exists
\* and is its shipment's: what the restore relies on when it writes the row
\* back unread (reschedule_appointment).
InFlight ==
    \A s \in Shipment : resched[s] # NoReschedule =>
        /\ ~ Fresh(resched[s].appointment)
        /\ appt[resched[s].appointment].shipment = s

\* D1: one truck per dock per interval, over holds and bookings together,
\* through every hand-over of a row from a hold to a booking and back
\* (confirm_held_slot, counter_offer, reschedule_appointment).
DockExclusive ==
    \A c, d \in claims :
        c # d => ~ Overlap(c.shipment, c.slot, d.shipment, d.slot)

\* A claim names an appointment that is still active and is its shipment's,
\* and no appointment holds two: no ghost blocks a dock after a cancel,
\* reject or expiry (_release_dock_occupancy).
ClaimsHaveOwners ==
    \A c \in claims : c.state # "HELD" =>
        /\ Active(c.appointment)
        /\ appt[c.appointment].shipment = c.shipment
        /\ ClaimsOf(claims, c.appointment) = {c}

\* No appointment made since dock_occupancy exists is active on a dock
\* interval it does not hold, whichever handler last moved or restored it.
\* Only a restore that undid a decision can leave it holding another one.
ActiveIsProtected ==
    \A a \in Appointment \ Seeded : Active(a) =>
        \E c \in claims : /\ c.appointment = a
                          /\ a \notin reopened => c.slot = appt[a].slot

\* Read and write agree on what a dead hold is (occupancy.py): an interval
\* the reads count as free is one the next claim's insert is admitted to.
ReadWriteAgreement ==
    TwoPhase => \A s \in Shipment, sl \in Slot :
        Admits(LiveBlocking(claims, now), s, sl)
            => Admits(FlipOnInterval(claims, s, sl, now), s, sl)

\* The sweep expires nothing before D9's full window has passed since the
\* booking, however old its scan was when it got to the row.
SweptHadFullTTL ==
    \A a \in escalations : appt[a].bookedAt + PendingTTL < now

\* The driver of an appointment that was confirmed, rejected or expired is
\* sent that very outcome by the transaction that decided it.
OutcomeIsTold ==
    \A a \in Appointment :
        /\ (appt[a].status = "CONFIRMED" /\ a \notin Seeded)
               => <<"APPOINTMENT_CONFIRMED", a>> \in outbox
        /\ appt[a].status = "REJECTED" => <<"APPOINTMENT_REJECTED", a>> \in outbox
        /\ appt[a].status = "EXPIRED" => <<"PENDING_EXPIRED", a>> \in outbox

-----------------------------------------------------------------------------
(* What a step may never do.                                                *)

\* A decision stands: only a reschedule that lost its lock in a collision
\* takes an appointment back from the status a planner, its driver or the
\* sweep gave it.  (A planner's decision is final; a confirmed appointment
\* may still be cancelled.)
ReopenedOnlyByRestore ==
    [][\A a \in Appointment :
          (/\ appt[a].status \in DecidedStatus
           /\ appt'[a].status # appt[a].status
           /\ ~ /\ appt[a].status = "CONFIRMED"
                /\ appt'[a].status = "CANCELLED")
          => \E s \in Shipment : /\ resched[s].stage = "collided"
                                 /\ resched[s].appointment = a
                                 /\ resched[s].status = appt'[a].status]_vars

\* The D9 clock of a request is never restarted, and its deadline is set at
\* most once: neither a counter-offer, nor a second hold for information,
\* nor a restore buys it more time.
ClockNeverRestarts ==
    [][\A a \in Appointment : ~ Fresh(a) =>
          /\ appt'[a].bookedAt = appt[a].bookedAt
          /\ appt[a].expiresAt # NoDeadline
                 => appt'[a].expiresAt = appt[a].expiresAt]_vars

\* A hold turns into a booking of its own shipment and slot, and only while
\* it was live at the clock its confirmation read.
LapsedHoldNeverBooks ==
    [][\A a \in Appointment : (TwoPhase /\ Fresh(a) /\ ~ Fresh(a)') =>
          \E c \in claims : /\ c.state = "HELD"
                            /\ c.shipment = appt'[a].shipment
                            /\ c.slot = appt'[a].slot
                            /\ c.expiresAt > appt'[a].bookedAt
                            /\ c \notin claims']_vars

\* An active appointment that held no claim (the backfill's overlaps) gets
\* one only by moving to another slot: a failed reschedule invents none.
NoInventedClaim ==
    [][\A a \in Appointment :
          (/\ Active(a) /\ ClaimsOf(claims, a) = {}
           /\ ClaimsOf(claims', a) # {})
          => appt'[a].slot # appt[a].slot]_vars

-----------------------------------------------------------------------------
(* Liveness.                                                                *)

\* No request waits for ever: a planner decides it or a sweep expires it.
RequestSettles ==
    \A a \in Appointment : Pending(a) ~> ~ Pending(a)

\* No abandoned hold keeps its dock interval for ever.
HoldEnds ==
    \A s \in Shipment, sl \in Slot :
        (\E c \in claims : c.state = "HELD" /\ c.shipment = s /\ c.slot = sl)
        ~> ~ (\E c \in claims : c.state = "HELD" /\ c.shipment = s /\ c.slot = sl)

-----------------------------------------------------------------------------
(* What the repository says of these handlers, and the code does not do.    *)

\* expiry.py:19-21, "exactly one commits, and the loser gets ALREADY_ACTIONED":
\* a request the sweep expired or a planner rejected stays so.
OneDecisionWins ==
    [][\A a \in Appointment :
          appt[a].status \in {"REJECTED", "EXPIRED"}
          => appt'[a].status = appt[a].status]_vars

\* allocation.py:1041-1043, "a failed reschedule puts back exactly what it
\* took": one that leaves the appointment where it was takes nothing new.
FailedRescheduleRestores ==
    [][\A s \in Shipment :
          (/\ resched[s].stage = "checked" /\ resched'[s] = NoReschedule
           /\ appt' = appt)
          => claims' \subseteq claims]_vars

\* expiry.py:196-198, "A held request is therefore swept when its *extended*
\* deadline passes and not a minute before": expired by the sweep, it had.
ExtendedDeadlineHonoured ==
    [][\A a \in Appointment :
          (/\ a \in escalations' \ escalations
           /\ appt[a].expiresAt # NoDeadline)
          => appt[a].expiresAt < now]_vars
=============================================================================
