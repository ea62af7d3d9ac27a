-------------------------- MODULE AllocationProofs --------------------------
(* The booking core, for every value of its constants: one truck per dock   *)
(* and interval; every booked claim the property of one active appointment; *)
(* and what every step may do to one appointment's row, from which the      *)
(* properties of the decisions, of the notifications and of the sweep       *)
(* follow.                                                                  *)
EXTENDS Allocation, TLAPS

-----------------------------------------------------------------------------
(* Rows.                                                                    *)

LiveRow == [status : Status, shipment : Shipment, slot : Slot,
            bookedAt : Nat, expiresAt : Nat \cup {NoDeadline}]

\* A row that has left the state NONE carries a shipment and a slot.
LEMMA RowIsLive ==
    ASSUME TypeOK, NEW a \in Appointment, ~ Fresh(a)
    PROVE  appt[a] \in LiveRow
BY DEF TypeOK, Fresh, AppointmentRow, Absent, LiveRow

LEMMA ActiveIsLive ==
    ASSUME TypeOK, NEW a \in Appointment, Active(a)
    PROVE  appt[a] \in LiveRow
BY RowIsLive DEF Active, Fresh, ActiveStatus

LEMMA PendingIsActive ==
    ASSUME NEW a \in Appointment, Pending(a)
    PROVE  Active(a)
BY DEF Pending, Active, ActiveStatus

LEMMA RequestedIsLive ==
    ASSUME NEW s \in Shipment, NEW sl \in Slot, NEW t \in Nat
    PROVE  Requested(s, sl, t) \in AppointmentRow
BY DEF Requested, AppointmentRow, Status, ActiveStatus

LEMMA HeldRowType ==
    ASSUME NEW s \in Shipment, NEW sl \in Slot, NEW e \in Nat
    PROVE  HeldRow(s, sl, e) \in ClaimRow
BY DEF HeldRow, ClaimRow

LEMMA BookedRowType ==
    ASSUME NEW a \in Appointment, NEW s \in Shipment, NEW sl \in Slot
    PROVE  BookedRow(a, s, sl) \in ClaimRow
BY DEF BookedRow, ClaimRow

\* A transition of the status keeps the rest of the row.
LEMMA SetStatusType ==
    ASSUME TypeOK, NEW a \in Appointment, ~ Fresh(a), NEW st \in Status
    PROVE  SetStatus(a, st) \in [Appointment -> AppointmentRow]
<1>1. appt[a] \in LiveRow
  BY RowIsLive
<1>2. [appt[a] EXCEPT !.status = st] \in AppointmentRow
  BY <1>1 DEF LiveRow, AppointmentRow
<1>. QED
  BY <1>2 DEF SetStatus, TypeOK

LEMMA FlipsAreSubsets ==
    /\ \A C, s, sl, t : FlipOnInterval(C, s, sl, t) \subseteq C
    /\ \A C, a : Release(C, a) \subseteq C
    /\ \A A : FlipForAppointments(A) \subseteq claims
BY DEF FlipOnInterval, Release, FlipForAppointments

LEMMA ReadClockType ==
    ASSUME TypeOK, NEW t \in ReadClock
    PROVE  t \in Nat
BY DEF ReadClock, TypeOK

-----------------------------------------------------------------------------
(* Type correctness: the initial states, then one lemma for each action.    *)

LEMMA InitType == Init => TypeOK
<1> SUFFICES ASSUME Init PROVE TypeOK
  OBVIOUS
<1> USE SeedAssumption, SettingsAssumption, DataAssumption
<1>1. \A a \in Seeded : SeedRow(a) \in AppointmentRow
  <2> TAKE a \in Seeded
  <2>1. SeedRow(a) = [status |-> SeedStatus[a], shipment |-> SeedShipment[a],
                      slot |-> SeedSlot[a], bookedAt |-> 0,
                      expiresAt |-> NoDeadline]
    BY DEF SeedRow, Requested
  <2> QED
    BY <2>1 DEF AppointmentRow, Status
<1>2. appt \in [Appointment -> AppointmentRow]
  BY <1>1 DEF Init, AppointmentRow
<1>3. claims \subseteq ClaimRow
  BY BookedRowType DEF Init
<1> QED
  BY <1>2, <1>3 DEF Init, TypeOK, RescheduleState

LEMMA RequestType ==
    ASSUME TypeOK, Request
    PROVE  TypeOK'
<1> USE SettingsAssumption
<1>1. ASSUME NEW s \in Shipment, NEW sl \in Slot, NEW t \in ReadClock,
             RequestHold(s, sl, t)
      PROVE  TypeOK'
  <2>1. HeldRow(s, sl, t + HeldTTL) \in ClaimRow
    BY ReadClockType, HeldRowType
  <2>2. claims' \subseteq ClaimRow
    BY <1>1, <2>1, FlipsAreSubsets DEF RequestHold, TypeOK
  <2> QED
    BY <1>1, <2>2 DEF RequestHold, TypeOK
<1>2. ASSUME NEW s \in Shipment, NEW sl \in Slot, NEW t \in ReadClock,
             NEW a \in Appointment, RequestDirect(s, sl, t, a)
      PROVE  TypeOK'
  <2>1. Requested(s, sl, t) \in AppointmentRow /\ BookedRow(a, s, sl) \in ClaimRow
    BY ReadClockType, RequestedIsLive, BookedRowType
  <2> QED
    BY <1>2, <2>1 DEF RequestDirect, TypeOK
<1>3. ASSUME NEW c \in claims, NEW t \in ReadClock, NEW a \in Appointment,
             ConfirmHeld(c, t, a)
      PROVE  TypeOK'
  <2>1. c.shipment \in Shipment /\ c.slot \in Slot
    BY DEF TypeOK, ClaimRow
  <2>2. /\ Requested(c.shipment, c.slot, t) \in AppointmentRow
        /\ BookedRow(a, c.shipment, c.slot) \in ClaimRow
    BY <2>1, ReadClockType, RequestedIsLive, BookedRowType
  <2> QED
    BY <1>3, <2>2 DEF ConfirmHeld, TypeOK
<1>4. ASSUME NEW c \in claims, NEW t \in ReadClock, ConfirmHeldInfeasible(c, t)
      PROVE  TypeOK'
  BY <1>4 DEF ConfirmHeldInfeasible, TypeOK
<1>5. ASSUME NEW a \in Appointment, Cancel(a)
      PROVE  TypeOK'
  <2>1. SetStatus(a, "CANCELLED") \in [Appointment -> AppointmentRow]
    BY <1>5, SetStatusType DEF Cancel, Active, Fresh, ActiveStatus, Status, DecidedStatus
  <2>2. <<"APPOINTMENT_CANCELLED", a>> \in Event \X (Appointment \cup Shipment)
    BY DEF Event
  <2> QED
    BY <1>5, <2>1, <2>2, FlipsAreSubsets DEF Cancel, TypeOK
<1> QED
  BY <1>1, <1>2, <1>3, <1>4, <1>5 DEF Request

LEMMA OpsTransitionType ==
    ASSUME TypeOK, NEW a \in Appointment, NEW st \in DecidedStatus,
           NEW event \in Event, OpsTransition(a, st, event)
    PROVE  TypeOK'
<1>1. SetStatus(a, st) \in [Appointment -> AppointmentRow]
  BY SetStatusType DEF OpsTransition, Pending, Fresh, Status
<1>2. <<event, a>> \in Event \X (Appointment \cup Shipment)
  OBVIOUS
<1> QED
  BY <1>1, <1>2, FlipsAreSubsets DEF OpsTransition, TypeOK

LEMMA DecideType ==
    ASSUME TypeOK, Decide
    PROVE  TypeOK'
<1> USE SettingsAssumption
<1>1. ASSUME NEW a \in Appointment, Confirm(a)
      PROVE  TypeOK'
  <2>1. SetStatus(a, "CONFIRMED") \in [Appointment -> AppointmentRow]
    BY <1>1, SetStatusType DEF Confirm, Pending, Fresh, Status, ActiveStatus
  <2>2. <<"APPOINTMENT_CONFIRMED", a>> \in Event \X (Appointment \cup Shipment)
    BY DEF Event
  <2>3. claims' \subseteq claims
    BY <1>1, FlipsAreSubsets DEF Confirm
  <2> QED
    BY <1>1, <2>1, <2>2, <2>3 DEF Confirm, TypeOK
<1>2. ASSUME NEW A \in SUBSET {a \in Appointment : ~ Fresh(a)},
             NEW E \in SUBSET {a \in A : Pending(a)}, BulkConfirm(A, E)
      PROVE  TypeOK'
  <2>1. \A a \in E : [appt[a] EXCEPT !.status = "CONFIRMED"] \in AppointmentRow
    <3> TAKE a \in E
    <3>1. appt[a] \in LiveRow
      BY RowIsLive
    <3> QED
      BY <3>1 DEF LiveRow, AppointmentRow, Status, ActiveStatus
  <2>2. appt' \in [Appointment -> AppointmentRow]
    BY <1>2, <2>1 DEF BulkConfirm, TypeOK
  <2>3. claims' \subseteq claims
    BY <1>2, FlipsAreSubsets DEF BulkConfirm
  <2>4. outbox' \subseteq Event \X (Appointment \cup Shipment)
    BY <1>2 DEF BulkConfirm, TypeOK, Event
  <2> QED
    BY <1>2, <2>2, <2>3, <2>4 DEF BulkConfirm, TypeOK
<1>3. ASSUME NEW a \in Appointment, Reject(a)
      PROVE  TypeOK'
  BY <1>3, OpsTransitionType DEF Reject, DecidedStatus, Event
<1>4. ASSUME NEW a \in Appointment, ManualExpire(a)
      PROVE  TypeOK'
  BY <1>4, OpsTransitionType DEF ManualExpire, DecidedStatus, Event
<1>5. ASSUME NEW a \in Appointment, HoldForInformation(a)
      PROVE  TypeOK'
  <2>1. appt[a] \in LiveRow
    BY <1>5, RowIsLive DEF HoldForInformation, Pending, Fresh
  <2>2. [appt[a] EXCEPT !.expiresAt = now + PendingTTL] \in AppointmentRow
    BY <2>1 DEF LiveRow, AppointmentRow, TypeOK
  <2> QED
    BY <1>5, <2>2 DEF HoldForInformation, TypeOK
<1>6. ASSUME NEW a \in Appointment, NEW sl \in Slot, CounterOffer(a, sl)
      PROVE  TypeOK'
  <2>1. appt[a] \in LiveRow
    BY <1>6, RowIsLive DEF CounterOffer, Pending, Fresh
  <2>2. [appt[a] EXCEPT !.slot = sl] \in AppointmentRow
    BY <2>1 DEF LiveRow, AppointmentRow
  <2>3. BookedRow(a, appt[a].shipment, sl) \in ClaimRow
    BY <2>1, BookedRowType DEF LiveRow
  <2>4. claims' \subseteq claims \cup {BookedRow(a, appt[a].shipment, sl)}
    BY <1>6, FlipsAreSubsets DEF CounterOffer
  <2> QED
    BY <1>6, <2>2, <2>3, <2>4 DEF CounterOffer, TypeOK
<1> QED
  BY <1>1, <1>2, <1>3, <1>4, <1>5, <1>6 DEF Decide

LEMMA ReclaimType ==
    ASSUME TypeOK, NEW C \in SUBSET ClaimRow, NEW a \in Appointment,
           NEW s \in Shipment, NEW sl \in Slot, Reclaim(C, a, s, sl)
    PROVE  claims' \subseteq ClaimRow
BY FlipsAreSubsets, BookedRowType DEF Reclaim

\* What the record of a reschedule in flight holds, by its stage.
LEMMA CheckedType ==
    ASSUME TypeOK, NEW s \in Shipment, resched[s].stage = "checked"
    PROVE  /\ resched[s].appointment \in Appointment
           /\ resched[s].target \in Slot
BY DEF TypeOK, RescheduleState, NoReschedule

LEMMA CollidedType ==
    ASSUME TypeOK, NEW s \in Shipment, resched[s].stage = "collided"
    PROVE  /\ resched[s].appointment \in Appointment
           /\ resched[s].status \in ActiveStatus
           /\ resched[s].slot \in Slot
BY DEF TypeOK, RescheduleState, NoReschedule

LEMMA ReschedForgetsType ==
    ASSUME TypeOK, NEW s \in Shipment
    PROVE  [resched EXCEPT ![s] = NoReschedule] \in [Shipment -> RescheduleState]
BY DEF TypeOK, RescheduleState

LEMMA RescheduleToHoldType ==
    ASSUME TypeOK, NEW s \in Shipment, NEW t \in ReadClock, RescheduleToHold(s, t)
    PROVE  claims' \subseteq ClaimRow
<1> DEFINE a == resched[s].appointment
           sl == resched[s].target
           C == FlipOnInterval(Release(claims, a), s, sl, t)
           H == C \cup {HeldRow(s, sl, t + HeldTTL)}
<1>1. a \in Appointment /\ sl \in Slot
  BY CheckedType DEF RescheduleToHold, MayMove
<1>2. appt[a] \in LiveRow
  BY <1>1, ActiveIsLive DEF RescheduleToHold, MayMove
<1>3. H \subseteq ClaimRow
  <2>1. HeldRow(s, sl, t + HeldTTL) \in ClaimRow
    BY <1>1, ReadClockType, HeldRowType, SettingsAssumption
  <2>2. C \subseteq claims
    BY FlipsAreSubsets
  <2> QED
    BY <2>1, <2>2 DEF TypeOK
<1>4. PutBack(H, a, s)
  BY DEF RescheduleToHold
<1>5. CASE ClaimsOf(claims, a) = {}
  BY <1>3, <1>4, <1>5 DEF PutBack
<1>6. CASE ClaimsOf(claims, a) # {}
  <2>1. Reclaim(H, a, s, appt[a].slot)
    BY <1>4, <1>6 DEF PutBack
  <2>2. appt[a].slot \in Slot
    BY <1>2 DEF LiveRow
  <2> HIDE DEF a, H
  <2> QED
    BY <1>1, <1>3, <2>1, <2>2, ReclaimType
<1> QED
  BY <1>5, <1>6

LEMMA RescheduleRestoreType ==
    ASSUME TypeOK, InFlight, NEW s \in Shipment, RescheduleRestore(s)
    PROVE  TypeOK'
<1> DEFINE a == resched[s].appointment
<1>1. /\ a \in Appointment
      /\ resched[s].status \in ActiveStatus
      /\ resched[s].slot \in Slot
  BY CollidedType DEF RescheduleRestore
<1>2. claims' \subseteq ClaimRow
  <2>1. RestoreClaim(s)
    BY DEF RescheduleRestore
  <2>2. CASE resched[s].released
    <3>1. Reclaim(claims, a, s, resched[s].slot)
      BY <2>1, <2>2 DEF RestoreClaim
    <3>2. claims \in SUBSET ClaimRow
      BY DEF TypeOK
    <3> HIDE DEF a
    <3> QED
      BY <1>1, <3>1, <3>2, ReclaimType
  <2>3. CASE ~ resched[s].released
    BY <2>1, <2>3 DEF RestoreClaim, TypeOK
  <2> QED
    BY <2>2, <2>3
<1>3. appt' \in [Appointment -> AppointmentRow]
  <2>1. ~ Fresh(a)
    BY DEF InFlight, RescheduleRestore, NoReschedule
  <2>2. SetStatus(a, resched[s].status) \in [Appointment -> AppointmentRow]
    BY <1>1, <2>1, SetStatusType DEF Status
  <2> QED
    BY <2>2 DEF RescheduleRestore
<1> QED
  BY <1>1, <1>2, <1>3, ReschedForgetsType DEF RescheduleRestore, TypeOK

LEMMA RescheduleType ==
    ASSUME TypeOK, InFlight, Reschedule
    PROVE  TypeOK'
<1>1. ASSUME NEW s \in Shipment, NEW a \in Appointment, NEW sl \in Slot,
             ReschedulePrecheck(s, a, sl)
      PROVE  TypeOK'
  <2>1. [stage |-> "checked", appointment |-> a, target |-> sl] \in RescheduleState
    BY DEF RescheduleState
  <2> QED
    BY <1>1, <2>1 DEF ReschedulePrecheck, TypeOK
<1>2. ASSUME NEW s \in Shipment, NEW t \in ReadClock, NEW b \in Appointment,
             RescheduleMove(s, t, b)
      PROVE  TypeOK'
  <2> DEFINE a == resched[s].appointment
             sl == resched[s].target
  <2>1. a \in Appointment /\ sl \in Slot
    BY <1>2, CheckedType DEF RescheduleMove, MayMove
  <2>2. appt[a] \in LiveRow
    BY <1>2, <2>1, ActiveIsLive DEF RescheduleMove, MayMove
  <2>3. [appt[a] EXCEPT !.status = "CANCELLED"] \in AppointmentRow
    BY <2>2 DEF LiveRow, AppointmentRow, Status, DecidedStatus
  <2>4. /\ Requested(s, sl, t) \in AppointmentRow
        /\ BookedRow(b, s, sl) \in ClaimRow
    BY <2>1, ReadClockType, RequestedIsLive, BookedRowType
  <2>5. appt' \in [Appointment -> AppointmentRow]
    BY <1>2, <2>1, <2>3, <2>4 DEF RescheduleMove, TypeOK
  <2>6. claims' \subseteq ClaimRow
    BY <1>2, <2>4, FlipsAreSubsets DEF RescheduleMove, TypeOK
  <2> QED
    BY <1>2, <2>5, <2>6, ReschedForgetsType DEF RescheduleMove, TypeOK
<1>3. ASSUME NEW s \in Shipment, NEW t \in ReadClock, RescheduleToHold(s, t)
      PROVE  TypeOK'
  <2>1. claims' \subseteq ClaimRow
    BY <1>3, RescheduleToHoldType
  <2> QED
    BY <1>3, <2>1, ReschedForgetsType DEF RescheduleToHold, TypeOK
<1>4. ASSUME NEW s \in Shipment, NEW t \in ReadClock, RescheduleCollide(s, t)
      PROVE  TypeOK'
  <2> DEFINE a == resched[s].appointment
             r == [stage |-> "collided", appointment |-> a,
                   status |-> appt[a].status, slot |-> appt[a].slot,
                   released |-> ClaimsOf(claims, a) # {}]
  <2>1. a \in Appointment /\ Active(a)
    BY <1>4, CheckedType DEF RescheduleCollide, MayMove
  <2>2. appt[a].status \in ActiveStatus /\ appt[a].slot \in Slot
    BY <2>1, ActiveIsLive DEF LiveRow, Active
  <2>3. r \in RescheduleState
    BY <2>1, <2>2 DEF RescheduleState
  <2> QED
    BY <1>4, <2>3 DEF RescheduleCollide, TypeOK
<1>5. ASSUME NEW s \in Shipment, RescheduleRestore(s)
      PROVE  TypeOK'
  BY <1>5, RescheduleRestoreType
<1>6. ASSUME NEW s \in Shipment, RescheduleDrop(s)
      PROVE  TypeOK'
  BY <1>6, ReschedForgetsType DEF RescheduleDrop, TypeOK
<1> QED
  BY <1>1, <1>2, <1>3, <1>4, <1>5, <1>6 DEF Reschedule

LEMMA SweepType ==
    ASSUME TypeOK, Sweep
    PROVE  TypeOK'
<1>1. ASSUME NEW w \in Sweeper, NEW batch \in SUBSET Appointment,
             SweepScan(w, batch)
      PROVE  TypeOK'
  BY <1>1 DEF SweepScan, TypeOK
<1>2. ASSUME NEW w \in Sweeper, NEW a \in Appointment, SweepExpire(w, a)
      PROVE  TypeOK'
  <2>1. SetStatus(a, "EXPIRED") \in [Appointment -> AppointmentRow]
    BY <1>2, SetStatusType DEF SweepExpire, Pending, Fresh, Status, DecidedStatus
  <2>2. <<"PENDING_EXPIRED", a>> \in Event \X (Appointment \cup Shipment)
    BY DEF Event
  <2> QED
    BY <1>2, <2>1, <2>2, FlipsAreSubsets DEF SweepExpire, TypeOK
<1>3. ASSUME NEW w \in Sweeper, NEW a \in Appointment, SweepSkip(w, a)
      PROVE  TypeOK'
  BY <1>3 DEF SweepSkip, TypeOK
<1>4. ASSUME NEW w \in Sweeper, NEW D \in SUBSET claims, NEW t \in ReadClock,
             SweepHolds(w, D, t)
      PROVE  TypeOK'
  <2>1. \A c \in D : <<"HOLD_LAPSED", c.shipment>> \in Event \X (Appointment \cup Shipment)
    BY DEF TypeOK, ClaimRow, Event
  <2> QED
    BY <1>4, <2>1 DEF SweepHolds, TypeOK
<1>5. ASSUME NEW w \in Sweeper, SweepAbort(w)
      PROVE  TypeOK'
  BY <1>5 DEF SweepAbort, TypeOK
<1> QED
  BY <1>1, <1>2, <1>3, <1>4, <1>5 DEF Sweep, SweepRun

-----------------------------------------------------------------------------
(* A row, once there, never vanishes and never changes its shipment: what   *)
(* makes InFlight, and so TypeOK, inductive.                                *)

RowsKept == \A a \in Appointment : ~ Fresh(a) =>
                /\ ~ Fresh(a)'
                /\ appt'[a].shipment = appt[a].shipment

LEMMA SetStatusKeepsRows ==
    ASSUME TypeOK, NEW a \in Appointment, NEW st \in Status,
           appt' = SetStatus(a, st)
    PROVE  RowsKept
<1> SUFFICES ASSUME NEW b \in Appointment, ~ Fresh(b)
             PROVE  ~ Fresh(b)' /\ appt'[b].shipment = appt[b].shipment
  BY DEF RowsKept
<1>1. appt[b] \in LiveRow
  BY RowIsLive
<1>2. CASE a = b
  <2>1. appt'[b] = [appt[b] EXCEPT !.status = st]
    BY <1>2 DEF SetStatus, TypeOK
  <2> QED
    BY <1>1, <2>1 DEF LiveRow, Fresh, Status, ActiveStatus, DecidedStatus
<1>3. CASE a # b
  BY <1>3 DEF SetStatus, TypeOK, Fresh
<1> QED
  BY <1>2, <1>3

LEMMA InsertKeepsRows ==
    ASSUME TypeOK, NEW a \in Appointment, Fresh(a), NEW row,
           appt' = [appt EXCEPT ![a] = row]
    PROVE  RowsKept
BY DEF RowsKept, TypeOK, Fresh

LEMMA StepKeepsRows ==
    ASSUME TypeOK, InFlight, [Next]_vars
    PROVE  RowsKept
<1>1. CASE UNCHANGED appt
  BY <1>1 DEF RowsKept, Fresh
<1>2. ASSUME NEW s \in Shipment, NEW sl \in Slot, NEW t \in ReadClock,
             NEW a \in Appointment, RequestDirect(s, sl, t, a)
      PROVE  RowsKept
  BY <1>2, InsertKeepsRows DEF RequestDirect
<1>3. ASSUME NEW c \in claims, NEW t \in ReadClock, NEW a \in Appointment,
             ConfirmHeld(c, t, a)
      PROVE  RowsKept
  BY <1>3, InsertKeepsRows DEF ConfirmHeld
<1>4. ASSUME NEW a \in Appointment, NEW st \in Status, appt' = SetStatus(a, st)
      PROVE  RowsKept
  BY <1>4, SetStatusKeepsRows
<1>5. ASSUME NEW a \in Appointment,
             \/ Cancel(a) \/ Confirm(a) \/ Reject(a) \/ ManualExpire(a)
             \/ \E w \in Sweeper : SweepExpire(w, a)
      PROVE  RowsKept
  <2>1. \E st \in Status : appt' = SetStatus(a, st)
    BY <1>5 DEF Cancel, Confirm, Reject, ManualExpire, OpsTransition, SweepExpire,
                Status, DecidedStatus
  <2> QED
    BY <1>4, <2>1
<1>6. ASSUME NEW A \in SUBSET {a \in Appointment : ~ Fresh(a)},
             NEW E \in SUBSET {a \in A : Pending(a)}, BulkConfirm(A, E)
      PROVE  RowsKept
  <2> SUFFICES ASSUME NEW b \in Appointment, ~ Fresh(b)
               PROVE  ~ Fresh(b)' /\ appt'[b].shipment = appt[b].shipment
    BY DEF RowsKept
  <2>1. appt[b] \in LiveRow
    BY RowIsLive
  <2>2. appt'[b] = appt[b] \/ appt'[b] = [appt[b] EXCEPT !.status = "CONFIRMED"]
    BY <1>6 DEF BulkConfirm
  <2> QED
    BY <2>1, <2>2 DEF LiveRow, Fresh
<1>7. ASSUME NEW a \in Appointment,
             HoldForInformation(a) \/ \E sl \in Slot : CounterOffer(a, sl)
      PROVE  RowsKept
  <2> SUFFICES ASSUME NEW b \in Appointment, ~ Fresh(b)
               PROVE  ~ Fresh(b)' /\ appt'[b].shipment = appt[b].shipment
    BY DEF RowsKept
  <2>1. appt[b] \in LiveRow
    BY RowIsLive
  <2>2. /\ appt'[b].status = appt[b].status
        /\ appt'[b].shipment = appt[b].shipment
    BY <1>7, <2>1 DEF HoldForInformation, CounterOffer, TypeOK, LiveRow
  <2> QED
    BY <2>2 DEF Fresh
<1>8. ASSUME NEW s \in Shipment, NEW t \in ReadClock, NEW b \in Appointment,
             RescheduleMove(s, t, b)
      PROVE  RowsKept
  <2> SUFFICES ASSUME NEW d \in Appointment, ~ Fresh(d)
               PROVE  ~ Fresh(d)' /\ appt'[d].shipment = appt[d].shipment
    BY DEF RowsKept
  <2>1. appt[d] \in LiveRow
    BY RowIsLive
  <2>2. b # d
    BY <1>8 DEF RescheduleMove
  <2>3. \/ appt'[d] = appt[d]
        \/ appt'[d] = [appt[d] EXCEPT !.status = "CANCELLED"]
    BY <1>8, <2>2 DEF RescheduleMove, TypeOK
  <2> QED
    BY <2>1, <2>3 DEF LiveRow, Fresh
<1>9. ASSUME NEW s \in Shipment, RescheduleRestore(s)
      PROVE  RowsKept
  <2>1. /\ resched[s].appointment \in Appointment
        /\ resched[s].status \in Status
    BY <1>9, CollidedType DEF RescheduleRestore, Status
  <2>2. appt' = SetStatus(resched[s].appointment, resched[s].status)
    BY <1>9 DEF RescheduleRestore
  <2> QED
    BY <1>4, <2>1, <2>2
<1>10. CASE Request
  BY <1>1, <1>2, <1>3, <1>5, <1>10
     DEF Request, RequestHold, ConfirmHeldInfeasible
<1>11. CASE Decide
  BY <1>5, <1>6, <1>7, <1>11 DEF Decide
<1>12. CASE Reschedule
  BY <1>1, <1>8, <1>9, <1>12
     DEF Reschedule, ReschedulePrecheck, RescheduleToHold, RescheduleCollide,
         RescheduleDrop
<1>13. CASE Sweep
  BY <1>1, <1>5, <1>13
     DEF Sweep, SweepRun, SweepScan, SweepSkip, SweepHolds, SweepAbort
<1> QED
  BY <1>1, <1>10, <1>11, <1>12, <1>13 DEF Next, Tick, vars

LEMMA InFlightKept ==
    ASSUME TypeOK, InFlight, [Next]_vars
    PROVE  InFlight'
<1> SUFFICES ASSUME NEW s \in Shipment, resched'[s] # NoReschedule
             PROVE  /\ appt'[resched'[s].appointment].status # "NONE"
                    /\ appt'[resched'[s].appointment].shipment = s
  BY DEF InFlight, Fresh
<1>1. RowsKept
  BY StepKeepsRows
<1>2. CASE resched'[s] = resched[s]
  <2>1. resched[s].appointment \in Appointment
    BY <1>2 DEF TypeOK, RescheduleState
  <2> QED
    BY <1>1, <1>2, <2>1 DEF InFlight, RowsKept, Fresh
<1>3. ASSUME NEW r \in Shipment, NEW a \in Appointment, NEW sl \in Slot,
             ReschedulePrecheck(r, a, sl)
      PROVE  /\ appt'[resched'[s].appointment].status # "NONE"
             /\ appt'[resched'[s].appointment].shipment = s
  <2>1. CASE s = r
    BY <1>3, <2>1 DEF ReschedulePrecheck, TypeOK, Active, ActiveStatus, Fresh
  <2>2. CASE s # r
    BY <1>2, <1>3, <2>2 DEF ReschedulePrecheck, TypeOK
  <2> QED
    BY <2>1, <2>2
<1>4. ASSUME NEW r \in Shipment, NEW t \in ReadClock, RescheduleCollide(r, t)
      PROVE  /\ appt'[resched'[s].appointment].status # "NONE"
             /\ appt'[resched'[s].appointment].shipment = s
  <2>1. CASE s = r
    <3>1. resched[s].appointment \in Appointment /\ resched[s] # NoReschedule
      BY <1>4, <2>1, CheckedType DEF RescheduleCollide, MayMove, NoReschedule
    <3>2. resched'[s].appointment = resched[s].appointment
      BY <1>4, <2>1 DEF RescheduleCollide, TypeOK
    <3> QED
      BY <1>1, <3>1, <3>2 DEF InFlight, RowsKept, Fresh
  <2>2. CASE s # r
    BY <1>2, <1>4, <2>2 DEF RescheduleCollide, TypeOK
  <2> QED
    BY <2>1, <2>2
<1>5. ASSUME NEW r \in Shipment, resched' = [resched EXCEPT ![r] = NoReschedule]
      PROVE  resched'[s] = resched[s]
  BY <1>5 DEF TypeOK
<1>6. CASE Reschedule
  BY <1>2, <1>3, <1>4, <1>5, <1>6
     DEF Reschedule, RescheduleMove, RescheduleToHold, RescheduleRestore,
         RescheduleDrop
<1>7. CASE UNCHANGED resched
  BY <1>2, <1>7
<1> QED
  BY <1>6, <1>7
     DEF Next, vars, Request, RequestHold, RequestDirect, ConfirmHeld,
         ConfirmHeldInfeasible, Cancel, Decide, Confirm, BulkConfirm, Reject,
         ManualExpire, OpsTransition, HoldForInformation, CounterOffer, Sweep,
         SweepRun, SweepScan, SweepExpire, SweepSkip, SweepHolds, SweepAbort, Tick

-----------------------------------------------------------------------------
(* The inductive invariant: TypeOK alone is not inductive, for a restore    *)
(* writes a status into a row it does not read.                             *)

TypeInv == TypeOK /\ InFlight

LEMMA InitTypeInv == Init => TypeInv
BY InitType DEF TypeInv, InFlight, Init

LEMMA NextTypeInv == TypeInv /\ [Next]_vars => TypeInv'
<1> SUFFICES ASSUME TypeOK, InFlight, [Next]_vars
             PROVE  TypeOK' /\ InFlight'
  BY DEF TypeInv
<1>1. InFlight'
  BY InFlightKept
<1>2. CASE Tick
  BY <1>1, <1>2 DEF Tick, TypeOK
<1>3. CASE UNCHANGED vars
  BY <1>1, <1>3 DEF vars, TypeOK
<1> QED
  BY <1>1, <1>2, <1>3, RequestType, DecideType, RescheduleType, SweepType
     DEF Next

LEMMA TypeInvariant == Spec => []TypeInv
BY InitTypeInv, NextTypeInv, PTL DEF Spec

\* Every variable always holds rows of its table's shape, whatever the
\* tables hold and however many sweeps and reschedules run at once.
THEOREM TypeCorrect == Spec => []TypeOK
<1>1. TypeInv => TypeOK
  BY DEF TypeInv
<1> QED
  BY <1>1, TypeInvariant, PTL

-----------------------------------------------------------------------------
(* The dock's exclusivity, as a property of any set of rows.                *)

Exclusive(C) ==
    \A c, d \in C : c # d => ~ Overlap(c.shipment, c.slot, d.shipment, d.slot)

LEMMA OverlapSymmetric ==
    ASSUME NEW s, NEW sl, NEW r, NEW rl
    PROVE  Overlap(s, sl, r, rl) <=> Overlap(r, rl, s, sl)
BY DEF Overlap, SpansMeet

LEMMA ExclusiveSubset ==
    ASSUME NEW C, NEW D \in SUBSET C, Exclusive(C)
    PROVE  Exclusive(D)
BY DEF Exclusive

\* A row the constraint admits keeps the set exclusive.
LEMMA ExclusiveInsert ==
    ASSUME NEW C, NEW row, Exclusive(C), Admits(C, row.shipment, row.slot)
    PROVE  Exclusive(C \cup {row})
BY OverlapSymmetric DEF Exclusive, Admits

\* So does one that takes the place of a row it replaces: the hand-over from
\* a hold to its booking needs no new check.
LEMMA ExclusiveReplace ==
    ASSUME NEW C, NEW c \in C, NEW row, Exclusive(C),
           row.shipment = c.shipment, row.slot = c.slot
    PROVE  Exclusive((C \ {c}) \cup {row})
<1>1. Exclusive(C \ {c})
  BY DEF Exclusive
<1>2. Admits(C \ {c}, row.shipment, row.slot)
  BY DEF Exclusive, Admits
<1> QED
  BY <1>1, <1>2, ExclusiveInsert

LEMMA RowPlaces ==
    /\ \A s, sl, e : /\ HeldRow(s, sl, e).shipment = s
                     /\ HeldRow(s, sl, e).slot = sl
    /\ \A a, s, sl : /\ BookedRow(a, s, sl).shipment = s
                     /\ BookedRow(a, s, sl).slot = sl
BY DEF HeldRow, BookedRow

LEMMA BookedInsert ==
    ASSUME NEW C, NEW a, NEW s, NEW sl, Exclusive(C), Admits(C, s, sl)
    PROVE  Exclusive(C \cup {BookedRow(a, s, sl)})
BY RowPlaces, ExclusiveInsert

LEMMA HeldInsert ==
    ASSUME NEW C, NEW s, NEW sl, NEW e, Exclusive(C), Admits(C, s, sl)
    PROVE  Exclusive(C \cup {HeldRow(s, sl, e)})
BY RowPlaces, ExclusiveInsert

LEMMA ReclaimExclusive ==
    ASSUME NEW C, NEW a, NEW s, NEW sl, Exclusive(C), Reclaim(C, a, s, sl)
    PROVE  Exclusive(claims')
<1>1. Exclusive(FlipOnInterval(C, s, sl, now))
  BY FlipsAreSubsets, ExclusiveSubset
<1> QED
  BY <1>1, BookedInsert DEF Reclaim

LEMMA InitExclusive == Init => DockExclusive
<1> SUFFICES ASSUME Init, NEW c \in claims, NEW d \in claims, c # d
             PROVE  ~ Overlap(c.shipment, c.slot, d.shipment, d.slot)
  BY DEF DockExclusive
<1>1. PICK B \in SUBSET Seeded :
          /\ Backfilled(B)
          /\ claims = {BookedRow(a, SeedShipment[a], SeedSlot[a]) : a \in B}
  BY DEF Init
<1>2. PICK a \in B : c = BookedRow(a, SeedShipment[a], SeedSlot[a])
  BY <1>1
<1>3. PICK b \in B : d = BookedRow(b, SeedShipment[b], SeedSlot[b])
  BY <1>1
<1>4. a # b
  BY <1>2, <1>3
<1> QED
  BY <1>1, <1>2, <1>3, <1>4, RowPlaces DEF Backfilled, SeedsOverlap

LEMMA NextExclusive ==
    ASSUME DockExclusive, [Next]_vars
    PROVE  DockExclusive'
<1> USE FlipsAreSubsets, ExclusiveSubset
<1> SUFFICES Exclusive(claims')
  BY DEF Exclusive, DockExclusive
<1>0. Exclusive(claims)
  BY DEF Exclusive, DockExclusive
<1>1. ASSUME claims' \subseteq claims
      PROVE  Exclusive(claims')
  BY <1>0, <1>1
<1>2. CASE Request
  <2>1. ASSUME NEW s \in Shipment, NEW sl \in Slot, NEW t \in ReadClock,
               RequestHold(s, sl, t)
        PROVE  Exclusive(claims')
    <3>1. Exclusive(FlipOnInterval(claims, s, sl, t))
      BY <1>0
    <3> QED
      BY <2>1, <3>1, HeldInsert DEF RequestHold
  <2>2. ASSUME NEW s \in Shipment, NEW sl \in Slot, NEW t \in ReadClock,
               NEW a \in Appointment, RequestDirect(s, sl, t, a)
        PROVE  Exclusive(claims')
    BY <1>0, <2>2, BookedInsert DEF RequestDirect
  <2>3. ASSUME NEW c \in claims, NEW t \in ReadClock, NEW a \in Appointment,
               ConfirmHeld(c, t, a)
        PROVE  Exclusive(claims')
    BY <1>0, <2>3, RowPlaces, ExclusiveReplace DEF ConfirmHeld
  <2>4. ASSUME NEW c \in claims, NEW t \in ReadClock,
               ConfirmHeldInfeasible(c, t)
        PROVE  Exclusive(claims')
    BY <1>1, <2>4 DEF ConfirmHeldInfeasible
  <2>5. ASSUME NEW a \in Appointment, Cancel(a)
        PROVE  Exclusive(claims')
    BY <1>1, <2>5 DEF Cancel
  <2> QED
    BY <1>2, <2>1, <2>2, <2>3, <2>4, <2>5 DEF Request
<1>3. CASE Decide
  <2>1. ASSUME NEW a \in Appointment, NEW sl \in Slot, CounterOffer(a, sl)
        PROVE  Exclusive(claims')
    <3> DEFINE s == appt[a].shipment
               C == FlipForAppointments({a})
               D == FlipOnInterval(Release(C, a), s, sl, now)
    <3>1. D \subseteq claims
      OBVIOUS
    <3>2. Exclusive(D)
      BY <1>0, <3>1
    <3>3. Admits(D, s, sl) /\ claims' = D \cup {BookedRow(a, s, sl)}
      BY <2>1 DEF CounterOffer
    <3> QED
      BY <3>2, <3>3, BookedInsert
  <2>2. CASE UNCHANGED claims \/ claims' \subseteq claims
    BY <1>1, <2>2
  <2> QED
    BY <1>3, <2>1, <2>2
       DEF Decide, Confirm, BulkConfirm, Reject, ManualExpire, OpsTransition,
           HoldForInformation
<1>4. CASE Reschedule
  <2>1. ASSUME NEW s \in Shipment, NEW t \in ReadClock, NEW b \in Appointment,
               RescheduleMove(s, t, b)
        PROVE  Exclusive(claims')
    <3>1. Exclusive(Release(claims, resched[s].appointment))
      BY <1>0
    <3> QED
      BY <2>1, <3>1, BookedInsert DEF RescheduleMove
  <2>2. ASSUME NEW s \in Shipment, NEW t \in ReadClock, RescheduleToHold(s, t)
        PROVE  Exclusive(claims')
    <3> DEFINE a == resched[s].appointment
               sl == resched[s].target
               C == FlipOnInterval(Release(claims, a), s, sl, t)
               H == C \cup {HeldRow(s, sl, t + HeldTTL)}
    <3>1. C \subseteq claims
      OBVIOUS
    <3>2. Exclusive(C) /\ Admits(C, s, sl)
      BY <1>0, <2>2, <3>1 DEF RescheduleToHold
    <3>3. Exclusive(H)
      BY <3>2, HeldInsert
    <3>4. PutBack(H, a, s)
      BY <2>2 DEF RescheduleToHold
    <3> HIDE DEF H, a
    <3> QED
      BY <3>3, <3>4, ReclaimExclusive DEF PutBack
  <2>3. ASSUME NEW s \in Shipment, RescheduleRestore(s)
        PROVE  Exclusive(claims')
    <3>1. RestoreClaim(s)
      BY <2>3 DEF RescheduleRestore
    <3> QED
      BY <1>0, <1>1, <3>1, ReclaimExclusive DEF RestoreClaim
  <2>4. CASE UNCHANGED claims
    BY <1>1, <2>4
  <2> QED
    BY <1>4, <2>1, <2>2, <2>3, <2>4
       DEF Reschedule, ReschedulePrecheck, RescheduleCollide, RescheduleDrop
<1>5. CASE Sweep
  <2>1. ASSUME NEW w \in Sweeper, NEW a \in Appointment, SweepExpire(w, a)
        PROVE  claims' \subseteq claims
    BY <2>1 DEF SweepExpire
  <2>2. ASSUME NEW w \in Sweeper, NEW D \in SUBSET claims, NEW t \in ReadClock,
               SweepHolds(w, D, t)
        PROVE  claims' \subseteq claims
    BY <2>2 DEF SweepHolds
  <2>3. CASE UNCHANGED claims
    BY <1>1, <2>3
  <2> QED
    BY <1>1, <1>5, <2>1, <2>2, <2>3
       DEF Sweep, SweepRun, SweepScan, SweepSkip, SweepAbort
<1>6. CASE UNCHANGED claims
  BY <1>1, <1>6
<1> QED
  BY <1>2, <1>3, <1>4, <1>5, <1>6 DEF Next, Tick, vars

\* One truck per dock per interval, in every reachable state, for any docks,
\* slots, trucks and unload times.
THEOREM DockIsExclusive == Spec => []DockExclusive
BY InitExclusive, NextExclusive, PTL DEF Spec
-----------------------------------------------------------------------------
(* Every claim of a booking belongs to the active appointment it names, and *)
(* to it alone: ClaimsHaveOwners.  It is inductive relative to TypeInv.     *)

(* ClaimsHaveOwners of any set of rows, against any table of appointments.  *)

Owned(C, ap) ==
    \A c \in C : c.state # "HELD" =>
        /\ ap[c.appointment].status \in ActiveStatus
        /\ ap[c.appointment].shipment = c.shipment
        /\ ClaimsOf(C, c.appointment) = {c}

LEMMA OwnedClaims == ClaimsHaveOwners <=> Owned(claims, appt)
BY DEF ClaimsHaveOwners, Owned, Active

LEMMA OwnedSubset ==
    ASSUME NEW C, NEW ap, NEW D \in SUBSET C, Owned(C, ap)
    PROVE  Owned(D, ap)
BY DEF Owned, ClaimsOf

\* The rows' owners may change in any way that keeps them active and theirs.
LEMMA OwnedUpdate ==
    ASSUME NEW C, NEW ap, NEW aq, Owned(C, ap),
           \A c \in C : c.state # "HELD" =>
               /\ aq[c.appointment].status \in ActiveStatus
               /\ aq[c.appointment].shipment = ap[c.appointment].shipment
    PROVE  Owned(C, aq)
BY DEF Owned

\* In particular the rows of appointments a update leaves alone.
LEMMA OwnedElsewhere ==
    ASSUME NEW C \in SUBSET ClaimRow, NEW ap, NEW aq, NEW a, Owned(C, ap),
           ClaimsOf(C, a) = {},
           \A b \in Appointment \ {a} : aq[b] = ap[b]
    PROVE  Owned(C, aq)
<1>1. \A c \in C : c.state # "HELD" => c.appointment \in Appointment \ {a}
  BY DEF ClaimRow, ClaimsOf
<1> QED
  BY <1>1 DEF Owned

LEMMA OwnedBooked ==
    ASSUME NEW C, NEW ap, NEW a, NEW s, NEW sl, Owned(C, ap),
           ClaimsOf(C, a) = {},
           ap[a].status \in ActiveStatus, ap[a].shipment = s
    PROVE  Owned(C \cup {BookedRow(a, s, sl)}, ap)
BY DEF Owned, ClaimsOf, BookedRow

LEMMA OwnedHeld ==
    ASSUME NEW C \in SUBSET ClaimRow, NEW ap, NEW s, NEW sl, NEW e, Owned(C, ap)
    PROVE  Owned(C \cup {HeldRow(s, sl, e)}, ap)
<1> DEFINE H == C \cup {HeldRow(s, sl, e)}
<1> SUFFICES ASSUME NEW c \in H, c.state # "HELD"
             PROVE  /\ ap[c.appointment].status \in ActiveStatus
                    /\ ap[c.appointment].shipment = c.shipment
                    /\ ClaimsOf(H, c.appointment) = {c}
  BY DEF Owned
<1>1. c \in C /\ c.appointment \in Appointment
  BY DEF HeldRow, ClaimRow
<1>2. HeldRow(s, sl, e).appointment # c.appointment
  BY <1>1, DataAssumption DEF HeldRow
<1> QED
  BY <1>1, <1>2 DEF Owned, ClaimsOf

\* An appointment without an active row has no claim.
LEMMA InactiveClaimless ==
    ASSUME TypeOK, ClaimsHaveOwners, NEW a \in Appointment, ~ Active(a)
    PROVE  ClaimsOf(claims, a) = {}
<1> SUFFICES ASSUME NEW c \in claims, c.appointment = a
             PROVE  FALSE
  BY DEF ClaimsOf
<1>1. c.state # "HELD"
  BY DataAssumption DEF TypeOK, ClaimRow
<1> QED
  BY <1>1 DEF ClaimsHaveOwners

LEMMA ReleaseEmpties ==
    ASSUME NEW C, NEW a
    PROVE  /\ ClaimsOf(Release(C, a), a) = {}
           /\ \A D \in SUBSET Release(C, a) : ClaimsOf(D, a) = {}
BY DEF Release, ClaimsOf

\* The release and the change of one row, as cancel, reject, expiry and the
\* sweep make them.
LEMMA OwnedRelease ==
    ASSUME TypeOK, Owned(claims, appt), NEW a \in Appointment,
           \A b \in Appointment \ {a} : appt'[b] = appt[b]
    PROVE  Owned(Release(claims, a), appt')
<1> DEFINE C == Release(claims, a)
<1>1. C \in SUBSET claims
  BY FlipsAreSubsets
<1>2. Owned(C, appt)
  BY <1>1, OwnedSubset
<1>3. C \in SUBSET ClaimRow
  BY <1>1 DEF TypeOK
<1>4. ClaimsOf(C, a) = {}
  BY ReleaseEmpties
<1> QED
  BY <1>2, <1>3, <1>4, OwnedElsewhere

LEMMA ReclaimOwned ==
    ASSUME NEW C, NEW ap, NEW a, NEW s, NEW sl, Owned(C, ap),
           ap[a].status \in ActiveStatus, ap[a].shipment = s,
           Reclaim(C, a, s, sl)
    PROVE  Owned(claims', ap)
<1> DEFINE D == FlipOnInterval(C, s, sl, now)
<1>1. D \subseteq C /\ Owned(D, ap)
  BY FlipsAreSubsets, OwnedSubset
<1>2. CASE ClaimsOf(C, a) # {}
  BY <1>1, <1>2 DEF Reclaim
<1>3. CASE ClaimsOf(C, a) = {}
  <2>1. ClaimsOf(D, a) = {}
    BY <1>1, <1>3 DEF ClaimsOf
  <2>2. claims' = D \cup {BookedRow(a, s, sl)}
    BY <1>3 DEF Reclaim
  <2> HIDE DEF D
  <2> QED
    BY <1>1, <2>1, <2>2, OwnedBooked
<1> QED
  BY <1>2, <1>3

-----------------------------------------------------------------------------
(* The initial states and the steps.                                        *)

LEMMA InitOwned == Init => ClaimsHaveOwners
<1> USE SeedAssumption
<1> SUFFICES ASSUME Init, NEW c \in claims
             PROVE  /\ Active(c.appointment)
                    /\ appt[c.appointment].shipment = c.shipment
                    /\ ClaimsOf(claims, c.appointment) = {c}
  BY DEF ClaimsHaveOwners
<1>1. PICK B \in SUBSET Seeded :
          claims = {BookedRow(a, SeedShipment[a], SeedSlot[a]) : a \in B}
  BY DEF Init
<1>2. PICK a \in B : c = BookedRow(a, SeedShipment[a], SeedSlot[a])
  BY <1>1
<1>3. appt[a] = SeedRow(a)
  BY <1>2 DEF Init
<1>4. Active(a) /\ appt[a].shipment = SeedShipment[a]
  BY <1>2, <1>3 DEF SeedRow, Requested, Active
<1>5. \A d \in claims : d.appointment = a => d = c
  BY <1>1, <1>2 DEF BookedRow
<1>6. c.appointment = a /\ c.shipment = SeedShipment[a]
  BY <1>2 DEF BookedRow
<1> QED
  BY <1>4, <1>5, <1>6 DEF ClaimsOf

LEMMA RequestOwned ==
    ASSUME TypeOK, ClaimsHaveOwners, Request
    PROVE  Owned(claims', appt')
<1>0. Owned(claims, appt) /\ claims \in SUBSET ClaimRow
  BY OwnedClaims DEF TypeOK
<1>1. ASSUME NEW s \in Shipment, NEW sl \in Slot, NEW t \in ReadClock,
             RequestHold(s, sl, t)
      PROVE  Owned(claims', appt')
  <2> DEFINE C == FlipOnInterval(claims, s, sl, t)
  <2>1. C \in SUBSET claims
    BY FlipsAreSubsets
  <2>2. Owned(C, appt) /\ C \in SUBSET ClaimRow
    BY <1>0, <2>1, OwnedSubset
  <2>3. claims' = C \cup {HeldRow(s, sl, t + HeldTTL)} /\ appt' = appt
    BY <1>1 DEF RequestHold
  <2> HIDE DEF C
  <2> QED
    BY <2>2, <2>3, OwnedHeld
<1>2. ASSUME NEW s \in Shipment, NEW sl \in Slot, NEW t \in ReadClock,
             NEW a \in Appointment, RequestDirect(s, sl, t, a)
      PROVE  Owned(claims', appt')
  <2>1. ClaimsOf(claims, a) = {}
    BY <1>2, InactiveClaimless DEF RequestDirect, Fresh, Active, ActiveStatus
  <2>2. /\ \A b \in Appointment \ {a} : appt'[b] = appt[b]
        /\ appt'[a] = Requested(s, sl, t)
    BY <1>2 DEF RequestDirect, TypeOK
  <2>3. Owned(claims, appt')
    BY <1>0, <2>1, <2>2, OwnedElsewhere
  <2>4. appt'[a].status \in ActiveStatus /\ appt'[a].shipment = s
    BY <2>2 DEF Requested, ActiveStatus
  <2>5. claims' = claims \cup {BookedRow(a, s, sl)}
    BY <1>2 DEF RequestDirect
  <2> QED
    BY <2>1, <2>3, <2>4, <2>5, OwnedBooked
<1>3. ASSUME NEW c \in claims, NEW t \in ReadClock, NEW a \in Appointment,
             ConfirmHeld(c, t, a)
      PROVE  Owned(claims', appt')
  <2> DEFINE C == claims \ {c}
  <2>1. ClaimsOf(claims, a) = {}
    BY <1>3, InactiveClaimless DEF ConfirmHeld, Fresh, Active, ActiveStatus
  <2>2. /\ \A b \in Appointment \ {a} : appt'[b] = appt[b]
        /\ appt'[a] = Requested(c.shipment, c.slot, t)
    BY <1>3 DEF ConfirmHeld, TypeOK
  <2>3. /\ Owned(C, appt) /\ C \in SUBSET ClaimRow
        /\ ClaimsOf(C, a) = {}
    BY <1>0, <2>1, OwnedSubset DEF ClaimsOf
  <2>4. Owned(C, appt')
    BY <2>2, <2>3, OwnedElsewhere
  <2>5. appt'[a].status \in ActiveStatus /\ appt'[a].shipment = c.shipment
    BY <2>2 DEF Requested, ActiveStatus
  <2>6. claims' = C \cup {BookedRow(a, c.shipment, c.slot)}
    BY <1>3 DEF ConfirmHeld
  <2> HIDE DEF C
  <2> QED
    BY <2>3, <2>4, <2>5, <2>6, OwnedBooked
<1>4. ASSUME NEW c \in claims, NEW t \in ReadClock, ConfirmHeldInfeasible(c, t)
      PROVE  Owned(claims', appt')
  BY <1>0, <1>4, OwnedSubset DEF ConfirmHeldInfeasible
<1>5. ASSUME NEW a \in Appointment, Cancel(a)
      PROVE  Owned(claims', appt')
  BY <1>0, <1>5, OwnedRelease DEF Cancel, SetStatus, TypeOK
<1> QED
  BY <1>1, <1>2, <1>3, <1>4, <1>5 DEF Request

LEMMA DecideOwned ==
    ASSUME TypeOK, ClaimsHaveOwners, Decide
    PROVE  Owned(claims', appt')
<1>0. Owned(claims, appt) /\ claims \in SUBSET ClaimRow
  BY OwnedClaims DEF TypeOK
<1>1. ASSUME claims' \subseteq claims,
             \A b \in Appointment : Active(b) =>
                 /\ appt'[b].status \in ActiveStatus
                 /\ appt'[b].shipment = appt[b].shipment
      PROVE  Owned(claims', appt')
  <2>1. Owned(claims', appt)
    BY <1>0, <1>1, OwnedSubset
  <2>2. \A c \in claims' : c.state # "HELD" =>
            c.appointment \in Appointment /\ Active(c.appointment)
    BY <1>0, <1>1 DEF ClaimRow, Owned, Active
  <2> QED
    BY <1>1, <2>1, <2>2, OwnedUpdate
<1>2. ASSUME NEW a \in Appointment, Confirm(a)
      PROVE  Owned(claims', appt')
  <2>1. claims' \subseteq claims
    BY <1>2, FlipsAreSubsets DEF Confirm
  <2>2. appt[a] \in LiveRow
    BY <1>2, PendingIsActive, ActiveIsLive DEF Confirm
  <2>3. ASSUME NEW b \in Appointment
        PROVE  \/ appt'[b] = appt[b]
               \/ b = a /\ appt'[b] = [appt[a] EXCEPT !.status = "CONFIRMED"]
    BY <1>2 DEF Confirm, SetStatus, TypeOK
  <2> QED
    BY <1>1, <2>1, <2>2, <2>3 DEF Active, ActiveStatus, LiveRow
<1>3. ASSUME NEW A \in SUBSET {a \in Appointment : ~ Fresh(a)},
             NEW E \in SUBSET {a \in A : Pending(a)}, BulkConfirm(A, E)
      PROVE  Owned(claims', appt')
  <2>1. claims' \subseteq claims
    BY <1>3, FlipsAreSubsets DEF BulkConfirm
  <2>2. ASSUME NEW b \in Appointment, Active(b)
        PROVE  /\ appt'[b].status \in ActiveStatus
               /\ appt'[b].shipment = appt[b].shipment
    <3>1. appt[b] \in LiveRow
      BY <2>2, ActiveIsLive
    <3>2. appt'[b] = appt[b] \/ appt'[b] = [appt[b] EXCEPT !.status = "CONFIRMED"]
      BY <1>3 DEF BulkConfirm
    <3> QED
      BY <2>2, <3>1, <3>2 DEF Active, ActiveStatus, LiveRow
  <2> QED
    BY <1>1, <2>1, <2>2
<1>4. ASSUME NEW a \in Appointment, Reject(a) \/ ManualExpire(a)
      PROVE  Owned(claims', appt')
  BY <1>0, <1>4, OwnedRelease
     DEF Reject, ManualExpire, OpsTransition, SetStatus, TypeOK
<1>5. ASSUME NEW a \in Appointment, HoldForInformation(a)
      PROVE  Owned(claims', appt')
  <2>1. appt[a] \in LiveRow
    BY <1>5, PendingIsActive, ActiveIsLive DEF HoldForInformation
  <2>2. claims' = claims
    BY <1>5 DEF HoldForInformation
  <2>3. ASSUME NEW b \in Appointment
        PROVE  /\ appt'[b].status = appt[b].status
               /\ appt'[b].shipment = appt[b].shipment
    BY <1>5, <2>1 DEF HoldForInformation, TypeOK, LiveRow
  <2> QED
    BY <1>1, <2>2, <2>3 DEF Active
<1>6. ASSUME NEW a \in Appointment, NEW sl \in Slot, CounterOffer(a, sl)
      PROVE  Owned(claims', appt')
  <2> DEFINE s == appt[a].shipment
             C == FlipForAppointments({a})
             D == FlipOnInterval(Release(C, a), s, sl, now)
  <2>1. D \in SUBSET Release(C, a) /\ D \in SUBSET claims
    BY FlipsAreSubsets
  <2>2. /\ Owned(D, appt) /\ D \in SUBSET ClaimRow
        /\ ClaimsOf(D, a) = {}
    BY <1>0, <2>1, OwnedSubset, ReleaseEmpties
  <2>3. appt[a] \in LiveRow /\ Active(a)
    BY <1>6, PendingIsActive, ActiveIsLive DEF CounterOffer
  <2>4. /\ \A b \in Appointment \ {a} : appt'[b] = appt[b]
        /\ appt'[a] = [appt[a] EXCEPT !.slot = sl]
    BY <1>6 DEF CounterOffer, TypeOK
  <2>5. Owned(D, appt')
    BY <2>2, <2>4, OwnedElsewhere
  <2>6. appt'[a].status \in ActiveStatus /\ appt'[a].shipment = s
    BY <2>3, <2>4 DEF LiveRow, Active
  <2>7. claims' = D \cup {BookedRow(a, s, sl)}
    BY <1>6 DEF CounterOffer
  <2> HIDE DEF D, s
  <2> QED
    BY <2>2, <2>5, <2>6, <2>7, OwnedBooked
<1> QED
  BY <1>2, <1>3, <1>4, <1>5, <1>6 DEF Decide

LEMMA RescheduleOwned ==
    ASSUME TypeOK, InFlight, ClaimsHaveOwners, Reschedule
    PROVE  Owned(claims', appt')
<1>0. Owned(claims, appt) /\ claims \in SUBSET ClaimRow
  BY OwnedClaims DEF TypeOK
<1>1. ASSUME NEW s \in Shipment, NEW t \in ReadClock, NEW b \in Appointment,
             RescheduleMove(s, t, b)
      PROVE  Owned(claims', appt')
  <2> DEFINE a == resched[s].appointment
             sl == resched[s].target
             C == Release(claims, a)
             ap == [appt EXCEPT ![a].status = "CANCELLED"]
  <2>1. a \in Appointment /\ Active(a)
    BY <1>1, CheckedType DEF RescheduleMove, MayMove
  <2>2. Fresh(b) /\ a # b
    BY <1>1, <2>1 DEF RescheduleMove, Fresh, Active, ActiveStatus
  <2>3. C \in SUBSET claims
    BY FlipsAreSubsets
  <2>4. /\ Owned(C, appt) /\ C \in SUBSET ClaimRow
        /\ ClaimsOf(C, a) = {}
    BY <1>0, <2>3, OwnedSubset, ReleaseEmpties
  <2>5. Owned(C, ap)
    <3>1. \A d \in Appointment \ {a} : ap[d] = appt[d]
      BY DEF TypeOK
    <3> HIDE DEF C, ap
    <3> QED
      BY <2>4, <3>1, OwnedElsewhere
  <2>6. ClaimsOf(C, b) = {}
    <3>1. ClaimsOf(claims, b) = {}
      BY <2>2, InactiveClaimless DEF Fresh, Active, ActiveStatus
    <3> QED
      BY <2>3, <3>1 DEF ClaimsOf
  <2>7. /\ \A d \in Appointment \ {b} : appt'[d] = ap[d]
        /\ appt'[b] = Requested(s, sl, t)
    BY <1>1, <2>1, <2>2 DEF RescheduleMove, TypeOK
  <2>8. Owned(C, appt')
    <3> HIDE DEF C, ap
    <3> QED
      BY <2>4, <2>5, <2>6, <2>7, OwnedElsewhere
  <2>9. appt'[b].status \in ActiveStatus /\ appt'[b].shipment = s
    BY <2>7 DEF Requested, ActiveStatus
  <2>10. claims' = C \cup {BookedRow(b, s, sl)}
    BY <1>1 DEF RescheduleMove
  <2> HIDE DEF C, sl
  <2> QED
    BY <2>6, <2>8, <2>9, <2>10, OwnedBooked
<1>2. ASSUME NEW s \in Shipment, NEW t \in ReadClock, RescheduleToHold(s, t)
      PROVE  Owned(claims', appt')
  <2> DEFINE a == resched[s].appointment
             sl == resched[s].target
             C == FlipOnInterval(Release(claims, a), s, sl, t)
             H == C \cup {HeldRow(s, sl, t + HeldTTL)}
  <2>1. a \in Appointment /\ Active(a)
    BY <1>2, CheckedType DEF RescheduleToHold, MayMove
  <2>2. appt[a].status \in ActiveStatus /\ appt[a].shipment = s
    BY <1>2, <2>1 DEF Active, InFlight, RescheduleToHold, MayMove, NoReschedule
  <2>3. C \in SUBSET claims
    BY FlipsAreSubsets
  <2>4. Owned(C, appt) /\ C \in SUBSET ClaimRow
    BY <1>0, <2>3, OwnedSubset
  <2>5. Owned(H, appt)
    <3> HIDE DEF C
    <3> QED
      BY <2>4, OwnedHeld
  <2>6. PutBack(H, a, s) /\ appt' = appt
    BY <1>2 DEF RescheduleToHold
  <2> HIDE DEF H, a
  <2> QED
    BY <2>2, <2>5, <2>6, ReclaimOwned DEF PutBack
<1>3. ASSUME NEW s \in Shipment, RescheduleRestore(s)
      PROVE  Owned(claims', appt')
  <2> DEFINE r == resched[s]
             a == r.appointment
  <2>1. a \in Appointment /\ r.status \in ActiveStatus
    BY <1>3, CollidedType DEF RescheduleRestore
  <2>2. ~ Fresh(a) /\ appt[a].shipment = s
    BY <1>3 DEF InFlight, RescheduleRestore, NoReschedule
  <2>3. appt[a] \in LiveRow
    BY <2>1, <2>2, RowIsLive
  <2>4. /\ \A d \in Appointment \ {a} : appt'[d] = appt[d]
        /\ appt'[a] = [appt[a] EXCEPT !.status = r.status]
    BY <1>3, <2>1 DEF RescheduleRestore, SetStatus, TypeOK
  <2>5. appt'[a].status \in ActiveStatus /\ appt'[a].shipment = appt[a].shipment
    BY <2>1, <2>3, <2>4 DEF LiveRow
  <2>6. Owned(claims, appt')
    <3>1. \A c \in claims : c.state # "HELD" => c.appointment \in Appointment
      BY <1>0 DEF ClaimRow
    <3>2. \A c \in claims : c.state # "HELD" =>
              /\ appt'[c.appointment].status \in ActiveStatus
              /\ appt'[c.appointment].shipment = appt[c.appointment].shipment
      BY <1>0, <2>4, <2>5, <3>1 DEF Owned
    <3> QED
      BY <1>0, <3>2, OwnedUpdate
  <2>7. RestoreClaim(s)
    BY <1>3 DEF RescheduleRestore
  <2>8. CASE r.released
    <3>1. Reclaim(claims, a, s, r.slot)
      BY <2>7, <2>8 DEF RestoreClaim
    <3>2. appt'[a].shipment = s
      BY <2>2, <2>5
    <3> HIDE DEF a, r
    <3> QED
      BY <2>5, <2>6, <3>1, <3>2, ReclaimOwned
  <2>9. CASE ~ r.released
    BY <2>6, <2>7, <2>9 DEF RestoreClaim
  <2> QED
    BY <2>8, <2>9
<1>4. CASE UNCHANGED <<appt, claims>>
  BY <1>0, <1>4
<1> QED
  BY <1>1, <1>2, <1>3, <1>4
     DEF Reschedule, ReschedulePrecheck, RescheduleCollide, RescheduleDrop

LEMMA SweepOwned ==
    ASSUME TypeOK, ClaimsHaveOwners, Sweep
    PROVE  Owned(claims', appt')
<1>0. Owned(claims, appt)
  BY OwnedClaims
<1>1. ASSUME NEW w \in Sweeper, NEW a \in Appointment, SweepExpire(w, a)
      PROVE  Owned(claims', appt')
  BY <1>0, <1>1, OwnedRelease DEF SweepExpire, SetStatus, TypeOK
<1>2. ASSUME NEW w \in Sweeper, NEW D \in SUBSET claims, NEW t \in ReadClock,
             SweepHolds(w, D, t)
      PROVE  Owned(claims', appt')
  BY <1>0, <1>2, OwnedSubset DEF SweepHolds
<1>3. CASE UNCHANGED <<appt, claims>>
  BY <1>0, <1>3
<1> QED
  BY <1>1, <1>2, <1>3 DEF Sweep, SweepRun, SweepScan, SweepSkip, SweepAbort

OwnerInv == TypeInv /\ ClaimsHaveOwners

LEMMA NextOwnerInv == OwnerInv /\ [Next]_vars => OwnerInv'
<1> SUFFICES ASSUME TypeOK, InFlight, ClaimsHaveOwners, [Next]_vars
             PROVE  TypeInv' /\ ClaimsHaveOwners'
  BY DEF OwnerInv, TypeInv
<1>1. TypeInv'
  BY NextTypeInv DEF TypeInv
<1>2. Owned(claims', appt')
  <2>1. CASE UNCHANGED <<appt, claims>>
    BY <2>1, OwnedClaims
  <2> QED
    BY <2>1, RequestOwned, DecideOwned, RescheduleOwned, SweepOwned
       DEF Next, Tick, vars
<1>3. ClaimsHaveOwners'
  BY <1>2 DEF ClaimsHaveOwners, Owned, Active
<1> QED
  BY <1>1, <1>3

LEMMA OwnerInvariant == Spec => []OwnerInv
<1>1. Init => OwnerInv
  BY InitTypeInv, InitOwned DEF OwnerInv
<1> QED
  BY <1>1, NextOwnerInv, PTL DEF Spec

\* No claim outlives the activity of its appointment, and none is doubled,
\* over every cancel, expiry, counter-offer, reschedule and restore.
THEOREM ClaimsAreOwned == Spec => []ClaimsHaveOwners
<1>1. OwnerInv => ClaimsHaveOwners
  BY DEF OwnerInv
<1> QED
  BY <1>1, OwnerInvariant, PTL
-----------------------------------------------------------------------------
(***************************************************************************)
(* The converse: an active appointment made since dock_occupancy exists    *)
(* holds a claim, and the claim of its own slot unless a restore undid a   *)
(* decision.  Inductive together with the fact that a collided reschedule  *)
(* of such an appointment noted a released claim, so that its restore      *)
(* takes one again.                                                        *)
(***************************************************************************)

Protected(a) ==
    \E c \in claims : /\ c.appointment = a
                      /\ a \notin reopened => c.slot = appt[a].slot

CollidedHadClaim ==
    \A s \in Shipment :
        (resched[s].stage = "collided" /\ resched[s].appointment \notin Seeded)
            => resched[s].released

LEMMA ProtectedActive ==
    ActiveIsProtected <=> \A a \in Appointment \ Seeded : Active(a) => Protected(a)
BY DEF ActiveIsProtected, Protected

-----------------------------------------------------------------------------
(* What a booking's row survives.                                           *)

LEMMA BookedIsNotHeld ==
    ASSUME TypeOK, NEW c \in claims, c.appointment \in Appointment
    PROVE  c.state # "HELD"
BY DataAssumption DEF TypeOK, ClaimRow

LEMMA FlipsKeepBooked ==
    ASSUME NEW c, c.state # "HELD"
    PROVE  /\ \A C, s, sl, t : c \in C => c \in FlipOnInterval(C, s, sl, t)
           /\ \A A : c \in claims => c \in FlipForAppointments(A)
           /\ \A C, a : c \in C /\ c.appointment # a => c \in Release(C, a)
BY DEF FlipOnInterval, FlipForAppointments, LapsedBy, Release, ClaimsOf

\* An appointment stays protected when its row's slot and its claims stay.
LEMMA ProtectionKept ==
    ASSUME NEW a \in Appointment, Protected(a),
           appt'[a].slot = appt[a].slot,
           reopened \subseteq reopened',
           \A c \in claims : c.appointment = a => c \in claims'
    PROVE  Protected(a)'
BY DEF Protected

\* A claim entered for the slot of its row protects it.
LEMMA ProtectionGained ==
    ASSUME NEW a \in Appointment, NEW s, NEW sl,
           BookedRow(a, s, sl) \in claims',
           a \notin reopened' => appt'[a].slot = sl
    PROVE  Protected(a)'
BY DEF Protected, BookedRow

\* Reclaim leaves every booking where it was and gives a a claim.
LEMMA ReclaimKeeps ==
    ASSUME NEW C, NEW a, NEW s, NEW sl, Reclaim(C, a, s, sl)
    PROVE  \A c \in C : c.state # "HELD" => c \in claims'
BY FlipsKeepBooked DEF Reclaim

LEMMA ReclaimGives ==
    ASSUME NEW C, NEW a, NEW s, NEW sl, Reclaim(C, a, s, sl)
    PROVE  ClaimsOf(C, a) # {} \/ BookedRow(a, s, sl) \in claims'
BY DEF Reclaim

-----------------------------------------------------------------------------
LEMMA RequestProtected ==
    ASSUME TypeOK, ActiveIsProtected, Request,
           NEW b \in Appointment \ Seeded, Active(b)'
    PROVE  Protected(b)'
<1>0. Active(b) => Protected(b)
  BY ProtectedActive
<1>1. \A c \in claims : c.appointment = b => c.state # "HELD"
  BY BookedIsNotHeld
<1>2. ASSUME appt'[b] = appt[b], reopened' = reopened,
             \A c \in claims : c.appointment = b => c \in claims'
      PROVE  Protected(b)'
  BY <1>0, <1>2, ProtectionKept DEF Active
<1>3. ASSUME NEW s \in Shipment, NEW sl \in Slot, NEW t \in ReadClock,
             RequestHold(s, sl, t)
      PROVE  Protected(b)'
  BY <1>1, <1>2, <1>3, FlipsKeepBooked DEF RequestHold
<1>4. ASSUME NEW s \in Shipment, NEW sl \in Slot, NEW t \in ReadClock,
             NEW a \in Appointment, RequestDirect(s, sl, t, a)
      PROVE  Protected(b)'
  <2>1. CASE a = b
    <3>1. appt'[b].slot = sl /\ BookedRow(b, s, sl) \in claims'
      BY <1>4, <2>1 DEF RequestDirect, TypeOK, Requested
    <3> QED
      BY <3>1, ProtectionGained
  <2>2. CASE a # b
    BY <1>2, <1>4, <2>2 DEF RequestDirect, TypeOK
  <2> QED
    BY <2>1, <2>2
<1>5. ASSUME NEW c \in claims, NEW t \in ReadClock, NEW a \in Appointment,
             ConfirmHeld(c, t, a)
      PROVE  Protected(b)'
  <2>1. CASE a = b
    <3>1. appt'[b].slot = c.slot /\ BookedRow(b, c.shipment, c.slot) \in claims'
      BY <1>5, <2>1 DEF ConfirmHeld, TypeOK, Requested
    <3> QED
      BY <3>1, ProtectionGained
  <2>2. CASE a # b
    BY <1>1, <1>2, <1>5, <2>2 DEF ConfirmHeld, TypeOK
  <2> QED
    BY <2>1, <2>2
<1>6. ASSUME NEW c \in claims, NEW t \in ReadClock, ConfirmHeldInfeasible(c, t)
      PROVE  Protected(b)'
  BY <1>1, <1>2, <1>6 DEF ConfirmHeldInfeasible
<1>7. ASSUME NEW a \in Appointment, Cancel(a)
      PROVE  Protected(b)'
  <2>1. a # b
    BY <1>7 DEF Cancel, SetStatus, TypeOK, Active, ActiveStatus, AppointmentRow, Absent
  <2> QED
    BY <1>1, <1>2, <1>7, <2>1, FlipsKeepBooked DEF Cancel, SetStatus, TypeOK
<1> QED
  BY <1>3, <1>4, <1>5, <1>6, <1>7 DEF Request

LEMMA DecideProtected ==
    ASSUME TypeOK, ActiveIsProtected, Decide,
           NEW b \in Appointment \ Seeded, Active(b)'
    PROVE  Protected(b)'
<1>0. Active(b) => Protected(b)
  BY ProtectedActive
<1>1. \A c \in claims : c.appointment = b => c.state # "HELD"
  BY BookedIsNotHeld
<1>2. ASSUME Active(b), appt'[b].slot = appt[b].slot, reopened' = reopened,
             \A c \in claims : c.appointment = b => c \in claims'
      PROVE  Protected(b)'
  BY <1>0, <1>2, ProtectionKept
<1>3. ASSUME NEW a \in Appointment, Confirm(a)
      PROVE  Protected(b)'
  <2>1. appt[a] \in LiveRow /\ Active(a)
    BY <1>3, PendingIsActive, ActiveIsLive DEF Confirm
  <2>2. Active(b) /\ appt'[b].slot = appt[b].slot
    <3>1. \/ appt'[b] = appt[b]
          \/ b = a /\ appt'[b] = [appt[a] EXCEPT !.status = "CONFIRMED"]
      BY <1>3 DEF Confirm, SetStatus, TypeOK
    <3> QED
      BY <2>1, <3>1 DEF LiveRow, Active
  <2>3. \A c \in claims : c.appointment = b => c \in claims'
    BY <1>1, <1>3, FlipsKeepBooked DEF Confirm
  <2> QED
    BY <1>2, <1>3, <2>2, <2>3 DEF Confirm
<1>4. ASSUME NEW A \in SUBSET {a \in Appointment : ~ Fresh(a)},
             NEW E \in SUBSET {a \in A : Pending(a)}, BulkConfirm(A, E)
      PROVE  Protected(b)'
  <2>1. Active(b) /\ appt'[b].slot = appt[b].slot
    <3>1. CASE b \in E
      <4>1. appt[b] \in LiveRow /\ Active(b)
        BY <3>1, PendingIsActive, ActiveIsLive
      <4>2. \/ appt'[b] = appt[b]
            \/ appt'[b] = [appt[b] EXCEPT !.status = "CONFIRMED"]
        BY <1>4 DEF BulkConfirm
      <4> QED
        BY <4>1, <4>2 DEF LiveRow
    <3>2. CASE b \notin E
      BY <1>4, <3>2 DEF BulkConfirm, Active
    <3> QED
      BY <3>1, <3>2
  <2>2. \A c \in claims : c.appointment = b => c \in claims'
    BY <1>1, <1>4, FlipsKeepBooked DEF BulkConfirm
  <2> QED
    BY <1>2, <1>4, <2>1, <2>2 DEF BulkConfirm
<1>5. ASSUME NEW a \in Appointment, Reject(a) \/ ManualExpire(a)
      PROVE  Protected(b)'
  <2>1. a # b
    BY <1>5 DEF Reject, ManualExpire, OpsTransition, SetStatus, TypeOK, Active,
                ActiveStatus, AppointmentRow, Absent
  <2>2. appt'[b] = appt[b] /\ reopened' = reopened
    BY <1>5, <2>1 DEF Reject, ManualExpire, OpsTransition, SetStatus, TypeOK
  <2>3. \A c \in claims : c.appointment = b => c \in claims'
    BY <1>1, <1>5, <2>1, FlipsKeepBooked DEF Reject, ManualExpire, OpsTransition
  <2> QED
    BY <1>2, <2>2, <2>3 DEF Active
<1>6. ASSUME NEW a \in Appointment, HoldForInformation(a)
      PROVE  Protected(b)'
  <2>1. appt[a] \in LiveRow /\ Active(a)
    BY <1>6, PendingIsActive, ActiveIsLive DEF HoldForInformation
  <2>2. Active(b) /\ appt'[b].slot = appt[b].slot
    BY <1>6, <2>1 DEF HoldForInformation, TypeOK, LiveRow, Active
  <2> QED
    BY <1>2, <1>6, <2>2 DEF HoldForInformation
<1>7. ASSUME NEW a \in Appointment, NEW sl \in Slot, CounterOffer(a, sl)
      PROVE  Protected(b)'
  <2> DEFINE s == appt[a].shipment
             C == FlipForAppointments({a})
             D == FlipOnInterval(Release(C, a), s, sl, now)
  <2>1. claims' = D \cup {BookedRow(a, s, sl)}
    BY <1>7 DEF CounterOffer
  <2>2. CASE a = b
    <3>1. appt[a] \in LiveRow
      BY <1>7, PendingIsActive, ActiveIsLive DEF CounterOffer
    <3>2. appt'[b].slot = sl
      BY <1>7, <2>2, <3>1 DEF CounterOffer, TypeOK, LiveRow
    <3>3. BookedRow(b, s, sl) \in claims'
      BY <2>1, <2>2
    <3> HIDE DEF s
    <3> QED
      BY <3>2, <3>3, ProtectionGained
  <2>3. CASE a # b
    <3>1. \A c \in claims : c.appointment = b => c \in D
      BY <1>1, <2>3, FlipsKeepBooked
    <3>2. appt'[b] = appt[b] /\ reopened' = reopened
      BY <1>7, <2>3 DEF CounterOffer, TypeOK
    <3> HIDE DEF D
    <3> QED
      BY <1>2, <2>1, <3>1, <3>2 DEF Active
  <2> QED
    BY <2>2, <2>3
<1> QED
  BY <1>3, <1>4, <1>5, <1>6, <1>7 DEF Decide

LEMMA SweepProtected ==
    ASSUME TypeOK, ActiveIsProtected, Sweep,
           NEW b \in Appointment \ Seeded, Active(b)'
    PROVE  Protected(b)'
<1>0. Active(b) => Protected(b)
  BY ProtectedActive
<1>1. \A c \in claims : c.appointment = b => c.state # "HELD"
  BY BookedIsNotHeld
<1>2. ASSUME appt'[b] = appt[b], reopened' = reopened,
             \A c \in claims : c.appointment = b => c \in claims'
      PROVE  Protected(b)'
  BY <1>0, <1>2, ProtectionKept DEF Active
<1>3. ASSUME NEW w \in Sweeper, NEW a \in Appointment, SweepExpire(w, a)
      PROVE  Protected(b)'
  <2>1. a # b
    BY <1>3 DEF SweepExpire, SetStatus, TypeOK, Active, ActiveStatus,
                AppointmentRow, Absent
  <2> QED
    BY <1>1, <1>2, <1>3, <2>1, FlipsKeepBooked DEF SweepExpire, SetStatus, TypeOK
<1>4. ASSUME NEW w \in Sweeper, NEW D \in SUBSET claims, NEW t \in ReadClock,
             SweepHolds(w, D, t)
      PROVE  Protected(b)'
  BY <1>1, <1>2, <1>4 DEF SweepHolds, LapsedBy
<1>5. CASE UNCHANGED <<appt, claims, reopened>>
  BY <1>2, <1>5
<1> QED
  BY <1>3, <1>4, <1>5 DEF Sweep, SweepRun, SweepScan, SweepSkip, SweepAbort

LEMMA RescheduleProtected ==
    ASSUME TypeOK, InFlight, ActiveIsProtected, CollidedHadClaim, Reschedule,
           NEW b \in Appointment \ Seeded, Active(b)'
    PROVE  Protected(b)'
<1>0. Active(b) => Protected(b)
  BY ProtectedActive
<1>1. \A c \in claims : c.appointment = b => c.state # "HELD"
  BY BookedIsNotHeld
<1>2. ASSUME Active(b), appt'[b].slot = appt[b].slot, reopened \subseteq reopened',
             \A c \in claims : c.appointment = b => c \in claims'
      PROVE  Protected(b)'
  BY <1>0, <1>2, ProtectionKept
<1>3. ASSUME NEW s \in Shipment, NEW t \in ReadClock, NEW d \in Appointment,
             RescheduleMove(s, t, d)
      PROVE  Protected(b)'
  <2> DEFINE a == resched[s].appointment
             sl == resched[s].target
  <2>1. a \in Appointment /\ Active(a) /\ Fresh(d) /\ a # d
    BY <1>3, CheckedType DEF RescheduleMove, MayMove, Fresh, Active, ActiveStatus
  <2>2. /\ appt'[d] = Requested(s, sl, t)
        /\ appt'[a] = [appt[a] EXCEPT !.status = "CANCELLED"]
        /\ b # a /\ b # d => appt'[b] = appt[b]
    BY <1>3, <2>1 DEF RescheduleMove, TypeOK
  <2>3. a # b
    <3>1. appt[a] \in LiveRow
      BY <2>1, ActiveIsLive
    <3> QED
      BY <2>2, <3>1 DEF Active, ActiveStatus, LiveRow
  <2>4. CASE d = b
    <3>1. appt'[b].slot = sl /\ BookedRow(b, s, sl) \in claims'
      BY <1>3, <2>2, <2>4 DEF RescheduleMove, Requested
    <3> HIDE DEF sl
    <3> QED
      BY <3>1, ProtectionGained
  <2>5. CASE d # b
    <3>1. appt'[b] = appt[b]
      BY <2>2, <2>3, <2>5
    <3>2. \A c \in claims : c.appointment = b => c \in claims'
      BY <1>3, <1>1, <2>3, FlipsKeepBooked DEF RescheduleMove
    <3>3. reopened' = reopened
      BY <1>3 DEF RescheduleMove
    <3> QED
      BY <1>2, <3>1, <3>2, <3>3 DEF Active
  <2> QED
    BY <2>4, <2>5
<1>4. ASSUME NEW s \in Shipment, NEW t \in ReadClock, RescheduleToHold(s, t)
      PROVE  Protected(b)'
  <2> DEFINE a == resched[s].appointment
             sl == resched[s].target
             C == FlipOnInterval(Release(claims, a), s, sl, t)
             H == C \cup {HeldRow(s, sl, t + HeldTTL)}
  <2>1. PutBack(H, a, s) /\ appt' = appt /\ reopened' = reopened
    BY <1>4 DEF RescheduleToHold
  <2>2. Active(b) /\ Protected(b)
    BY <1>0, <2>1 DEF Active
  <2>3. \A c \in H : c.state # "HELD" => c \in claims'
    <3> HIDE DEF H, a
    <3> QED
      BY <2>1, ReclaimKeeps DEF PutBack
  <2>4. CASE a # b
    <3>1. \A c \in claims : c.appointment = b => c \in H
      BY <1>1, <2>4, FlipsKeepBooked
    <3>2. \A c \in claims : c.appointment = b => c \in claims'
      BY <1>1, <2>3, <3>1
    <3> QED
      BY <1>2, <2>1, <2>2, <3>2
  <2>5. CASE a = b
    <3>1. ClaimsOf(claims, a) # {}
      BY <2>2, <2>5 DEF Protected, ClaimsOf
    <3>2. Reclaim(H, a, s, appt[a].slot)
      BY <2>1, <3>1 DEF PutBack
    <3>3. ClaimsOf(H, a) = {}
      <4>1. C \subseteq Release(claims, a)
        BY FlipsAreSubsets
      <4>2. HeldRow(s, sl, t + HeldTTL).appointment # a
        BY <2>5, DataAssumption DEF HeldRow
      <4> QED
        BY <4>1, <4>2 DEF Release, ClaimsOf
    <3>4. BookedRow(b, s, appt[b].slot) \in claims'
      <4> HIDE DEF H, a
      <4> QED
        BY <2>5, <3>2, <3>3, ReclaimGives
    <3> QED
      BY <2>1, <3>4, ProtectionGained
  <2> QED
    BY <2>4, <2>5
<1>5. ASSUME NEW s \in Shipment, RescheduleRestore(s)
      PROVE  Protected(b)'
  <2> DEFINE r == resched[s]
             a == r.appointment
  <2>1. a \in Appointment /\ r.status \in ActiveStatus
    BY <1>5, CollidedType DEF RescheduleRestore
  <2>2. RestoreClaim(s) /\ reopened \subseteq reopened'
    BY <1>5 DEF RescheduleRestore
  <2>3. \A c \in claims : c.state # "HELD" => c \in claims'
    BY <2>2, ReclaimKeeps DEF RestoreClaim
  <2>4. appt[a] \in LiveRow
    <3>1. ~ Fresh(a)
      BY <1>5 DEF InFlight, RescheduleRestore, NoReschedule
    <3> QED
      BY <2>1, <3>1, RowIsLive
  <2>5. appt'[b].slot = appt[b].slot
    BY <1>5, <2>1, <2>4 DEF RescheduleRestore, SetStatus, TypeOK, LiveRow
  <2>6. CASE Active(b)
    BY <1>1, <1>2, <2>2, <2>3, <2>5, <2>6
  <2>7. CASE ~ Active(b)
    <3>1. a = b
      BY <1>5, <2>1, <2>7 DEF RescheduleRestore, SetStatus, TypeOK, Active
    <3>2. r.released
      BY <1>5, <3>1 DEF CollidedHadClaim, RescheduleRestore
    <3>3. Reclaim(claims, a, s, r.slot)
      BY <2>2, <3>2 DEF RestoreClaim
    <3>4. b \in reopened'
      BY <1>5, <2>1, <2>7, <3>1 DEF RescheduleRestore, Active
    <3>5. \/ ClaimsOf(claims, b) # {}
          \/ BookedRow(b, s, r.slot) \in claims'
      <4> HIDE DEF a, r
      <4> QED
        BY <3>1, <3>3, ReclaimGives
    <3>6. \E c \in claims' : c.appointment = b
      BY <1>1, <2>3, <3>5 DEF ClaimsOf, BookedRow
    <3> QED
      BY <3>4, <3>6 DEF Protected
  <2> QED
    BY <2>6, <2>7
<1>6. CASE UNCHANGED <<appt, claims, reopened>>
  BY <1>2, <1>6 DEF Active
<1> QED
  BY <1>3, <1>4, <1>5, <1>6
     DEF Reschedule, ReschedulePrecheck, RescheduleCollide, RescheduleDrop

LEMMA CollidedHadClaimKept ==
    ASSUME TypeOK, ActiveIsProtected, CollidedHadClaim, [Next]_vars
    PROVE  CollidedHadClaim'
<1> SUFFICES ASSUME NEW s \in Shipment, resched'[s].stage = "collided",
                    resched'[s].appointment \notin Seeded
             PROVE  resched'[s].released
  BY DEF CollidedHadClaim
<1>1. CASE resched'[s] = resched[s]
  BY <1>1 DEF CollidedHadClaim
<1>2. ASSUME NEW r \in Shipment, resched' = [resched EXCEPT ![r] = NoReschedule]
      PROVE  resched'[s] = resched[s]
  BY <1>2 DEF TypeOK, NoReschedule
<1>3. ASSUME NEW r \in Shipment, NEW a \in Appointment, NEW sl \in Slot,
             ReschedulePrecheck(r, a, sl)
      PROVE  resched'[s] = resched[s]
  BY <1>3 DEF ReschedulePrecheck, TypeOK
<1>4. ASSUME NEW r \in Shipment, NEW t \in ReadClock, RescheduleCollide(r, t)
      PROVE  resched'[s].released
  <2> DEFINE a == resched[r].appointment
  <2>1. CASE r = s
    <3>1. a \in Appointment /\ Active(a)
      BY <1>4, CheckedType DEF RescheduleCollide, MayMove
    <3>2. /\ resched'[s].appointment = a
          /\ resched'[s].released = (ClaimsOf(claims, a) # {})
      BY <1>4, <2>1 DEF RescheduleCollide, TypeOK
    <3>3. ClaimsOf(claims, a) # {}
      BY <3>1, <3>2, ProtectedActive DEF Protected, ClaimsOf
    <3> QED
      BY <3>2, <3>3
  <2>2. CASE r # s
    BY <1>1, <1>4, <2>2 DEF RescheduleCollide, TypeOK
  <2> QED
    BY <2>1, <2>2
<1>5. CASE Reschedule
  BY <1>1, <1>2, <1>3, <1>4, <1>5
     DEF Reschedule, RescheduleMove, RescheduleToHold, RescheduleRestore,
         RescheduleDrop
<1>6. CASE UNCHANGED resched
  BY <1>1, <1>6
<1> QED
  BY <1>5, <1>6
     DEF Next, vars, Request, RequestHold, RequestDirect, ConfirmHeld,
         ConfirmHeldInfeasible, Cancel, Decide, Confirm, BulkConfirm, Reject,
         ManualExpire, OpsTransition, HoldForInformation, CounterOffer, Sweep,
         SweepRun, SweepScan, SweepExpire, SweepSkip, SweepHolds, SweepAbort, Tick

-----------------------------------------------------------------------------
ProtectionInv == TypeInv /\ ActiveIsProtected /\ CollidedHadClaim

LEMMA InitProtected == Init => ProtectionInv
<1> SUFFICES ASSUME Init PROVE ProtectionInv
  OBVIOUS
<1>1. ActiveIsProtected
  BY DEF Init, ActiveIsProtected, Active, Absent, ActiveStatus
<1>2. CollidedHadClaim
  BY DEF Init, CollidedHadClaim, NoReschedule
<1> QED
  BY <1>1, <1>2, InitTypeInv DEF ProtectionInv

LEMMA NextProtected == ProtectionInv /\ [Next]_vars => ProtectionInv'
<1> SUFFICES ASSUME TypeOK, InFlight, ActiveIsProtected, CollidedHadClaim,
                    [Next]_vars
             PROVE  TypeInv' /\ ActiveIsProtected' /\ CollidedHadClaim'
  BY DEF ProtectionInv, TypeInv
<1>1. TypeInv'
  BY NextTypeInv DEF TypeInv
<1>2. CollidedHadClaim'
  BY CollidedHadClaimKept
<1>3. ASSUME NEW b \in Appointment \ Seeded, Active(b)'
      PROVE  Protected(b)'
  <2>1. CASE UNCHANGED <<appt, claims, reopened>>
    <3>1. Protected(b)
      BY <1>3, <2>1, ProtectedActive DEF Active
    <3> QED
      BY <2>1, <3>1 DEF Protected
  <2> QED
    BY <1>3, <2>1, RequestProtected, DecideProtected, RescheduleProtected,
       SweepProtected DEF Next, Tick, vars
<1>4. ActiveIsProtected'
  BY <1>3 DEF ActiveIsProtected, Protected
<1> QED
  BY <1>1, <1>2, <1>4

\* Through every interleaving of moves, collisions and restores, an active
\* appointment made since dock_occupancy exists holds a claim, and the one of
\* its slot unless a restore undid a decision.
THEOREM ActiveAreProtected == Spec => []ActiveIsProtected
<1>1. ProtectionInv => ActiveIsProtected
  BY DEF ProtectionInv
<1> QED
  BY <1>1, InitProtected, NextProtected, PTL DEF Spec
-----------------------------------------------------------------------------
(* What becomes of one appointment's row: every step leaves it alone or does*)
(* one of six things to it.  The properties of the decisions, of the D9     *)
(* clock, of the notifications and of the sweep follow from that case split;*)
(* those of the claims from what a step leaves of them.                     *)

\* A request, or the confirmation of a hold, makes the appointment.
Made(a) ==
    /\ Fresh(a)
    /\ \E s \in Shipment, sl \in Slot, t \in ReadClock :
           /\ appt'[a] = Requested(s, sl, t)
           /\ TwoPhase => \E c \in claims :
                  /\ c.state = "HELD" /\ c.shipment = s /\ c.slot = sl
                  /\ c.expiresAt > t
                  /\ c \notin claims'

EventOf(st) == CASE st = "CONFIRMED" -> "APPOINTMENT_CONFIRMED"
                 [] st = "REJECTED" -> "APPOINTMENT_REJECTED"
                 [] st = "EXPIRED" -> "PENDING_EXPIRED"

\* A planner or the sweep decides a pending one, and tells its driver.
Decided(a) ==
    /\ Pending(a)
    /\ \E st \in {"CONFIRMED", "REJECTED", "EXPIRED"} :
           /\ appt'[a] = [appt[a] EXCEPT !.status = st]
           /\ <<EventOf(st), a>> \in outbox'

Cancelled(a) ==
    Active(a) /\ appt'[a] = [appt[a] EXCEPT !.status = "CANCELLED"]

Extended(a) ==
    /\ Pending(a)
    /\ appt[a].expiresAt = NoDeadline
    /\ appt'[a] = [appt[a] EXCEPT !.expiresAt = now + PendingTTL]

Moved(a) ==
    Pending(a) /\ \E sl \in Slot : appt'[a] = [appt[a] EXCEPT !.slot = sl]

\* A reschedule that collided writes back the status it had noted.
Restored(a) ==
    \E s \in Shipment :
        /\ resched[s].stage = "collided" /\ resched[s].appointment = a
        /\ appt'[a] = [appt[a] EXCEPT !.status = resched[s].status]
        /\ resched'[s] = NoReschedule

RowStep(a) ==
    \/ appt'[a] = appt[a]
    \/ Made(a) \/ Decided(a) \/ Cancelled(a) \/ Extended(a) \/ Moved(a)
    \/ Restored(a)

-----------------------------------------------------------------------------
LEMMA InsertIsMade ==
    ASSUME TypeOK, NEW s \in Shipment, NEW sl \in Slot, NEW t \in ReadClock,
           NEW b \in Appointment, Fresh(b),
           appt' = [appt EXCEPT ![b] = Requested(s, sl, t)],
           TwoPhase => \E c \in claims :
               /\ c.state = "HELD" /\ c.shipment = s /\ c.slot = sl
               /\ c.expiresAt > t
               /\ c \notin claims',
           NEW a \in Appointment
    PROVE  RowStep(a)
<1>1. CASE a = b
  <2>1. appt'[a] = Requested(s, sl, t)
    BY <1>1 DEF TypeOK
  <2> QED
    BY <1>1, <2>1 DEF RowStep, Made
<1>2. CASE a # b
  BY <1>2 DEF TypeOK, RowStep
<1> QED
  BY <1>1, <1>2

LEMMA StatusIsDecided ==
    ASSUME TypeOK, NEW b \in Appointment, Pending(b),
           NEW st \in {"CONFIRMED", "REJECTED", "EXPIRED"},
           appt' = SetStatus(b, st), <<EventOf(st), b>> \in outbox',
           NEW a \in Appointment
    PROVE  RowStep(a)
<1>1. CASE a = b
  <2>1. appt'[a] = [appt[a] EXCEPT !.status = st]
    BY <1>1 DEF TypeOK, SetStatus
  <2> QED
    BY <1>1, <2>1 DEF RowStep, Decided
<1>2. CASE a # b
  BY <1>2 DEF TypeOK, RowStep, SetStatus
<1> QED
  BY <1>1, <1>2

LEMMA RequestRow ==
    ASSUME TypeOK, Request, NEW a \in Appointment
    PROVE  RowStep(a)
<1>1. CASE UNCHANGED appt
  BY <1>1 DEF RowStep
<1>2. ASSUME NEW s \in Shipment, NEW sl \in Slot, NEW t \in ReadClock,
             NEW b \in Appointment, RequestDirect(s, sl, t, b)
      PROVE  RowStep(a)
  BY <1>2, InsertIsMade DEF RequestDirect
<1>3. ASSUME NEW c \in claims, NEW t \in ReadClock, NEW b \in Appointment,
             ConfirmHeld(c, t, b)
      PROVE  RowStep(a)
  <2>1. c.shipment \in Shipment /\ c.slot \in Slot
    BY DEF TypeOK, ClaimRow
  <2>2. c \notin claims'
    BY <1>3 DEF ConfirmHeld, BookedRow
  <2> QED
    BY <1>3, <2>1, <2>2, InsertIsMade DEF ConfirmHeld
<1>4. ASSUME NEW b \in Appointment, Cancel(b)
      PROVE  RowStep(a)
  BY <1>4 DEF Cancel, SetStatus, TypeOK, RowStep, Cancelled
<1> QED
  BY <1>1, <1>2, <1>3, <1>4 DEF Request, RequestHold, ConfirmHeldInfeasible

LEMMA DecideRow ==
    ASSUME TypeOK, Decide, NEW a \in Appointment
    PROVE  RowStep(a)
<1>1. ASSUME NEW b \in Appointment, Confirm(b)
      PROVE  RowStep(a)
  <2>1. <<EventOf("CONFIRMED"), b>> \in outbox'
    BY <1>1 DEF Confirm, EventOf
  <2> QED
    BY <1>1, <2>1, StatusIsDecided DEF Confirm
<1>2. ASSUME NEW A \in SUBSET {b \in Appointment : ~ Fresh(b)},
             NEW E \in SUBSET {b \in A : Pending(b)}, BulkConfirm(A, E)
      PROVE  RowStep(a)
  <2> DEFINE done == {b \in E : Displaces(FlipForAppointments(A), b) = {}}
  <2>1. CASE a \in done
    <3>1. Pending(a)
      BY <2>1
    <3>2. appt'[a] = [appt[a] EXCEPT !.status = "CONFIRMED"]
      BY <1>2, <2>1 DEF BulkConfirm
    <3>3. <<EventOf("CONFIRMED"), a>> \in outbox'
      BY <1>2, <2>1 DEF BulkConfirm, EventOf
    <3> QED
      BY <3>1, <3>2, <3>3 DEF RowStep, Decided
  <2>2. CASE a \notin done
    BY <1>2, <2>2 DEF BulkConfirm, RowStep
  <2> QED
    BY <2>1, <2>2
<1>3. ASSUME NEW b \in Appointment, Reject(b)
      PROVE  RowStep(a)
  <2>1. <<EventOf("REJECTED"), b>> \in outbox'
    BY <1>3 DEF Reject, OpsTransition, EventOf
  <2> QED
    BY <1>3, <2>1, StatusIsDecided DEF Reject, OpsTransition
<1>4. ASSUME NEW b \in Appointment, ManualExpire(b)
      PROVE  RowStep(a)
  <2>1. <<EventOf("EXPIRED"), b>> \in outbox'
    BY <1>4 DEF ManualExpire, OpsTransition, EventOf
  <2> QED
    BY <1>4, <2>1, StatusIsDecided DEF ManualExpire, OpsTransition
<1>5. ASSUME NEW b \in Appointment, HoldForInformation(b)
      PROVE  RowStep(a)
  BY <1>5 DEF HoldForInformation, TypeOK, RowStep, Extended
<1>6. ASSUME NEW b \in Appointment, NEW sl \in Slot, CounterOffer(b, sl)
      PROVE  RowStep(a)
  <2>1. Pending(b) /\ appt' = [appt EXCEPT ![b].slot = sl]
    BY <1>6 DEF CounterOffer
  <2> QED
    BY <2>1 DEF TypeOK, RowStep, Moved
<1> QED
  BY <1>1, <1>2, <1>3, <1>4, <1>5, <1>6 DEF Decide

LEMMA RescheduleRow ==
    ASSUME TypeOK, Reschedule, NEW a \in Appointment
    PROVE  RowStep(a)
<1>1. CASE UNCHANGED appt
  BY <1>1 DEF RowStep
<1>2. ASSUME NEW s \in Shipment, NEW t \in ReadClock, NEW b \in Appointment,
             RescheduleMove(s, t, b)
      PROVE  RowStep(a)
  <2> DEFINE d == resched[s].appointment
             sl == resched[s].target
  <2>1. d \in Appointment /\ sl \in Slot /\ Active(d) /\ Fresh(b) /\ ~ TwoPhase
    BY <1>2, CheckedType DEF RescheduleMove, MayMove
  <2>2. b # d
    BY <2>1 DEF Active, ActiveStatus, Fresh
  <2>3. appt' = [appt EXCEPT ![d].status = "CANCELLED", ![b] = Requested(s, sl, t)]
    BY <1>2 DEF RescheduleMove
  <2> HIDE DEF d, sl
  <2>4. CASE a = b
    <3>1. appt'[a] = Requested(s, sl, t)
      BY <2>3, <2>4 DEF TypeOK
    <3> QED
      BY <2>1, <2>4, <3>1 DEF RowStep, Made
  <2>5. CASE a = d
    <3>1. appt'[a] = [appt[a] EXCEPT !.status = "CANCELLED"]
      BY <2>2, <2>3, <2>5 DEF TypeOK
    <3> QED
      BY <2>1, <2>5, <3>1 DEF RowStep, Cancelled
  <2>6. CASE a # b /\ a # d
    BY <2>3, <2>6 DEF TypeOK, RowStep
  <2> QED
    BY <2>4, <2>5, <2>6
<1>3. ASSUME NEW s \in Shipment, RescheduleRestore(s)
      PROVE  RowStep(a)
  <2>1. CASE a = resched[s].appointment
    <3>1. appt'[a] = [appt[a] EXCEPT !.status = resched[s].status]
      BY <1>3, <2>1 DEF RescheduleRestore, SetStatus, TypeOK
    <3>2. resched'[s] = NoReschedule
      BY <1>3 DEF RescheduleRestore, TypeOK
    <3> QED
      BY <1>3, <2>1, <3>1, <3>2 DEF RowStep, Restored, RescheduleRestore
  <2>2. CASE a # resched[s].appointment
    BY <1>3, <2>2 DEF RescheduleRestore, SetStatus, TypeOK, RowStep
  <2> QED
    BY <2>1, <2>2
<1> QED
  BY <1>1, <1>2, <1>3
     DEF Reschedule, ReschedulePrecheck, RescheduleToHold, RescheduleCollide,
         RescheduleDrop

LEMMA SweepRow ==
    ASSUME TypeOK, Sweep, NEW a \in Appointment
    PROVE  RowStep(a)
<1>1. CASE UNCHANGED appt
  BY <1>1 DEF RowStep
<1>2. ASSUME NEW w \in Sweeper, NEW b \in Appointment, SweepExpire(w, b)
      PROVE  RowStep(a)
  <2>1. <<EventOf("EXPIRED"), b>> \in outbox'
    BY <1>2 DEF SweepExpire, EventOf
  <2> QED
    BY <1>2, <2>1, StatusIsDecided DEF SweepExpire
<1> QED
  BY <1>1, <1>2
     DEF Sweep, SweepRun, SweepScan, SweepSkip, SweepHolds, SweepAbort

LEMMA EveryRowStep ==
    ASSUME TypeOK, [Next]_vars, NEW a \in Appointment
    PROVE  RowStep(a)
<1>1. CASE UNCHANGED appt
  BY <1>1 DEF RowStep
<1> QED
  BY <1>1, RequestRow, DecideRow, RescheduleRow, SweepRow DEF Next, Tick, vars

-----------------------------------------------------------------------------
(* Decisions and the D9 clock.                                              *)

\* Only a restore takes an appointment back from a decision.
LEMMA DecisionStands ==
    ASSUME TypeOK, NEW a \in Appointment, RowStep(a),
           appt[a].status \in DecidedStatus,
           appt'[a].status # appt[a].status,
           ~ (appt[a].status = "CONFIRMED" /\ appt'[a].status = "CANCELLED")
    PROVE  \E s \in Shipment : /\ resched[s].stage = "collided"
                               /\ resched[s].appointment = a
                               /\ resched[s].status = appt'[a].status
<1>1. ~ Fresh(a) /\ ~ Pending(a)
  BY DEF Fresh, Pending, DecidedStatus
<1>2. appt[a] \in LiveRow
  BY <1>1, RowIsLive
<1>3. ~ Made(a) /\ ~ Decided(a) /\ ~ Extended(a) /\ ~ Moved(a)
  BY <1>1 DEF Made, Decided, Extended, Moved
<1>4. ~ Cancelled(a)
  <2> SUFFICES ASSUME Cancelled(a) PROVE FALSE
    OBVIOUS
  <2>1. appt[a].status = "CONFIRMED"
    BY DEF Cancelled, Active, ActiveStatus, DecidedStatus
  <2>2. appt'[a].status = "CANCELLED"
    BY <1>2 DEF Cancelled, LiveRow
  <2> QED
    BY <2>1, <2>2
<1>5. PICK s \in Shipment :
          /\ resched[s].stage = "collided" /\ resched[s].appointment = a
          /\ appt'[a] = [appt[a] EXCEPT !.status = resched[s].status]
  BY <1>3, <1>4 DEF RowStep, Restored
<1>6. appt'[a].status = resched[s].status
  BY <1>2, <1>5 DEF LiveRow
<1> QED
  BY <1>5, <1>6

\* A decision is taken back by nobody but a reschedule that lost its lock in
\* a collision, over any number of sweeps, planners and reschedules.
THEOREM DecisionsStand == Spec => ReopenedOnlyByRestore
<1>1. TypeInv /\ [Next]_vars =>
          [\A a \in Appointment :
             (/\ appt[a].status \in DecidedStatus
              /\ appt'[a].status # appt[a].status
              /\ ~ /\ appt[a].status = "CONFIRMED"
                   /\ appt'[a].status = "CANCELLED")
             => \E s \in Shipment : /\ resched[s].stage = "collided"
                                    /\ resched[s].appointment = a
                                    /\ resched[s].status = appt'[a].status]_vars
  BY EveryRowStep, DecisionStands DEF TypeInv
<1> QED
  BY <1>1, TypeInvariant, PTL DEF Spec, ReopenedOnlyByRestore

LEMMA ClockStands ==
    ASSUME TypeOK, NEW a \in Appointment, RowStep(a), ~ Fresh(a)
    PROVE  /\ appt'[a].bookedAt = appt[a].bookedAt
           /\ appt[a].expiresAt # NoDeadline
                  => appt'[a].expiresAt = appt[a].expiresAt
<1>1. appt[a] \in LiveRow
  BY RowIsLive
<1>2. ~ Made(a)
  BY DEF Made
<1>3. CASE Decided(a)
  BY <1>1, <1>3 DEF Decided, LiveRow
<1>4. CASE Cancelled(a)
  BY <1>1, <1>4 DEF Cancelled, LiveRow
<1>5. CASE Extended(a)
  BY <1>1, <1>5 DEF Extended, LiveRow
<1>6. CASE Moved(a)
  BY <1>1, <1>6 DEF Moved, LiveRow
<1>7. CASE Restored(a)
  BY <1>1, <1>7 DEF Restored, LiveRow
<1> QED
  BY <1>2, <1>3, <1>4, <1>5, <1>6, <1>7 DEF RowStep

\* The D9 clock of a request is never restarted and its deadline is set once,
\* for any tables, settings and interleaving.
THEOREM ClocksNeverRestart == Spec => ClockNeverRestarts
<1>1. TypeInv /\ [Next]_vars =>
          [\A a \in Appointment : ~ Fresh(a) =>
             /\ appt'[a].bookedAt = appt[a].bookedAt
             /\ appt[a].expiresAt # NoDeadline
                    => appt'[a].expiresAt = appt[a].expiresAt]_vars
  BY EveryRowStep, ClockStands DEF TypeInv
<1> QED
  BY <1>1, TypeInvariant, PTL DEF Spec, ClockNeverRestarts

LEMMA FreshNotRestored ==
    ASSUME InFlight, NEW a \in Appointment, Fresh(a)
    PROVE  ~ Restored(a)
<1> SUFFICES ASSUME NEW s \in Shipment, resched[s].stage = "collided",
                    resched[s].appointment = a
             PROVE  FALSE
  BY DEF Restored
<1>1. resched[s] # NoReschedule
  BY DEF NoReschedule
<1> QED
  BY <1>1 DEF InFlight

\* With the setting on, an appointment is made from a live hold of its own
\* shipment and slot, and the hold is gone with it.
LEMMA MadeFromHold ==
    ASSUME InFlight, NEW a \in Appointment, RowStep(a), TwoPhase,
           Fresh(a), ~ Fresh(a)'
    PROVE  \E c \in claims : /\ c.state = "HELD"
                             /\ c.shipment = appt'[a].shipment
                             /\ c.slot = appt'[a].slot
                             /\ c.expiresAt > appt'[a].bookedAt
                             /\ c \notin claims'
<1>1. appt'[a] # appt[a]
  BY DEF Fresh
<1>2. ~ Decided(a) /\ ~ Cancelled(a) /\ ~ Extended(a) /\ ~ Moved(a)
  BY DEF Fresh, Decided, Cancelled, Extended, Moved, Pending, Active, ActiveStatus
<1>3. ~ Restored(a)
  BY FreshNotRestored
<1>4. CASE Made(a)
  <2>1. PICK s \in Shipment, sl \in Slot, t \in ReadClock :
            /\ appt'[a] = Requested(s, sl, t)
            /\ \E c \in claims :
                  /\ c.state = "HELD" /\ c.shipment = s /\ c.slot = sl
                  /\ c.expiresAt > t
                  /\ c \notin claims'
    BY <1>4 DEF Made
  <2>2. /\ appt'[a].shipment = s /\ appt'[a].slot = sl
        /\ appt'[a].bookedAt = t
    BY <2>1 DEF Requested
  <2> QED
    BY <2>1, <2>2
<1> QED
  BY <1>1, <1>2, <1>3, <1>4 DEF RowStep

\* A hold becomes a booking of its own place, and only while it was live at
\* the clock its confirmation read: however long the confirmation waited.
THEOREM HoldsBookAlive == Spec => LapsedHoldNeverBooks
<1>1. TypeInv /\ [Next]_vars =>
          [\A a \in Appointment : (TwoPhase /\ Fresh(a) /\ ~ Fresh(a)') =>
             \E c \in claims : /\ c.state = "HELD"
                               /\ c.shipment = appt'[a].shipment
                               /\ c.slot = appt'[a].slot
                               /\ c.expiresAt > appt'[a].bookedAt
                               /\ c \notin claims']_vars
  BY EveryRowStep, MadeFromHold DEF TypeInv
<1> QED
  BY <1>1, TypeInvariant, PTL DEF Spec, LapsedHoldNeverBooks

-----------------------------------------------------------------------------
(* Notifications.  A restore writes back a status it noted before it lost   *)
(* its lock: the invariant adds that a CONFIRMED so noted was told.         *)

ConfirmationTold(a) == a \in Seeded \/ <<"APPOINTMENT_CONFIRMED", a>> \in outbox

CollidedTold ==
    \A s \in Shipment :
        (resched[s].stage = "collided" /\ resched[s].status = "CONFIRMED")
            => ConfirmationTold(resched[s].appointment)

OutcomeInv == TypeInv /\ OutcomeIsTold /\ CollidedTold

LEMMA OutboxGrows ==
    ASSUME [Next]_vars
    PROVE  outbox \subseteq outbox'
BY DEF Next, vars, Request, RequestHold, RequestDirect, ConfirmHeld,
       ConfirmHeldInfeasible, Cancel, Decide, Confirm, BulkConfirm, Reject,
       ManualExpire, OpsTransition, HoldForInformation, CounterOffer,
       Reschedule, ReschedulePrecheck, RescheduleMove, RescheduleToHold,
       RescheduleCollide, RescheduleRestore, RescheduleDrop, Sweep, SweepRun,
       SweepScan, SweepExpire, SweepSkip, SweepHolds, SweepAbort, Tick

LEMMA OutcomeStays ==
    ASSUME OutcomeInv, [Next]_vars
    PROVE  OutcomeIsTold'
<1> SUFFICES ASSUME NEW a \in Appointment
             PROVE  /\ (appt'[a].status = "CONFIRMED" /\ a \notin Seeded)
                           => <<"APPOINTMENT_CONFIRMED", a>> \in outbox'
                    /\ appt'[a].status = "REJECTED"
                           => <<"APPOINTMENT_REJECTED", a>> \in outbox'
                    /\ appt'[a].status = "EXPIRED"
                           => <<"PENDING_EXPIRED", a>> \in outbox'
  BY DEF OutcomeIsTold
<1> USE DEF OutcomeInv, TypeInv
<1>1. outbox \subseteq outbox'
  BY OutboxGrows
<1>2. RowStep(a)
  BY EveryRowStep
<1>3. CASE appt'[a].status = appt[a].status
  BY <1>1, <1>3 DEF OutcomeIsTold
<1>4. CASE Made(a)
  BY <1>4 DEF Made, Requested
<1>5. CASE Decided(a)
  <2>1. appt[a] \in LiveRow
    BY <1>5, PendingIsActive, ActiveIsLive DEF Decided
  <2>2. PICK st \in {"CONFIRMED", "REJECTED", "EXPIRED"} :
            /\ appt'[a] = [appt[a] EXCEPT !.status = st]
            /\ <<EventOf(st), a>> \in outbox'
    BY <1>5 DEF Decided
  <2>3. appt'[a].status = st
    BY <2>1, <2>2 DEF LiveRow
  <2> QED
    BY <2>2, <2>3 DEF EventOf
<1>6. CASE Cancelled(a)
  <2>1. appt[a] \in LiveRow
    BY <1>6, ActiveIsLive DEF Cancelled
  <2> QED
    BY <1>6, <2>1 DEF Cancelled, LiveRow
<1>7. CASE Extended(a)
  <2>1. appt[a] \in LiveRow
    BY <1>7, PendingIsActive, ActiveIsLive DEF Extended
  <2> QED
    BY <1>3, <1>7, <2>1 DEF Extended, LiveRow
<1>8. CASE Moved(a)
  <2>1. appt[a] \in LiveRow
    BY <1>8, PendingIsActive, ActiveIsLive DEF Moved
  <2> QED
    BY <1>3, <1>8, <2>1 DEF Moved, LiveRow
<1>9. CASE Restored(a)
  <2>1. PICK s \in Shipment :
            /\ resched[s].stage = "collided" /\ resched[s].appointment = a
            /\ appt'[a] = [appt[a] EXCEPT !.status = resched[s].status]
    BY <1>9 DEF Restored
  <2>2. ~ Fresh(a)
    BY <2>1 DEF InFlight, NoReschedule
  <2>3. appt[a] \in LiveRow
    BY <2>2, RowIsLive
  <2>4. appt'[a].status = resched[s].status
    BY <2>1, <2>3 DEF LiveRow
  <2>5. resched[s].status \in ActiveStatus
    BY <2>1, CollidedType
  <2> QED
    BY <1>1, <2>1, <2>4, <2>5 DEF CollidedTold, ConfirmationTold, ActiveStatus
<1> QED
  BY <1>2, <1>3, <1>4, <1>5, <1>6, <1>7, <1>8, <1>9 DEF RowStep

\* What a step leaves in the record of a reschedule that has collided: what
\* was there, or what its own collision notes now.
LEMMA CollidedStep ==
    ASSUME TypeOK, [Next]_vars, NEW s \in Shipment,
           resched'[s].stage = "collided"
    PROVE  \/ resched'[s] = resched[s]
           \/ /\ resched'[s].appointment = resched[s].appointment
              /\ resched'[s].status = appt[resched[s].appointment].status
              /\ resched'[s].released =
                     (ClaimsOf(claims, resched[s].appointment) # {})
              /\ resched[s].appointment \in Appointment
              /\ Active(resched[s].appointment)
              /\ UNCHANGED <<appt, claims, outbox>>
<1>1. ASSUME NEW r \in Shipment, resched' = [resched EXCEPT ![r] = NoReschedule]
      PROVE  resched'[s] = resched[s]
  BY <1>1 DEF TypeOK, NoReschedule
<1>2. ASSUME NEW r \in Shipment, NEW a \in Appointment, NEW sl \in Slot,
             ReschedulePrecheck(r, a, sl)
      PROVE  resched'[s] = resched[s]
  BY <1>2 DEF ReschedulePrecheck, TypeOK
<1>3. ASSUME NEW r \in Shipment, NEW t \in ReadClock, RescheduleCollide(r, t),
             r = s
      PROVE  /\ resched'[s].appointment = resched[s].appointment
             /\ resched'[s].status = appt[resched[s].appointment].status
             /\ resched'[s].released =
                    (ClaimsOf(claims, resched[s].appointment) # {})
             /\ resched[s].appointment \in Appointment
             /\ Active(resched[s].appointment)
             /\ UNCHANGED <<appt, claims, outbox>>
  BY <1>3, CheckedType DEF RescheduleCollide, MayMove, TypeOK
<1>4. ASSUME NEW r \in Shipment, NEW t \in ReadClock, RescheduleCollide(r, t),
             r # s
      PROVE  resched'[s] = resched[s]
  BY <1>4 DEF RescheduleCollide, TypeOK
<1>5. CASE Reschedule
  BY <1>1, <1>2, <1>3, <1>4, <1>5
     DEF Reschedule, RescheduleMove, RescheduleToHold, RescheduleRestore,
         RescheduleDrop
<1>6. CASE UNCHANGED resched
  BY <1>6
<1> QED
  BY <1>5, <1>6
     DEF Next, vars, Request, RequestHold, RequestDirect, ConfirmHeld,
         ConfirmHeldInfeasible, Cancel, Decide, Confirm, BulkConfirm, Reject,
         ManualExpire, OpsTransition, HoldForInformation, CounterOffer, Sweep,
         SweepRun, SweepScan, SweepExpire, SweepSkip, SweepHolds, SweepAbort, Tick

LEMMA CollidedToldStays ==
    ASSUME OutcomeInv, [Next]_vars
    PROVE  CollidedTold'
<1> SUFFICES ASSUME NEW s \in Shipment, resched'[s].stage = "collided",
                    resched'[s].status = "CONFIRMED"
             PROVE  \/ resched'[s].appointment \in Seeded
                    \/ <<"APPOINTMENT_CONFIRMED", resched'[s].appointment>>
                           \in outbox'
  BY DEF CollidedTold, ConfirmationTold
<1> USE DEF OutcomeInv, TypeInv
<1>1. outbox \subseteq outbox'
  BY OutboxGrows
<1>2. CASE resched'[s] = resched[s]
  BY <1>1, <1>2 DEF CollidedTold, ConfirmationTold
<1>3. CASE resched'[s] # resched[s]
  <2> DEFINE a == resched[s].appointment
  <2>1. /\ resched'[s].appointment = a /\ resched'[s].status = appt[a].status
        /\ a \in Appointment
    BY <1>3, CollidedStep
  <2>2. resched'[s].appointment = a /\ appt[a].status = "CONFIRMED"
    BY <2>1
  <2>3. ConfirmationTold(a)
    BY <2>1, <2>2 DEF OutcomeIsTold, ConfirmationTold
  <2> QED
    BY <1>1, <2>2, <2>3 DEF ConfirmationTold
<1> QED
  BY <1>2, <1>3

LEMMA InitOutcome == Init => OutcomeInv
<1> SUFFICES ASSUME Init PROVE OutcomeInv
  OBVIOUS
<1>1. OutcomeIsTold
  <2> SUFFICES ASSUME NEW a \in Appointment
               PROVE  /\ appt[a].status = "CONFIRMED" => a \in Seeded
                      /\ appt[a].status # "REJECTED"
                      /\ appt[a].status # "EXPIRED"
    BY DEF OutcomeIsTold
  <2>1. CASE a \in Seeded
    <3>1. appt[a].status = SeedStatus[a]
      BY <2>1 DEF Init, SeedRow, Requested
    <3> QED
      BY <2>1, <3>1, SeedAssumption DEF ActiveStatus
  <2>2. CASE a \notin Seeded
    BY <2>2 DEF Init, Absent
  <2> QED
    BY <2>1, <2>2
<1>2. CollidedTold
  BY DEF Init, CollidedTold, NoReschedule
<1> QED
  BY <1>1, <1>2, InitTypeInv DEF OutcomeInv

\* A confirmed, rejected or expired appointment's driver has been sent that
\* very outcome, even when a restore wrote it back over a later decision.
THEOREM OutcomesAreTold == Spec => []OutcomeIsTold
<1>1. OutcomeInv /\ [Next]_vars => OutcomeInv'
  BY OutcomeStays, CollidedToldStays, NextTypeInv DEF OutcomeInv
<1>2. OutcomeInv => OutcomeIsTold
  BY DEF OutcomeInv
<1> QED
  BY <1>1, <1>2, InitOutcome, PTL DEF Spec

-----------------------------------------------------------------------------
(* The sweep.  Its scan is unlocked and may be old when it gets to a row:   *)
(* the invariant carries the row's full window along with the candidate.    *)

HadFullTTL(a) == ~ Fresh(a) /\ appt[a].bookedAt + PendingTTL < now

\* No request is from the future, and an extension is for a full window.
ClocksInOrder ==
    \A a \in Appointment : ~ Fresh(a) =>
        /\ appt[a].bookedAt <= now
        /\ appt[a].expiresAt # NoDeadline
               => appt[a].bookedAt + PendingTTL <= appt[a].expiresAt

CandidatesHadFullTTL == \A w \in Sweeper : \A a \in todo[w] : HadFullTTL(a)

SweptExist == \A a \in escalations : ~ Fresh(a)

SweepInv == /\ TypeInv /\ ClocksInOrder /\ CandidatesHadFullTTL
            /\ SweptExist /\ SweptHadFullTTL

LEMMA TimeGoesOn ==
    ASSUME TypeOK, [Next]_vars
    PROVE  now' \in Nat /\ now <= now'
<1>1. now \in Nat /\ (now' = now \/ now' = now + 1)
  BY DEF TypeOK, Next, vars, Request, RequestHold, RequestDirect, ConfirmHeld,
         ConfirmHeldInfeasible, Cancel, Decide, Confirm, BulkConfirm, Reject,
         ManualExpire, OpsTransition, HoldForInformation, CounterOffer,
         Reschedule, ReschedulePrecheck, RescheduleMove, RescheduleToHold,
         RescheduleCollide, RescheduleRestore, RescheduleDrop, Sweep, SweepRun,
         SweepScan, SweepExpire, SweepSkip, SweepHolds, SweepAbort, Tick
<1> QED
  BY <1>1

LEMMA RowStays ==
    ASSUME TypeInv, [Next]_vars, NEW a \in Appointment, ~ Fresh(a)
    PROVE  /\ ~ Fresh(a)'
           /\ appt'[a].bookedAt = appt[a].bookedAt
           /\ appt[a].bookedAt \in Nat
<1> USE DEF TypeInv
<1>1. ~ Fresh(a)'
  BY StepKeepsRows DEF RowsKept
<1>2. appt'[a].bookedAt = appt[a].bookedAt
  BY EveryRowStep, ClockStands
<1>3. appt[a].bookedAt \in Nat
  BY RowIsLive DEF LiveRow
<1> QED
  BY <1>1, <1>2, <1>3

LEMMA FullTTLStays ==
    ASSUME TypeInv, [Next]_vars, NEW a \in Appointment, HadFullTTL(a)
    PROVE  HadFullTTL(a)'
<1>1. now \in Nat /\ now' \in Nat /\ now <= now'
  BY TimeGoesOn DEF TypeInv, TypeOK
<1> QED
  BY <1>1, RowStays, SettingsAssumption DEF HadFullTTL

LEMMA ClocksStayInOrder ==
    ASSUME TypeInv, ClocksInOrder, [Next]_vars
    PROVE  ClocksInOrder'
<1> SUFFICES ASSUME NEW a \in Appointment, ~ Fresh(a)'
             PROVE  /\ appt'[a].bookedAt <= now'
                    /\ appt'[a].expiresAt # NoDeadline
                           => appt'[a].bookedAt + PendingTTL <= appt'[a].expiresAt
  BY DEF ClocksInOrder
<1> USE SettingsAssumption
<1>1. now \in Nat /\ now' \in Nat /\ now <= now'
  BY TimeGoesOn DEF TypeInv, TypeOK
<1>2. RowStep(a)
  BY EveryRowStep DEF TypeInv
<1>3. CASE Fresh(a)
  <2>1. appt'[a] # appt[a]
    BY <1>3 DEF Fresh
  <2>2. ~ Decided(a) /\ ~ Cancelled(a) /\ ~ Extended(a) /\ ~ Moved(a)
    BY <1>3 DEF Fresh, Decided, Cancelled, Extended, Moved, Pending, Active, ActiveStatus
  <2>3. ~ Restored(a)
    BY <1>3, FreshNotRestored DEF TypeInv
  <2>4. PICK s \in Shipment, sl \in Slot, t \in ReadClock :
            appt'[a] = Requested(s, sl, t)
    BY <1>2, <2>1, <2>2, <2>3 DEF RowStep, Made
  <2>5. t \in Nat /\ t <= now
    BY <1>1 DEF ReadClock
  <2> QED
    BY <1>1, <2>4, <2>5 DEF Requested
<1>4. CASE ~ Fresh(a)
  <2>1. /\ appt'[a].bookedAt = appt[a].bookedAt
        /\ appt[a].bookedAt \in Nat /\ appt[a].bookedAt <= now
    BY <1>4, RowStays DEF ClocksInOrder
  <2>2. CASE appt'[a].expiresAt = appt[a].expiresAt
    BY <1>1, <1>4, <2>1, <2>2 DEF ClocksInOrder
  <2>3. CASE Extended(a)
    <3>1. appt[a] \in LiveRow
      BY <1>4, RowIsLive DEF TypeInv
    <3>2. appt'[a].expiresAt = now + PendingTTL
      BY <2>3, <3>1 DEF Extended, LiveRow
    <3> QED
      BY <1>1, <2>1, <3>2
  <2>4. CASE ~ Extended(a)
    <3>1. appt[a] \in LiveRow
      BY <1>4, RowIsLive DEF TypeInv
    <3>2. appt'[a].expiresAt = appt[a].expiresAt
      BY <1>2, <1>4, <2>4, <3>1
         DEF RowStep, Made, Decided, Cancelled, Moved, Restored, LiveRow
    <3> QED
      BY <2>2, <3>2
  <2> QED
    BY <2>3, <2>4
<1> QED
  BY <1>3, <1>4

LEMMA OverdueHadFullTTL ==
    ASSUME TypeInv, ClocksInOrder, NEW a \in Appointment, Overdue(a)
    PROVE  HadFullTTL(a)
<1>1. Pending(a) /\ ~ Fresh(a)
  BY DEF Overdue, Pending, Fresh
<1>2. appt[a] \in LiveRow
  BY <1>1, RowIsLive DEF TypeInv
<1>3. /\ appt[a].bookedAt \in Nat
      /\ appt[a].expiresAt \in Nat \cup {NoDeadline}
      /\ now \in Nat
  BY <1>2 DEF LiveRow, TypeInv, TypeOK
<1> QED
  BY <1>1, <1>3, SettingsAssumption DEF Overdue, ClocksInOrder, HadFullTTL

\* A sweep's candidates come from its own scan, the rows it expired from its
\* candidates.
LEMMA SweptWereCandidates ==
    ASSUME TypeOK, [Next]_vars
    PROVE  /\ \A w \in Sweeper : \A a \in todo'[w] :
                 a \in todo[w] \/ (Overdue(a) /\ a \in Appointment)
           /\ \A a \in escalations' :
                 a \in escalations \/ \E w \in Sweeper : a \in todo[w]
<1>1. CASE UNCHANGED <<todo, escalations>>
  BY <1>1
<1>2. ASSUME NEW w \in Sweeper, NEW batch \in SUBSET Appointment,
             SweepScan(w, batch)
      PROVE  /\ \A v \in Sweeper : \A a \in todo'[v] :
                   a \in todo[v] \/ (Overdue(a) /\ a \in Appointment)
             /\ escalations' = escalations
  <2>1. \A a \in batch : Overdue(a)
    BY <1>2 DEF SweepScan, OldestFirst
  <2> QED
    BY <1>2, <2>1 DEF SweepScan, TypeOK
<1>3. ASSUME NEW w \in Sweeper, NEW b \in Appointment,
             SweepExpire(w, b) \/ SweepSkip(w, b)
      PROVE  /\ \A v \in Sweeper : todo'[v] \subseteq todo[v]
             /\ escalations' \subseteq escalations \cup todo[w]
  BY <1>3 DEF SweepExpire, SweepSkip, TypeOK
<1>4. ASSUME NEW w \in Sweeper, SweepAbort(w)
      PROVE  /\ \A v \in Sweeper : todo'[v] \subseteq todo[v]
             /\ escalations' = escalations
  BY <1>4 DEF SweepAbort, TypeOK
<1>5. CASE Sweep
  BY <1>1, <1>2, <1>3, <1>4, <1>5 DEF Sweep, SweepRun, SweepHolds
<1> QED
  BY <1>1, <1>5
     DEF Next, vars, Request, RequestHold, RequestDirect, ConfirmHeld,
         ConfirmHeldInfeasible, Cancel, Decide, Confirm, BulkConfirm, Reject,
         ManualExpire, OpsTransition, HoldForInformation, CounterOffer,
         Reschedule, ReschedulePrecheck, RescheduleMove, RescheduleToHold,
         RescheduleCollide, RescheduleRestore, RescheduleDrop, Tick

LEMMA NextSweep == SweepInv /\ [Next]_vars => SweepInv'
<1> SUFFICES ASSUME SweepInv, [Next]_vars
             PROVE  SweepInv'
  OBVIOUS
<1> USE DEF SweepInv
<1>1. TypeInv'
  BY NextTypeInv
<1>2. ClocksInOrder'
  BY ClocksStayInOrder
<1>3. \A w \in Sweeper : \A a \in todo[w] : a \in Appointment /\ HadFullTTL(a)
  BY DEF CandidatesHadFullTTL, TypeInv, TypeOK
<1>4. ASSUME NEW w \in Sweeper, NEW a \in todo'[w]
      PROVE  HadFullTTL(a)'
  <2>1. a \in Appointment /\ HadFullTTL(a)
    BY <1>3, <1>4, SweptWereCandidates, OverdueHadFullTTL DEF TypeInv
  <2> QED
    BY <2>1, FullTTLStays
<1>5. ASSUME NEW a \in escalations'
      PROVE  HadFullTTL(a)'
  <2>1. \A b \in escalations : b \in Appointment /\ HadFullTTL(b)
    BY DEF SweptExist, SweptHadFullTTL, HadFullTTL, TypeInv, TypeOK
  <2>2. a \in Appointment /\ HadFullTTL(a)
    BY <1>3, <2>1, SweptWereCandidates DEF TypeInv
  <2> QED
    BY <2>2, FullTTLStays
<1> QED
  BY <1>1, <1>2, <1>4, <1>5
     DEF CandidatesHadFullTTL, SweptExist, SweptHadFullTTL, HadFullTTL

LEMMA InitSweep == Init => SweepInv
<1> SUFFICES ASSUME Init PROVE SweepInv
  OBVIOUS
<1>1. ClocksInOrder
  <2> SUFFICES ASSUME NEW a \in Appointment, ~ Fresh(a)
               PROVE  appt[a].bookedAt = 0 /\ appt[a].expiresAt = NoDeadline
    BY DEF ClocksInOrder, Init
  <2> QED
    BY DEF Init, SeedRow, Requested, Absent, Fresh
<1> QED
  BY <1>1, InitTypeInv
     DEF Init, SweepInv, CandidatesHadFullTTL, SweptExist, SweptHadFullTTL

\* However old its scan, the sweep expires no request before the full D9
\* window since its booking has passed: for every TTL and batch limit.
THEOREM SweptAfterFullTTL == Spec => []SweptHadFullTTL
<1>1. SweepInv => SweptHadFullTTL
  BY DEF SweepInv
<1> QED
  BY <1>1, InitSweep, NextSweep, PTL DEF Spec

-----------------------------------------------------------------------------
(* The claims of an appointment that a step neither makes nor moves.        *)

\* A collided reschedule that noted a released claim rolled the release back:
\* its appointment, while active, has one.
ReleasedHasClaim ==
    \A s \in Shipment :
        (/\ resched[s].stage = "collided" /\ resched[s].released
         /\ Active(resched[s].appointment))
        => ClaimsOf(claims, resched[s].appointment) # {}

LEMMA ClaimsAreBooked ==
    ASSUME TypeOK, NEW a \in Appointment, NEW c \in ClaimsOf(claims, a)
    PROVE  c \in claims /\ c.appointment = a /\ c.state # "HELD"
BY BookedIsNotHeld DEF ClaimsOf

\* Whatever the lapsed holds and other appointments lose, a's rows stay.
LEMMA ClaimsOfOthersStay ==
    ASSUME TypeOK, NEW a \in Appointment, ClaimsOf(claims, a) # {},
           \A c \in claims : (c.state # "HELD" /\ c.appointment = a) => c \in claims'
    PROVE  ClaimsOf(claims', a) # {}
<1>1. PICK c : c \in ClaimsOf(claims, a)
  OBVIOUS
<1>2. c \in claims' /\ c.appointment = a
  BY <1>1, ClaimsAreBooked
<1> QED
  BY <1>2 DEF ClaimsOf

LEMMA OthersGainNothing ==
    ASSUME NEW a, NEW C, NEW D, ClaimsOf(C, a) = {},
           \A c \in D : c \in C \/ c.appointment # a
    PROVE  ClaimsOf(D, a) = {}
BY DEF ClaimsOf

LEMMA RowOwners ==
    /\ \A s, sl, e : HeldRow(s, sl, e).appointment = None
    /\ \A a, s, sl : BookedRow(a, s, sl).appointment = a
BY DEF HeldRow, BookedRow

\* An appointment that is active before and after a step, and whose own
\* reschedule is not the step, keeps its claim.
LEMMA ClaimStays ==
    ASSUME TypeInv, [Next]_vars, NEW a \in Appointment, Active(a), Active(a)',
           ClaimsOf(claims, a) # {},
           resched[appt[a].shipment].stage # "checked"
    PROVE  ClaimsOf(claims', a) # {}
<1> USE DEF TypeInv
<1>0. ASSUME \A c \in claims : (c.state # "HELD" /\ c.appointment = a) => c \in claims'
      PROVE  ClaimsOf(claims', a) # {}
  BY <1>0, ClaimsOfOthersStay
<1>1. ASSUME NEW b \in Appointment, NEW st \in Status \ ActiveStatus,
             appt' = SetStatus(b, st)
      PROVE  a # b
  <2> SUFFICES ASSUME a = b PROVE FALSE
    OBVIOUS
  <2>1. appt[a] \in LiveRow
    BY ActiveIsLive
  <2>2. appt'[a].status = st
    BY <1>1, <2>1 DEF SetStatus, TypeOK, LiveRow
  <2> QED
    BY <1>1, <2>2 DEF Active
<1>2. CASE Request
  <2>1. ASSUME NEW s \in Shipment, NEW sl \in Slot, NEW t \in ReadClock,
               RequestHold(s, sl, t)
        PROVE  ClaimsOf(claims', a) # {}
    BY <1>0, <2>1, FlipsKeepBooked DEF RequestHold
  <2>2. ASSUME NEW s \in Shipment, NEW sl \in Slot, NEW t \in ReadClock,
               NEW b \in Appointment, RequestDirect(s, sl, t, b)
        PROVE  ClaimsOf(claims', a) # {}
    BY <1>0, <2>2 DEF RequestDirect
  <2>3. ASSUME NEW c \in claims, NEW t \in ReadClock, NEW b \in Appointment,
               ConfirmHeld(c, t, b)
        PROVE  ClaimsOf(claims', a) # {}
    BY <1>0, <2>3 DEF ConfirmHeld
  <2>4. ASSUME NEW c \in claims, NEW t \in ReadClock, ConfirmHeldInfeasible(c, t)
        PROVE  ClaimsOf(claims', a) # {}
    BY <1>0, <2>4 DEF ConfirmHeldInfeasible
  <2>5. ASSUME NEW b \in Appointment, Cancel(b)
        PROVE  ClaimsOf(claims', a) # {}
    <3>1. a # b
      BY <1>1, <2>5 DEF Cancel, Status, ActiveStatus, DecidedStatus
    <3> QED
      BY <1>0, <2>5, <3>1, FlipsKeepBooked DEF Cancel
  <2> QED
    BY <1>2, <2>1, <2>2, <2>3, <2>4, <2>5 DEF Request
<1>3. CASE Decide
  <2>1. ASSUME NEW b \in Appointment,
               \/ Confirm(b)
               \/ \E A, E : BulkConfirm(A, E)
               \/ HoldForInformation(b)
        PROVE  ClaimsOf(claims', a) # {}
    BY <1>0, <2>1, FlipsKeepBooked DEF Confirm, BulkConfirm, HoldForInformation
  <2>2. ASSUME NEW b \in Appointment, Reject(b) \/ ManualExpire(b)
        PROVE  ClaimsOf(claims', a) # {}
    <3>1. a # b
      BY <1>1, <2>2
         DEF Reject, ManualExpire, OpsTransition, Status, ActiveStatus, DecidedStatus
    <3> QED
      BY <1>0, <2>2, <3>1, FlipsKeepBooked DEF Reject, ManualExpire, OpsTransition
  <2>3. ASSUME NEW b \in Appointment, NEW sl \in Slot, CounterOffer(b, sl)
        PROVE  ClaimsOf(claims', a) # {}
    <3> DEFINE s == appt[b].shipment
               D == FlipOnInterval(Release(FlipForAppointments({b}), b), s, sl, now)
    <3>1. claims' = D \cup {BookedRow(b, s, sl)}
      BY <2>3 DEF CounterOffer
    <3>2. CASE a = b
      <4> HIDE DEF s, D
      <4>1. BookedRow(a, s, sl) \in ClaimsOf(claims', a)
        BY <3>1, <3>2, RowOwners DEF ClaimsOf
      <4> QED
        BY <4>1
    <3>3. CASE a # b
      BY <1>0, <3>1, <3>3, FlipsKeepBooked
    <3> QED
      BY <3>2, <3>3
  <2> QED
    BY <1>3, <2>1, <2>2, <2>3 DEF Decide
<1>4. CASE Reschedule
  <2>1. ASSUME NEW s \in Shipment, MayMove(s)
        PROVE  resched[s].appointment # a
    <3>1. resched[s] # NoReschedule
      BY <2>1 DEF MayMove, NoReschedule
    <3> QED
      BY <2>1, <3>1 DEF InFlight, MayMove
  <2>2. ASSUME NEW s \in Shipment, NEW t \in ReadClock, NEW b \in Appointment,
               RescheduleMove(s, t, b)
        PROVE  ClaimsOf(claims', a) # {}
    BY <1>0, <2>1, <2>2, FlipsKeepBooked DEF RescheduleMove
  <2>3. ASSUME NEW s \in Shipment, NEW t \in ReadClock, RescheduleToHold(s, t)
        PROVE  ClaimsOf(claims', a) # {}
    <3> DEFINE d == resched[s].appointment
               C == FlipOnInterval(Release(claims, d), s, resched[s].target, t)
               H == C \cup {HeldRow(s, resched[s].target, t + HeldTTL)}
    <3>1. PutBack(H, d, s) /\ a # d
      BY <2>1, <2>3 DEF RescheduleToHold
    <3>2. \A c \in claims : (c.state # "HELD" /\ c.appointment = a) => c \in H
      BY <3>1, FlipsKeepBooked
    <3>3. \A c \in H : c.state # "HELD" => c \in claims'
      <4> HIDE DEF H, d
      <4> QED
        BY <3>1, ReclaimKeeps DEF PutBack
    <3> QED
      BY <1>0, <3>2, <3>3
  <2>4. ASSUME NEW s \in Shipment, RescheduleRestore(s)
        PROVE  ClaimsOf(claims', a) # {}
    <3>1. \A c \in claims : c.state # "HELD" => c \in claims'
      BY <2>4, ReclaimKeeps DEF RescheduleRestore, RestoreClaim
    <3> QED
      BY <1>0, <3>1
  <2>5. CASE UNCHANGED claims
    BY <1>0, <2>5
  <2> QED
    BY <1>4, <2>2, <2>3, <2>4, <2>5
       DEF Reschedule, ReschedulePrecheck, RescheduleCollide, RescheduleDrop
<1>5. CASE Sweep
  <2>1. ASSUME NEW w \in Sweeper, NEW b \in Appointment, SweepExpire(w, b)
        PROVE  ClaimsOf(claims', a) # {}
    <3>1. a # b
      BY <1>1, <2>1 DEF SweepExpire, Status, ActiveStatus, DecidedStatus
    <3> QED
      BY <1>0, <2>1, <3>1, FlipsKeepBooked DEF SweepExpire
  <2>2. ASSUME NEW w \in Sweeper, NEW D \in SUBSET claims, NEW t \in ReadClock,
               SweepHolds(w, D, t)
        PROVE  ClaimsOf(claims', a) # {}
    BY <1>0, <2>2 DEF SweepHolds, LapsedBy
  <2>3. CASE UNCHANGED claims
    BY <1>0, <2>3
  <2> QED
    BY <1>5, <2>1, <2>2, <2>3
       DEF Sweep, SweepRun, SweepScan, SweepSkip, SweepAbort
<1>6. CASE UNCHANGED claims
  BY <1>0, <1>6
<1> QED
  BY <1>2, <1>3, <1>4, <1>5, <1>6 DEF Next, Tick, vars

LEMMA ReleasedKeepsClaim ==
    ASSUME TypeInv, ReleasedHasClaim, [Next]_vars
    PROVE  ReleasedHasClaim'
<1> SUFFICES ASSUME NEW s \in Shipment, resched'[s].stage = "collided",
                    resched'[s].released,
                    appt'[resched'[s].appointment].status \in ActiveStatus
             PROVE  ClaimsOf(claims', resched'[s].appointment) # {}
  BY DEF ReleasedHasClaim, Active
<1> USE DEF TypeInv
<1>1. CASE resched'[s] # resched[s]
  <2> DEFINE a == resched[s].appointment
  <2>1. /\ resched'[s].appointment = a /\ claims' = claims
        /\ resched'[s].released = (ClaimsOf(claims, a) # {})
    BY <1>1, CollidedStep
  <2>2. ClaimsOf(claims, a) # {}
    BY <2>1
  <2> HIDE DEF a
  <2> QED
    BY <2>1, <2>2
<1>2. CASE resched'[s] = resched[s]
  <2>0. resched[s].appointment \in Appointment
    BY <1>2, CollidedType
  <2> PICK a \in Appointment : a = resched[s].appointment
    BY <2>0
  <2>1. resched[s] # NoReschedule
    BY <1>2 DEF NoReschedule
  <2>2. ~ Fresh(a) /\ appt[a].shipment = s
    BY <2>1 DEF InFlight
  <2>3. Active(a)
    <3> SUFFICES ASSUME ~ Active(a) PROVE FALSE
      OBVIOUS
    <3>1. appt'[a] # appt[a]
      BY <1>2 DEF Active
    <3>2. ~ Made(a) /\ ~ Decided(a) /\ ~ Cancelled(a) /\ ~ Extended(a) /\ ~ Moved(a)
      BY <2>1, <2>2, PendingIsActive DEF Made, Decided, Cancelled, Extended, Moved
    <3>3. Restored(a)
      BY <2>1, <3>1, <3>2, EveryRowStep DEF RowStep
    <3>4. PICK r \in Shipment : /\ resched[r].stage = "collided"
                                /\ resched[r].appointment = a
                                /\ resched'[r] = NoReschedule
      BY <3>3 DEF Restored
    <3>5. resched[r] # NoReschedule
      BY <3>4 DEF NoReschedule
    <3>6. r = s
      BY <2>2, <3>4, <3>5 DEF InFlight
    <3> QED
      BY <3>4, <3>6 DEF NoReschedule
  <2>4. Active(a)'
    BY <1>2 DEF Active
  <2>5. ClaimsOf(claims, a) # {}
    BY <1>2, <2>3 DEF ReleasedHasClaim
  <2>6. resched[appt[a].shipment].stage # "checked"
    BY <1>2, <2>2
  <2>7. ClaimsOf(claims', a) # {}
    BY <2>3, <2>4, <2>5, <2>6, ClaimStays
  <2> QED
    BY <1>2, <2>7
<1> QED
  BY <1>1, <1>2

\* An active appointment without a claim gains one by moving, or not at all.
LEMMA ClaimNotInvented ==
    ASSUME TypeInv, ReleasedHasClaim, [Next]_vars, NEW a \in Appointment,
           Active(a), ClaimsOf(claims, a) = {}
    PROVE  ClaimsOf(claims', a) = {} \/ appt'[a].slot # appt[a].slot
<1> USE DEF TypeInv
<1>0. ASSUME \A c \in claims' : c \in claims \/ c.appointment # a
      PROVE  ClaimsOf(claims', a) = {}
  BY <1>0, OthersGainNothing
<1>1. None # a
  BY DataAssumption
<1>7. ASSUME NEW b \in Appointment, Fresh(b)
      PROVE  b # a
  BY <1>7 DEF Fresh, Active, ActiveStatus
<1>2. CASE claims' \subseteq claims
  BY <1>0, <1>2
<1>3. CASE Request
  <2>1. ASSUME NEW s \in Shipment, NEW sl \in Slot, NEW t \in ReadClock,
               RequestHold(s, sl, t)
        PROVE  ClaimsOf(claims', a) = {}
    <3>1. \A c \in claims' : c \in claims \/ c.appointment # a
      BY <1>1, <2>1, FlipsAreSubsets, RowOwners DEF RequestHold
    <3> QED
      BY <1>0, <3>1
  <2>2. ASSUME NEW s \in Shipment, NEW sl \in Slot, NEW t \in ReadClock,
               NEW b \in Appointment, RequestDirect(s, sl, t, b)
        PROVE  ClaimsOf(claims', a) = {}
    <3>1. b # a
      BY <1>7, <2>2 DEF RequestDirect
    <3>2. \A d \in claims' : d \in claims \/ d.appointment # a
      BY <2>2, <3>1, RowOwners DEF RequestDirect
    <3> QED
      BY <1>0, <3>2
  <2>3. ASSUME NEW c \in claims, NEW t \in ReadClock, NEW b \in Appointment,
               ConfirmHeld(c, t, b)
        PROVE  ClaimsOf(claims', a) = {}
    <3>1. b # a
      BY <1>7, <2>3 DEF ConfirmHeld
    <3>2. \A d \in claims' : d \in claims \/ d.appointment # a
      BY <2>3, <3>1, RowOwners DEF ConfirmHeld
    <3> QED
      BY <1>0, <3>2
  <2> QED
    BY <1>2, <1>3, <2>1, <2>2, <2>3, FlipsAreSubsets
       DEF Request, ConfirmHeldInfeasible, Cancel
<1>4. CASE Decide
  <2>1. ASSUME NEW b \in Appointment, NEW sl \in Slot, CounterOffer(b, sl)
        PROVE  ClaimsOf(claims', a) = {} \/ appt'[a].slot # appt[a].slot
    <3>1. CASE a = b
      <4>1. appt[a] \in LiveRow
        BY ActiveIsLive
      <4>2. appt'[a].slot = sl /\ sl # appt[a].slot
        BY <2>1, <3>1, <4>1 DEF CounterOffer, TypeOK, LiveRow
      <4> QED
        BY <4>2
    <3>2. CASE a # b
      <4> DEFINE s == appt[b].shipment
                 D == FlipOnInterval(Release(FlipForAppointments({b}), b), s, sl, now)
      <4>1. D \subseteq claims /\ claims' = D \cup {BookedRow(b, s, sl)}
        BY <2>1, FlipsAreSubsets DEF CounterOffer
      <4> HIDE DEF s, D
      <4>2. \A d \in claims' : d \in claims \/ d.appointment # a
        BY <3>2, <4>1, RowOwners
      <4> QED
        BY <1>0, <4>2
    <3> QED
      BY <3>1, <3>2
  <2>2. ASSUME NEW b \in Appointment,
               \/ Confirm(b) \/ Reject(b) \/ ManualExpire(b)
               \/ HoldForInformation(b)
        PROVE  claims' \subseteq claims
    BY <2>2, FlipsAreSubsets
       DEF Confirm, Reject, ManualExpire, OpsTransition, HoldForInformation
  <2>3. ASSUME NEW A, NEW E, BulkConfirm(A, E)
        PROVE  claims' \subseteq claims
    BY <2>3, FlipsAreSubsets DEF BulkConfirm
  <2> QED
    BY <1>2, <1>4, <2>1, <2>2, <2>3 DEF Decide
<1>5. CASE Reschedule
  <2>1. ASSUME NEW s \in Shipment, NEW t \in ReadClock, NEW b \in Appointment,
               RescheduleMove(s, t, b)
        PROVE  ClaimsOf(claims', a) = {}
    <3>1. b # a
      BY <1>7, <2>1 DEF RescheduleMove
    <3>2. \A d \in claims' : d \in claims \/ d.appointment # a
      BY <2>1, <3>1, FlipsAreSubsets, RowOwners DEF RescheduleMove
    <3> QED
      BY <1>0, <3>2
  <2>2. ASSUME NEW s \in Shipment, NEW t \in ReadClock, RescheduleToHold(s, t)
        PROVE  ClaimsOf(claims', a) = {}
    <3> DEFINE d == resched[s].appointment
               C == FlipOnInterval(Release(claims, d), s, resched[s].target, t)
               H == C \cup {HeldRow(s, resched[s].target, t + HeldTTL)}
    <3>1. \A c \in H : c \in claims \/ c.appointment # a
      BY <1>1, FlipsAreSubsets, RowOwners
    <3>2. PutBack(H, d, s)
      BY <2>2 DEF RescheduleToHold
    <3> HIDE DEF H
    <3>3. CASE ClaimsOf(claims, d) = {}
      BY <1>0, <3>1, <3>2, <3>3 DEF PutBack
    <3>4. CASE ClaimsOf(claims, d) # {}
      <4>1. Reclaim(H, d, s, appt[d].slot) /\ d # a
        BY <3>2, <3>4 DEF PutBack
      <4>2. \A c \in claims' : c \in H \/ c.appointment = d
        <5> HIDE DEF d
        <5> QED
          BY <4>1, FlipsAreSubsets, RowOwners DEF Reclaim
      <4> QED
        BY <1>0, <3>1, <4>1, <4>2
    <3> QED
      BY <3>3, <3>4
  <2>3. ASSUME NEW s \in Shipment, RescheduleRestore(s)
        PROVE  ClaimsOf(claims', a) = {}
    <3>1. CASE ~ resched[s].released
      BY <1>2, <2>3, <3>1 DEF RescheduleRestore, RestoreClaim
    <3>2. CASE resched[s].released
      <4>1. resched[s].appointment # a
        BY <2>3, <3>2 DEF ReleasedHasClaim, RescheduleRestore
      <4>2. Reclaim(claims, resched[s].appointment, s, resched[s].slot)
        BY <2>3, <3>2 DEF RescheduleRestore, RestoreClaim
      <4>3. \A c \in claims' : c \in claims \/ c.appointment = resched[s].appointment
        BY <4>2, FlipsAreSubsets, RowOwners DEF Reclaim
      <4> QED
        BY <1>0, <4>1, <4>3
    <3> QED
      BY <3>1, <3>2
  <2> QED
    BY <1>2, <1>5, <2>1, <2>2, <2>3
       DEF Reschedule, ReschedulePrecheck, RescheduleCollide, RescheduleDrop
<1>6. CASE Sweep
  <2>1. ASSUME NEW w \in Sweeper, NEW b \in Appointment, SweepExpire(w, b)
        PROVE  claims' \subseteq claims
    BY <2>1, FlipsAreSubsets DEF SweepExpire
  <2>2. ASSUME NEW w \in Sweeper, NEW D \in SUBSET claims, NEW t \in ReadClock,
               SweepHolds(w, D, t)
        PROVE  claims' \subseteq claims
    BY <2>2 DEF SweepHolds
  <2> QED
    BY <1>2, <1>6, <2>1, <2>2
       DEF Sweep, SweepRun, SweepScan, SweepSkip, SweepAbort
<1> QED
  BY <1>2, <1>3, <1>4, <1>5, <1>6 DEF Next, Tick, vars

\* A failed reschedule invents no claim: an appointment that the backfill
\* left without one gets it only by moving to another slot.
THEOREM ClaimsAreNotInvented == Spec => NoInventedClaim
<1> DEFINE I == TypeInv /\ ReleasedHasClaim
<1>1. Init => I
  BY InitTypeInv DEF Init, ReleasedHasClaim, NoReschedule
<1>2. I /\ [Next]_vars => I'
  BY NextTypeInv, ReleasedKeepsClaim
<1>3. I /\ [Next]_vars =>
          [\A a \in Appointment :
             (/\ Active(a) /\ ClaimsOf(claims, a) = {}
              /\ ClaimsOf(claims', a) # {})
             => appt'[a].slot # appt[a].slot]_vars
  BY ClaimNotInvented
<1> QED
  BY <1>1, <1>2, <1>3, PTL DEF Spec, NoInventedClaim

-----------------------------------------------------------------------------
(* Reads and writes of the dock's rows.                                     *)

\* An interval the reads count as free is one the next claim is admitted to:
\* what the lazy expiry removes is just what the reads do not count.
THEOREM ReadsAgreeWithWrites == Spec => []ReadWriteAgreement
<1>1. TypeOK => ReadWriteAgreement
  <2> SUFFICES ASSUME TypeOK, TwoPhase, NEW s \in Shipment, NEW sl \in Slot,
                      Admits(LiveBlocking(claims, now), s, sl),
                      NEW c \in FlipOnInterval(claims, s, sl, now),
                      Overlap(c.shipment, c.slot, s, sl)
               PROVE  FALSE
    BY DEF ReadWriteAgreement, Admits
  <2>1. c \in claims /\ ~ LapsedBy(c, now)
    BY DEF FlipOnInterval
  <2>2. c.state = "HELD" => c.expiresAt \in Nat /\ now \in Nat
    BY <2>1 DEF TypeOK, ClaimRow
  <2>3. c \in LiveBlocking(claims, now)
    BY <2>1, <2>2 DEF LapsedBy, LiveBlocking
  <2> QED
    BY <2>3 DEF Admits
<1> QED
  BY <1>1, TypeCorrect, PTL
=============================================================================
